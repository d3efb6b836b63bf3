---- MODULE MCRateLimiter ----
(* Three workers of one process. *)
EXTENDS RateLimiter, TLC

WorkerSymmetry == Permutations(Workers)
====
