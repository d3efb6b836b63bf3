---------------------------- MODULE MCRetryPolicy ----------------------------
(* Small instances of RetryPolicy for TLC. *)
EXTENDS RetryPolicy

\* The defaults, scaled: the process starts with them if nothing is set.
SmallFallback == [s \in Settings |-> CASE s = "base" -> 2
                                      [] s = "max" -> 300
                                      [] s = "retries" -> 3
                                      [] OTHER -> 1]

\* MaxDuration is 700: the fifth step of a base of 2 may leave the range, that of
\* a base of 1 does not, and the first of a base of 1 may be truncated to nothing.
SmallEnvironments ==
    {[s \in Settings |-> CASE s = "base" -> b
                         [] s = "max" -> m
                         [] s = "retries" -> r
                         [] s = "workers" -> w
                         [] OTHER -> Unset] :
        b \in {Unset, Malformed, -2, 0, 1, 2}, m \in {Unset, 0, 1, 9, 40},
        r \in {Malformed, -1, 0, 1, 6}, w \in {Unset, 0}}

SampleCodes == {200, 204, 302, 400, 404, 429, 500, 503}
=============================================================================
