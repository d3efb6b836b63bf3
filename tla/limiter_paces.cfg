SPECIFICATION Spec
CONSTANTS
    Workers = {w1, w2, w3}
    NoWorker = NoWorker
    Rates = {1, 3}
    Second = 2
    MaxWait = 5
    MaxPatches = 2
SYMMETRY WorkerSymmetry
INVARIANTS
    TypeOK
    Paced
    LimitMatchesBurst
    NobodyGivesUp
