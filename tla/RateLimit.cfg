SPECIFICATION Spec
CONSTANTS
    Workers = {w1, w2, w3}
    Keys = {k1, k2}
    Rate = 1
    Burst = 4
    Cost = 2
    MaxClock = 5
SYMMETRY Symmetry
INVARIANTS AdmissionBound Ledger
CHECK_DEADLOCK FALSE
