SPECIFICATION Spec
\* Requests may all be closed and every task finished: nothing left to do.
CHECK_DEADLOCK FALSE
SYMMETRY TaskSymmetry
CONSTANTS
    r1 = r1
    r2 = r2
    s1 = s1
    s2 = s2
    s3 = s3
    s4 = s4
    NoUnit = NoUnit
    NoReq = NoReq
    Req = {r1, r2}
    Row = {s1, s2, s3}
    InitialQty <- MCQty
    Task = {t1, t2}
    Want <- MCWant
    Unified = FALSE
    Repair = {s2}
    Exceptions = {"HOLD"}
    ManualHolds = {}
    Stranded = {r2}
INVARIANTS
    HeldOnce
    
PROPERTY
    IssuedIsNeverUndone
