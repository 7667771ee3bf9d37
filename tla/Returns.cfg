SPECIFICATION ReturnsSpec
\* Every request may be completed: nothing left to do.
CHECK_DEADLOCK FALSE
SYMMETRY Symmetry
CONSTANTS
    r1 = r1
    r2 = r2
    NoUnit = NoUnit
    NoReq = NoReq
    Req = {r1, r2}
    Row = {s1, s2}
    InitialQty <- MCQty
    Task = {t1, t2}
    Want <- MCWant
    Unified = TRUE
    Repair = {}
    Exceptions = {}
    ManualHolds = {"QUARANTINE"}
    Stranded = {}
    Call = {c1, c2}
INVARIANTS
    ReturnsTypeOK
    HeldUnitsKept
    ShippedIsOwed
    CompletedIsSettled
PROPERTIES
    CompletedIsFinal
