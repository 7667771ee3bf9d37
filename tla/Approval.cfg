SPECIFICATION Spec
\* The request may be decided and every handler finished: nothing left to do.
CHECK_DEADLOCK FALSE
SYMMETRY CallSymmetry
CONSTANTS
    q = q
    a = a
    b = b
    User = {q, a, b}
    NoUser = NoUser
    Requester = q
    Rules <- MCRules
    MaxChain = 2
    Call = {c1, c2}
    MayFail = TRUE
    MayCrash = TRUE
INVARIANTS
    TypeOK
    ChainConsistent
    ApprovedByTheChain
    PendingAfterADecision
PROPERTIES
    DecidedOnce
    ImplementsChain
