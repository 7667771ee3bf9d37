SPECIFICATION Spec
\* Every session may be closed, and every row gone: nothing left to do.
CHECK_DEADLOCK FALSE
SYMMETRY Symmetry
CONSTRAINT OneAtATime
CONSTANTS
    r1 = r1
    s1 = s1
    s2 = s2
    u1 = u1
    u2 = u2
    h1 = h1
    h2 = h2
    NoUser = NoUser
    NoCall = NoCall
    Row = {r1}
    Session = {s1, s2}
    User = {u1, u2}
    Call = {h1, h2}
    MaxQty = 2
PROPERTY
    MovesAreCaught
