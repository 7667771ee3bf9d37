SPECIFICATION Spec
\* Every unit may be gone and every case closed: nothing left to do.
CHECK_DEADLOCK FALSE
SYMMETRY Symmetry
CONSTRAINT TwoAtATime
CONSTANTS
    u1 = u1
    u2 = u2
    g1 = g1
    g2 = g2
    c1 = c1
    c2 = c2
    k1 = k1
    k2 = k2
    h1 = h1
    sn1 = sn1
    NoUnit = NoUnit
    NotAvailable = NotAvailable
    NoSerial = NoSerial
    NoCase = NoCase
    NoReceipt = NoReceipt
    Unit = {u1, u2}
    Serial = {sn1}
    Receipt = {g1, g2}
    RtvCase = {c1, c2}
    ScrapCase = {k1, k2}
    Call = {h1}
    MaxQty = 2
INVARIANTS
    SerialActiveOnce
    ReversedIsGone
    OneOpenCase
    ReplacedOnce
PROPERTIES
    DisposedAtMost
