SPECIFICATION MCSpec
SYMMETRY Symmetry
CONSTANTS
    s1 = s1
    s2 = s2
    ann = ann
    bob = bob
    h1 = h1
    h2 = h2
    NoScenario = NoScenario
    NoUser = NoUser
    Scenario = {s1, s2}
    Baseline = s1
    User = {ann, bob}
    Creator = ann
    Call = {h1, h2}
    MaxRuns = 2
    t1 = t1
    t2 = t2
    t3 = t3
    a1 = a1
    a2 = a2
    NoTemplate = NoTemplate
    NoAuthor = NoAuthor
    Template = {t1, t2, t3}
    Author = {a1, a2}
    Handler = {h1, h2}
INVARIANTS
    ReviewedByAnother
    ReplacedIsRetired
PROPERTIES
    DecidesWhatWasChecked

\* Templates are never deleted once retired: with all three retired nothing is left to do.
CHECK_DEADLOCK FALSE
