SPECIFICATION Spec
SYMMETRY Symmetry
CONSTANTS
    c1 = c1
    c2 = c2
    h1 = h1
    h2 = h2
    h3 = h3
    Scan = {c1, c2}
    Handler = {h1, h2, h3}
    MaxFaults = 2
    MaxUndone = 2
    MaxApplied = 3
INVARIANTS
    AnswersAgree
    SuccessWasApplied
    EffectMatchesRecord
