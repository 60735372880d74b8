SPECIFICATION Spec
CONSTANTS
    Tokens = {t1, t2, t3}
    Workers = {w1, w2}
    Roles <- TwoRoles
INVARIANTS
    SuccessorsNeedOverlap
    ParentSpent
    TotpBehindUnlessPromoted
SYMMETRY Symmetry
