SPECIFICATION StaffSpec
CONSTANTS
    Personnel = {p1}
    Commissions = {c1}
    Workers = {w1, w2}
    HoursPerDay = 3
    Nine = 1
    Limit = 1
    MaxTime = 3
INVARIANTS
    StampsAgree
    PaidOnce
PROPERTY EntryKept
SYMMETRY Symmetry
