SPECIFICATION Spec
CONSTANTS
    Expenses = {e1}
    Workers = {w1, w2}
    Owners = {ana, beto}
    Staff = {caro}
    Amounts <- MCAmounts
    NoUser = NoUser
INVARIANTS
    DualOnRecord
    PaidOnAuthority
PROPERTY Control
SYMMETRY WorkerSymmetry
