SPECIFICATION Spec
CONSTANTS
    Orders = {o1}
    Workers = {w1, w2}
    Managers = {}
    Mechanics = {mec}
    Trainees = {}
    NoUser = NoUser
    MaxDesk = 1
INVARIANTS
    RecordsMatchGates
PROPERTIES
    WorkStartsByQuoteOrPatch
    MovesObeyTable
    ReleasedOnlyIfPaid
SYMMETRY WorkerSymmetry
