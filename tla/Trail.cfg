SPECIFICATION Spec
CONSTANTS
    Workers = {w1, w2}
    Roles = {"ADMIN", "MECHANIC"}
    MaxFailed = 2
    MaxWrong = 3
    MaxRequests = 4
    MaxChanges = 1
    Calls <- TwoCalls
    MaxTries = 1
INVARIANTS
    WrongOnesLock
    OldPasswordClosed
    DeedsAreLogged
    FlaggedIsTold
    NoDeedWithoutTotp
SYMMETRY Symmetry
