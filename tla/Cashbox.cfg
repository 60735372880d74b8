SPECIFICATION Spec
CONSTANTS
    Sessions = {s1, s2}
    Workers = {w1, w2}
    Opening = {51}
    Amounts = {1}
    Cash = {0, 46, 51}
    MaxTx = 1
INVARIANTS
    OutcomeOnRecord
    DayCountedOnce
PROPERTY OnlyOwnerUnblocks
SYMMETRY Symmetry
