SPECIFICATION CostsSpec
CONSTANTS
    Workers = {w1, w2}
    Labours = {2}
    Parts = {0}
    Customs = {0, 1}
    Discounts <- SomeDiscounts
    Rate = 1
    MaxLabor = 3
    MaxFinal = 3
INVARIANTS
    HoursBilled
    FinalWithinQuote
    ChargedIsOwed
SYMMETRY WorkerSymmetry
