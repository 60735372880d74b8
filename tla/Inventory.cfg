SPECIFICATION Spec
CONSTANTS
    Items = {oil}
    Workers = {w1, w2}
    Opening = {0, 1}
    Qty = {1}
    Ordered <- OrderedTwo
    Batches <- Receptions
    MaxUnits = 2
    MaxStocked = 4
INVARIANTS
    StockIsBooked
    ReceiptsHold
PROPERTY PurchaseFinal
SYMMETRY Symmetry
