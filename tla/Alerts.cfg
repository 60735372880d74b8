SPECIFICATION AlertsSpec
CONSTANTS
    Expenses = {e1}
    Tills = {c1}
    Items = {i1}
    ActiveItems = {i1}
    Orders = {o1}
    Workers = {w1}
    minStock = 1
    MaxStock = 2
    MaxCompletions = 2
    MaxFaults = 1
INVARIANTS
    BlockedIsTold
    ToldIsTrue
PROPERTY AlertsArrive
