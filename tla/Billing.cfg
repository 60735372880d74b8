SPECIFICATION Spec
CONSTANTS
    Payments = {p1, p2}
    Tokens = {q}
    Workers = {w1, w2}
    Amounts = {1}
    Totals = {1, 2}
INVARIANTS
    PaidIsBacked
    BooksAgree
    TokenPaidOnce
SYMMETRY Symmetry
