SPECIFICATION IntakeSpec
CONSTANTS
    Orders = {o1, o2}
    MaxRows = 4
    Images = {i1, i2}
    Workers = {w1, w2}
    MaxPhotos = 2
    Checkin = {1}
    Documented = {o1}
INVARIANTS
    KeysHold
    PhotoCapBounded
    ColumnBacked
PROPERTY CheckinFindsNoActive
SYMMETRY Symmetry
