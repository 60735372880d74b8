SPECIFICATION Spec
CONSTANTS
    Sockets = {s1}
    Tokens = {t1}
    Users = {u1, u2}
    Orders = {o1}
    Workers = {w1, w2}
    Roles = {"ADMIN", "FINANCE", "MECHANIC", "CLIENT"}
    Nobody = Nobody
INVARIANTS
    RightsFollowAssignment
    PanelRoomsVerified
PROPERTY ExpiredGainsNothing
SYMMETRY Symmetry
