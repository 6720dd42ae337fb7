SPECIFICATION Spec
CONSTANTS
    Commands = {m1, m2}
    Codes = {c1, c2, c3}
    Principals = {p1, p2}
    TTL = 1
    MaxTime = 2
    MaxKeys = 3
    Nobody = Nobody
    None = None
INVARIANTS CodesGuarded
PROPERTIES ExchangesSound LogoutForgetsDeadKey
SYMMETRY MCSymmetry
CHECK_DEADLOCK FALSE
