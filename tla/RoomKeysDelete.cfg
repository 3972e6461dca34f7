SPECIFICATION Spec
CONSTANTS
    Requests = {q1, q2, q3}
    Rooms = {c1, c2}
    Keys = {k1, k2, k3}
    None = None
PROPERTY NotFoundIsTrue
CHECK_DEADLOCK FALSE
