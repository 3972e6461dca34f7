CONSTANTS
    x1 = x1
    x2 = x2
    Readers = {x1, x2}
    Writers = {p, d}
    Flv = {}
    Inter = {p}
    None = None
SPECIFICATION FewSpec
INVARIANTS NoWriterStranded
PROPERTIES  DeadStreamForgotten
CHECK_DEADLOCK FALSE
