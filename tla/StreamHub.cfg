CONSTANTS
    x1 = x1
    x2 = x2
    Readers = {x1, x2}
    Writers = {p}
    Flv = {p}
    Inter = {p}
    None = None
SPECIFICATION Spec
SYMMETRY Symmetry
INVARIANTS NoWriterLost NoWriterStranded OnePublisher
CHECK_DEADLOCK FALSE
