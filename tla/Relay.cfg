SPECIFICATION Spec
CONSTANTS
    Requests = {1, 2, 3, 4}
    Oper <- Opers
    CsCap = 1
    MaxChunks = 2
INVARIANTS StartedIsInSession 
 
CHECK_DEADLOCK FALSE
