SPECIFICATION Spec
CONSTANTS
    Packets <- MCPackets
    GopNum = 3
    MaxGopCap = 3
INVARIANT NoPanic
