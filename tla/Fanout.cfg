SPECIFICATION FanSpec
CONSTANTS
    Packets <- FanPackets
    GopNum = 2
    MaxGopCap = 2
    Players = {w1, w2}
    MaxPackets = 5
SYMMETRY Symmetry
INVARIANTS NoPanic PlayersSeeWholeGops NeverStaleHeader
PROPERTY CacheRefines
CHECK_DEADLOCK FALSE
