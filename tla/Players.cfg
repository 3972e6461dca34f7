SPECIFICATION PlayersSpec
CONSTANTS
    Producers = {p1}
    Janitor = janitor
    Callers = {janitor, p1}
    Cap = 6
    HighWater = 3
    DropRounds = 2
    VideoMark = 4
    AudioMark = 5
    Kinds = {"seq", "inter"}
    MaxPackets = 5
    FlvKinds = {"badmeta", "audio", "key", "inter"}
    FlvCap = 4
    FlvHighWater = 2
    FlvRounds = 2
    FlvMark = 2
    FlvPackets = 4
INVARIANTS KeptKinds OnlyKeptKindsOvertaken FlvSafe
PROPERTIES WriterEnds FlvEnds
CHECK_DEADLOCK FALSE
