SPECIFICATION Spec
CONSTANTS
    Producers = {p1, p2}
    Janitor = janitor
    Callers = {janitor, p1}
    Cap = 3
    HighWater = 1
    DropRounds = 1
    VideoMark = 1
    AudioMark = 1
    Kinds = {"audio", "seq", "inter"}
    MaxPackets = 3
INVARIANTS TypeOK QueueBound Conservation PanicNeedsOverlap ClosedStopsSender
CHECK_DEADLOCK FALSE
