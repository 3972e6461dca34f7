SPECIFICATION Spec
CONSTANTS
    Loops = {"l1", "l2"}
    Scripts <- Streams
    Duration = 2
    CacheNum = 2
    AudioFrames = 2
    HighWater = 1
    DropRounds = 1
    VideoMark = 1
    AudioMark = 2
INVARIANTS  PlaylistConsecutive ListedIsServed
PROPERTIES HlsEnds
CHECK_DEADLOCK FALSE
