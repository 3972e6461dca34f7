SPECIFICATION Spec
CONSTANTS
    PeerCsids = {3, 70, 80}
    OwnSends <- MCOwnSends
    Times = {0, 1, 4}
    Lengths = {1, 3}
    ChunkSizes = {1}
    Size0 = 2
    Max24 = 3
    Wrap = 8
    Windows = {2}
    Window0 = 3
    MaxMsgs = 3
    Apps = {"live", "other"}
    ConfiguredApps = {"live"}
    PeerCommands <- MCPeerCommands
    PeerAnswers <- MCPeerAnswers
    MaxPeer = 5
    AmfBatches <- MCBatches
    StringMax = 3
    VideoPackets <- MCVideo
    AudioConfigs <- MCConfigs
    AudioLens = {0, 371, 8184, 8185}
    Gaps = {0, 3, 5, 25}
    MaxMedia = 3
    Frames <- MCFrames
    MaxFrames = 2
INVARIANTS   AmfStable  AdtsDescribes AudioClock TsArrives
PROPERTIES SessionSettles
CHECK_DEADLOCK FALSE
