SPECIFICATION Spec
CONSTANTS
    Loops = {"l1", "l2"}
    App <- AppOf
    StaticPushOf <- Apps
    ChanCap = 1
    MaxPackets = 2
INVARIANTS PushSafe 
 
CHECK_DEADLOCK FALSE
