CONSTANTS
    MaxMessages = 2
    MaxPackets = 1
SPECIFICATION FairSpec
INVARIANTS WritesInTurn ReleasedLast
PROPERTIES GracefulClose ClosedEnds SilentDropped
CHECK_DEADLOCK FALSE
