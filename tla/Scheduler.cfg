CONSTANTS
    Game = game
    Net = net
    MaxEvents = 3
    IdMax = 1
    None = none
    Absent = absent
    Fired = fired
SPECIFICATION FairSpec
INVARIANTS Owned LostOnlyByStopOrReuse GameReadsLiveTask
PROPERTIES EventSettles
CHECK_DEADLOCK FALSE
