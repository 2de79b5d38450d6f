CONSTANTS
    first = first
    second = second
    Entries = {first, second}
    Monsters = {1, 2, 3}
    Players = {ann, ben}
    Configs <- MCConfigs
    ForcedNaps = 2
    MaxSleepers = 3
    MaxTimers = 2
    MaxWave = 3
    Nothing = nothing
SPECIFICATION ZonesSpec
INVARIANTS EntriesKept OneMaster
PROPERTIES QuietWhileWatched
CHECK_DEADLOCK FALSE
