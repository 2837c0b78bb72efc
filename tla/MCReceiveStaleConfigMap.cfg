\* Preservation of routing entries while the ConfigMap cache lags the
\* pass's own writes: no API faults, the mapper always finds the Service.
CONSTANTS
    s1 = s1
    s2 = s2
    h1 = h1
    h2 = h2
    Shards <- MCShards
    Hosts <- MCHosts
    ShardLists <- MCShardLists
    MaxFaults = 0
    MaxEnvSteps = 3
    MapGetCanFail = FALSE
SPECIFICATION Spec
SYMMETRY MCSymmetry
PROPERTIES
    NoEntryEmptied
CHECK_DEADLOCK FALSE
