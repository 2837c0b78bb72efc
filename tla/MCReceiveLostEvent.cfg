\* An endpoint-slice event whose Service the mapper cannot read is dropped:
\* the controller goes idle with a stale hashring ConfigMap until a resync.
CONSTANTS
    s1 = s1
    s2 = s2
    h1 = h1
    h2 = h2
    Shards <- MCShards
    Hosts <- MCHosts
    ShardLists <- MCShardLists
    MaxFaults = 2
    MaxEnvSteps = 4
    MapGetCanFail = TRUE
SPECIFICATION Spec
SYMMETRY MCSymmetry
INVARIANT
    QuiescentConverged
CHECK_DEADLOCK FALSE
