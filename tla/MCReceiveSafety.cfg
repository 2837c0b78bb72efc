\* No lost wake-up, with every API call allowed to fail twice, the caches
\* lagging the API server and the endpoint-slice mapper always finding the
\* Service.
CONSTANTS
    s1 = s1
    s2 = s2
    h1 = h1
    h2 = h2
    Shards <- MCShards
    Hosts <- MCHosts
    ShardLists <- MCShardLists
    MaxFaults = 2
    MaxEnvSteps = 5
    MapGetCanFail = FALSE
SPECIFICATION Spec
SYMMETRY MCSymmetry
INVARIANTS
    TypeOK
    QuiescentConverged
    ReceiveInductive
\* Once the user and the pods have spent their steps and the subject is
\* gone, the controller has nothing left to do and waits for events.
CHECK_DEADLOCK FALSE
