\* Convergence without the periodic resync: under the weak fairness of the
\* worker, the informers and the garbage collector only, with a failed API
\* call and the endpoint-slice mapper always finding the Service.
CONSTANTS
    s1 = s1
    s2 = s2
    h1 = h1
    h2 = h2
    Shards <- MCShards
    Hosts <- MCHosts
    ShardLists <- MCShardLists
    MaxFaults = 1
    MaxEnvSteps = 4
    MapGetCanFail = FALSE
SPECIFICATION PromptSpec
PROPERTIES
    EventuallyConverged
\* Once the user and the pods have spent their steps and the subject is
\* gone, the controller has nothing left to do and waits for events.
CHECK_DEADLOCK FALSE
