\* No lost wake-up for the querier, with API failures and Service
\* creations and deletions racing the pass; every Service event reaches
\* the mapper and the mapper always lists the subject.
CONSTANTS
    v1 = v1
    v2 = v2
    Svcs <- MCSvcs
    Selectors <- MCSelectors
    LabelSets <- MCLabelSets
    MaxFaults = 2
    MaxEnvSteps = 5
    ListCanFail = FALSE
    LabelUpdates = FALSE
    MapListCanFail = FALSE
SPECIFICATION Spec
INVARIANTS
    TypeOK
    QueryQuiescentConverged
    QueryInductive
\* Once the environment has spent its steps and the subject is gone, the
\* controller waits for events.
CHECK_DEADLOCK FALSE
