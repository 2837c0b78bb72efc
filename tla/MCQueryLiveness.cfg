\* Convergence without the resync: passes fail (MaxFaults) and must be
\* requeued by the error they return; Service changes reach the queue
\* through the event channels, which are closed here (no List failures,
\* no label updates of existing Services, every store Service carries the
\* part-of and store-API labels).
CONSTANTS
    v1 = v1
    v2 = v2
    Svcs <- MCSvcs
    Selectors <- MCSelectors
    LabelSets <- MCLabelSets
    MaxFaults = 2
    MaxEnvSteps = 4
    ListCanFail = FALSE
    LabelUpdates = FALSE
    MapListCanFail = FALSE
SPECIFICATION PromptSpec
PROPERTIES
    QueryEventuallyConverged
CHECK_DEADLOCK FALSE
