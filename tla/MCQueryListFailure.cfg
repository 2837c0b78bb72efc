\* A failed List of store Services yields a querier with no endpoints and
\* a pass that succeeds: nothing retries it.
CONSTANTS
    v1 = v1
    v2 = v2
    Svcs <- MCSvcs
    Selectors <- MCSelectors
    LabelSets <- MCLabelSets
    MaxFaults = 1
    MaxEnvSteps = 3
    ListCanFail = TRUE
    LabelUpdates = FALSE
    MapListCanFail = FALSE
SPECIFICATION Spec
INVARIANT
    QueryQuiescentConverged
CHECK_DEADLOCK FALSE
