\* A label change on a store Service (a new strictness class) does not
\* change its generation, so GenerationChangedPredicate drops the event.
CONSTANTS
    v1 = v1
    v2 = v2
    Svcs <- MCSvcs
    Selectors <- MCSelectors
    LabelSets <- MCLabelSets
    MaxFaults = 0
    MaxEnvSteps = 4
    ListCanFail = FALSE
    LabelUpdates = TRUE
    MapListCanFail = FALSE
SPECIFICATION Spec
INVARIANT
    QueryQuiescentConverged
CHECK_DEADLOCK FALSE
