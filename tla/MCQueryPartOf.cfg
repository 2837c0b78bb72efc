\* Store Services as the repository's own tests create them: some carry the
\* store-API label without the part-of label.  No List fails and no label
\* changes; only the Service watch's label predicate can lose an event.
CONSTANTS
    v1 = v1
    v2 = v2
    Svcs <- MCSvcs
    Selectors <- MCSelectors
    LabelSets <- MCAnyLabelSets
    MaxFaults = 0
    MaxEnvSteps = 3
    ListCanFail = FALSE
    LabelUpdates = FALSE
    MapListCanFail = FALSE
SPECIFICATION Spec
INVARIANT
    QueryQuiescentConverged
CHECK_DEADLOCK FALSE
