\* Every channel through which a Service change can miss the queue is open:
\* the swallowed List failure, label updates dropped by the generation
\* predicate, a failing mapper List and store Services without the part-of
\* label.  Does the informer's periodic resync, with the worker, still bring
\* the querier to its goal?
CONSTANTS
    v1 = v1
    v2 = v2
    Svcs <- MCSvcs
    LabelSets <- MCAnyLabelSets
    Selectors <- MCSelectors
    MaxFaults = 2
    MaxEnvSteps = 4
    ListCanFail = TRUE
    LabelUpdates = TRUE
    MapListCanFail = TRUE
SPECIFICATION Spec
PROPERTIES
    QueryEventuallyConverged
\* Once the environment has spent its steps and the subject is gone, the
\* controller waits for events.
CHECK_DEADLOCK FALSE
