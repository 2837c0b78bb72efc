\* Subjects "a" and "a-b" are created with the colliding hashrings and
\* nothing else happens.
CONSTANTS
    Subjects = {"a", "a-b"}
    ShardNames = {"b-c", "c"}
    MaxEnvSteps = 2
SPECIFICATION Spec
PROPERTIES
    IngestersSettle
CHECK_DEADLOCK FALSE
