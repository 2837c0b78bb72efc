\* Subject "a" with hashring "b-c" and subject "a-b" with hashring "c" both
\* derive the ingester name "a-b-c"; the user creates, changes and deletes
\* them while the single worker serves their keys.
CONSTANTS
    Subjects = {"a", "a-b"}
    ShardNames = {"b-c", "c"}
    MaxEnvSteps = 4
    KeySubject = "a"
SPECIFICATION Spec
INVARIANTS
    TypeOK
    
\* Once the user has spent its steps and every key is idle, the system
\* waits for events.
CHECK_DEADLOCK FALSE
