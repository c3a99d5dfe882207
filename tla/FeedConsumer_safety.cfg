\* Two consumers, two partitions of two messages each, two faults. Neo4j may drop a write in silence.
SPECIFICATION Spec
CONSTANTS
    c1 = c1
    c2 = c2
    k1 = k1
    k2 = k2
    e1 = e1
    e2 = e2
    other = other
    Consumers = {c1, c2}
    Partitions = {k1, k2}
    Events = {e1, e2, other}
    CreatedEvents = {e1, e2}
    MaxLog = 2
    MaxFaults = 2
    SilentFailures = TRUE
SYMMETRY Symmetry
INVARIANTS
    CommittedIsApplied
    RewritesNeedFaults
PROPERTY OffsetsNeverGoBack
\* The bounded workload ends: then every consumer waits for a message.
CHECK_DEADLOCK FALSE
