\* Neo4j may refuse a write after it accepted the query; one fault is enough.
SPECIFICATION Spec
CONSTANTS
    c1 = c1
    c2 = c2
    k1 = k1
    k2 = k2
    e1 = e1
    e2 = e2
    other = other
    Consumers = {c1, c2}
    Partitions = {k1, k2}
    Events = {e1, e2, other}
    CreatedEvents = {e1, e2}
    MaxLog = 2
    MaxFaults = 1
    SilentFailures = TRUE

CHECK_DEADLOCK FALSE
INVARIANT OffsetOnlyAfterWrite
