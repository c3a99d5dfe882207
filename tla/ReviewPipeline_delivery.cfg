\* Two instances, one publisher, two consumers, one partition, two faults; no symmetry.
SPECIFICATION FairPipeline
CONSTANTS
    i1 = i1
    i2 = i2
    p1 = p1
    p2 = p2
    c1 = c1
    c2 = c2
    k1 = k1
    k2 = k2
    Instances = {i1, i2}
    Publishers = {p1}
    Consumers = {c1, c2}
    Partitions = {k1}
    MaxReviews = 2
    MaxFaults = 2
    Clock = {1}
    Sizes = {TRUE}
    SilentFailures = FALSE
CHECK_DEADLOCK FALSE
PROPERTY DeliversEveryReview
INVARIANTS
    NothingLost
