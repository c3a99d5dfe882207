\* Two requests in parallel, two publishers, two partitions, three faults; some payloads are too large.
SPECIFICATION Spec
CONSTANTS
    i1 = i1
    i2 = i2
    p1 = p1
    p2 = p2
    k1 = k1
    k2 = k2
    Instances = {i1, i2}
    Publishers = {p1, p2}
    Partitions = {k1, k2}
    MaxReviews = 2
    MaxFaults = 3
    Clock = {1, 2}
    Sizes = {TRUE, FALSE}
SYMMETRY Symmetry
INVARIANTS
    OneEventPerReview
    PublishedIsInTopic
    NoPhantomEvents
    ClaimsAreExclusive
    DuplicatesNeedFaults
PROPERTY PublishedIsFinal
\* The bounded workload ends: then every publisher polls an empty outbox.
CHECK_DEADLOCK FALSE
