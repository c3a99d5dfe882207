\* Some reviews may be larger than a Kafka record; no fault happens at all.
SPECIFICATION StronglyFairSpec
CONSTANTS
    i1 = i1
    i2 = i2
    p1 = p1
    p2 = p2
    k1 = k1
    k2 = k2
    Instances = {i1}
    Publishers = {p1, p2}
    Partitions = {k1}
    MaxReviews = 3
    MaxFaults = 0
    Clock = {1}
    Sizes = {TRUE, FALSE}
PROPERTY PeerKeepsDraining
CHECK_DEADLOCK FALSE
