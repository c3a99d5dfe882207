\* Two instances, in units of five seconds: the times of the code, the delay rounded up;
\* and an outbox publisher that uses the same database.
SPECIFICATION StartupSpec
CONSTANTS
    i1 = i1
    i2 = i2
    pub = pub
    Instances = {i1, i2}
    Processes = {i1, i2, pub}
    NoProcess = none
    CallTime = 1
    Interval = 2
    RetryDelay = 1
    Attempts = 3
    StaleAfter = 6
    MaxUptime = 8
CONSTRAINT PublisherFirst
SYMMETRY Symmetry
INVARIANTS
    ListedAgainInTime
    RegisteredHasTables
    AtMostOneStartFails
PROPERTY ImplementsMembership
