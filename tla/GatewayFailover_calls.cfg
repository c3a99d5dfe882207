\* Two instances of each service, one call, two crashes or outages; no symmetry.
SPECIFICATION FairSpec
CONSTANTS
    a1 = a1
    a2 = a2
    i1 = i1
    i2 = i2
    c1 = c1
    Auths = {a1, a2}
    Reviews = {i1, i2}
    Calls = {c1}
    MaxFaults = 2
INVARIANTS
    PeerHidesLoss
    AnswerMatchesStore
PROPERTY EveryCallIsAnswered
\* The one call has been answered and nothing else happens.
CHECK_DEADLOCK FALSE
