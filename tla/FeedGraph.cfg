\* Three users, eight reviews of four items, three follows; feeds of three, one recommendation.
SPECIFICATION Spec
CONSTANTS
    ann = ann
    bob = bob
    cid = cid
    A = A
    B = B
    C = C
    D = D
    Users = {ann, bob, cid}
    Items = {A, B, C, D}
    Reviews <- MCReviews
    Author <- MCAuthor
    Item <- MCItem
    At <- MCAt
    Follows <- MCFollows
    FeedLimit = 3
    RecLimit = 1
INVARIANTS
    TypeOK
    FeedIsNewest
    OwnOnlyWhilePending
    RecommendationsAreShared
PROPERTY ImplementsView
