CONSTANTS
    Ids = {m1}
    Requests = {r1, r2}
    Users = {ann}
    Bogus = bogus
    MaxFailed = 1
    NewMovie <- MCNewMovie
    Updates <- MCUpdates
SYMMETRY Symmetry
CONSTRAINT TwoAtATime
SPECIFICATION PagesSpec
INVARIANTS
    OwnFieldsKept
    GoneStaysGone
    DeletedOnce
    AuthorsAreNamed
    UntitledIsGone
    TitlesWereTrue
CHECK_DEADLOCK FALSE
