\* Two browsers, two demo users, one movie, two clicks,
\* two instances of each service, one failing call.
SPECIFICATION Spec
CONSTANTS
    b1 = b1
    b2 = b2
    sasha = sasha
    moviefan = moviefan
    viewer = viewer
    stranger = stranger
    Browsers = {b1, b2}
    DemoUsers <- MCDemoUsers
    DemoMovies <- MCDemoMovies
    FollowPairs <- MCFollowPairs
    StrangeRows <- MCStrangeRows
    Texts = 1
    PerMovie = 3
    MaxPlanned = 3
    Viewer = viewer
    Stranger = stranger
    Instances = 2
    MaxFaults = 1
    MaxClicks = 2
SYMMETRY Symmetry
INVARIANTS
    AccountsAreUnique
    AnswersAreTrue
    FinishedIsComplete
    CopiesNeedRivals
    AuthorsAreReal
\* The clicks are used up in the end.
CHECK_DEADLOCK FALSE
