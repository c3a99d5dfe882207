CONSTANTS
    t1 = t1
    t2 = t2
    t3 = t3
    t4 = t4
    t5 = t5
    t6 = t6
    t7 = t7
    Accounts = {ann, bob}
    Tokens = {t1, t2, t3, t4, t5, t6, t7}
    Movies = {m1}
    Pages = {"Catalog", "Reviews"}
    None = none
    Instances = 2
    MaxStops = 2
    MaxFailures = 1
    MaxSeeded = 1
SYMMETRY Symmetry
SPECIFICATION Spec
INVARIANTS
    ShownUserOwnsToken
    OrphansAreAccounted
    SelectionIsOwn
