\* Three Redis nodes, two tokens, two requests at a time, three faults.
SPECIFICATION Spec
CONSTANTS
    n1 = n1
    n2 = n2
    n3 = n3
    t1 = t1
    t2 = t2
    r1 = r1
    r2 = r2
    Nodes = {n1, n2, n3}
    FirstMaster = n1
    Tokens = {t1, t2}
    Requests = {r1, r2}
    MaxFaults = 3
SYMMETRY Symmetry
INVARIANTS
    LoggedOutIsRejected
    LoggedInIsAccepted
\* All tokens are used up in the end.
CHECK_DEADLOCK FALSE
