--------------------------- MODULE MCAuthSessions ---------------------------
(* Small instances of AuthSessions for TLC. *)
EXTENDS AuthSessions, TLC

CONSTANTS n1, n2, n3, t1, t2, r1, r2

Symmetry ==
    Permutations(Nodes \ {FirstMaster}) \cup Permutations(Tokens) \cup Permutations(Requests)
============================================================================
