------------------------- MODULE MCFrontendSession -------------------------
(* A small instance of FrontendSession for TLC.  Within each half of the   *)
(* tokens it does not matter which is which; the whole symmetry of seven   *)
(* tokens would take longer to compute than the states it saves.           *)
EXTENDS FrontendSession, TLC

CONSTANTS t1, t2, t3, t4, t5, t6, t7

Symmetry ==
    Permutations(Accounts) \cup Permutations({t1, t2, t3, t4}) \cup Permutations({t5, t6, t7})
=============================================================================
