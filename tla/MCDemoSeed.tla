----------------------------- MODULE MCDemoSeed -----------------------------
(* A small instance of DemoSeed for TLC. *)
EXTENDS DemoSeed, TLC

CONSTANTS b1, b2, sasha, moviefan, viewer, stranger

MCDemoUsers == <<sasha, moviefan>>
MCDemoMovies == <<"Dune">>
MCFollowPairs == <<<<sasha, moviefan>>>>
MCStrangeRows == {[name |-> sasha, email |-> stranger], [name |-> stranger, email |-> sasha]}

Symmetry == Permutations(Browsers)
=============================================================================
