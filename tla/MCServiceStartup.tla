-------------------------- MODULE MCServiceStartup --------------------------
(* A small instance of ServiceStartup for TLC. *)
EXTENDS ServiceStartup, TLC
CONSTANTS i1, i2, pub
\* Once an instance registers, the tables are there and the publisher is not at work on them.
PublisherFirst == (\E i \in Instances : phase[i] # "down") => init[pub] \in {"off", "ready"}
Symmetry == Permutations(Instances)
=============================================================================
