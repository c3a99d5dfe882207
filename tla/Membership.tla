----------------------------- MODULE Membership -----------------------------
(***************************************************************************)
(* What the clients of service discovery rely on: the instances of a       *)
(* service that serve, and the list of them that the config server gives   *)
(* (GET /services/{name}).  An instance may end while it is listed, and    *)
(* the list is lost with the config server; but no instance that serves is *)
(* ever taken off the list of a config server that runs.                   *)
(***************************************************************************)
CONSTANT Instances

VARIABLES
    serving,        \* instances that answer requests
    config,         \* the config server runs
    listed          \* instances it lists

vars == <<serving, config, listed>>

Init == serving = {} /\ config = TRUE /\ listed = {}

Register(i) == config /\ listed' = listed \cup {i} /\ UNCHANGED <<serving, config>>

Serve(i) == serving' = serving \cup {i} /\ UNCHANGED <<config, listed>>

End(i) == serving' = serving \ {i} /\ UNCHANGED <<config, listed>>

\* Several instances may become stale at the same second.
Expire(gone) == gone \cap serving = {} /\ listed' = listed \ gone /\ UNCHANGED <<serving, config>>

ConfigEnds == config' = FALSE /\ listed' = {} /\ UNCHANGED serving

ConfigStarts == config' = TRUE /\ UNCHANGED <<serving, listed>>

Next ==
    \/ \E i \in Instances : Register(i) \/ Serve(i) \/ End(i)
    \/ \E gone \in SUBSET Instances : Expire(gone)
    \/ ConfigEnds \/ ConfigStarts

Spec == Init /\ [][Next]_vars
=============================================================================
