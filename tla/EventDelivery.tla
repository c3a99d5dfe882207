--------------------------- MODULE EventDelivery ---------------------------
(***************************************************************************)
(* What the review pipeline promises, without saying how: a review that is *)
(* stored becomes visible in the feed graph, once and for good, and        *)
(* nothing becomes visible that was not stored.                            *)
(***************************************************************************)
CONSTANT Reviews

VARIABLES
    created,    \* reviews stored by the reviews service
    visible     \* reviews in the feed graph

vars == <<created, visible>>

Init == created = {} /\ visible = {}

Create(v) == created' = created \cup {v} /\ UNCHANGED visible

Deliver(v) ==
    /\ v \in created
    /\ visible' = visible \cup {v}
    /\ UNCHANGED created

Next == \E v \in Reviews : Create(v) \/ Deliver(v)

Spec == Init /\ [][Next]_vars /\ \A v \in Reviews : WF_vars(Deliver(v))
============================================================================
