--------------------------- MODULE ServiceStartup ---------------------------
(***************************************************************************)
(* The start of a service (app/main.py of the auth and reviews services):  *)
(* SchemaInit, then ConfigRegistry.  The processes are the instances and   *)
(* others that use the same database (the outbox publishers) and do not    *)
(* register.                                                               *)
(***************************************************************************)
EXTENDS ConfigRegistry

CONSTANTS Processes, NoProcess

ASSUME ProcessesAssumption == Instances \subseteq Processes /\ NoProcess \notin Processes

VARIABLES init, holder, writer, tables, failures

Schema == INSTANCE SchemaInit
schema == <<init, holder, writer, tables, failures>>

StartupInit == Init /\ Schema!Init

\* Mistake: startup registers before init_db.
AnyTime(i) == TRUE

\* startup: init_db first.
Ready(i) == init[i] = "ready"

\* A step of the registry or of its clients; an instance that ends, ends for its
\* database, too.
Ending == {i \in Instances : phase[i] # "down" /\ phase'[i] = "down"}
RegistryStep ==
    /\ Next
    /\ \A i \in Instances : (phase[i] = "down" /\ phase'[i] # "down") => Ready(i)
    /\ IF Ending = {} THEN UNCHANGED schema ELSE \E i \in Ending : Schema!Ends(i)

\* A step of init_db, or the end of a process that has not come further.
SchemaStep(p) ==
    /\ Schema!Work(p) \/ Schema!Ends(p)
    /\ p \in Instances => phase[p] = "down"
    /\ UNCHANGED vars

StartupNext == RegistryStep \/ \E p \in Processes : SchemaStep(p)

StartupSpec == StartupInit /\ [][StartupNext]_<<vars, schema>>

----------------------------------------------------------------------------
\* No instance registers or serves while a table it needs may be missing.
RegisteredHasTables == \A i \in Instances : phase[i] # "down" => tables

\* The start of one process at most fails because of another's.
AtMostOneStartFails == Schema!AtMostOneFails
=============================================================================
