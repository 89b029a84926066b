------------------------------ MODULE ReplicaStore ------------------------------
(***************************************************************************)
(* What migrate and the schema of versions 9 and 10 promise whoever keeps  *)
(* replicas, without locks, transactions, triggers or copied tables: a     *)
(* migration takes the database to the head of its release in one step or  *)
(* leaves it alone, and the rows of replicas are added and worked off,     *)
(* never changed otherwise.                                                *)
(***************************************************************************)
EXTENDS Integers

CONSTANTS Migrators, HeadOf, Targets, Objects, TargetRows, ObjectRows, None

VARIABLES
  versions,   \* versions of the database (8 stands for the first eight)
  targets,    \* rows of replica_targets
  objects,    \* rows of replica_objects
  ended,      \* how each migrator ended, or "idle"
  result      \* the versions it reports to have applied

vars == <<versions, targets, objects, ended, result>>
rows == <<targets, objects>>

Init ==
  /\ versions = {8}
  /\ targets = [t \in Targets |-> None]
  /\ objects = [k \in Objects |-> None]
  /\ ended = [m \in Migrators |-> "idle"]
  /\ result = [m \in Migrators |-> {}]

\* All missing versions at once, beside the rows there are.
Migrate(m) ==
  /\ ended[m] = "idle"
  /\ versions \subseteq 8..HeadOf[m]
  /\ versions' = 8..HeadOf[m]
  /\ result' = [result EXCEPT ![m] = 8..HeadOf[m] \ versions]
  /\ ended' = [ended EXCEPT ![m] = "done"]
  /\ UNCHANGED rows

\* Or nothing.
GiveUp(m) ==
  /\ ended[m] = "idle"
  /\ ended' \in {[ended EXCEPT ![m] = how] : how \in {"refused", "failed"}}
  /\ UNCHANGED <<versions, rows, result>>

\* The first version with targets knows one kind of adapter.
AddTarget(t, row) ==
  /\ 9 \in versions
  /\ row.adapter = "mounted_nfs_v4" \/ 10 \in versions
  /\ targets[t] = None
  /\ targets' = [targets EXCEPT ![t] = row]
  /\ UNCHANGED <<versions, objects, ended, result>>

AddObject(k, row) ==
  /\ targets[k[1]] # None
  /\ objects[k] = None
  /\ objects' = [objects EXCEPT ![k] = row]
  /\ UNCHANGED <<versions, targets, ended, result>>

\* Attempts are counted and the content is found to be as expected.
Advance(k, row) ==
  /\ objects[k] # None
  /\ objects[k].state = "PENDING"
  /\ row.content = objects[k].content
  /\ row.attempts >= objects[k].attempts
  /\ objects' = [objects EXCEPT ![k] = row]
  /\ UNCHANGED <<versions, targets, ended, result>>

Next ==
  \/ \E m \in Migrators : Migrate(m) \/ GiveUp(m)
  \/ \E t \in Targets, row \in TargetRows : AddTarget(t, row)
  \/ \E k \in Objects, row \in ObjectRows : AddObject(k, row) \/ Advance(k, row)

Spec == Init /\ [][Next]_vars

================================================================================
