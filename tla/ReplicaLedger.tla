------------------------------ MODULE ReplicaLedger ------------------------------
(***************************************************************************)
(* The replication tables of schema versions 9 and 10, and processes that  *)
(* migrate one database file at the same time.  The commands that write    *)
(* replicas are not in the repository: writers may try any INSERT, UPDATE  *)
(* or DELETE at any time, with values they read long ago, and what is left *)
(* of them is what constraints and triggers let pass.                      *)
(*                                                                         *)
(* A migrator works on a copy of the file that nobody else sees before it  *)
(* commits; what it writes is lost when it fails or dies.                  *)
(***************************************************************************)
EXTENDS Naturals, FiniteSets

CONSTANTS
  Migrators,    \* processes that run migrate
  HeadOf,       \* newest version the release of each of them knows
  Targets,      \* target ids
  Markers,      \* contents of target markers
  Uris,         \* kind and relative URI of an object
  Contents,     \* size and hash of its expected bytes
  MaxAttempts,  \* bound of attempt_count
  None          \* no row, no process

ASSUME ReplicaAssumption ==
  /\ HeadOf \in [Migrators -> 8..10]
  /\ MaxAttempts \in Nat
  /\ None \notin Migrators

Adapters == {"mounted_nfs_v4", "other"}
Triggers == {"targets_no_update", "targets_no_delete", "objects_no_delete",
             "objects_guard_update"}

TargetRows == [adapter : Adapters, marker : Markers]
ObjectRows == [content : Contents, state : {"PENDING", "VERIFIED"},
               attempts : 0..MaxAttempts]
Objects    == Targets \X Uris

ASSUME NoneAssumption == None \notin TargetRows /\ None \notin ObjectRows

\* A database: recorded versions (8 stands for the first eight), rows, triggers.
Databases ==
  [recorded : SUBSET (8..10),
   targets  : [Targets -> TargetRows \cup {None}],
   objects  : [Objects -> ObjectRows \cup {None}],
   triggers : SUBSET Triggers]

VARIABLES
  file,     \* the database as it is committed
  writer,   \* who holds the RESERVED lock
  work,     \* the database inside the transaction of each migrator
  pc,       \* where each migrator is, or how it ended
  applied   \* MigrationResult.applied_versions

vars == <<file, writer, work, pc, applied>>

NoRows == [recorded |-> {8}, targets |-> [t \in Targets |-> None],
           objects |-> [k \in Objects |-> None], triggers |-> {}]

Init ==
  /\ file = NoRows
  /\ writer = None
  /\ work = [m \in Migrators |-> NoRows]
  /\ pc = [m \in Migrators |-> "idle"]
  /\ applied = [m \in Migrators |-> {}]

--------------------------------------------------------------------------------
\* Statements of writers, each a transaction of its own

Exists(db) == 9 \in db.recorded

\* CHECK (adapter_kind = ...) of version 9; version 10 takes any identifier.
AdapterFits(db, row) == 10 \in db.recorded \/ row.adapter = "mounted_nfs_v4"

\* A row is inserted, deleted or updated.
TargetMayBecome(db, t, new) ==
  \/ /\ db.targets[t] = None
     /\ new # None
     /\ AdapterFits(db, new)
  \/ /\ db.targets[t] # None
     /\ new = None
     /\ "targets_no_delete" \notin db.triggers
     /\ \A u \in Uris : db.objects[<<t, u>>] = None
  \/ /\ db.targets[t] # None
     /\ new # None
     /\ "targets_no_update" \notin db.triggers
     /\ AdapterFits(db, new)

\* BEFORE UPDATE: the guard on an object's row.
GuardPasses(old, new) ==
  /\ old.state # "VERIFIED"
  /\ new.content = old.content
  /\ new.attempts >= old.attempts

\* Mutant: the foreign key is missing.
ObjectMayBecomeOrphan(db, k, new) ==
  \/ /\ db.objects[k] = None
     /\ new # None
  \/ /\ db.objects[k] # None
     /\ new = None
     /\ "objects_no_delete" \notin db.triggers
  \/ /\ db.objects[k] # None
     /\ new # None
     /\ "objects_guard_update" \in db.triggers => GuardPasses(db.objects[k], new)

\* The same for an object.  (Target and URI are the key; the guard on updates keeps
\* them as it keeps the content.)
ObjectMayBecome(db, k, new) ==
  \/ /\ db.objects[k] = None
     /\ new # None
     /\ db.targets[k[1]] # None
  \/ /\ db.objects[k] # None
     /\ new = None
     /\ "objects_no_delete" \notin db.triggers
  \/ /\ db.objects[k] # None
     /\ new # None
     /\ "objects_guard_update" \in db.triggers => GuardPasses(db.objects[k], new)

\* A statement waits for the lock of a migrator, or fails.
WriteTarget(t, new) ==
  /\ writer = None
  /\ Exists(file)
  /\ TargetMayBecome(file, t, new)
  /\ file' = [file EXCEPT !.targets[t] = new]
  /\ UNCHANGED <<writer, work, pc, applied>>

WriteObject(k, new) ==
  /\ writer = None
  /\ Exists(file)
  /\ ObjectMayBecome(file, k, new)
  /\ file' = [file EXCEPT !.objects[k] = new]
  /\ UNCHANGED <<writer, work, pc, applied>>

--------------------------------------------------------------------------------
\* migrate

Known(m) == 8..HeadOf[m]

\* Mutant: BEGIN without IMMEDIATE, so that the versions are read before the lock.
OpenDeferred(m) ==
  /\ pc[m] = "idle"
  /\ file.recorded \subseteq Known(m)
  /\ writer' = m
  /\ work' = [work EXCEPT ![m] = file]
  /\ pc' = [pc EXCEPT ![m] = "open"]
  /\ UNCHANGED <<file, applied>>

\* BEGIN IMMEDIATE takes the lock; the recorded versions are read under it.
Open(m) ==
  /\ pc[m] = "idle"
  /\ writer = None
  /\ file.recorded \subseteq Known(m)
  /\ writer' = m
  /\ work' = [work EXCEPT ![m] = file]
  /\ pc' = [pc EXCEPT ![m] = "open"]
  /\ UNCHANGED <<file, applied>>

\* Five seconds of busy waiting, or a database ahead of the code.
Refused(m) ==
  /\ pc[m] = "idle"
  /\ writer # None \/ ~(file.recorded \subseteq Known(m))
  /\ pc' = [pc EXCEPT ![m] = "refused"]
  /\ UNCHANGED <<file, writer, work, applied>>

\* Version 9: both tables and their triggers.
Created(db) ==
  [recorded |-> db.recorded \cup {9},
   targets  |-> [t \in Targets |-> None],
   objects  |-> [k \in Objects |-> None],
   triggers |-> Triggers]

\* Mutant: a column left out of the copy takes its default.
CopyOfDefaults(row) == IF row = None THEN None ELSE [row EXCEPT !.attempts = 0]

\* INSERT INTO replica_objects_v10 (...) SELECT ... FROM replica_objects
CopyOf(row) ==
  IF row = None THEN None
  ELSE [content |-> row.content, state |-> row.state, attempts |-> row.attempts]

\* Version 10: copies take the place of both tables; DROP TABLE takes the triggers
\* with it, and they are created again.
Rebuilt(db) ==
  [recorded |-> db.recorded \cup {10},
   targets  |-> db.targets,
   objects  |-> [k \in Objects |-> CopyOf(db.objects[k])],
   triggers |-> Triggers]

Missing(m) == Known(m) \ work[m].recorded

\* The statements of the first missing version, and its row in schema_migrations.
Apply(m, v) ==
  /\ pc[m] = "open"
  /\ v \in Missing(m)
  /\ \A u \in Missing(m) : v <= u
  /\ work' = [work EXCEPT ![m] = IF v = 9 THEN Created(@) ELSE Rebuilt(@)]
  /\ applied' = [applied EXCEPT ![m] = @ \cup {v}]
  /\ UNCHANGED <<file, writer, pc>>

Commit(m) ==
  /\ pc[m] = "open"
  /\ Missing(m) = {}
  /\ file' = work[m]
  /\ writer' = None
  /\ pc' = [pc EXCEPT ![m] = "done"]
  /\ UNCHANGED <<work, applied>>

\* Mutant: each version is a transaction of its own.
AbortKeepsApplied(m) ==
  /\ pc[m] = "open"
  /\ file' = work[m]
  /\ writer' = None
  /\ pc' = [pc EXCEPT ![m] = "failed"]
  /\ applied' = [applied EXCEPT ![m] = {}]
  /\ UNCHANGED work

\* A statement fails or the process dies: the transaction is rolled back.
Abort(m) ==
  /\ pc[m] = "open"
  /\ writer' = None
  /\ pc' = [pc EXCEPT ![m] = "failed"]
  /\ applied' = [applied EXCEPT ![m] = {}]
  /\ UNCHANGED <<file, work>>

Next ==
  \/ \E t \in Targets, new \in TargetRows \cup {None} : WriteTarget(t, new)
  \/ \E k \in Objects, new \in ObjectRows \cup {None} : WriteObject(k, new)
  \/ \E m \in Migrators :
       \/ Open(m) \/ Refused(m) \/ Commit(m) \/ Abort(m)
       \/ \E v \in 9..10 : Apply(m, v)

Spec == Init /\ [][Next]_vars

--------------------------------------------------------------------------------
(***************************************************************************)
(* Properties                                                              *)
(***************************************************************************)

\* Rows, versions and triggers of the file and of every transaction; an object
\* always has its target.
RTypeOK ==
  /\ file \in Databases
  /\ writer \in Migrators \cup {None}
  /\ work \in [Migrators -> Databases]
  /\ pc \in [Migrators -> {"idle", "open", "refused", "done", "failed"}]
  /\ applied \in [Migrators -> SUBSET (9..10)]
  /\ \A k \in Objects : file.objects[k] # None => file.targets[k[1]] # None

\* What must be left of a row of replica_objects.
Kept(old, new) ==
  /\ new # None
  /\ new.content = old.content
  /\ new.attempts >= old.attempts
  /\ old.state = "VERIFIED" => new = old

\* Whatever writers try with stale answers, and through the rebuild of both tables
\* by any migrator: a target keeps its row, an object its expected content, and
\* its attempts never decrease; a VERIFIED object stays as it is.
ReplicasOnlyGrow ==
  [][/\ \A t \in Targets : file.targets[t] # None => file'.targets[t] = file.targets[t]
     /\ \A k \in Objects : file.objects[k] # None =>
          Kept(file.objects[k], file'.objects[k])]_vars

\* However many processes migrate the file at once, each version is applied by
\* one of them and in order, its tables have all their triggers, and a process
\* that returned a result finds every version its release knows.
OneHistory ==
  /\ 10 \in file.recorded => 9 \in file.recorded
  /\ file.triggers = IF 9 \in file.recorded THEN Triggers ELSE {}
  /\ \A m \in Migrators : pc[m] = "done" =>
       /\ Known(m) \subseteq file.recorded
       /\ applied[m] \subseteq file.recorded
       /\ \A n \in Migrators : pc[n] = "done" /\ n # m => applied[m] \cap applied[n] = {}

(***************************************************************************)
(* The promise                                                             *)
(***************************************************************************)
Store == INSTANCE ReplicaStore WITH
  versions <- file.recorded,
  targets  <- file.targets,
  objects  <- file.objects,
  ended    <- [m \in Migrators |-> IF pc[m] = "open" THEN "idle" ELSE pc[m]],
  result   <- [m \in Migrators |-> IF pc[m] = "done" THEN applied[m] ELSE {}]

\* With its lock, its copies and its triggers the database is the one of
\* ReplicaStore: whoever reads it sees each migration as one step, from the
\* versions before to the head of that release with every row in place, or not at
\* all, and no migrator reports a version it did not take the database to.
MigratesAtOnce == Store!Spec

================================================================================
