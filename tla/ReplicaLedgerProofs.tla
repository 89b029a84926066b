--------------------------- MODULE ReplicaLedgerProofs ---------------------------
(***************************************************************************)
(* For any number of migrators of any releases, targets, objects and       *)
(* writers: the file has one history of versions and no replica is lost.   *)
(*                                                                         *)
(* The argument: whoever is inside a migration holds the lock, so the file *)
(* does not move under it, and its copy differs from the file only in the  *)
(* versions it applied.  Version 9 meets no rows, version 10 copies every  *)
(* row as it is, so that the commit changes none.                          *)
(***************************************************************************)
EXTENDS ReplicaLedger, TLAPS

\* What holds of a database between two statements.
Sound(db) ==
  /\ 10 \in db.recorded => 9 \in db.recorded
  /\ db.triggers = IF 9 \in db.recorded THEN Triggers ELSE {}
  /\ 9 \notin db.recorded => /\ \A t \in Targets : db.targets[t] = None
                             /\ \A k \in Objects : db.objects[k] = None
  /\ \A k \in Objects : db.objects[k] # None => db.targets[k[1]] # None

Types ==
  /\ file \in Databases
  /\ writer \in Migrators \cup {None}
  /\ work \in [Migrators -> Databases]
  /\ pc \in [Migrators -> {"idle", "open", "refused", "done", "failed"}]
  /\ applied \in [Migrators -> SUBSET (9..10)]

\* The lock is held by the one migrator that is inside its transaction.
Locked == \A m \in Migrators : pc[m] = "open" <=> writer = m

\* A transaction differs from the file in the versions applied inside it, none of
\* which its release does not know.
Ahead(m) ==
  /\ Sound(work[m])
  /\ work[m].recorded = file.recorded \cup applied[m]
  /\ work[m].recorded \subseteq Known(m)
  /\ applied[m] \cap file.recorded = {}
  /\ work[m].targets = file.targets
  /\ work[m].objects = file.objects

Working ==
  \A m \in Migrators : /\ pc[m] = "open" => Ahead(m)
                       /\ pc[m] = "idle" => applied[m] = {}

\* What a migrator that returned found or applied, and nobody else applied.
Returned ==
  \A m \in Migrators : pc[m] = "done" =>
    /\ Known(m) \subseteq file.recorded
    /\ applied[m] \subseteq file.recorded
    /\ \A n \in Migrators : pc[n] = "done" /\ n # m => applied[m] \cap applied[n] = {}

IInv == Types /\ Locked /\ Sound(file) /\ Working /\ Returned

--------------------------------------------------------------------------------
\* The copy of version 10 leaves no column out.
LEMMA CopyKeepsRows ==
  ASSUME NEW row \in ObjectRows \cup {None}
  PROVE  CopyOf(row) = row
<1>1. CASE row = None
  BY <1>1 DEF CopyOf
<1>2. CASE row # None
  <2>1. row \in ObjectRows
    BY <1>2
  <2> QED
    BY <1>2, <2>1 DEF CopyOf, ObjectRows
<1> QED
  BY <1>1, <1>2

\* A database after the rebuild holds the rows it held before.
LEMMA RebuiltKeepsRows ==
  ASSUME NEW db \in Databases
  PROVE  /\ Rebuilt(db) \in Databases
         /\ Rebuilt(db).recorded = db.recorded \cup {10}
         /\ Rebuilt(db).targets = db.targets
         /\ Rebuilt(db).objects = db.objects
         /\ Rebuilt(db).triggers = Triggers
<1>1. db.objects \in [Objects -> ObjectRows \cup {None}]
  BY DEF Databases
<1>2. \A k \in Objects : CopyOf(db.objects[k]) = db.objects[k]
  BY <1>1, CopyKeepsRows
<1>3. [k \in Objects |-> CopyOf(db.objects[k])] = db.objects
  BY <1>1, <1>2
<1>4. /\ Rebuilt(db).recorded = db.recorded \cup {10}
      /\ Rebuilt(db).targets = db.targets
      /\ Rebuilt(db).objects = db.objects
      /\ Rebuilt(db).triggers = Triggers
  BY <1>3 DEF Rebuilt
<1>5. /\ db.recorded \cup {10} \in SUBSET (8..10)
      /\ db.targets \in [Targets -> TargetRows \cup {None}]
      /\ Triggers \in SUBSET Triggers
  BY DEF Databases
<1> QED
  BY <1>1, <1>3, <1>4, <1>5 DEF Rebuilt, Databases

\* Version 9 makes empty tables of a database that had none.
LEMMA CreatedIsEmpty ==
  ASSUME NEW db \in Databases
  PROVE  /\ Created(db) \in Databases
         /\ Created(db).recorded = db.recorded \cup {9}
         /\ Created(db).targets = [t \in Targets |-> None]
         /\ Created(db).objects = [k \in Objects |-> None]
         /\ Created(db).triggers = Triggers
BY DEF Created, Databases

\* A statement on a target leaves the types and what holds of the file.
LEMMA TargetWritten ==
  ASSUME NEW t \in Targets, NEW new \in TargetRows \cup {None},
         file \in Databases, Sound(file), Exists(file), TargetMayBecome(file, t, new)
  PROVE  LET to == [file EXCEPT !.targets[t] = new]
         IN  to \in Databases /\ Sound(to)
<1> DEFINE to == [file EXCEPT !.targets[t] = new]
<1>1. /\ to.recorded = file.recorded /\ to.triggers = file.triggers
      /\ to.objects = file.objects
      /\ to.targets = [file.targets EXCEPT ![t] = new]
      /\ file.targets \in [Targets -> TargetRows \cup {None}]
  BY DEF Databases
<1>2. to \in Databases
  BY <1>1 DEF Databases
<1>3. \A k \in Objects : to.objects[k] # None => to.targets[k[1]] # None
  <2> SUFFICES ASSUME NEW k \in Objects, file.objects[k] # None
               PROVE  to.targets[k[1]] # None
    BY <1>1
  <2>1. k[1] \in Targets /\ k[2] \in Uris /\ k = <<k[1], k[2]>>
    BY DEF Objects
  <2>2. file.targets[k[1]] # None
    BY DEF Sound
  <2>3. CASE k[1] # t
    BY <1>1, <2>1, <2>2, <2>3
  <2>4. CASE k[1] = t
    <3>1. new # None
      BY <2>1, <2>2, <2>4 DEF TargetMayBecome
    <3> QED
      BY <1>1, <2>4, <3>1
  <2> QED
    BY <2>3, <2>4
<1> QED
  BY <1>1, <1>2, <1>3 DEF Sound, Exists

\* The same of a statement on an object.
LEMMA ObjectWritten ==
  ASSUME NEW k \in Objects, NEW new \in ObjectRows \cup {None},
         file \in Databases, Sound(file), Exists(file), ObjectMayBecome(file, k, new)
  PROVE  LET to == [file EXCEPT !.objects[k] = new]
         IN  to \in Databases /\ Sound(to)
<1> DEFINE to == [file EXCEPT !.objects[k] = new]
<1>1. /\ to.recorded = file.recorded /\ to.triggers = file.triggers
      /\ to.targets = file.targets
      /\ to.objects = [file.objects EXCEPT ![k] = new]
      /\ file.objects \in [Objects -> ObjectRows \cup {None}]
  BY DEF Databases
<1>2. to \in Databases
  BY <1>1 DEF Databases
<1>3. file.targets[k[1]] # None \/ new = None
  BY DEF ObjectMayBecome, Sound
<1>4. \A j \in Objects : to.objects[j] # None => to.targets[j[1]] # None
  BY <1>1, <1>3 DEF Sound
<1> QED
  BY <1>1, <1>2, <1>4 DEF Sound, Exists

--------------------------------------------------------------------------------
\* The invariant is inductive

LEMMA InitIInv == Init => IInv
<1> SUFFICES ASSUME Init PROVE IInv
  OBVIOUS
<1>1. NoRows \in Databases /\ Sound(NoRows)
  BY DEF NoRows, Databases, Sound
<1>2. Types
  BY <1>1 DEF Init, Types
<1>3. Locked /\ Working /\ Returned
  BY ReplicaAssumption DEF Init, Locked, Working, Returned
<1> QED
  BY <1>1, <1>2, <1>3 DEF Init, IInv

\* Writers wait for the lock, so no transaction is open beside them.
LEMMA WriteStep ==
  ASSUME IInv, writer = None,
         file' \in Databases, Sound(file'), file'.recorded = file.recorded,
         UNCHANGED <<writer, work, pc, applied>>
  PROVE  IInv'
<1>1. \A m \in Migrators : pc[m] # "open"
  BY ReplicaAssumption DEF IInv, Locked
<1>2. Types' /\ Locked'
  BY DEF IInv, Types, Locked
<1>3. Working' /\ Returned'
  BY <1>1 DEF IInv, Working, Returned, Ahead
<1>4. Sound(file)'
  BY DEF Sound
<1> QED
  BY <1>2, <1>3, <1>4 DEF IInv

LEMMA OpenStep ==
  ASSUME IInv, NEW m \in Migrators, Open(m)
  PROVE  IInv'
<1> USE DEF Open
<1>1. \A n \in Migrators : pc[n] # "open"
  BY ReplicaAssumption DEF IInv, Locked
<1>2. Types'
  BY DEF IInv, Types
<1>3. Locked'
  BY <1>1 DEF IInv, Types, Locked
<1>4. Sound(file)'
  BY DEF IInv, Sound
<1>5. work'[m] = file /\ applied' = applied /\ applied[m] = {}
  BY DEF IInv, Types, Working
<1>6. Ahead(m)'
  BY <1>4, <1>5 DEF Ahead, Sound
<1>7. Working'
  BY <1>1, <1>5, <1>6 DEF IInv, Types, Working
<1>8. Returned'
  BY DEF IInv, Types, Returned
<1> QED
  BY <1>2, <1>3, <1>4, <1>7, <1>8 DEF IInv

LEMMA RefusedStep ==
  ASSUME IInv, NEW m \in Migrators, Refused(m)
  PROVE  IInv'
<1> USE DEF Refused
<1>1. Types' /\ Locked' /\ Returned'
  BY DEF IInv, Types, Locked, Returned
<1>2. Sound(file)'
  BY DEF IInv, Sound
<1>3. Working'
  BY DEF IInv, Types, Working, Ahead, Sound
<1> QED
  BY <1>1, <1>2, <1>3 DEF IInv

LEMMA AbortStep ==
  ASSUME IInv, NEW m \in Migrators, Abort(m)
  PROVE  IInv'
<1> USE DEF Abort
<1>1. \A n \in Migrators : n # m => pc[n] # "open"
  BY ReplicaAssumption DEF IInv, Locked
<1>2. Types' /\ Locked' /\ Returned'
  BY <1>1, ReplicaAssumption DEF IInv, Types, Locked, Returned
<1>3. Sound(file)'
  BY DEF IInv, Sound
<1>4. Working'
  BY <1>1 DEF IInv, Types, Working
<1> QED
  BY <1>2, <1>3, <1>4 DEF IInv

LEMMA CommitStep ==
  ASSUME IInv, NEW m \in Migrators, Commit(m)
  PROVE  IInv'
<1> USE DEF Commit
<1>1. \A n \in Migrators : n # m => pc[n] # "open"
  BY ReplicaAssumption DEF IInv, Locked
<1>2. Ahead(m) /\ work[m] \in Databases
  BY DEF IInv, Working, Types
<1>3. Types' /\ Locked'
  BY <1>1, <1>2, ReplicaAssumption DEF IInv, Types, Locked
<1>4. Sound(file)'
  BY <1>2 DEF Ahead, Sound
<1>5. Working'
  BY <1>1 DEF IInv, Types, Working
<1>6. Known(m) \subseteq work[m].recorded
  BY DEF Missing
<1>7. Returned'
  <2>1. /\ file'.recorded = file.recorded \cup applied[m]
        /\ applied' = applied /\ applied[m] \cap file.recorded = {}
    BY <1>2 DEF Ahead
  <2>2. \A n \in Migrators : pc'[n] = "done" => n = m \/ pc[n] = "done"
    BY DEF IInv, Types
  <2>3. \A n \in Migrators : pc'[n] = "done" =>
          Known(n) \subseteq file'.recorded /\ applied[n] \subseteq file'.recorded
    BY <1>6, <2>1, <2>2 DEF IInv, Returned
  <2>4. \A n \in Migrators : n # m /\ pc'[n] = "done" => applied[n] \subseteq file.recorded
    BY <2>2 DEF IInv, Returned
  <2>5. \A n, o \in Migrators :
          pc'[n] = "done" /\ pc'[o] = "done" /\ n # o => applied[n] \cap applied[o] = {}
    BY <2>1, <2>2, <2>4 DEF IInv, Returned
  <2> QED
    BY <2>1, <2>3, <2>5 DEF Returned, Known
<1> QED
  BY <1>3, <1>4, <1>5, <1>7 DEF IInv

\* A version applied inside the transaction changes no row: version 9 meets none
\* and version 10 copies all.
LEMMA ApplyStep ==
  ASSUME IInv, NEW m \in Migrators, NEW v \in 9..10, Apply(m, v)
  PROVE  IInv'
<1> USE DEF Apply
<1> DEFINE new == IF v = 9 THEN Created(work[m]) ELSE Rebuilt(work[m])
<1>1. /\ Ahead(m) /\ work[m] \in Databases /\ file \in Databases
      /\ work' = [work EXCEPT ![m] = new] /\ work'[m] = new
      /\ applied' = [applied EXCEPT ![m] = @ \cup {v}]
      /\ applied'[m] = applied[m] \cup {v}
  BY DEF IInv, Working, Types
<1>2. v \notin work[m].recorded /\ v \in Known(m)
  BY DEF Missing
<1>3. v = 10 => 9 \in work[m].recorded
  <2> SUFFICES ASSUME v = 10, 9 \notin work[m].recorded PROVE FALSE
    OBVIOUS
  <2>1. 9 \in Missing(m)
    BY <1>2, ReplicaAssumption DEF Known, Missing
  <2> QED
    BY <2>1
<1>4. /\ new \in Databases
      /\ new.recorded = work[m].recorded \cup {v}
      /\ new.targets = work[m].targets
      /\ new.objects = work[m].objects
      /\ new.triggers = Triggers
  <2>1. CASE v = 9
    <3>1. /\ work[m].targets = [t \in Targets |-> None]
          /\ work[m].objects = [k \in Objects |-> None]
      BY <1>1, <1>2, <2>1 DEF Ahead, Sound, Databases
    <3> QED
      BY <1>1, <2>1, <3>1, CreatedIsEmpty
  <2>2. CASE v = 10
    BY <1>1, <2>2, RebuiltKeepsRows
  <2> QED
    BY <2>1, <2>2
<1>5. Sound(new)
  BY <1>1, <1>2, <1>3, <1>4 DEF Ahead, Sound
<1>6. Types' /\ Locked'
  BY <1>1, <1>4 DEF IInv, Types, Locked
<1>7. Sound(file)'
  BY DEF IInv, Sound
<1>8. Ahead(m)'
  <2>1. v \notin file.recorded
    BY <1>1, <1>2 DEF Ahead
  <2>2. new.recorded \subseteq Known(m)
    BY <1>1, <1>2, <1>4 DEF Ahead
  <2>3. Known(m)' = Known(m)
    BY DEF Known
  <2> HIDE DEF new
  <2> QED
    BY <1>1, <1>4, <1>5, <2>1, <2>2, <2>3 DEF Ahead
<1>9. \A n \in Migrators : n # m => pc[n] # "open" /\ applied'[n] = applied[n]
  BY ReplicaAssumption, <1>1 DEF IInv, Types, Locked
<1>10. Working'
  BY <1>8, <1>9 DEF IInv, Working
<1>11. Returned'
  BY <1>9 DEF IInv, Returned, Known
<1> QED
  BY <1>6, <1>7, <1>10, <1>11 DEF IInv

LEMMA NextIInv == IInv /\ [Next]_vars => IInv'
<1> SUFFICES ASSUME IInv, [Next]_vars PROVE IInv'
  OBVIOUS
<1>1. ASSUME NEW t \in Targets, NEW new \in TargetRows \cup {None}, WriteTarget(t, new)
      PROVE  IInv'
  <2>1. file' \in Databases /\ Sound(file') /\ file'.recorded = file.recorded
    BY <1>1, TargetWritten DEF WriteTarget, IInv, Types, Databases
  <2> QED
    BY <1>1, <2>1, WriteStep DEF WriteTarget
<1>2. ASSUME NEW k \in Objects, NEW new \in ObjectRows \cup {None}, WriteObject(k, new)
      PROVE  IInv'
  <2>1. file' \in Databases /\ Sound(file') /\ file'.recorded = file.recorded
    BY <1>2, ObjectWritten DEF WriteObject, IInv, Types, Databases
  <2> QED
    BY <1>2, <2>1, WriteStep DEF WriteObject
<1>3. CASE UNCHANGED vars
  BY <1>3 DEF vars, IInv, Types, Locked, Sound, Working, Ahead, Returned
<1> QED
  BY <1>1, <1>2, <1>3, OpenStep, RefusedStep, CommitStep, AbortStep, ApplyStep DEF Next

THEOREM Invariant == Spec => []IInv
BY InitIInv, NextIInv, PTL DEF Spec

--------------------------------------------------------------------------------
\* Rows, versions and triggers have their types, and every object has its target.
THEOREM RTypes == Spec => []RTypeOK
<1>1. IInv => RTypeOK
  BY DEF IInv, Types, Sound, RTypeOK
<1> QED
  BY <1>1, Invariant, PTL

\* Each version is applied once and in order, whoever migrates at the same time.
THEOREM OneHistoryHolds == Spec => []OneHistory
<1>1. IInv => OneHistory
  BY DEF IInv, Sound, Returned, OneHistory
<1> QED
  BY <1>1, Invariant, PTL

\* No statement of a writer with triggers in place takes anything back.
LEMMA WritesKeep ==
  ASSUME IInv, NEW k \in Objects, NEW new \in ObjectRows \cup {None},
         WriteObject(k, new), file.objects[k] # None
  PROVE  Kept(file.objects[k], new)
<1>1. file.triggers = Triggers
  BY DEF IInv, Sound, WriteObject, Exists
<1>2. new # None /\ GuardPasses(file.objects[k], new)
  BY <1>1 DEF WriteObject, ObjectMayBecome, Triggers
<1> QED
  BY <1>2 DEF GuardPasses, Kept

\* Targets are never lost or changed, VERIFIED objects stay as they are, and of
\* pending ones neither the expected content changes nor the attempts decrease.
THEOREM ReplicasAreKept == Spec => ReplicasOnlyGrow
<1> DEFINE Grows ==
      /\ \A t \in Targets : file.targets[t] # None => file'.targets[t] = file.targets[t]
      /\ \A k \in Objects : file.objects[k] # None => Kept(file.objects[k], file'.objects[k])
<1>1. IInv /\ [Next]_vars => Grows
  <2> SUFFICES ASSUME IInv, [Next]_vars PROVE Grows
    OBVIOUS
  <2>1. \A k \in Objects : file.objects[k] # None =>
          Kept(file.objects[k], file.objects[k])
    BY DEF Kept, IInv, Types, Databases, ObjectRows
  <2>2. ASSUME file'.targets = file.targets, file'.objects = file.objects PROVE Grows
    BY <2>1, <2>2
  <2>3. ASSUME NEW t \in Targets, NEW new \in TargetRows \cup {None}, WriteTarget(t, new)
        PROVE  Grows
    <3>1. file.triggers = Triggers
      BY <2>3 DEF IInv, Sound, WriteTarget, Exists
    <3>2. file.targets[t] = None
      BY <2>3, <3>1 DEF WriteTarget, TargetMayBecome, Triggers
    <3>3. /\ file'.objects = file.objects
          /\ file'.targets = [file.targets EXCEPT ![t] = new]
      BY <2>3 DEF WriteTarget, IInv, Types, Databases
    <3>4. \A s \in Targets : file.targets[s] # None => file'.targets[s] = file.targets[s]
      BY <3>2, <3>3 DEF IInv, Types, Databases
    <3> QED
      BY <2>1, <3>3, <3>4
  <2>4. ASSUME NEW k \in Objects, NEW new \in ObjectRows \cup {None}, WriteObject(k, new)
        PROVE  Grows
    <3>1. /\ file'.targets = file.targets
          /\ file'.objects = [file.objects EXCEPT ![k] = new]
          /\ file.objects \in [Objects -> ObjectRows \cup {None}]
      BY <2>4 DEF WriteObject, IInv, Types, Databases
    <3>2. \A j \in Objects : file.objects[j] # None =>
            Kept(file.objects[j], file'.objects[j])
      BY <2>1, <2>4, <3>1, WritesKeep
    <3> QED
      BY <3>1, <3>2
  <2>5. ASSUME NEW m \in Migrators, Commit(m) PROVE Grows
    <3>1. Ahead(m)
      BY <2>5 DEF Commit, IInv, Working
    <3> QED
      BY <2>2, <2>5, <3>1 DEF Commit, Ahead
  <2>6. ASSUME file' = file PROVE Grows
    BY <2>2, <2>6
  <2> QED
    BY <2>3, <2>4, <2>5, <2>6 DEF Next, Open, Refused, Apply, Abort, vars
<1> QED
  BY <1>1, Invariant, PTL DEF Spec, ReplicasOnlyGrow

--------------------------------------------------------------------------------
(***************************************************************************)
(* ReplicaLedger implements ReplicaStore                                   *)
(***************************************************************************)

\* How a migrator ended and what it reports, as ReplicaStore sees it.
Ended  == [m \in Migrators |-> IF pc[m] = "open" THEN "idle" ELSE pc[m]]
Result == [m \in Migrators |-> IF pc[m] = "done" THEN applied[m] ELSE {}]

\* What ReplicaStore sees.
view == <<file.recorded, file.targets, file.objects, Ended, Result>>

\* A migrator that neither returned nor returns shows nothing but how it ended.
LEMMA QuietStep ==
  ASSUME IInv, NEW m \in Migrators, pc[m] # "done",
         NEW step \in {"idle", "open", "refused", "failed"},
         pc' = [pc EXCEPT ![m] = step],
         \A n \in Migrators : n # m => applied'[n] = applied[n]
  PROVE  /\ Result' = Result
         /\ Ended' = [Ended EXCEPT ![m] = IF step = "open" THEN "idle" ELSE step]
<1>1. pc \in [Migrators -> {"idle", "open", "refused", "done", "failed"}]
  BY DEF IInv, Types
<1>2. \A n \in Migrators : n # m => pc'[n] = pc[n]
  BY <1>1
<1>3. pc'[m] = step
  BY <1>1
<1> QED BY <1>1, <1>2, <1>3 DEF Result, Ended

\* The commit takes the file to the head of the release in one step.
LEMMA CommitMigrates ==
  ASSUME IInv, NEW m \in Migrators, Commit(m)
  PROVE  Store!Migrate(m)
<1>1. Ahead(m)
  BY DEF Commit, IInv, Working
<1>2. /\ file'.recorded = Known(m) /\ file.recorded \subseteq Known(m)
      /\ applied[m] = Known(m) \ file.recorded
  BY <1>1 DEF Commit, Missing, Ahead
<1>3. file'.targets = file.targets /\ file'.objects = file.objects
  BY <1>1 DEF Commit, Ahead
<1>4. pc \in [Migrators -> {"idle", "open", "refused", "done", "failed"}]
  BY DEF IInv, Types
<1>5. /\ Ended[m] = "idle" /\ Ended' = [Ended EXCEPT ![m] = "done"]
      /\ Result' = [Result EXCEPT ![m] = applied[m]]
  BY <1>4 DEF Commit, Ended, Result
<1> QED
  BY <1>2, <1>3, <1>5 DEF Store!Migrate, Store!rows, Ended, Result, Known

\* What the triggers let pass adds a target.
LEMMA WriteTargetAdds ==
  ASSUME IInv, NEW t \in Targets, NEW new \in TargetRows \cup {None}, WriteTarget(t, new)
  PROVE  new \in TargetRows /\ Store!AddTarget(t, new)
<1>1. /\ file.triggers = Triggers /\ 9 \in file.recorded
      /\ file \in Databases
  BY DEF IInv, Sound, WriteTarget, Exists, Types
<1>2. file.targets[t] = None /\ new # None /\ AdapterFits(file, new)
  BY <1>1 DEF WriteTarget, TargetMayBecome, Triggers
<1>3. /\ file'.recorded = file.recorded /\ file'.objects = file.objects
      /\ file'.targets = [file.targets EXCEPT ![t] = new]
      /\ UNCHANGED <<pc, applied>>
  BY <1>1 DEF WriteTarget, Databases
<1>4. new.adapter = "mounted_nfs_v4" \/ 10 \in file.recorded
  BY <1>2 DEF AdapterFits
<1> QED
  BY <1>1, <1>2, <1>3, <1>4 DEF Store!AddTarget

\* And adds an object or works it off.
LEMMA WriteObjectAddsOrAdvances ==
  ASSUME IInv, NEW k \in Objects, NEW new \in ObjectRows \cup {None}, WriteObject(k, new)
  PROVE  new \in ObjectRows /\ (Store!AddObject(k, new) \/ Store!Advance(k, new))
<1>1. /\ file.triggers = Triggers
      /\ file \in Databases
  BY DEF IInv, Sound, WriteObject, Exists, Types
<1>2. /\ new # None
      /\ \/ file.objects[k] = None /\ file.targets[k[1]] # None
         \/ file.objects[k] # None /\ GuardPasses(file.objects[k], new)
  BY <1>1 DEF WriteObject, ObjectMayBecome, Triggers
<1>3. /\ file'.recorded = file.recorded /\ file'.targets = file.targets
      /\ file'.objects = [file.objects EXCEPT ![k] = new]
      /\ UNCHANGED <<pc, applied>>
  BY <1>1 DEF WriteObject, Databases
<1>4. file.objects[k] # None /\ GuardPasses(file.objects[k], new) => file.objects[k].state = "PENDING"
  BY <1>1 DEF GuardPasses, Databases, ObjectRows
<1> QED
  BY <1>2, <1>3, <1>4 DEF Store!AddObject, Store!Advance, GuardPasses

\* Every step is a step of the store or none.
LEMMA StoreStep == IInv /\ [Next]_vars => [Store!Next]_(Store!vars)
<1> SUFFICES ASSUME IInv, [Next]_vars PROVE Store!Next \/ UNCHANGED view
  BY DEF Store!vars, view, Ended, Result
<1>0. pc \in [Migrators -> {"idle", "open", "refused", "done", "failed"}]
  BY DEF IInv, Types
<1>1. ASSUME NEW t \in Targets, NEW new \in TargetRows \cup {None}, WriteTarget(t, new)
      PROVE  Store!Next
  BY <1>1, WriteTargetAdds DEF Store!Next
<1>2. ASSUME NEW k \in Objects, NEW new \in ObjectRows \cup {None}, WriteObject(k, new)
      PROVE  Store!Next
  BY <1>2, WriteObjectAddsOrAdvances DEF Store!Next
<1>3. ASSUME NEW m \in Migrators, Commit(m) PROVE Store!Next
  BY <1>3, CommitMigrates DEF Store!Next
<1>4. ASSUME NEW m \in Migrators, NEW step \in {"refused", "failed"},
             pc[m] \in {"idle", "open"}, pc' = [pc EXCEPT ![m] = step], file' = file,
             \A n \in Migrators : n # m => applied'[n] = applied[n]
      PROVE  Store!Next
  <2>1. pc[m] # "done" /\ step # "open" /\ Ended[m] = "idle"
    BY <1>4 DEF Ended
  <2>2. Result' = Result /\ Ended' = [Ended EXCEPT ![m] = step]
    BY <1>4, <2>1, QuietStep
  <2>3. Store!GiveUp(m)
    BY <1>4, <2>1, <2>2 DEF Store!GiveUp, Store!rows, Ended, Result
  <2> QED BY <2>3 DEF Store!Next
<1>5. ASSUME NEW m \in Migrators, Refused(m) \/ Abort(m) PROVE Store!Next
  <2>1. applied \in [Migrators -> SUBSET (9..10)]
    BY DEF IInv, Types
  <2> QED BY <1>4, <1>5, <2>1 DEF Refused, Abort
<1>6. ASSUME NEW m \in Migrators, Open(m) \/ \E v \in 9..10 : Apply(m, v)
      PROVE  UNCHANGED view
  <2>1. /\ pc[m] \in {"idle", "open"} /\ pc' = [pc EXCEPT ![m] = "open"] /\ file' = file
        /\ \A n \in Migrators : n # m => applied'[n] = applied[n]
    BY <1>0, <1>6 DEF Open, Apply, IInv, Types
  <2>2. Result' = Result /\ Ended' = [Ended EXCEPT ![m] = "idle"] /\ Ended[m] = "idle"
    BY <2>1, QuietStep DEF Ended
  <2>3. Ended' = Ended
    BY <2>2 DEF Ended
  <2> QED BY <2>1, <2>2, <2>3 DEF view
<1>7. CASE UNCHANGED vars
  BY <1>7 DEF vars, view, Ended, Result
<1> QED BY <1>1, <1>2, <1>3, <1>5, <1>6, <1>7 DEF Next

\* However many migrators of whatever releases run, fail and are killed: a reader
\* sees each migration as one step, beside rows that are only added or worked off.
THEOREM MigrationsAreAtomic == Spec => MigratesAtOnce
<1>1. Init => Store!Init
  BY DEF Init, NoRows, Store!Init
<1> QED
  BY <1>1, StoreStep, Invariant, PTL DEF Spec, MigratesAtOnce, Store!Spec

================================================================================
