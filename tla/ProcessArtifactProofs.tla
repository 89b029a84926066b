------------------------- MODULE ProcessArtifactProofs -------------------------
(***************************************************************************)
(* Proofs about ProcessArtifact, for any number of inputs, profiles,       *)
(* processes and external commands and for any bounds on interruptions.    *)
(***************************************************************************)
EXTENDS ProcessArtifact, TLAPS

--------------------------------------------------------------------------------
(***************************************************************************)
(* Functions of functions, as EXCEPT ![x][y] changes them.                 *)
(***************************************************************************)

\* The update keeps the type, sets one value and leaves the others.
LEMMA NestedUpdate ==
  ASSUME NEW S, NEW T, NEW V, NEW f \in [S -> [T -> V]],
         NEW x \in S, NEW y \in T, NEW v \in V,
         NEW g, g = [f EXCEPT ![x][y] = v]
  PROVE  /\ g \in [S -> [T -> V]]
         /\ g[x][y] = v
         /\ \A a \in S, b \in T : <<a, b>> # <<x, y>> => g[a][b] = f[a][b]
  OBVIOUS

--------------------------------------------------------------------------------
(***************************************************************************)
(* Types                                                                   *)
(***************************************************************************)

\* A process inside the call works on a job.
Engaged == \A p \in Procs : pc[p] # "idle" => cur[p] \in Jobs

Typed == TypeOK /\ Engaged

\* Every initial state is well typed.
LEMMA TypedInit == Init => Typed
  BY ConstantsAssumption DEF Init, Typed, TypeOK, Engaged, Jobs, JobStates, FinalBytes,
     PartialBytes, Results, Kinds, Steps, Events

\* Leaving the call keeps the types of the local variables and of the lock.
LEMMA TypedLeave ==
  ASSUME Typed, NEW p \in Procs, NEW r \in Results, Leave(p, r),
         UNCHANGED <<db, spool>>, altered' \subseteq Jobs, spent' \in [Events -> Nat]
  PROVE  Typed'
  BY DEF Typed, TypeOK, Engaged, Leave, db, spool, files, Kinds, Steps

\* Spending one event keeps the type of the bounds.
LEMMA TypedSpend ==
  ASSUME Typed, NEW e \in Events, Spend(e)
  PROVE  spent' \in [Events -> Nat]
  BY DEF Typed, TypeOK, Spend, Events

\* Every step keeps the types.
LEMMA TypedStep == Typed /\ [Next]_vars => Typed'
<1> SUFFICES ASSUME Typed, [Next]_vars PROVE Typed'
  OBVIOUS
<1> USE DEF Typed, TypeOK, Engaged
<1>1. ASSUME NEW p \in Procs, NEW j \in Jobs, Begin(p, j) PROVE Typed'
  BY <1>1 DEF Begin, db, spool, files, locks, Steps, Results
<1>2. ASSUME NEW p \in Procs, Acquire(p) PROVE Typed'
  BY <1>2 DEF Acquire, Goto, db, spool, files, Steps, GateSteps
<1>3. ASSUME NEW p \in Procs, LockTimeout(p) PROVE Typed'
  BY <1>3, TypedLeave DEF LockTimeout, Raise, Results, spool
<1>4. ASSUME NEW p \in Procs, Gate(p) PROVE Typed'
  <2>1. CASE Raise(p, "evidence")
    BY <2>1, TypedLeave DEF Raise, Results, Errors
  <2>2. CASE ~Raise(p, "evidence")
    BY <1>4, <2>2 DEF Gate, Goto, db, spool, files, locks, Steps, GateSteps
  <2> QED BY <2>1, <2>2
<1>5. ASSUME NEW p \in Procs, Eligible(p) PROVE Typed'
  <2>1. CASE \E error \in {"evidence", "conflict"} : Raise(p, error)
    BY <2>1, TypedLeave DEF Raise, Results, Errors
  <2>2. CASE ~\E error \in {"evidence", "conflict"} : Raise(p, error)
    BY <1>5, <2>2 DEF Eligible, Goto, db, spool, files, locks, Steps, GateSteps
  <2> QED BY <2>1, <2>2
<1>6. ASSUME NEW p \in Procs, Prepare(p) PROVE Typed'
  <2>1. CASE Raise(p, "conflict")
    BY <2>1, TypedLeave DEF Raise, Results, Errors
  <2>2. CASE ~Raise(p, "conflict")
    <3>1. pc' = [pc EXCEPT ![p] = "inspect"] /\ UNCHANGED <<cur, kind, adopted, result>>
      BY <1>6, <2>2 DEF Prepare, Goto
    <3>2. job' \in [Jobs -> JobStates]
      BY <1>6, <2>2 DEF Prepare, db, JobStates
    <3> QED BY <1>6, <2>2, <3>1, <3>2 DEF Prepare, db, spool, files, locks, Steps, FileSteps
  <2> QED BY <2>1, <2>2
<1>7. ASSUME NEW p \in Procs, Inspect(p) PROVE Typed'
  <2>1. CASE Raise(p, "evidence")
    BY <2>1, TypedLeave DEF Raise, Results, Errors
  <2>2. CASE ~Raise(p, "evidence")
    BY <1>7, <2>2 DEF Inspect, Goto, db, spool, files, locks, Steps, FileSteps, Kinds
  <2> QED BY <2>1, <2>2
<1>8. ASSUME NEW p \in Procs, Stage(p) PROVE Typed'
  <2>1. pc[p] = "stage"
    BY <1>8 DEF Stage
  <2>2. CASE Staged(p)
    BY <1>8, <2>1, <2>2 DEF Stage, Staged, db, spool, files, locks, Steps, FileSteps, Kinds
  <2>3. CASE Goto(p, "open") \/ Goto(p, "quarantine")
    BY <1>8, <2>1, <2>3 DEF Stage, Goto, db, spool, files, locks, Steps, FileSteps, Kinds
  <2> QED BY <1>8, <2>2, <2>3 DEF Stage
<1>9. ASSUME NEW p \in Procs, Quarantine(p) PROVE Typed'
  <2>1. cur[p] \in Jobs /\ kind[p] \in Kinds /\ partial[cur[p]][kind[p]] \in PartialBytes
    BY <1>9 DEF Quarantine
  <2>2. quarantine' \in [Jobs -> SUBSET (Kinds \X PartialBytes)]
    <3>1. CASE UNCHANGED quarantine
      BY <3>1
    <3>2. CASE quarantine' = [quarantine EXCEPT ![cur[p]] =
                                @ \cup {<<kind[p], partial[cur[p]][kind[p]]>>}]
      BY <2>1, <3>2
    <3> QED BY <1>9, <3>1, <3>2 DEF Quarantine
  <2>3. partial' \in [Jobs -> [Kinds -> PartialBytes]]
    <3>1. CASE UNCHANGED partial
      BY <3>1
    <3>2. CASE SetPartial(p, "absent")
      BY <2>1, <3>2, NestedUpdate DEF SetPartial, PartialBytes
    <3> QED BY <1>9, <3>1, <3>2 DEF Quarantine
  <2>4. pc' \in [Procs -> Steps] /\ UNCHANGED <<cur, kind, adopted, result>>
    BY <1>9 DEF Quarantine, Goto, Steps, FileSteps
  <2>5. \A q \in Procs : pc'[q] # "idle" => pc[q] # "idle"
    BY <1>9 DEF Quarantine, Goto
  <2> QED BY <1>9, <2>2, <2>3, <2>4, <2>5 DEF Quarantine, db, locks
<1>10. ASSUME NEW p \in Procs, Withdraw(p) PROVE Typed'
  BY <1>10 DEF Withdraw, SetPartial, Goto, db, locks, Steps, FileSteps, Kinds, PartialBytes
<1>11. ASSUME NEW p \in Procs, Open(p) PROVE Typed'
  BY <1>11 DEF Open, SetPartial, Goto, db, locks, Steps, FileSteps, Kinds, PartialBytes
<1>12. ASSUME NEW p \in Procs, Write(p) PROVE Typed'
  <2>1. partial' \in [Jobs -> [Kinds -> PartialBytes]]
    <3>1. cur[p] \in Jobs /\ kind[p] \in Kinds
      BY <1>12 DEF Write
    <3>2. PICK bytes \in {"half", "full"} : SetPartial(p, bytes)
      BY <1>12 DEF Write
    <3> QED BY <3>1, <3>2, NestedUpdate DEF SetPartial, PartialBytes
  <2>2. CASE UNCHANGED local
    BY <1>12, <2>1, <2>2 DEF Write, local, db, locks
  <2>3. CASE Staged(p)
    BY <1>12, <2>1, <2>3 DEF Write, Staged, db, locks, Steps, FileSteps, Kinds
  <2> QED BY <1>12, <2>2, <2>3 DEF Write
<1>13. ASSUME NEW p \in Procs, Publish(p) PROVE Typed'
  <2>1. CASE Raise(p, "evidence")
    BY <2>1, TypedLeave DEF Raise, Results, Errors
  <2>2. CASE ~Raise(p, "evidence")
    <3>1. final' \in [Jobs -> [Kinds -> FinalBytes]]
      <4>1. CASE UNCHANGED final
        BY <4>1
      <4>2. CASE ~UNCHANGED final
        <5>1. cur[p] \in Jobs /\ kind[p] \in Kinds
          BY <1>13 DEF Publish
        <5>2. PICK bytes \in {"exact", "wrong"} :
                final' = [final EXCEPT ![cur[p]][kind[p]] = bytes]
          BY <1>13, <2>2, <4>2 DEF Publish, spool, files
        <5> QED BY <5>1, <5>2, NestedUpdate DEF FinalBytes
      <4> QED BY <4>1, <4>2
    <3> QED BY <1>13, <2>2, <3>1 DEF Publish, Goto, db, spool, files, locks, Steps, FileSteps
  <2> QED BY <2>1, <2>2
<1>14. ASSUME NEW p \in Procs, Unlink(p) PROVE Typed'
  BY <1>14 DEF Unlink, SetPartial, db, locks, Steps, FileSteps, Kinds, PartialBytes
<1>15. ASSUME NEW p \in Procs, VerifyPair(p) PROVE Typed'
  <2>1. CASE Raise(p, "evidence")
    BY <2>1, TypedLeave DEF Raise, Results, Errors
  <2>2. CASE ~Raise(p, "evidence")
    BY <1>15, <2>2 DEF VerifyPair, Goto, db, spool, files, locks, Steps
  <2> QED BY <2>1, <2>2
<1>16. ASSUME NEW p \in Procs, Commit(p) PROVE Typed'
  <2>1. CASE Raise(p, "conflict")
    BY <2>1, TypedLeave DEF Raise, Results, Errors
  <2>2. CASE ~Raise(p, "conflict")
    <3>1. job' \in [Jobs -> JobStates] /\ row' \in [Jobs -> {"none", "exact", "other"}]
      <4>1. /\ job' = [job EXCEPT ![cur[p]] = "COMPLETE"]
            /\ row' = [row EXCEPT ![cur[p]] = "exact"]
        BY <1>16, <2>2 DEF Commit
      <4> QED BY <4>1 DEF JobStates
    <3> QED BY <1>16, <2>2, <3>1 DEF Commit, Goto, spool, files, locks, Steps
  <2> QED BY <2>1, <2>2
<1>17. ASSUME NEW p \in Procs, Confirm(p) PROVE Typed'
  BY <1>17, TypedLeave DEF Confirm, Raise, Results, Errors
<1>18. ASSUME NEW p \in Procs, Fail(p) PROVE Typed'
  <2>1. spent' \in [Events -> Nat]
    BY <1>18, TypedSpend DEF Fail, Events
  <2>2. ErrorsAt(pc[p]) \subseteq Results
    BY DEF ErrorsAt, Results, Errors
  <2> QED BY <1>18, <2>1, <2>2, TypedLeave DEF Fail
<1>19. ASSUME NEW p \in Procs, Crash(p) PROVE Typed'
  <2>1. spent' \in [Events -> Nat]
    BY <1>19, TypedSpend DEF Crash, Events
  <2> QED BY <1>19, <2>1, TypedLeave DEF Crash, Results
<1>20. ASSUME NEW o \in Others, EnterExclusive(o) \/ EnterShared(o) PROVE Typed'
  <2>1. spent' \in [Events -> Nat]
    BY <1>20, TypedSpend DEF EnterExclusive, EnterShared, Events
  <2> QED BY <1>20, <2>1 DEF EnterExclusive, EnterShared, db, spool, files, local
<1>21. ASSUME NEW o \in Others, Exit(o) PROVE Typed'
  BY <1>21 DEF Exit, db, spool, files, local
<1>22. ASSUME NEW o \in Others, NEW i \in Inputs, Register(o, i) PROVE Typed'
  BY <1>22 DEF Register, spool, files, locks, local
<1>23. ASSUME NEW j \in Jobs, NEW k \in Kinds, NEW bytes \in FinalBytes,
              AlterFinal(j, k, bytes)
       PROVE Typed'
  <2>1. spent' \in [Events -> Nat]
    BY <1>23, TypedSpend DEF AlterFinal, Events
  <2> QED BY <1>23, <2>1 DEF AlterFinal, db, locks, local
<1>24. ASSUME NEW i \in Inputs, AlterEvidence(i) PROVE Typed'
  <2>1. spent' \in [Events -> Nat]
    BY <1>24, TypedSpend DEF AlterEvidence, Events
  <2> QED BY <1>24, <2>1 DEF AlterEvidence, db, files, locks, local
<1>25. CASE UNCHANGED vars
  BY <1>25 DEF vars, db, spool, files, locks, local
<1> QED
  BY <1>1, <1>2, <1>3, <1>4, <1>5, <1>6, <1>7, <1>8, <1>9, <1>10, <1>11, <1>12, <1>13,
     <1>14, <1>15, <1>16, <1>17, <1>18, <1>19, <1>20, <1>21, <1>22, <1>23, <1>24, <1>25
     DEF Next, Proceed, Interrupt, Environment

\* Types hold in every reachable state of the processor.
THEOREM TypeCorrect == Spec => []TypeOK
<1>1. Typed => TypeOK
  BY DEF Typed
<1> QED BY <1>1, TypedInit, TypedStep, PTL DEF Spec

--------------------------------------------------------------------------------
(***************************************************************************)
(* The inductive invariant, in four parts that build on each other.        *)
(***************************************************************************)

\* The lock is held by exactly the calls past it, by one holder at a time, and
\* never together with a shared holder.
LockInv ==
  /\ \A p \in Procs : Critical(p) <=> p \in exclusive
  /\ \A a, b \in exclusive : a = b
  /\ exclusive # {} => shared = {}

\* What a call has learnt about the rows of its job; the lock keeps it true.
Learnt(p) ==
  /\ pc[p] \in {"eligible", "prepare"} => job[cur[p]] # "COMPLETE"
  /\ pc[p] \in FileSteps \cup {"verify", "commit"} => job[cur[p]] = "PREPARED"
  /\ pc[p] \in {"adopt", "confirm"} => job[cur[p]] = "COMPLETE"
  /\ pc[p] \in FileSteps \cup {"prepare", "verify", "commit"} => asserted[cur[p][1]] = 1

\* COMPLETE rows and derived rows agree, and calls know the rows they work on.
RowsInv ==
  /\ \A j \in Jobs : job[j] = "COMPLETE" <=> row[j] = "exact"
  /\ \A p \in Procs : Learnt(p)

StagingSteps == {"stage", "quarantine", "withdraw", "open", "write"}

\* The published report is there, unless somebody else removed it.
ReportOut(j) == final[j]["report"] # "absent" \/ j \in altered

\* How far a call has come with the files of its job.
Progress(p) ==
  LET mine == partial[cur[p]]
      full == mine[kind[p]] = "full"
  IN  /\ pc[p] \in StagingSteps =>
           /\ adopted[p] => kind[p] = "manifest" /\ ReportOut(cur[p])
           /\ kind[p] = "manifest" => adopted[p] \/ mine["report"] = "full"
           /\ spent["alter"] = 0 => final[cur[p]][kind[p]] = "absent"
                                      /\ final[cur[p]]["manifest"] = "absent"
      /\ pc[p] \in {"quarantine", "withdraw", "write"} => mine[kind[p]] \in {"empty", "half"}
      /\ pc[p] = "publish" => full
      /\ pc[p] = "publish" /\ kind[p] = "manifest" => ReportOut(cur[p])
      /\ pc[p] = "unlink" /\ kind[p] = "report" => ReportOut(cur[p])
      /\ pc[p] \in {"publish", "unlink"} /\ kind[p] = "report" => mine["manifest"] = "full"
      /\ pc[p] = "commit" => Pair(cur[p]) \/ cur[p] \in altered

FilesInv ==
  /\ \A p \in Procs : Progress(p)
  /\ \A j \in Jobs : job[j] = "COMPLETE" => Pair(j) \/ j \in altered
  /\ spent["alter"] = 0 => altered = {}
  /\ ReportBeforeManifest
  /\ FilesHaveAuthority
  /\ QuarantineIsTorn

\* What callers were told, and what the call that just committed may say.
ResultInv ==
  /\ \A p \in Procs :
       /\ pc[p] # "idle" => result[p] = "none"
       /\ result[p] \in {"created", "existing"} => cur[p] \in Jobs
  /\ \A p, q \in Procs :
       result[p] = "created" /\ pc[q] = "confirm" => cur[p] # cur[q]
  /\ ResultIsTrue

--------------------------------------------------------------------------------
(***************************************************************************)
(* The lock                                                                *)
(***************************************************************************)

\* Leaving the call gives up the lock.
LEMMA LockLeave ==
  ASSUME Typed, LockInv, NEW p \in Procs, NEW r, Leave(p, r)
  PROVE  LockInv'
  BY DEF Typed, TypeOK, LockInv, Leave, Critical

\* A step within the critical section keeps the lock.
LEMMA LockKept ==
  ASSUME Typed, LockInv, NEW p \in Procs, UNCHANGED locks,
         \A q \in Procs \ {p} : pc'[q] = pc[q],
         Critical(p)' <=> Critical(p)
  PROVE  LockInv'
  BY DEF LockInv, Critical, locks

\* Every step keeps the lock's discipline.
LEMMA LockStep == Typed /\ LockInv /\ [Next]_vars => LockInv'
<1> SUFFICES ASSUME Typed, LockInv, [Next]_vars PROVE LockInv'
  OBVIOUS
<1> USE DEF Typed, TypeOK
<1>1. ASSUME NEW p \in Procs, NEW j \in Jobs, Begin(p, j) PROVE LockInv'
  BY <1>1, LockKept DEF Begin, Critical
<1>2. ASSUME NEW p \in Procs, Acquire(p) PROVE LockInv'
  BY <1>2 DEF Acquire, LockFree, Goto, LockInv, Critical
<1>3. ASSUME NEW p \in Procs, Proceed(p), ~Acquire(p) PROVE LockInv'
  <2>1. CASE \E r \in Results : Leave(p, r)
    BY <2>1, LockLeave
  <2>2. CASE ~\E r \in Results : Leave(p, r)
    <3> DEFINE In(step) == step \notin {"idle", "lock"}
    <3>1. /\ UNCHANGED locks
          /\ In(pc[p])
          /\ \/ UNCHANGED pc
             \/ \E step \in Steps : In(step) /\ pc' = [pc EXCEPT ![p] = step]
      <4>1. \A r \in Results : ~Raise(p, r)
        BY <2>2 DEF Raise
      <4>2. {"none", "created", "existing", "busy"} \cup Errors \subseteq Results
        BY DEF Results
      <4>3. ~LockTimeout(p) /\ ~Confirm(p)
        BY <2>2, <4>1, <4>2 DEF LockTimeout, Confirm, Errors
      <4>4. CASE Gate(p) \/ Eligible(p) \/ Prepare(p)
        BY <4>1, <4>2, <4>4 DEF Gate, Eligible, Prepare, Goto, Errors, Steps, GateSteps,
           FileSteps, locks
      <4>5. CASE Inspect(p) \/ Stage(p)
        BY <4>1, <4>2, <4>5 DEF Inspect, Stage, Staged, Goto, Errors, Steps, FileSteps, locks
      <4>6. CASE Quarantine(p) \/ Withdraw(p) \/ Open(p)
        BY <4>6 DEF Quarantine, Withdraw, Open, Goto, Steps, FileSteps, locks
      <4>7. CASE Write(p)
        BY <4>7 DEF Write, Staged, local, Steps, FileSteps, locks
      <4>8. CASE Publish(p) \/ Unlink(p)
        BY <4>1, <4>2, <4>8 DEF Publish, Unlink, Goto, Errors, Steps, FileSteps, locks
      <4>9. CASE VerifyPair(p) \/ Commit(p)
        BY <4>1, <4>2, <4>9 DEF VerifyPair, Commit, Goto, Errors, Steps, locks
      <4> QED BY <1>3, <4>3, <4>4, <4>5, <4>6, <4>7, <4>8, <4>9 DEF Proceed
    <3> QED BY <3>1, LockKept DEF Critical
  <2> QED BY <2>1, <2>2
<1>4. ASSUME NEW p \in Procs, Interrupt(p) PROVE LockInv'
  BY <1>4, LockLeave DEF Interrupt, Fail, Crash
<1>5. ASSUME NEW o \in Others, EnterExclusive(o) \/ EnterShared(o) PROVE LockInv'
  BY <1>5, ConstantsAssumption DEF EnterExclusive, EnterShared, LockFree, LockInv, Critical,
     local
<1>6. ASSUME NEW o \in Others, Exit(o) PROVE LockInv'
  BY <1>6, ConstantsAssumption DEF Exit, LockInv, Critical, local
<1>7. CASE UNCHANGED <<locks, local>>
  BY <1>7 DEF LockInv, Critical, locks, local
<1>8. ASSUME Environment PROVE LockInv'
  BY <1>5, <1>6, <1>7, <1>8 DEF Environment, Register, AlterFinal, AlterEvidence
<1> QED BY <1>1, <1>2, <1>3, <1>4, <1>7, <1>8 DEF Next, vars

\* A call past the lock is alone, for any number of processes and commands.
THEOREM ExclusionHolds == Spec => []Exclusion
<1>1. Init => LockInv
  BY DEF Init, LockInv, Critical
<1>2. Typed /\ LockInv => Exclusion
  BY DEF Typed, TypeOK, LockInv, Exclusion
<1> QED BY <1>1, <1>2, TypedInit, TypedStep, LockStep, PTL DEF Spec

--------------------------------------------------------------------------------
(***************************************************************************)
(* The rows                                                                *)
(***************************************************************************)

\* While one call is past the lock, every other is before it.
LEMMA Apart ==
  ASSUME LockInv, NEW p \in Procs, Critical(p), NEW q \in Procs \ {p}
  PROVE  pc[q] \in {"idle", "lock"}
  BY DEF LockInv, Critical

\* Outside the lock a call knows nothing.
LEMMA Ignorant ==
  ASSUME NEW p \in Procs, pc[p] \in {"idle", "lock"}
  PROVE  Learnt(p) /\ Progress(p)
  BY DEF Learnt, Progress, FileSteps, StagingSteps

\* A step that leaves the rows alone keeps the others' knowledge.
LEMMA RowsMove ==
  ASSUME RowsInv, NEW p \in Procs, UNCHANGED <<db, cur>>,
         \A q \in Procs \ {p} : pc'[q] = pc[q], Learnt(p)'
  PROVE  RowsInv'
  BY DEF RowsInv, Learnt, db

\* Leaving the call with the rows unchanged.
LEMMA RowsLeave ==
  ASSUME Typed, RowsInv, NEW p \in Procs, NEW r, Leave(p, r), UNCHANGED db
  PROVE  RowsInv'
<1>1. Learnt(p)'
  BY DEF Leave, Learnt, FileSteps, Typed, TypeOK
<1> QED BY <1>1, RowsMove DEF Leave, Typed, TypeOK

\* Every step keeps the rows in agreement.
LEMMA RowsStep == Typed /\ LockInv /\ RowsInv /\ [Next]_vars => RowsInv'
<1> SUFFICES ASSUME Typed, LockInv, RowsInv, [Next]_vars PROVE RowsInv'
  OBVIOUS
<1> USE DEF Typed, TypeOK
<1>1. ASSUME NEW p \in Procs, NEW j \in Jobs, Begin(p, j) PROVE RowsInv'
  BY <1>1 DEF Begin, RowsInv, Learnt, FileSteps, db
<1>2. ASSUME NEW p \in Procs, Acquire(p) PROVE RowsInv'
  BY <1>2, RowsMove DEF Acquire, Goto, Learnt, FileSteps
<1>3. ASSUME NEW p \in Procs, LockTimeout(p) PROVE RowsInv'
  BY <1>3, RowsLeave DEF LockTimeout, Raise
<1>4. ASSUME NEW p \in Procs, Gate(p) PROVE RowsInv'
  <2>1. CASE Raise(p, "evidence")
    BY <2>1, RowsLeave DEF Raise
  <2>2. CASE ~Raise(p, "evidence")
    <3>1. Learnt(p)'
      BY <1>4, <2>2 DEF Gate, Goto, Learnt, FileSteps, db
    <3> QED BY <1>4, <2>2, <3>1, RowsMove DEF Gate, Goto
  <2> QED BY <2>1, <2>2
<1>5. ASSUME NEW p \in Procs, Eligible(p) PROVE RowsInv'
  <2>1. CASE \E error \in {"evidence", "conflict"} : Raise(p, error)
    BY <2>1, RowsLeave DEF Raise
  <2>2. CASE asserted[cur[p][1]] = 1 /\ Goto(p, "prepare") /\ UNCHANGED db
    <3>1. pc[p] = "eligible" /\ Learnt(p)
      BY <1>5 DEF Eligible, RowsInv
    <3>2. Learnt(p)'
      BY <2>2, <3>1 DEF Goto, Learnt, FileSteps, db
    <3> QED BY <2>2, <3>2, RowsMove DEF Goto
  <2> QED BY <1>5, <2>1, <2>2 DEF Eligible
<1>6. ASSUME NEW p \in Procs, Prepare(p) PROVE RowsInv'
  <2>1. pc[p] = "prepare" /\ Learnt(p) /\ cur[p] \in Jobs
    BY <1>6 DEF Prepare, RowsInv, Engaged
  <2>2. CASE Raise(p, "conflict")
    BY <2>2, RowsLeave DEF Raise
  <2>3. CASE job[cur[p]] = "MISSING" /\ ~Raise(p, "conflict")
    <3>1. /\ job' = [job EXCEPT ![cur[p]] = "PREPARED"]
          /\ Goto(p, "inspect")
          /\ UNCHANGED <<row, asserted>>
      BY <1>6, <2>3 DEF Prepare
    <3>2. \A j \in Jobs : job'[j] = "COMPLETE" <=> row'[j] = "exact"
      BY <2>1, <2>3, <3>1 DEF RowsInv
    <3>3. Learnt(p)'
      BY <2>1, <3>1 DEF Learnt, Goto, FileSteps
    <3>4. \A q \in Procs \ {p} : Learnt(q)'
      BY <2>1, <3>1, Apart DEF Learnt, Goto, FileSteps, Critical
    <3> QED BY <3>2, <3>3, <3>4 DEF RowsInv
  <2>4. CASE job[cur[p]] = "PREPARED" /\ ~Raise(p, "conflict")
    <3>1. Goto(p, "inspect") /\ UNCHANGED db
      BY <1>6, <2>4 DEF Prepare
    <3>2. Learnt(p)'
      BY <2>1, <2>4, <3>1 DEF Learnt, Goto, FileSteps, db
    <3> QED BY <3>1, <3>2, RowsMove DEF Goto
  <2> QED BY <1>6, <2>1, <2>2, <2>3, <2>4 DEF Prepare, Learnt
<1>7. ASSUME NEW p \in Procs, UNCHANGED <<db, cur>>, Learnt(p), pc[p] \in FileSteps,
             \E step \in FileSteps \cup {"verify"} : pc' = [pc EXCEPT ![p] = step]
      PROVE  RowsInv'
  <2>1. Learnt(p)'
    BY <1>7 DEF Learnt, FileSteps, db
  <2> QED BY <1>7, <2>1, RowsMove
<1>8. ASSUME NEW p \in Procs, Inspect(p) \/ Publish(p) PROVE RowsInv'
  <2>1. CASE Raise(p, "evidence")
    BY <2>1, RowsLeave DEF Raise
  <2>2. CASE ~Raise(p, "evidence")
    BY <1>7, <1>8, <2>2 DEF Inspect, Publish, Goto, FileSteps, db, RowsInv
  <2> QED BY <2>1, <2>2
<1>9. ASSUME NEW p \in Procs, Stage(p) \/ Quarantine(p) \/ Withdraw(p) \/ Open(p) \/ Unlink(p)
      PROVE  RowsInv'
  BY <1>7, <1>9 DEF Stage, Staged, Quarantine, Withdraw, Open, Unlink, Goto, FileSteps, db,
     RowsInv
<1>10. ASSUME NEW p \in Procs, Write(p) PROVE RowsInv'
  <2>1. CASE UNCHANGED local
    BY <1>10, <2>1 DEF Write, local, RowsInv, Learnt, db
  <2>2. CASE Staged(p)
    BY <1>7, <1>10, <2>2 DEF Write, Staged, FileSteps, RowsInv
  <2> QED BY <1>10, <2>1, <2>2 DEF Write
<1>11. ASSUME NEW p \in Procs, VerifyPair(p) PROVE RowsInv'
  <2>1. CASE Raise(p, "evidence")
    BY <2>1, RowsLeave DEF Raise
  <2>2. CASE ~Raise(p, "evidence")
    <3>1. Learnt(p)'
      BY <1>11, <2>2 DEF VerifyPair, Goto, Learnt, FileSteps, db, RowsInv
    <3> QED BY <1>11, <2>2, <3>1, RowsMove DEF VerifyPair, Goto
  <2> QED BY <2>1, <2>2
<1>12. ASSUME NEW p \in Procs, Commit(p) PROVE RowsInv'
  <2>1. pc[p] = "commit" /\ Learnt(p) /\ cur[p] \in Jobs
    BY <1>12 DEF Commit, RowsInv, Engaged
  <2>2. CASE Raise(p, "conflict")
    BY <2>2, RowsLeave DEF Raise
  <2>3. CASE ~Raise(p, "conflict")
    <3>1. /\ job' = [job EXCEPT ![cur[p]] = "COMPLETE"]
          /\ row' = [row EXCEPT ![cur[p]] = "exact"]
          /\ Goto(p, "confirm")
          /\ UNCHANGED asserted
      BY <1>12, <2>3 DEF Commit
    <3>2. \A j \in Jobs : job'[j] = "COMPLETE" <=> row'[j] = "exact"
      BY <2>1, <3>1 DEF RowsInv
    <3>3. Learnt(p)'
      BY <2>1, <3>1 DEF Learnt, Goto, FileSteps
    <3>4. \A q \in Procs \ {p} : Learnt(q)'
      BY <2>1, <3>1, Apart DEF Learnt, Goto, FileSteps, Critical
    <3> QED BY <3>2, <3>3, <3>4 DEF RowsInv
  <2> QED BY <2>2, <2>3
<1>13. ASSUME NEW p \in Procs, Confirm(p) PROVE RowsInv'
  BY <1>13, RowsLeave DEF Confirm, Raise
<1>14. ASSUME NEW p \in Procs, Interrupt(p) PROVE RowsInv'
  BY <1>14, RowsLeave DEF Interrupt, Fail, Crash
<1>15. ASSUME NEW o \in Others, NEW i \in Inputs, Register(o, i) PROVE RowsInv'
  <2>1. \A p \in Procs : pc[p] \in {"idle", "lock"}
    BY <1>15, ConstantsAssumption DEF Register, LockInv, Critical
  <2> QED BY <1>15, <2>1 DEF Register, RowsInv, Learnt, FileSteps, local
<1>16. CASE UNCHANGED <<db, local>>
  BY <1>16 DEF RowsInv, Learnt, db, local
<1>17. ASSUME Environment PROVE RowsInv'
  BY <1>15, <1>16, <1>17 DEF Environment, EnterExclusive, EnterShared, Exit, AlterFinal,
     AlterEvidence
<1> QED
  BY <1>1, <1>2, <1>3, <1>4, <1>5, <1>6, <1>8, <1>9, <1>10, <1>11, <1>12, <1>13, <1>14,
     <1>16, <1>17 DEF Next, Proceed, vars

\* One step moves rows MISSING -> PREPARED -> COMPLETE only, under one assertion.
LEMMA JobMoves == Typed /\ RowsInv /\ [Next]_vars => JobStep
<1> SUFFICES ASSUME Typed, RowsInv, [Next]_vars PROVE JobStep
  OBVIOUS
<1>1. ASSUME NEW p \in Procs, Prepare(p) PROVE JobStep
  BY <1>1 DEF Prepare, Raise, JobStep, RowsInv, Learnt, Typed, TypeOK, Engaged, db
<1>2. ASSUME NEW p \in Procs, Commit(p) PROVE JobStep
  BY <1>2 DEF Commit, Raise, JobStep, RowsInv, Learnt, Typed, TypeOK, Engaged, db
<1>3. CASE UNCHANGED job
  BY <1>3 DEF JobStep
<1>4. ASSUME NEW p \in Procs, Proceed(p), ~Prepare(p), ~Commit(p) PROVE UNCHANGED job
  BY <1>4 DEF Proceed, Acquire, LockTimeout, Gate, Eligible, Inspect, Stage, Quarantine,
     Withdraw, Open, Write, Publish, Unlink, VerifyPair, Confirm, Raise, db
<1>5. ASSUME Environment PROVE UNCHANGED job
  BY <1>5 DEF Environment, EnterExclusive, EnterShared, Exit, Register, AlterFinal,
     AlterEvidence, db
<1> QED
  BY <1>1, <1>2, <1>3, <1>4, <1>5 DEF Next, Begin, Interrupt, Fail, Crash, vars, db

\* Rows move MISSING -> PREPARED -> COMPLETE only, under one assertion.
THEOREM ProgressIsUnambiguous == Spec => UnambiguousProgress
<1>1. Init => LockInv /\ RowsInv
  BY DEF Init, LockInv, RowsInv, Learnt, Critical, FileSteps
<1> QED
  BY <1>1, JobMoves, TypedInit, TypedStep, LockStep, RowsStep, PTL DEF Spec, UnambiguousProgress

--------------------------------------------------------------------------------
(***************************************************************************)
(* The files                                                               *)
(***************************************************************************)

\* A step of one process that changes no file and no job row.
LEMMA FilesMove ==
  ASSUME FilesInv, NEW p \in Procs,
         UNCHANGED <<job, files, altered, cur>>, spent'["alter"] = spent["alter"],
         \A q \in Procs \ {p} : /\ pc'[q] = pc[q]
                                /\ kind'[q] = kind[q]
                                /\ adopted'[q] = adopted[q],
         Progress(p)'
  PROVE  FilesInv'
<1>1. \A q \in Procs \ {p} : Progress(q)'
  BY DEF FilesInv, Progress, ReportOut, Pair, files
<1> QED BY <1>1 DEF FilesInv, Pair, ReportBeforeManifest, FilesHaveAuthority, QuarantineIsTorn, files

\* Leaving the call with files and rows unchanged.
LEMMA FilesLeave ==
  ASSUME Typed, FilesInv, NEW p \in Procs, NEW r, Leave(p, r),
         UNCHANGED <<job, files, altered>>, spent'["alter"] = spent["alter"]
  PROVE  FilesInv'
<1>1. Progress(p)'
  BY DEF Leave, Progress, StagingSteps, Typed, TypeOK
<1> QED BY <1>1, FilesMove DEF Leave, Typed, TypeOK

\* A call alone in the spool is the only one with progress to account for.
LEMMA ProgressAlone ==
  ASSUME LockInv, NEW p \in Procs, Critical(p),
         \A q \in Procs \ {p} : pc'[q] = pc[q], Progress(p)'
  PROVE  \A q \in Procs : Progress(q)'
<1>1. \A q \in Procs \ {p} : pc'[q] \in {"idle", "lock"}
  BY Apart
<1> QED BY <1>1 DEF Progress, StagingSteps

\* What SetPartial does to the partials of the job.
LEMMA SetPartialEffect ==
  ASSUME Typed, NEW p \in Procs, pc[p] # "idle", NEW bytes \in PartialBytes,
         SetPartial(p, bytes)
  PROVE  /\ partial'[cur[p]][kind[p]] = bytes
         /\ \A j \in Jobs, k \in Kinds :
              <<j, k>> # <<cur[p], kind[p]>> => partial'[j][k] = partial[j][k]
<1>1. cur[p] \in Jobs /\ kind[p] \in Kinds /\ partial \in [Jobs -> [Kinds -> PartialBytes]]
  BY DEF Typed, TypeOK, Engaged
<1> QED BY <1>1, NestedUpdate DEF SetPartial

\* A step that changes one partial of the job of the call.
LEMMA FilesWrite ==
  ASSUME Typed, LockInv, RowsInv, FilesInv, NEW p \in Procs, pc[p] \in FileSteps,
         NEW bytes \in PartialBytes, SetPartial(p, bytes),
         UNCHANGED <<job, final, quarantine, altered, cur>>, spent'["alter"] = spent["alter"],
         \A q \in Procs \ {p} : pc'[q] = pc[q], Progress(p)',
         bytes \in {"absent", "full"} \/ spent["alter"] # 0 \/ final[cur[p]][kind[p]] = "absent"
  PROVE  FilesInv'
<1>1. Critical(p) /\ pc[p] # "idle" /\ job[cur[p]] = "PREPARED"
  BY DEF Critical, FileSteps, RowsInv, Learnt
<1>2. \A q \in Procs : Progress(q)'
  BY <1>1, ProgressAlone
<1>3. FilesHaveAuthority'
  BY <1>1, SetPartialEffect DEF FilesInv, FilesHaveAuthority
<1>4. QuarantineIsTorn'
  <2>1. ASSUME NEW j \in Jobs, NEW k \in Kinds, spent["alter"] = 0, final[j][k] # "absent"
        PROVE  partial'[j][k] \in {"absent", "full"}
    <3>1. CASE j = cur[p] /\ k = kind[p]
      BY <1>1, <2>1, <3>1, SetPartialEffect
    <3>2. CASE ~(j = cur[p] /\ k = kind[p])
      <4>1. partial'[j][k] = partial[j][k]
        BY <1>1, <3>2, SetPartialEffect
      <4> QED BY <2>1, <4>1 DEF FilesInv, QuarantineIsTorn
    <3> QED BY <3>1, <3>2
  <2> QED BY <2>1 DEF FilesInv, QuarantineIsTorn
<1> QED BY <1>2, <1>3, <1>4 DEF FilesInv, ReportBeforeManifest, Pair

\* Between the gate and the end of the call, the steps that work on files.
LEMMA FilesStaging ==
  ASSUME Typed, LockInv, RowsInv, FilesInv, NEW p \in Procs,
         Inspect(p) \/ Stage(p) \/ Quarantine(p) \/ Withdraw(p) \/ Open(p)
  PROVE  FilesInv'
<1> USE DEF Typed, TypeOK
<1>0. /\ pc[p] \in FileSteps /\ Critical(p) /\ job[cur[p]] = "PREPARED"
      /\ cur[p] \in Jobs /\ kind[p] \in Kinds
      /\ Progress(p)
  BY DEF Inspect, Stage, Quarantine, Withdraw, Open, FileSteps, Critical, RowsInv, Learnt,
     Engaged, FilesInv
<1>1. CASE Inspect(p)
  <2>1. CASE Raise(p, "evidence")
    BY <2>1, FilesLeave DEF Raise, db, spool
  <2>2. CASE Goto(p, "verify") /\ UNCHANGED <<db, spool, locks, altered, spent>>
    <3>1. Progress(p)'
      BY <2>2, <1>0 DEF Goto, Progress, StagingSteps
    <3> QED BY <2>2, <3>1, FilesMove DEF Goto, db, spool
  <2>3. CASE ~Raise(p, "evidence") /\ ~Goto(p, "verify")
    <3>1. /\ UNCHANGED <<db, spool, locks, altered, spent, cur>>
          /\ final[cur[p]]["manifest"] = "absent"
          /\ pc' = [pc EXCEPT ![p] = "stage"]
          /\ adopted' = [adopted EXCEPT ![p] = (final[cur[p]]["report"] = "exact")]
          /\ kind' = [kind EXCEPT ![p] =
                        IF final[cur[p]]["report"] = "exact" THEN "manifest" ELSE "report"]
          /\ final[cur[p]]["report"] # "wrong"
      BY <1>1, <2>3 DEF Inspect
    <3>2. final[cur[p]]["report"] \in {"exact", "absent"}
      BY <1>0, <3>1 DEF FinalBytes, Kinds
    <3>3. Progress(p)'
      BY <1>0, <3>1, <3>2 DEF Progress, StagingSteps, ReportOut, spool, files
    <3> QED BY <3>1, <3>3, FilesMove DEF db, spool
  <2> QED BY <1>1, <2>1, <2>2, <2>3 DEF Inspect
<1>2. CASE Stage(p)
  <2>1. CASE Staged(p)
    <3>0. /\ pc[p] = "stage" /\ partial[cur[p]][kind[p]] = "full"
          /\ UNCHANGED <<partial, final, altered, spent, cur, adopted>>
      BY <1>2, <2>1 DEF Stage, Staged, Goto, spool, files
    <3>1. Progress(p)'
      <4>1. CASE kind[p] = "report"
        <5>1. pc'[p] = "stage" /\ kind'[p] = "manifest" /\ ~adopted[p]
          BY <1>0, <2>1, <3>0, <4>1 DEF Staged, Progress, StagingSteps
        <5> QED BY <1>0, <3>0, <4>1, <5>1 DEF Progress, StagingSteps
      <4>2. CASE kind[p] = "manifest"
        <5>1. pc'[p] = "publish" /\ kind'[p] = IF adopted[p] THEN "manifest" ELSE "report"
          BY <2>1, <4>2 DEF Staged
        <5> QED BY <1>0, <3>0, <4>2, <5>1 DEF Progress, StagingSteps, ReportOut
      <4> QED BY <1>0, <4>1, <4>2 DEF Kinds
    <3> QED BY <1>2, <2>1, <3>1, FilesMove DEF Stage, Staged, db, spool
  <2>2. CASE ~Staged(p)
    <3>1. PICK step \in {"open", "quarantine"} :
            /\ Goto(p, step)
            /\ step = "quarantine" => partial[cur[p]][kind[p]] \in {"empty", "half"}
      BY <1>2, <2>2 DEF Stage
    <3>2. Progress(p)'
      BY <1>0, <1>2, <3>1 DEF Stage, Goto, Progress, StagingSteps, ReportOut, spool, files
    <3> QED BY <1>2, <3>1, <3>2, FilesMove DEF Stage, Goto, db, spool
  <2> QED BY <2>1, <2>2
<1>3. ASSUME SetPartial(p, "absent"), Goto(p, "open"), pc[p] \in {"quarantine", "withdraw"},
             UNCHANGED <<db, final, quarantine, altered, spent>>
      PROVE  FilesInv'
  <2>1. Progress(p)'
    BY <1>0, <1>3, SetPartialEffect DEF Goto, Progress, StagingSteps, ReportOut, PartialBytes,
       Kinds
  <2> QED BY <1>0, <1>3, <2>1, FilesWrite DEF Goto, PartialBytes, db
<1>4. CASE Withdraw(p)
  BY <1>3, <1>4 DEF Withdraw
<1>5. CASE Quarantine(p)
  <2> DEFINE torn == <<kind[p], partial[cur[p]][kind[p]]>>
  <2>1. CASE torn \in quarantine[cur[p]]
    BY <1>3, <1>5, <2>1 DEF Quarantine
  <2>2. CASE torn \notin quarantine[cur[p]]
    <3>1. /\ quarantine' = [quarantine EXCEPT ![cur[p]] = @ \cup {torn}]
          /\ Goto(p, "withdraw")
          /\ UNCHANGED <<db, partial, final, altered, spent>>
      BY <1>5, <2>2 DEF Quarantine
    <3>2. partial[cur[p]][kind[p]] # "full"
      BY <1>0, <1>5 DEF Quarantine, Progress
    <3>3. Progress(p)'
      BY <1>0, <1>5, <3>1 DEF Quarantine, Goto, Progress, StagingSteps, ReportOut
    <3>4. \A q \in Procs : Progress(q)'
      BY <1>0, <3>1, <3>3, ProgressAlone DEF Goto
    <3>5. \A j \in Jobs : quarantine'[j] = quarantine[j] \/ (j = cur[p] /\ quarantine'[j] = quarantine[j] \cup {torn})
      BY <1>0, <3>1
    <3>6. FilesHaveAuthority'
      BY <1>0, <3>1, <3>5 DEF FilesInv, FilesHaveAuthority, db
    <3>7. QuarantineIsTorn'
      <4>1. \A j \in Jobs, k \in Kinds : <<k, "full">> \notin quarantine'[j]
        <5> SUFFICES ASSUME NEW j \in Jobs, NEW k \in Kinds PROVE <<k, "full">> \notin quarantine'[j]
          OBVIOUS
        <5>1. <<k, "full">> \notin quarantine[j]
          BY DEF FilesInv, QuarantineIsTorn
        <5>2. <<k, "full">> # torn
          BY <3>2
        <5> QED BY <3>5, <5>1, <5>2
      <4> QED BY <3>1, <4>1 DEF FilesInv, QuarantineIsTorn
    <3> QED BY <3>1, <3>4, <3>6, <3>7 DEF FilesInv, ReportBeforeManifest, Pair, db
  <2> QED BY <2>1, <2>2
<1>6. CASE Open(p)
  <2>1. spent["alter"] = 0 => final[cur[p]][kind[p]] = "absent"
    BY <1>0, <1>6 DEF Open, Progress, StagingSteps
  <2>2. Progress(p)'
    BY <1>0, <1>6, SetPartialEffect DEF Open, Goto, Progress, StagingSteps, ReportOut,
       PartialBytes, Kinds
  <2> QED BY <1>0, <1>6, <2>1, <2>2, FilesWrite DEF Open, Goto, PartialBytes, db
<1> QED BY <1>1, <1>2, <1>4, <1>5, <1>6

\* The steps that complete a partial, publish it and remove it.
LEMMA FilesPublishing ==
  ASSUME Typed, LockInv, RowsInv, FilesInv, NEW p \in Procs,
         Write(p) \/ Publish(p) \/ Unlink(p)
  PROVE  FilesInv'
<1> USE DEF Typed, TypeOK
<1>0. /\ pc[p] \in FileSteps /\ Critical(p) /\ job[cur[p]] = "PREPARED"
      /\ cur[p] \in Jobs /\ kind[p] \in Kinds
      /\ Progress(p)
  BY DEF Write, Publish, Unlink, FileSteps, Critical, RowsInv, Learnt, Engaged, FilesInv
<1>1. CASE Write(p)
  <2>1. /\ spent["alter"] = 0 => final[cur[p]][kind[p]] = "absent"
        /\ pc[p] = "write"
        /\ UNCHANGED <<job, final, quarantine, altered, spent, cur, adopted>>
    BY <1>0, <1>1 DEF Write, Staged, local, Progress, StagingSteps, db
  <2>2. CASE UNCHANGED local
    <3>1. SetPartial(p, "half") /\ kind[p] = "report"
      BY <1>1, <2>1, <2>2 DEF Write, Staged, local
    <3>2. Progress(p)'
      BY <1>0, <2>1, <2>2, <3>1, SetPartialEffect DEF local, Progress, StagingSteps, ReportOut,
         PartialBytes, Kinds
    <3> QED BY <1>0, <2>1, <2>2, <3>1, <3>2, FilesWrite DEF local, PartialBytes
  <2>3. CASE SetPartial(p, "full") /\ Staged(p)
    <3>1. \A k \in Kinds :
            partial'[cur[p]][k] = IF k = kind[p] THEN "full" ELSE partial[cur[p]][k]
      BY <1>0, <2>1, <2>3, SetPartialEffect DEF PartialBytes
    <3>2. Progress(p)'
      <4>1. CASE kind[p] = "report"
        <5>1. pc'[p] = "stage" /\ kind'[p] = "manifest" /\ ~adopted[p]
          BY <1>0, <2>1, <2>3, <4>1 DEF Staged, Progress, StagingSteps
        <5> QED BY <1>0, <2>1, <3>1, <4>1, <5>1 DEF Progress, StagingSteps, Kinds
      <4>2. CASE kind[p] = "manifest"
        <5>1. pc'[p] = "publish" /\ kind'[p] = IF adopted[p] THEN "manifest" ELSE "report"
          BY <2>1, <2>3, <4>2 DEF Staged
        <5> QED BY <1>0, <2>1, <3>1, <4>2, <5>1 DEF Progress, StagingSteps, ReportOut, Kinds
      <4> QED BY <1>0, <4>1, <4>2 DEF Kinds
    <3> QED BY <1>0, <2>1, <2>3, <3>2, FilesWrite DEF Staged, PartialBytes
  <2> QED BY <1>1, <2>2, <2>3 DEF Write
<1>2. CASE Publish(p)
  <2>1. CASE Raise(p, "evidence")
    BY <2>1, FilesLeave DEF Raise, db, spool
  <2>2. CASE ~Raise(p, "evidence") /\ final[cur[p]][kind[p]] # "absent"
    <3>1. Goto(p, "unlink") /\ UNCHANGED <<db, spool, locks, altered, spent>>
      BY <1>2, <2>2 DEF Publish
    <3>2. Progress(p)'
      BY <1>0, <1>2, <2>2, <3>1 DEF Publish, Goto, Progress, StagingSteps, ReportOut, spool,
         files
    <3> QED BY <3>1, <3>2, FilesMove DEF Goto, db, spool
  <2>3. CASE final[cur[p]][kind[p]] = "absent"
    <3>1. /\ partial[cur[p]][kind[p]] = "full" /\ pc[p] = "publish"
          /\ kind[p] = "manifest" => ReportOut(cur[p])
          /\ kind[p] = "report" => partial[cur[p]]["manifest"] = "full"
      BY <1>0, <1>2 DEF Publish, Progress
    <3>2. /\ final' = [final EXCEPT ![cur[p]][kind[p]] = "exact"]
          /\ Goto(p, "unlink")
          /\ UNCHANGED <<db, evidence, partial, quarantine, locks, altered, spent>>
      BY <1>2, <2>3, <3>1 DEF Publish
    <3>3. /\ final'[cur[p]][kind[p]] = "exact"
          /\ \A j \in Jobs, k \in Kinds :
               <<j, k>> # <<cur[p], kind[p]>> => final'[j][k] = final[j][k]
      BY <1>0, <3>2, NestedUpdate DEF FinalBytes
    <3>4. Progress(p)'
      BY <1>0, <3>1, <3>2, <3>3 DEF Goto, Progress, StagingSteps, ReportOut
    <3>5. \A q \in Procs : Progress(q)'
      BY <1>0, <3>2, <3>4, ProgressAlone DEF Goto
    <3>6. FilesHaveAuthority'
      BY <1>0, <3>2, <3>3 DEF FilesInv, FilesHaveAuthority, db
    <3>7. QuarantineIsTorn'
      <4>1. ASSUME NEW j \in Jobs, NEW k \in Kinds, spent["alter"] = 0, final'[j][k] # "absent"
            PROVE  partial[j][k] \in {"absent", "full"}
        <5>1. CASE j = cur[p] /\ k = kind[p]
          BY <3>1, <5>1
        <5>2. CASE ~(j = cur[p] /\ k = kind[p])
          <6>1. final[j][k] # "absent"
            BY <3>3, <4>1, <5>2
          <6> QED BY <4>1, <6>1 DEF FilesInv, QuarantineIsTorn
        <5> QED BY <5>1, <5>2
      <4> QED BY <3>2, <4>1 DEF FilesInv, QuarantineIsTorn
    <3>8. ReportBeforeManifest'
      <4> SUFFICES ASSUME NEW j \in Jobs, j \notin altered
                   PROVE  /\ final'[j]["manifest"] # "absent" => final'[j]["report"] # "absent"
                          /\ \A k \in Kinds : final'[j][k] # "wrong"
        BY <3>2 DEF ReportBeforeManifest
      <4>1. /\ final[j]["manifest"] # "absent" => final[j]["report"] # "absent"
            /\ \A k \in Kinds : final[j][k] # "wrong"
        BY DEF FilesInv, ReportBeforeManifest
      <4>2. CASE j # cur[p]
        BY <3>3, <4>1, <4>2 DEF Kinds
      <4>3. CASE j = cur[p]
        BY <1>0, <3>1, <3>3, <4>1, <4>3 DEF ReportOut, Kinds
      <4> QED BY <4>2, <4>3
    <3>9. \A j \in Jobs : job'[j] = "COMPLETE" => Pair(j)' \/ j \in altered'
      BY <1>0, <3>2, <3>3 DEF FilesInv, Pair, db
    <3> QED BY <3>2, <3>5, <3>6, <3>7, <3>8, <3>9 DEF FilesInv
  <2> QED BY <2>1, <2>2, <2>3
<1>3. CASE Unlink(p)
  <2>1. /\ SetPartial(p, "absent") /\ pc[p] = "unlink"
        /\ pc' = [pc EXCEPT ![p] = IF kind[p] = "report" THEN "publish" ELSE "verify"]
        /\ kind' = [kind EXCEPT ![p] = "manifest"]
        /\ UNCHANGED <<job, final, quarantine, altered, spent, cur>>
    BY <1>3 DEF Unlink, db
  <2>2. Progress(p)'
    BY <1>0, <2>1, SetPartialEffect DEF Progress, StagingSteps, ReportOut, PartialBytes, Kinds
  <2> QED BY <1>0, <2>1, <2>2, FilesWrite DEF PartialBytes
<1> QED BY <1>1, <1>2, <1>3

\* Interruptions and visits are not changes of files.
LEMMA NotAltered ==
  ASSUME Typed, NEW e \in {"fault", "visit"}, Spend(e)
  PROVE  spent'["alter"] = spent["alter"]
  BY DEF Typed, TypeOK, Spend, Events

\* Every step keeps the files in order.
LEMMA FilesStep == Typed /\ LockInv /\ RowsInv /\ FilesInv /\ [Next]_vars => FilesInv'
<1> SUFFICES ASSUME Typed, LockInv, RowsInv, FilesInv, [Next]_vars PROVE FilesInv'
  OBVIOUS
<1> USE DEF Typed, TypeOK
<1>1. ASSUME NEW p \in Procs, NEW j \in Jobs, Begin(p, j) PROVE FilesInv'
  <2>1. pc[p] = "idle" /\ pc'[p] = "lock"
    BY <1>1 DEF Begin
  <2>2. \A q \in Procs \ {p} : cur'[q] = cur[q] /\ pc'[q] = pc[q]
    BY <1>1 DEF Begin
  <2>3. Progress(p)'
    BY <2>1 DEF Progress, StagingSteps
  <2>4. \A q \in Procs \ {p} : Progress(q)'
    BY <1>1, <2>2 DEF Begin, Progress, ReportOut, Pair, spool, files, FilesInv
  <2> QED BY <1>1, <2>3, <2>4 DEF Begin, FilesInv, Pair, ReportBeforeManifest,
       FilesHaveAuthority, QuarantineIsTorn, db, spool, files
<1>2. ASSUME NEW p \in Procs, pc'[p] \in {"gate", "eligible", "prepare", "adopt", "confirm", "inspect"},
             pc' = [pc EXCEPT ![p] = pc'[p]],
             UNCHANGED <<job, files, altered, spent, cur, kind, adopted>>
      PROVE  FilesInv'
  <2>1. Progress(p)'
    BY <1>2 DEF Progress, StagingSteps
  <2> QED BY <1>2, <2>1, FilesMove
<1>3. ASSUME NEW p \in Procs, Acquire(p) \/ LockTimeout(p) \/ Gate(p) PROVE FilesInv'
  <2>1. CASE \E r \in Results : Raise(p, r)
    BY <2>1, FilesLeave DEF Raise, db, spool
  <2>2. CASE ~\E r \in Results : Raise(p, r)
    BY <1>2, <1>3, <2>2 DEF Acquire, LockTimeout, Gate, Goto, Results, Errors, db, spool
  <2> QED BY <2>1, <2>2
<1>4. ASSUME NEW p \in Procs, Eligible(p) PROVE FilesInv'
  <2>1. CASE \E r \in Results : Raise(p, r)
    BY <2>1, FilesLeave DEF Raise, db, spool
  <2>2. CASE ~\E r \in Results : Raise(p, r)
    BY <1>2, <1>4, <2>2 DEF Eligible, Goto, Results, Errors, db, spool
  <2> QED BY <2>1, <2>2
<1>5. ASSUME NEW p \in Procs, Prepare(p) PROVE FilesInv'
  <2>1. CASE Raise(p, "conflict")
    BY <2>1, FilesLeave DEF Raise, db, spool
  <2>2. CASE UNCHANGED job /\ ~Raise(p, "conflict")
    BY <1>2, <1>5, <2>2 DEF Prepare, Goto, db, spool
  <2>3. CASE job[cur[p]] = "MISSING" /\ ~Raise(p, "conflict")
    <3>1. /\ job' = [job EXCEPT ![cur[p]] = "PREPARED"]
          /\ pc[p] = "prepare" /\ pc' = [pc EXCEPT ![p] = "inspect"]
          /\ UNCHANGED <<files, altered, spent, cur, kind, adopted>>
      BY <1>5, <2>3 DEF Prepare, Goto, spool
    <3>2. Progress(p)'
      BY <3>1 DEF Progress, StagingSteps
    <3>3. \A q \in Procs : Progress(q)'
      BY <3>1, <3>2, ProgressAlone DEF Critical
    <3>4. cur[p] \in Jobs
      BY <3>1 DEF Engaged
    <3>5. \A j \in Jobs : /\ job'[j] = "COMPLETE" => job[j] = "COMPLETE"
                          /\ job[j] \in {"PREPARED", "COMPLETE"} => job'[j] \in {"PREPARED", "COMPLETE"}
      BY <2>3, <3>1, <3>4
    <3> QED BY <3>1, <3>3, <3>5 DEF FilesInv, Pair, ReportBeforeManifest, FilesHaveAuthority,
         QuarantineIsTorn, files
  <2> QED BY <1>5, <2>1, <2>2, <2>3 DEF Prepare, db
<1>6. ASSUME NEW p \in Procs, VerifyPair(p) PROVE FilesInv'
  <2>1. CASE Raise(p, "evidence")
    BY <2>1, FilesLeave DEF Raise, db, spool
  <2>2. CASE ~Raise(p, "evidence")
    <3>1. /\ Pair(cur[p]) /\ pc[p] = "verify" /\ cur[p] \in Jobs
          /\ altered' = altered \ {cur[p]}
          /\ pc' = [pc EXCEPT ![p] = "commit"]
          /\ UNCHANGED <<job, files, spent, cur, kind, adopted>>
          /\ job[cur[p]] = "PREPARED"
      BY <1>6, <2>2 DEF VerifyPair, Goto, db, spool, Engaged, RowsInv, Learnt
    <3>2. Progress(p)'
      BY <3>1 DEF Progress, StagingSteps, Pair, files
    <3>3. \A q \in Procs : Progress(q)'
      BY <3>1, <3>2, ProgressAlone DEF Critical
    <3> QED BY <3>1, <3>3 DEF FilesInv, Pair, ReportBeforeManifest, FilesHaveAuthority,
         QuarantineIsTorn, files, Kinds
  <2> QED BY <2>1, <2>2
<1>7. ASSUME NEW p \in Procs, Commit(p) PROVE FilesInv'
  <2>1. CASE Raise(p, "conflict")
    BY <2>1, FilesLeave DEF Raise, db, spool
  <2>2. CASE ~Raise(p, "conflict")
    <3>1. /\ job' = [job EXCEPT ![cur[p]] = "COMPLETE"]
          /\ pc[p] = "commit" /\ pc' = [pc EXCEPT ![p] = "confirm"]
          /\ Pair(cur[p]) \/ cur[p] \in altered
          /\ UNCHANGED <<files, altered, spent, cur, kind, adopted>>
      BY <1>7, <2>2 DEF Commit, Goto, spool, FilesInv, Progress
    <3>2. Progress(p)'
      BY <3>1 DEF Progress, StagingSteps
    <3>3. \A q \in Procs : Progress(q)'
      BY <3>1, <3>2, ProgressAlone DEF Critical
    <3>4. \A j \in Jobs : job'[j] = job[j] \/ (j = cur[p] /\ job'[j] = "COMPLETE")
      BY <3>1
    <3> QED BY <3>1, <3>3, <3>4 DEF FilesInv, Pair, ReportBeforeManifest, FilesHaveAuthority,
         QuarantineIsTorn, files
  <2> QED BY <2>1, <2>2
<1>8. ASSUME NEW p \in Procs, Confirm(p) PROVE FilesInv'
  <2>1. CASE Raise(p, "evidence")
    BY <2>1, FilesLeave DEF Raise, db, spool
  <2>2. CASE ~Raise(p, "evidence")
    <3>1. /\ Authority(cur[p]) /\ Critical(p) /\ cur[p] \in Jobs
          /\ altered' = altered \ {cur[p]}
          /\ pc' = [pc EXCEPT ![p] = "idle"]
          /\ UNCHANGED <<job, files, spent, cur>>
      BY <1>8, <2>2 DEF Confirm, Leave, db, spool, Engaged, Critical
    <3>2. Progress(p)'
      BY <3>1 DEF Progress, StagingSteps
    <3>3. \A q \in Procs : Progress(q)'
      BY <3>1, <3>2, ProgressAlone
    <3> QED BY <3>1, <3>3 DEF FilesInv, Authority, Pair, ReportBeforeManifest,
         FilesHaveAuthority, QuarantineIsTorn, files, Kinds
  <2> QED BY <2>1, <2>2
<1>9. ASSUME NEW p \in Procs, Interrupt(p) PROVE FilesInv'
  <2>1. spent'["alter"] = spent["alter"]
    BY <1>9, NotAltered DEF Interrupt, Fail, Crash
  <2> QED BY <1>9, <2>1, FilesLeave DEF Interrupt, Fail, Crash, db, spool
<1>10. ASSUME UNCHANGED <<job, files, altered, local>>, spent'["alter"] = spent["alter"]
       PROVE  FilesInv'
  BY <1>10 DEF FilesInv, Progress, ReportOut, Pair, ReportBeforeManifest, FilesHaveAuthority,
     QuarantineIsTorn, files, local
<1>11. ASSUME NEW j \in Jobs, NEW k \in Kinds, NEW bytes \in FinalBytes, AlterFinal(j, k, bytes)
       PROVE  FilesInv'
  <2>1. /\ spent'["alter"] = spent["alter"] + 1
        /\ spent["alter"] \in Nat
        /\ altered' = altered \cup {j}
        /\ UNCHANGED <<job, partial, quarantine, local>>
        /\ final' = [final EXCEPT ![j][k] = bytes]
    BY <1>11 DEF AlterFinal, Spend, Events, db
  <2>2. \A i \in Jobs \ {j} : final'[i] = final[i]
    BY <2>1
  <2>3. spent'["alter"] # 0
    BY <2>1
  <2>4. ASSUME NEW p \in Procs PROVE Progress(p)'
    <3>1. pc[p] # "idle" => cur[p] \in Jobs
      BY DEF Engaged
    <3> QED BY <2>1, <2>2, <2>3, <3>1 DEF FilesInv, Progress, StagingSteps, ReportOut, Pair, local
  <2> QED BY <2>1, <2>2, <2>3, <2>4 DEF FilesInv, Pair, ReportBeforeManifest,
       FilesHaveAuthority, QuarantineIsTorn
<1>12. ASSUME Environment PROVE FilesInv'
  <2>1. ASSUME NEW i \in Inputs, AlterEvidence(i) PROVE FilesInv'
    <3>1. /\ spent'["alter"] = spent["alter"] + 1
          /\ spent["alter"] \in Nat
          /\ UNCHANGED <<job, files, altered, local>>
      BY <2>1 DEF AlterEvidence, Spend, Events, db
    <3> QED BY <3>1 DEF FilesInv, Progress, ReportOut, Pair, ReportBeforeManifest,
         FilesHaveAuthority, QuarantineIsTorn, files, local
  <2>2. ASSUME NEW o \in Others, EnterExclusive(o) \/ EnterShared(o) PROVE FilesInv'
    <3>1. spent'["alter"] = spent["alter"]
      BY <2>2, NotAltered DEF EnterExclusive, EnterShared
    <3> QED BY <1>10, <2>2, <3>1 DEF EnterExclusive, EnterShared, db, spool
  <2> QED BY <1>10, <1>11, <1>12, <2>1, <2>2 DEF Environment, Exit, Register, db, spool
<1> QED
  BY <1>1, <1>3, <1>4, <1>5, <1>6, <1>7, <1>8, <1>9, <1>10, <1>12, FilesStaging,
     FilesPublishing DEF Next, Proceed, vars, db, spool

--------------------------------------------------------------------------------
(***************************************************************************)
(* The results                                                             *)
(***************************************************************************)

\* A step that only moves calls whose result is still open.
LEMMA ResultMove ==
  ASSUME ResultInv, NEW p \in Procs, pc[p] # "idle", UNCHANGED <<cur, result>>,
         \A j \in Jobs : job[j] = "COMPLETE" => job'[j] = "COMPLETE",
         \A q \in Procs \ {p} : pc'[q] = pc[q],
         pc'[p] # "confirm"
  PROVE  ResultInv'
  BY DEF ResultInv, ResultIsTrue

\* Leaving the call without a claim.
LEMMA ResultLeave ==
  ASSUME Typed, ResultInv, NEW p \in Procs, NEW r \in Results \ {"created"}, Leave(p, r),
         UNCHANGED job, r = "existing" => cur[p] \in Jobs /\ job[cur[p]] = "COMPLETE"
  PROVE  ResultInv'
  BY DEF Typed, TypeOK, ResultInv, ResultIsTrue, Leave

\* Every step keeps what callers were told true.
LEMMA ResultStep == Typed /\ LockInv /\ RowsInv /\ ResultInv /\ [Next]_vars => ResultInv'
<1> SUFFICES ASSUME Typed, LockInv, RowsInv, ResultInv, [Next]_vars PROVE ResultInv'
  OBVIOUS
<1> USE DEF Typed, TypeOK
<1>1. ASSUME NEW p \in Procs, NEW j \in Jobs, Begin(p, j) PROVE ResultInv'
  BY <1>1 DEF Begin, ResultInv, ResultIsTrue, db
<1>2. ASSUME NEW p \in Procs, NEW r \in Errors \cup {"none", "busy"}, Leave(p, r), UNCHANGED db
      PROVE  ResultInv'
  BY <1>2, ResultLeave DEF Results, Errors, db
<1>3. ASSUME NEW p \in Procs, Proceed(p), ~Prepare(p), ~Commit(p), ~Confirm(p)
      PROVE  ResultInv'
  <2>1. CASE \E r \in Errors \cup {"none", "busy"} : Raise(p, r)
    BY <1>2, <2>1 DEF Raise
  <2>2. CASE ~\E r \in Errors \cup {"none", "busy"} : Raise(p, r)
    <3>1. /\ UNCHANGED <<job, cur, result>>
          /\ pc[p] # "idle"
          /\ \/ UNCHANGED pc /\ pc[p] # "confirm"
             \/ \E step \in Steps \ {"confirm"} : pc' = [pc EXCEPT ![p] = step]
      <4>1. ~LockTimeout(p)
        BY <2>2 DEF LockTimeout
      <4>2. CASE Acquire(p) \/ Gate(p) \/ Eligible(p)
        BY <2>2, <4>2 DEF Acquire, Gate, Eligible, Goto, Errors, Steps, GateSteps, db
      <4>3. CASE Inspect(p) \/ Stage(p)
        BY <2>2, <4>3 DEF Inspect, Stage, Staged, Goto, Errors, Steps, FileSteps, db
      <4>4. CASE Quarantine(p) \/ Withdraw(p) \/ Open(p)
        BY <4>4 DEF Quarantine, Withdraw, Open, Goto, Steps, FileSteps, db
      <4>5. CASE Write(p)
        BY <4>5 DEF Write, Staged, local, Steps, FileSteps, db
      <4>6. CASE Publish(p) \/ Unlink(p) \/ VerifyPair(p)
        BY <2>2, <4>6 DEF Publish, Unlink, VerifyPair, Goto, Errors, Steps, FileSteps, db
      <4> QED BY <1>3, <4>1, <4>2, <4>3, <4>4, <4>5, <4>6 DEF Proceed
    <3>2. CASE UNCHANGED pc
      BY <3>1, <3>2 DEF ResultInv, ResultIsTrue
    <3>3. CASE ~UNCHANGED pc
      BY <3>1, <3>3, ResultMove
    <3> QED BY <3>2, <3>3
  <2> QED BY <2>1, <2>2
<1>4. ASSUME NEW p \in Procs, Prepare(p) PROVE ResultInv'
  <2>1. CASE Raise(p, "conflict")
    BY <1>2, <2>1 DEF Raise, Errors
  <2>2. CASE ~Raise(p, "conflict")
    BY <1>4, <2>2, ResultMove DEF Prepare, Goto, db
  <2> QED BY <2>1, <2>2
<1>5. ASSUME NEW p \in Procs, Commit(p) PROVE ResultInv'
  <2>1. CASE Raise(p, "conflict")
    BY <1>2, <2>1 DEF Raise, Errors
  <2>2. CASE ~Raise(p, "conflict")
    <3>1. /\ job' = [job EXCEPT ![cur[p]] = "COMPLETE"]
          /\ pc' = [pc EXCEPT ![p] = "confirm"]
          /\ UNCHANGED <<cur, result>>
          /\ pc[p] = "commit" /\ job[cur[p]] = "PREPARED" /\ cur[p] \in Jobs
      BY <1>5, <2>2 DEF Commit, Goto, RowsInv, Learnt, Engaged
    <3>2. \A q \in Procs : result[q] = "created" => cur[q] # cur[p]
      BY <3>1 DEF ResultInv, ResultIsTrue
    <3>3. \A j \in Jobs : job[j] = "COMPLETE" => job'[j] = "COMPLETE"
      BY <3>1
    <3> QED BY <3>1, <3>2, <3>3 DEF ResultInv, ResultIsTrue
  <2> QED BY <2>1, <2>2
<1>6. ASSUME NEW p \in Procs, Confirm(p) PROVE ResultInv'
  <2>1. CASE Raise(p, "evidence")
    BY <1>2, <2>1 DEF Raise, Errors
  <2>2. CASE ~Raise(p, "evidence")
    <3>1. /\ Leave(p, IF pc[p] = "adopt" THEN "existing" ELSE "created")
          /\ UNCHANGED job
          /\ cur[p] \in Jobs /\ job[cur[p]] = "COMPLETE"
          /\ pc[p] \in {"adopt", "confirm"}
      BY <1>6, <2>2 DEF Confirm, Authority, Engaged, db
    <3>2. CASE pc[p] = "adopt"
      BY <3>1, <3>2, ResultLeave DEF Results
    <3>3. CASE pc[p] = "confirm"
      <4>1. \A q \in Procs : result[q] = "created" => cur[q] # cur[p]
        BY <3>3 DEF ResultInv
      <4>2. \A q \in Procs \ {p} : pc[q] # "confirm"
        BY <3>3, Apart DEF Critical
      <4> QED BY <3>1, <3>3, <4>1, <4>2 DEF ResultInv, ResultIsTrue, Leave
    <3> QED BY <3>1, <3>2, <3>3
  <2> QED BY <2>1, <2>2
<1>7. ASSUME NEW p \in Procs, Interrupt(p) PROVE ResultInv'
  <2>1. ErrorsAt(pc[p]) \subseteq Errors
    BY DEF ErrorsAt, Errors
  <2> QED BY <1>2, <1>7, <2>1 DEF Interrupt, Fail, Crash
<1>8. CASE UNCHANGED <<job, local>>
  BY <1>8 DEF ResultInv, ResultIsTrue, local
<1>9. ASSUME Environment PROVE UNCHANGED <<job, local>>
  BY <1>9 DEF Environment, EnterExclusive, EnterShared, Exit, Register, AlterFinal,
     AlterEvidence, db
<1> QED
  BY <1>1, <1>3, <1>4, <1>5, <1>6, <1>7, <1>8, <1>9 DEF Next, vars, db

--------------------------------------------------------------------------------
(***************************************************************************)
(* The theorems                                                            *)
(***************************************************************************)
IInv == Typed /\ LockInv /\ RowsInv /\ FilesInv /\ ResultInv

\* Every step keeps all the parts.
LEMMA InductiveStep == IInv /\ [Next]_vars => IInv'
  BY TypedStep, LockStep, RowsStep, FilesStep, ResultStep DEF IInv

\* They hold at the start.
LEMMA InductiveInit == Init => IInv
<1>1. Init => LockInv /\ RowsInv /\ ResultInv
  BY DEF Init, LockInv, RowsInv, Learnt, Critical, FileSteps, ResultInv, ResultIsTrue
<1>2. Init => FilesInv
  BY DEF Init, FilesInv, Progress, StagingSteps, Pair, ReportBeforeManifest, FilesHaveAuthority,
     QuarantineIsTorn, Kinds, Events, Jobs
<1> QED BY <1>1, <1>2, TypedInit DEF IInv

\* The conjunction of the parts is an invariant.
THEOREM Inductive == Spec => []IInv
  BY InductiveInit, InductiveStep, PTL DEF Spec

\* COMPLETE, the derived rows and the exact published pair stand together.
THEOREM AuthorityIsAlwaysWhole == Spec => []AuthorityIsWhole
<1>1. IInv => AuthorityIsWhole
  BY DEF IInv, RowsInv, FilesInv, AuthorityIsWhole
<1> QED BY <1>1, Inductive, PTL

\* No manifest without its report, no torn bytes under a published name.
THEOREM ReportComesFirst == Spec => []ReportBeforeManifest
<1>1. IInv => ReportBeforeManifest
  BY DEF IInv, FilesInv
<1> QED BY <1>1, Inductive, PTL

\* Every file of a job comes after its PREPARED row.
THEOREM FilesAlwaysHaveAuthority == Spec => []FilesHaveAuthority
<1>1. IInv => FilesHaveAuthority
  BY DEF IInv, FilesInv
<1> QED BY <1>1, Inductive, PTL

\* Whole partials are never quarantined.
THEOREM QuarantineIsAlwaysTorn == Spec => []QuarantineIsTorn
<1>1. IInv => QuarantineIsTorn
  BY DEF IInv, FilesInv
<1> QED BY <1>1, Inductive, PTL

\* Callers are told the truth.
THEOREM ResultIsAlwaysTrue == Spec => []ResultIsTrue
<1>1. IInv => ResultIsTrue
  BY DEF IInv, ResultInv
<1> QED BY <1>1, Inductive, PTL

\* What process_artifact promises in every state.
CallSafety ==
  /\ Exclusion /\ AuthorityIsWhole /\ ReportBeforeManifest
  /\ FilesHaveAuthority /\ QuarantineIsTorn /\ ResultIsTrue

\* It follows from the invariant of the calls.
LEMMA CallsAreSafe == IInv => CallSafety
  BY DEF IInv, LockInv, RowsInv, FilesInv, ResultInv, CallSafety, Exclusion, AuthorityIsWhole

\* A step that changes rows, partials or quarantine is one of the lock holder.
LEMMA HolderStepHolds == IInv /\ IInv' /\ [Next]_vars => HolderStep
<1> DEFINE kept == <<job, row, partial, quarantine>>
<1> SUFFICES ASSUME IInv, IInv', [Next]_vars, ~UNCHANGED kept
             PROVE  \E p \in Procs :
                      Critical(p) /\ Critical(p)' /\ exclusive = {p} /\ exclusive' = {p}
  BY DEF HolderStep
<1>1. PICK p \in Procs : Critical(p) /\ Critical(p)'
  <2>1. ASSUME NEW p \in Procs, Proceed(p) PROVE Critical(p) /\ Critical(p)'
    <3>1. ~\E r \in Results : Raise(p, r)
      BY DEF Raise, db, spool, files
    <3>2. pc \in [Procs -> Steps] /\ {"conflict", "evidence"} \subseteq Results
      BY DEF IInv, Typed, TypeOK, Results, Errors
    <3>3. CASE Prepare(p) \/ Commit(p)
      BY <3>1, <3>2, <3>3 DEF Prepare, Commit, Goto, Critical
    <3>4. CASE Quarantine(p) \/ Withdraw(p) \/ Open(p) \/ Unlink(p)
      BY <3>2, <3>4 DEF Quarantine, Withdraw, Open, Unlink, Goto, Critical
    <3>5. CASE Write(p)
      BY <3>2, <3>5 DEF Write, Staged, local, Critical
    <3> QED BY <2>1, <3>3, <3>4, <3>5 DEF Proceed, Acquire, LockTimeout, Gate, Eligible,
               Inspect, Stage, Publish, VerifyPair, Confirm, Raise, db, spool, files
  <2>2. ASSUME Environment PROVE UNCHANGED kept
    BY <2>2 DEF Environment, EnterExclusive, EnterShared, Exit, Register, AlterFinal,
       AlterEvidence, db, spool, files
  <2> QED BY <2>1, <2>2 DEF Next, Begin, Interrupt, Fail, Crash, vars, db, spool, files
<1>2. exclusive = {p} /\ exclusive' = {p}
  BY <1>1 DEF IInv, LockInv
<1> QED BY <1>1, <1>2

\* Only the lock holder changes rows, partials or quarantine.
THEOREM OnlyTheHolderWrites == Spec => HolderWrites
  BY HolderStepHolds, Inductive, PTL DEF Spec, HolderWrites

\* A step without a change from outside keeps what is published.
LEMMA NoReplaceHolds == IInv /\ [Next]_vars => NoReplaceStep
<1> SUFFICES ASSUME IInv, [Next]_vars, spent'["alter"] = spent["alter"]
             PROVE  \A j \in Jobs, k \in Kinds :
                      final[j][k] # "absent" => final'[j][k] = final[j][k]
  BY DEF NoReplaceStep
<1> USE DEF IInv, Typed, TypeOK
<1>1. ASSUME NEW p \in Procs, Publish(p), ~UNCHANGED final
      PROVE  \A j \in Jobs, k \in Kinds :
               final[j][k] # "absent" => final'[j][k] = final[j][k]
  <2>1. /\ final[cur[p]][kind[p]] = "absent" /\ cur[p] \in Jobs /\ kind[p] \in Kinds
        /\ \E bytes \in {"exact", "wrong"} :
             final' = [final EXCEPT ![cur[p]][kind[p]] = bytes]
    BY <1>1 DEF Publish, Raise, Engaged, spool, files
  <2>2. PICK bytes \in FinalBytes : final' = [final EXCEPT ![cur[p]][kind[p]] = bytes]
    BY <2>1 DEF FinalBytes
  <2>3. \A j \in Jobs, k \in Kinds :
          <<j, k>> # <<cur[p], kind[p]>> => final'[j][k] = final[j][k]
    BY <2>1, <2>2, NestedUpdate
  <2> QED BY <2>1, <2>3
<1>2. ASSUME NEW p \in Procs, Proceed(p), ~Publish(p) PROVE UNCHANGED final
  BY <1>2 DEF Proceed, Acquire, LockTimeout, Gate, Eligible, Prepare, Inspect, Stage,
     Quarantine, Withdraw, Open, Write, Unlink, VerifyPair, Commit, Confirm, Raise, spool, files
<1>3. ASSUME Environment PROVE UNCHANGED final
  <2>1. ASSUME NEW j \in Jobs, NEW k \in Kinds, NEW bytes \in FinalBytes PROVE ~AlterFinal(j, k, bytes)
    BY DEF AlterFinal, Spend, Events
  <2> QED BY <1>3, <2>1 DEF Environment, EnterExclusive, EnterShared, Exit, Register,
             AlterEvidence, spool, files
<1> QED BY <1>1, <1>2, <1>3 DEF Next, Begin, Interrupt, Fail, Crash, vars, spool, files

\* The program never replaces or removes a published file.
THEOREM NothingIsReplaced == Spec => NoReplace
  BY NoReplaceHolds, Inductive, PTL DEF Spec, NoReplace

--------------------------------------------------------------------------------
(***************************************************************************)
(* How many steps a call has left                                          *)
(***************************************************************************)

\* The longest way from where a call is to its return: the report is staged
\* before the manifest and published before it, and no step leads back.
Remaining(p) ==
  LET report == kind[p] = "report"
      empty  == partial[cur[p]][kind[p]] = "empty"
  IN  CASE pc[p] = "idle"                 -> 0
        [] pc[p] \in {"adopt", "confirm"} -> 1
        [] pc[p] = "commit"               -> 2
        [] pc[p] = "verify"               -> 3
        [] pc[p] = "unlink"               -> IF report THEN 6 ELSE 4
        [] pc[p] = "publish"              -> IF report THEN 7 ELSE 5
        [] pc[p] = "write"                -> IF ~report THEN 8 ELSE IF empty THEN 14 ELSE 13
        [] pc[p] = "open"                 -> IF report THEN 15 ELSE 9
        [] pc[p] = "withdraw"             -> IF report THEN 16 ELSE 10
        [] pc[p] = "quarantine"           -> IF report THEN 17 ELSE 11
        [] pc[p] = "stage"                -> IF report THEN 18 ELSE 12
        [] pc[p] = "inspect"              -> 19
        [] pc[p] = "prepare"              -> 20
        [] pc[p] = "eligible"             -> 21
        [] pc[p] = "gate"                 -> 22
        [] pc[p] = "lock"                 -> 23

CallSteps == 23

\* A step of a call lowers its number; whatever another process does to the rows,
\* the files or the lock never raises it.
RunDownStep ==
  \A p \in Procs :
    /\ Remaining(p) \in 0..CallSteps
    /\ Proceed(p) => Remaining(p)' < Remaining(p)
    /\ pc[p] # "idle" => Remaining(p)' <= Remaining(p)

RunDown == [][RunDownStep]_vars

\* What process q has at hand in its call.
Mine(q) == <<pc[q], cur[q], kind[q], result[q]>>

\* A step of one call leaves the others where they are.
LEMMA OthersStay ==
  ASSUME Typed, NEW p \in Procs, NEW q \in Procs \ {p},
         Proceed(p) \/ Interrupt(p) \/ \E j \in Jobs : Begin(p, j)
  PROVE  Mine(q)' = Mine(q)
<1> USE DEF Mine, Typed, TypeOK
<1>1. ASSUME NEW r, Leave(p, r) PROVE Mine(q)' = Mine(q)
  BY <1>1 DEF Leave
<1>2. ASSUME NEW s, Goto(p, s) PROVE Mine(q)' = Mine(q)
  BY <1>2 DEF Goto
<1>3. CASE Interrupt(p)
  BY <1>1, <1>3 DEF Interrupt, Fail, Crash
<1>4. CASE \E j \in Jobs : Begin(p, j)
  BY <1>4 DEF Begin
<1>5. CASE Staged(p)
  BY <1>5 DEF Staged
<1>6. CASE UNCHANGED local
  BY <1>6 DEF local
<1>7. CASE Acquire(p) \/ LockTimeout(p) \/ Gate(p) \/ Eligible(p) \/ Prepare(p)
  BY <1>1, <1>2, <1>7 DEF Acquire, LockTimeout, Gate, Eligible, Prepare, Raise
<1>8. CASE Inspect(p) \/ Unlink(p)
  BY <1>1, <1>2, <1>8 DEF Inspect, Unlink, Raise
<1>9. CASE Stage(p) \/ Quarantine(p) \/ Withdraw(p) \/ Open(p) \/ Write(p)
  BY <1>2, <1>5, <1>6, <1>9 DEF Stage, Quarantine, Withdraw, Open, Write
<1>10. CASE Publish(p) \/ VerifyPair(p) \/ Commit(p) \/ Confirm(p)
  BY <1>1, <1>2, <1>10 DEF Publish, VerifyPair, Commit, Confirm, Raise
<1> QED BY <1>3, <1>4, <1>7, <1>8, <1>9, <1>10 DEF Proceed

\* Outside the spool a call can only take the lock or give up.
LEMMA AtTheDoor ==
  ASSUME NEW p \in Procs, Proceed(p), ~Critical(p)
  PROVE  Acquire(p) \/ LockTimeout(p)
  BY DEF Critical, Proceed, Gate, Eligible, Prepare, Inspect, Stage, Quarantine, Withdraw, Open,
     Write, Publish, Unlink, VerifyPair, Commit, Confirm

\* The number is one of those named.
LEMMA RemainingType == Typed => \A p \in Procs : Remaining(p) \in 0..CallSteps
<1> SUFFICES ASSUME Typed, NEW p \in Procs PROVE Remaining(p) \in 0..CallSteps
  OBVIOUS
<1>1. pc[p] \in Steps
  BY DEF Typed, TypeOK
<1> QED BY <1>1 DEF Remaining, CallSteps, Steps, GateSteps, FileSteps

\* The same of the state after a step.
LEMMA RemainingTypeNext == Typed' => (\A p \in Procs : Remaining(p) \in 0..CallSteps)'
  BY RemainingType, PTL

\* Every step of a call lowers its number.
LEMMA ProceedLowers ==
  ASSUME IInv, NEW p \in Procs, Proceed(p)
  PROVE  Remaining(p)' < Remaining(p)
<1> USE DEF IInv, Typed, TypeOK
<1>1. ASSUME NEW r, Leave(p, r), pc[p] # "idle" PROVE Remaining(p)' < Remaining(p)
  <2>1. pc'[p] = "idle"
    BY <1>1 DEF Leave
  <2>2. Remaining(p)' = 0
    BY <2>1 DEF Remaining
  <2>3. Remaining(p) > 0
    BY <1>1 DEF Remaining, Steps, GateSteps, FileSteps
  <2> QED BY <2>2, <2>3
<1>2. CASE Acquire(p)
  <2>1. pc[p] = "lock" /\ pc'[p] = "gate"
    BY <1>2 DEF Acquire, Goto
  <2> QED BY <2>1 DEF Remaining
<1>18. CASE LockTimeout(p)
  BY <1>1, <1>18 DEF LockTimeout, Raise
<1>3. CASE Gate(p)
  <2>1. CASE Raise(p, "evidence")
    BY <1>1, <1>3, <2>1 DEF Gate, Raise
  <2>2. CASE ~Raise(p, "evidence")
    <3>1. pc[p] = "gate" /\ pc'[p] \in {"adopt", "eligible"}
      BY <1>3, <2>2 DEF Gate, Goto
    <3> QED BY <3>1 DEF Remaining
  <2> QED BY <2>1, <2>2
<1>4. CASE Eligible(p)
  <2>1. CASE \E error \in {"evidence", "conflict"} : Raise(p, error)
    BY <1>1, <1>4, <2>1 DEF Eligible, Raise
  <2>2. CASE ~\E error \in {"evidence", "conflict"} : Raise(p, error)
    <3>1. pc[p] = "eligible" /\ pc'[p] = "prepare"
      BY <1>4, <2>2 DEF Eligible, Goto
    <3> QED BY <3>1 DEF Remaining
  <2> QED BY <2>1, <2>2
<1>5. CASE Prepare(p)
  <2>1. CASE Raise(p, "conflict")
    BY <1>1, <1>5, <2>1 DEF Prepare, Raise
  <2>2. CASE ~Raise(p, "conflict")
    <3>1. pc[p] = "prepare" /\ pc'[p] = "inspect"
      BY <1>5, <2>2 DEF Prepare, Goto
    <3> QED BY <3>1 DEF Remaining
  <2> QED BY <2>1, <2>2
<1>6. CASE Inspect(p)
  <2>1. CASE Raise(p, "evidence")
    BY <1>1, <1>6, <2>1 DEF Inspect, Raise
  <2>2. CASE ~Raise(p, "evidence")
    <3>1. pc[p] = "inspect" /\ pc'[p] \in {"verify", "stage"}
      BY <1>6, <2>2 DEF Inspect, Goto
    <3> QED BY <3>1 DEF Remaining
  <2> QED BY <2>1, <2>2
<1>7. ASSUME pc[p] \in {"stage", "write"}, Staged(p), kind[p] = "report" \/ kind[p] = "manifest",
             pc[p] = "write" /\ kind[p] = "report" => partial[cur[p]][kind[p]] = "half"
      PROVE  Remaining(p)' < Remaining(p)
  <2>1. CASE kind[p] = "report"
    <3>1. pc'[p] = "stage" /\ kind'[p] = "manifest"
      BY <1>7, <2>1 DEF Staged
    <3> QED BY <1>7, <2>1, <3>1 DEF Remaining
  <2>2. CASE kind[p] = "manifest"
    <3>1. pc'[p] = "publish"
      BY <1>7, <2>2 DEF Staged
    <3> QED BY <1>7, <2>2, <3>1 DEF Remaining
  <2> QED BY <1>7, <2>1, <2>2
<1>8. kind[p] = "report" \/ kind[p] = "manifest"
  BY DEF Kinds
<1>9. CASE Stage(p)
  <2>1. CASE Staged(p)
    BY <1>7, <1>8, <1>9, <2>1 DEF Stage
  <2>2. CASE ~Staged(p)
    <3>1. pc[p] = "stage" /\ pc'[p] \in {"open", "quarantine"} /\ kind'[p] = kind[p]
      BY <1>9, <2>2 DEF Stage, Goto
    <3> QED BY <3>1 DEF Remaining
  <2> QED BY <2>1, <2>2
<1>10. CASE Quarantine(p) \/ Withdraw(p)
  <2>1. /\ kind'[p] = kind[p]
        /\ \/ pc[p] = "quarantine" /\ pc'[p] \in {"open", "withdraw"}
           \/ pc[p] = "withdraw" /\ pc'[p] = "open"
    BY <1>10 DEF Quarantine, Withdraw, Goto
  <2> QED BY <2>1 DEF Remaining
<1>11. CASE Open(p)
  <2>1. pc[p] = "open" /\ pc'[p] = "write" /\ kind'[p] = kind[p]
    BY <1>11 DEF Open, Goto
  <2> QED BY <2>1 DEF Remaining
<1>12. CASE Write(p)
  <2>1. CASE Staged(p) /\ SetPartial(p, "full")
    <3>1. pc[p] = "write" /\ pc'[p] # "write"
      BY <1>12, <2>1 DEF Write, Staged
    <3>2. kind[p] = "manifest" \/ partial[cur[p]][kind[p]] = "half"
      BY <1>12, <3>1 DEF Write, local
    <3> QED BY <1>7, <1>8, <2>1, <3>1, <3>2
  <2>2. CASE UNCHANGED local /\ SetPartial(p, "half")
             /\ kind[p] = "report" /\ partial[cur[p]][kind[p]] = "empty"
    <3>1. cur[p] \in Jobs /\ kind[p] \in Kinds /\ pc[p] = "write"
      BY <1>12 DEF Write, Engaged
    <3>2. partial'[cur[p]][kind[p]] = "half"
      BY <2>2, <3>1, NestedUpdate DEF SetPartial, PartialBytes
    <3>3. pc'[p] = "write" /\ kind'[p] = "report" /\ cur'[p] = cur[p]
          /\ partial'[cur'[p]][kind'[p]] # "empty"
      BY <2>2, <3>1, <3>2 DEF local
    <3>4. Remaining(p)' = 13
      BY <3>3 DEF Remaining
    <3>5. Remaining(p) = 14
      BY <2>2, <3>1 DEF Remaining
    <3> QED BY <3>4, <3>5
  <2> QED BY <1>12, <2>1, <2>2 DEF Write
<1>13. CASE Publish(p)
  <2>1. CASE Raise(p, "evidence")
    BY <1>1, <1>13, <2>1 DEF Publish, Raise
  <2>2. CASE ~Raise(p, "evidence")
    <3>1. pc[p] = "publish" /\ pc'[p] = "unlink" /\ kind'[p] = kind[p]
      BY <1>13, <2>2 DEF Publish, Goto
    <3> QED BY <3>1 DEF Remaining
  <2> QED BY <2>1, <2>2
<1>14. CASE Unlink(p)
  <2>1. pc[p] = "unlink" /\ kind'[p] = "manifest"
        /\ pc'[p] = IF kind[p] = "report" THEN "publish" ELSE "verify"
    BY <1>14 DEF Unlink
  <2>2. CASE kind[p] = "report"
    BY <2>1, <2>2 DEF Remaining
  <2>3. CASE kind[p] = "manifest"
    BY <2>1, <2>3 DEF Remaining
  <2> QED BY <1>8, <2>2, <2>3
<1>15. CASE VerifyPair(p)
  <2>1. CASE Raise(p, "evidence")
    BY <1>1, <1>15, <2>1 DEF VerifyPair, Raise
  <2>2. CASE ~Raise(p, "evidence")
    <3>1. pc[p] = "verify" /\ pc'[p] = "commit"
      BY <1>15, <2>2 DEF VerifyPair, Goto
    <3> QED BY <3>1 DEF Remaining
  <2> QED BY <2>1, <2>2
<1>16. CASE Commit(p)
  <2>1. CASE Raise(p, "conflict")
    BY <1>1, <1>16, <2>1 DEF Commit, Raise
  <2>2. CASE ~Raise(p, "conflict")
    <3>1. pc[p] = "commit" /\ pc'[p] = "confirm"
      BY <1>16, <2>2 DEF Commit, Goto
    <3> QED BY <3>1 DEF Remaining
  <2> QED BY <2>1, <2>2
<1>17. CASE Confirm(p)
  BY <1>1, <1>17 DEF Confirm, Raise
<1> QED
  BY <1>2, <1>3, <1>4, <1>5, <1>6, <1>9, <1>10, <1>11, <1>12, <1>13, <1>14, <1>15, <1>16,
     <1>17, <1>18 DEF Proceed

\* No step of another process, no interruption and no outside event raises it.
LEMMA NobodyRaises ==
  ASSUME IInv, [Next]_vars, NEW p \in Procs, pc[p] # "idle"
  PROVE  Remaining(p)' <= Remaining(p)
<1>1. Typed /\ LockInv /\ Remaining(p) \in 0..CallSteps
  BY RemainingType DEF IInv
<1>2. ASSUME Mine(p)' = Mine(p), ~Critical(p) \/ UNCHANGED partial
      PROVE  Remaining(p)' = Remaining(p)
  BY <1>2 DEF Mine, Remaining, Critical
<1>3. ASSUME NEW q \in Procs, Proceed(q) PROVE Remaining(p)' <= Remaining(p)
  <2>1. CASE q = p
    <3>1. Remaining(p)' < Remaining(p)
      BY <1>3, <2>1, ProceedLowers
    <3>2. Typed'
      BY InductiveStep DEF IInv
    <3>3. Remaining(p)' \in 0..CallSteps
      BY <3>2, RemainingTypeNext
    <3> QED BY <1>1, <3>1, <3>3 DEF CallSteps
  <2>2. CASE q # p
    <3>1. Mine(p)' = Mine(p)
      BY <1>1, <1>3, <2>2, OthersStay
    <3>2. CASE Critical(p)
      <4>1. ~Critical(q)
        BY <1>1, <2>2, <3>2, Apart DEF Critical
      <4>2. UNCHANGED partial
        BY <1>3, <4>1, AtTheDoor DEF Acquire, LockTimeout, Raise, spool, files
      <4> QED BY <1>1, <1>2, <3>1, <4>2 DEF CallSteps
    <3> QED BY <1>1, <1>2, <3>1, <3>2 DEF CallSteps
  <2> QED BY <2>1, <2>2
<1>4. ASSUME NEW q \in Procs, NEW j \in Jobs, Begin(q, j)
      PROVE  Remaining(p)' <= Remaining(p)
  <2>1. q # p /\ UNCHANGED partial
    BY <1>4 DEF Begin, spool, files
  <2>2. Mine(p)' = Mine(p)
    BY <1>1, <1>4, <2>1, OthersStay
  <2> QED BY <1>1, <1>2, <2>1, <2>2 DEF CallSteps
<1>5. ASSUME NEW q \in Procs, Interrupt(q) PROVE Remaining(p)' <= Remaining(p)
  <2>1. CASE q = p
    <3>1. pc'[p] = "idle"
      BY <1>1, <1>5, <2>1 DEF Interrupt, Fail, Crash, Leave, Typed, TypeOK
    <3>2. Remaining(p)' = 0
      BY <3>1 DEF Remaining
    <3> QED BY <1>1, <3>2 DEF CallSteps
  <2>2. CASE q # p
    <3>1. Mine(p)' = Mine(p) /\ UNCHANGED partial
      BY <1>1, <1>5, <2>2, OthersStay DEF Interrupt, Fail, Crash, spool, files
    <3> QED BY <1>1, <1>2, <3>1 DEF CallSteps
  <2> QED BY <2>1, <2>2
<1>6. CASE Environment \/ UNCHANGED vars
  <2>1. UNCHANGED local /\ UNCHANGED partial
    BY <1>6 DEF Environment, EnterExclusive, EnterShared, Exit, Register, AlterFinal,
       AlterEvidence, vars, spool, files
  <2>2. Mine(p)' = Mine(p)
    BY <2>1 DEF local, Mine
  <2> QED BY <1>1, <1>2, <2>1, <2>2 DEF CallSteps
<1> QED BY <1>3, <1>4, <1>5, <1>6 DEF Next

\* A call that is scheduled comes back after at most CallSteps of its own steps:
\* no recovery path of process_artifact loops, however its files were left behind.
THEOREM CallsRunDown == Spec => RunDown
<1>1. IInv /\ [Next]_vars => RunDownStep
  BY RemainingType, ProceedLowers, NobodyRaises DEF RunDownStep, IInv
<1> QED BY <1>1, Inductive, PTL DEF Spec, RunDown

--------------------------------------------------------------------------------
(***************************************************************************)
(* What no restart brings forward                                          *)
(***************************************************************************)

\* Nobody takes an assertion back.
LEMMA AssertionsStay ==
  ASSUME Typed, [Next]_vars, NEW i \in Inputs, asserted[i] > 1
  PROVE  asserted'[i] > 1
<1>1. CASE \E o \in Others, n \in Inputs : Register(o, n)
  <2>1. PICK n \in Inputs : asserted[n] < 2 /\ asserted' = [asserted EXCEPT ![n] = @ + 1]
    BY <1>1 DEF Register
  <2>2. asserted \in [Inputs -> 0..2]
    BY DEF Typed, TypeOK
  <2>3. n # i
    BY <2>1, <2>2
  <2> QED BY <2>1, <2>2, <2>3
<1>2. ASSUME NEW p \in Procs, Proceed(p) PROVE UNCHANGED asserted
  <2>1. CASE Acquire(p) \/ LockTimeout(p) \/ Gate(p) \/ Eligible(p) \/ Prepare(p)
    BY <2>1 DEF Acquire, LockTimeout, Gate, Eligible, Prepare, Raise, db
  <2>2. CASE Inspect(p) \/ Stage(p) \/ Quarantine(p) \/ Withdraw(p) \/ Open(p) \/ Write(p)
    BY <2>2 DEF Inspect, Stage, Quarantine, Withdraw, Open, Write, Raise, db
  <2>3. CASE Publish(p) \/ Unlink(p) \/ VerifyPair(p) \/ Commit(p) \/ Confirm(p)
    BY <2>3 DEF Publish, Unlink, VerifyPair, Commit, Confirm, Raise, db
  <2> QED BY <1>2, <2>1, <2>2, <2>3 DEF Proceed
<1>3. ASSUME NEW p \in Procs, Interrupt(p) \/ \E j \in Jobs : Begin(p, j)
      PROVE  UNCHANGED asserted
  BY <1>3 DEF Interrupt, Fail, Crash, Begin, db
<1>4. ASSUME Environment, ~\E o \in Others, n \in Inputs : Register(o, n)
      PROVE  UNCHANGED asserted
  BY <1>4 DEF Environment, EnterExclusive, EnterShared, Exit, AlterFinal, AlterEvidence, db
<1>5. UNCHANGED vars => UNCHANGED asserted
  BY DEF vars, db
<1> QED BY <1>1, <1>2, <1>3, <1>4, <1>5 DEF Next

\* The job of an input with several assertions stays in the state it is in for ever,
\* a PREPARED checkpoint too: no call, retry or restart resumes it.
THEOREM AmbiguousJobsStandStill ==
  ASSUME NEW j \in Jobs, NEW state \in JobStates
  PROVE  Spec => [](asserted[j[1]] > 1 /\ job[j] = state => [](job[j] = state))
<1> DEFINE Still == asserted[j[1]] > 1 /\ job[j] = state
<1>1. IInv /\ [Next]_vars /\ Still => Still'
  <2> SUFFICES ASSUME IInv, [Next]_vars, Still PROVE Still'
    OBVIOUS
  <2>1. j[1] \in Inputs
    BY DEF Jobs
  <2>2. asserted'[j[1]] > 1
    BY <2>1, AssertionsStay DEF IInv
  <2>3. JobStep
    BY JobMoves DEF IInv
  <2>4. job'[j] = job[j]
    BY <2>3 DEF JobStep
  <2> QED BY <2>2, <2>4
<1>2. Still => job[j] = state
  OBVIOUS
<1> HIDE DEF Still
<1>3. Spec => [](Still => [](job[j] = state))
  BY <1>1, <1>2, Inductive, PTL DEF Spec
<1> QED BY <1>3 DEF Still

================================================================================
