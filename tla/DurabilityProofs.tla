---------------------------- MODULE DurabilityProofs ----------------------------
(***************************************************************************)
(* Proofs about Durability: a write whose fsync failed or never returned   *)
(* breaks none of the call's promises about what other processes see, and  *)
(* only what such a write left behind is ever published unsynced.          *)
(***************************************************************************)
EXTENDS Durability, LedgerProofs

--------------------------------------------------------------------------------
(***************************************************************************)
(* The call with unsynced writes                                           *)
(***************************************************************************)

\* An unsynced write leaves a partial of the holder, who leaves: the invariant of
\* the calls, which knows such partials from kills between two writes, survives.
LEMMA UnsyncedWriteIsHarmless ==
  ASSUME IInv, NEW p \in Procs, WriteUnsynced(p)
  PROVE  IInv' /\ UNCHANGED view /\ JobStep /\ NoReplaceStep
<1> USE DEF IInv, Typed, TypeOK
<1>1. PICK bytes \in {"half", "full"} : SetPartial(p, bytes)
  BY DEF WriteUnsynced
<1>2. /\ pc[p] = "write" /\ cur[p] \in Jobs /\ kind[p] \in Kinds
      /\ Spend("fault")
      /\ UNCHANGED <<db, evidence, final, quarantine, altered>>
  BY DEF WriteUnsynced, Engaged
<1>0. PICK outcome \in {"filesystem", "none"} : Leave(p, outcome)
  BY DEF WriteUnsynced
<1>3. spent' \in [Events -> Nat] /\ spent'["alter"] = spent["alter"]
  BY <1>2, TypedSpend, NotAltered DEF Events
<1>4. Typed'
  <2>1. partial' \in [Jobs -> [Kinds -> PartialBytes]]
    BY <1>1, <1>2, NestedUpdate DEF SetPartial, PartialBytes
  <2> QED BY <1>0, <1>2, <1>3, <2>1 DEF Leave, Engaged, db, Steps, Kinds, Results, Errors
<1>5. LockInv' /\ RowsInv' /\ ResultInv'
  BY <1>0, <1>2, LockLeave, RowsLeave, ResultLeave DEF Results, Errors, db
<1>6. FilesInv'
  <2>1. Progress(p)'
    BY <1>0, <1>2 DEF Leave, Progress, StagingSteps
  <2>2. spent["alter"] = 0 => final[cur[p]][kind[p]] = "absent"
    BY <1>2 DEF FilesInv, Progress, StagingSteps
  <2> QED
    BY <1>0, <1>1, <1>2, <1>3, <2>1, <2>2, FilesWrite DEF Leave, FileSteps, PartialBytes, db
<1>7. UNCHANGED view /\ JobStep /\ NoReplaceStep
  BY <1>2, Invisible DEF JobStep, NoReplaceStep, db
<1> QED BY <1>4, <1>5, <1>6, <1>7

\* Every other step is a step of ProcessArtifact.
LEMMA StepsOfTheCall ==
  ASSUME [DNext]_dvars, ~\E p \in Procs : WriteUnsynced(p)
  PROVE  [Next]_vars
  BY DEF DNext, OpenUnsynced, WriteSynced, PublishInode, Otherwise, dvars, Next, Proceed,
     Interrupt

\* What every step keeps.
LEMMA DurableStep ==
  ASSUME IInv, [DNext]_dvars
  PROVE  IInv' /\ [Ledger!Next]_(Ledger!vars) /\ JobStep /\ NoReplaceStep
<1>1. CASE \E p \in Procs : WriteUnsynced(p)
  BY <1>1, UnsyncedWriteIsHarmless DEF view, Authorized, Published, Ledger!vars
<1>2. CASE ~\E p \in Procs : WriteUnsynced(p)
  <2>1. [Next]_vars
    BY <1>2, StepsOfTheCall
  <2> QED BY <2>1, InductiveStep, RefinesStep, JobMoves, NoReplaceHolds DEF IInv
<1> QED BY <1>1, <1>2

\* The invariant of the calls, with unsynced writes.
THEOREM UnsyncedWritesInductive == DSpec => []IInv
  BY InductiveInit, DurableStep, PTL DEF DSpec, DInit

\* Nobody who reads the spool or the ledger can tell that a write was not synced: the
\* call's promises hold of every state.
THEOREM UnsyncedWritesKeepCallsSafe == DSpec => []CallSafety
  BY UnsyncedWritesInductive, CallsAreSafe, PTL

\* And the calls still implement the evidence ledger, move jobs forward on one
\* assertion only and replace no published file.
THEOREM UnsyncedWritesImplementLedger ==
  DSpec => ImplementsLedger /\ UnambiguousProgress /\ NoReplace
<1>1. DInit => Ledger!Init
  BY RefinesInit DEF DInit
<1>2. IInv /\ [DNext]_dvars => [Ledger!Next]_(Ledger!vars) /\ JobStep /\ NoReplaceStep
  BY DurableStep
<1> QED
  BY <1>1, <1>2, UnsyncedWritesInductive, PTL DEF DSpec, ImplementsLedger, Ledger!Spec,
     UnambiguousProgress, NoReplace

--------------------------------------------------------------------------------
(***************************************************************************)
(* What is synced as long as every fsync of a partial returns              *)
(***************************************************************************)

\* Every step but an fsync that fails or is cut short: calls may still fail or be
\* killed at every other point, and files may be altered from outside.
SyncingNext == DNext /\ ~\E p \in Procs : WriteUnsynced(p)
SyncingSpec == DInit /\ [][SyncingNext]_dvars

\* What is written in a partial is synced, and so is what was published from it.
\* Files put into place from outside are not the program's to sync.
SyncInv ==
  /\ partialSynced \in [Jobs -> SUBSET Kinds] /\ finalSynced \in [Jobs -> SUBSET Kinds]
  /\ \A j \in Jobs, k \in Kinds : partial[j][k] \in {"half", "full"} => k \in partialSynced[j]
  /\ spent["alter"] = 0 => PublishedIsSynced

\* A call's step that writes nothing new into a partial and publishes nothing.
LEMMA SyncKept ==
  ASSUME IInv, SyncInv, UNCHANGED synced, UNCHANGED <<final, altered>>,
         spent'["alter"] = spent["alter"],
         \A j \in Jobs, k \in Kinds : partial'[j][k] \in {partial[j][k], "absent"}
  PROVE  SyncInv'
  BY DEF SyncInv, PublishedIsSynced, synced

\* Every such step keeps what was synced.
LEMMA SyncStep ==
  ASSUME IInv, SyncInv, [SyncingNext]_dvars
  PROVE  SyncInv'
<1> USE DEF IInv, Typed, TypeOK
<1>1. ASSUME NEW p \in Procs, OpenUnsynced(p) PROVE SyncInv'
  <2>1. /\ pc[p] # "idle" /\ cur[p] \in Jobs /\ kind[p] \in Kinds
        /\ SetPartial(p, "empty")
        /\ UNCHANGED <<final, altered, spent, finalSynced>>
        /\ partialSynced' = [partialSynced EXCEPT ![cur[p]] = @ \ {kind[p]}]
    BY <1>1 DEF OpenUnsynced, Open, Engaged
  <2>2. /\ partial'[cur[p]][kind[p]] = "empty"
        /\ \A j \in Jobs, k \in Kinds :
             <<j, k>> # <<cur[p], kind[p]>> => partial'[j][k] = partial[j][k]
    BY <2>1, SetPartialEffect DEF PartialBytes
  <2>3. partialSynced' \in [Jobs -> SUBSET Kinds]
    BY <2>1 DEF SyncInv
  <2>4. \A j \in Jobs, k \in Kinds : partial'[j][k] \in {"half", "full"} => k \in partialSynced'[j]
    BY <2>1, <2>2 DEF SyncInv
  <2> QED BY <2>1, <2>3, <2>4 DEF SyncInv, PublishedIsSynced
<1>2. ASSUME NEW p \in Procs, WriteSynced(p) PROVE SyncInv'
  <2>1. PICK bytes \in {"half", "full"} : SetPartial(p, bytes)
    BY <1>2 DEF WriteSynced, Write
  <2>2. /\ pc[p] # "idle" /\ cur[p] \in Jobs /\ kind[p] \in Kinds
        /\ UNCHANGED <<final, altered, spent, finalSynced>>
        /\ partialSynced' = [partialSynced EXCEPT ![cur[p]] = @ \cup {kind[p]}]
    BY <1>2 DEF WriteSynced, Write, Engaged
  <2>3. \A j \in Jobs, k \in Kinds :
          <<j, k>> # <<cur[p], kind[p]>> => partial'[j][k] = partial[j][k]
    BY <2>1, <2>2, SetPartialEffect DEF PartialBytes
  <2>4. partialSynced' \in [Jobs -> SUBSET Kinds]
    BY <2>2 DEF SyncInv
  <2>5. \A j \in Jobs, k \in Kinds : partial'[j][k] \in {"half", "full"} => k \in partialSynced'[j]
    BY <2>2, <2>3 DEF SyncInv
  <2> QED BY <2>2, <2>4, <2>5 DEF SyncInv, PublishedIsSynced
<1>3. ASSUME NEW p \in Procs, PublishInode(p) PROVE SyncInv'
  <2>1. /\ pc[p] = "publish" /\ cur[p] \in Jobs /\ kind[p] \in Kinds
        /\ partial[cur[p]][kind[p]] = "full"
        /\ UNCHANGED <<partial, altered, spent, partialSynced>>
    BY <1>3 DEF PublishInode, Publish, Raise, Engaged, FilesInv, Progress, spool, files
  <2>2. kind[p] \in partialSynced[cur[p]]
    BY <2>1 DEF SyncInv
  <2>3. CASE final[cur[p]][kind[p]] # "absent"
    <3>1. UNCHANGED <<final, finalSynced>>
      BY <1>3, <2>3 DEF PublishInode, Publish, Raise, spool, files
    <3> QED BY <2>1, <3>1 DEF SyncInv, PublishedIsSynced
  <2>4. CASE final[cur[p]][kind[p]] = "absent"
    <3>1. /\ final' = [final EXCEPT ![cur[p]][kind[p]] = "exact"]
          /\ finalSynced' = [finalSynced EXCEPT ![cur[p]] = @ \cup {kind[p]}]
      BY <1>3, <2>1, <2>2, <2>4 DEF PublishInode, Publish
    <3>2. \A j \in Jobs, k \in Kinds :
            <<j, k>> # <<cur[p], kind[p]>> => final'[j][k] = final[j][k]
      BY <2>1, <3>1, NestedUpdate DEF FinalBytes
    <3>3. finalSynced' \in [Jobs -> SUBSET Kinds] /\ kind[p] \in finalSynced'[cur[p]]
          /\ \A j \in Jobs : finalSynced[j] \subseteq finalSynced'[j]
      BY <2>1, <3>1 DEF SyncInv
    <3>4. PublishedIsSynced => PublishedIsSynced'
      BY <2>1, <3>2, <3>3 DEF PublishedIsSynced
    <3> QED BY <2>1, <3>3, <3>4 DEF SyncInv
  <2> QED BY <2>3, <2>4
<1>4. ASSUME NEW p \in Procs, Quarantine(p) \/ Withdraw(p) \/ Unlink(p), UNCHANGED synced
      PROVE  SyncInv'
  <2>1. /\ pc[p] # "idle" /\ UNCHANGED <<final, altered, spent>>
        /\ UNCHANGED partial \/ SetPartial(p, "absent")
    BY <1>4 DEF Quarantine, Withdraw, Unlink
  <2>2. \A j \in Jobs, k \in Kinds : partial'[j][k] \in {partial[j][k], "absent"}
    <3>1. CASE SetPartial(p, "absent")
      BY <2>1, <3>1, SetPartialEffect DEF PartialBytes
    <3> QED BY <2>1, <3>1
  <2> QED BY <1>4, <2>1, <2>2, SyncKept
<1>5. ASSUME NEW p \in Procs, VerifyPair(p) \/ Confirm(p), UNCHANGED synced
      PROVE  SyncInv'
  <2>1. UNCHANGED <<partial, final, spent>> /\ (altered = {} => altered' = {})
    BY <1>5 DEF VerifyPair, Confirm, Raise, spool, files
  <2>2. spent["alter"] = 0 => altered = {}
    BY DEF FilesInv
  <2> QED BY <1>5, <2>1, <2>2 DEF SyncInv, PublishedIsSynced, synced
<1>6. ASSUME NEW p \in Procs, UNCHANGED synced,
             \/ Acquire(p) \/ LockTimeout(p) \/ Gate(p) \/ Eligible(p) \/ Prepare(p)
             \/ Inspect(p) \/ Stage(p) \/ Commit(p) \/ \E j \in Jobs : Begin(p, j)
      PROVE  SyncInv'
  <2>1. UNCHANGED <<partial, final, altered, spent>>
    BY <1>6 DEF Acquire, LockTimeout, Gate, Eligible, Prepare, Inspect, Stage, Commit, Begin,
       Raise, spool, files
  <2> QED BY <1>6, <2>1, SyncKept
<1>7. ASSUME NEW p \in Procs, UNCHANGED synced, Interrupt(p) PROVE SyncInv'
  <2>1. UNCHANGED <<partial, final, altered>> /\ Spend("fault")
    BY <1>7 DEF Interrupt, Fail, Crash, spool, files
  <2>2. spent'["alter"] = spent["alter"]
    BY <2>1, NotAltered
  <2> QED BY <1>7, <2>1, <2>2, SyncKept
<1>8. ASSUME Environment, UNCHANGED synced PROVE SyncInv'
  <2>1. ASSUME Spend("alter") PROVE spent'["alter"] # 0
    BY <2>1 DEF Spend, Events
  <2>2. ASSUME NEW j \in Jobs, NEW k \in Kinds, NEW bytes \in FinalBytes,
               AlterFinal(j, k, bytes)
        PROVE  SyncInv'
    <3>1. UNCHANGED <<partial, synced>> /\ spent'["alter"] # 0
      BY <1>8, <2>1, <2>2 DEF AlterFinal
    <3> QED BY <3>1 DEF SyncInv, synced
  <2>3. ASSUME NEW i \in Inputs, AlterEvidence(i) PROVE SyncInv'
    <3>1. UNCHANGED <<partial, synced>> /\ spent'["alter"] # 0
      BY <1>8, <2>1, <2>3 DEF AlterEvidence, files
    <3> QED BY <3>1 DEF SyncInv, synced
  <2>4. ASSUME NEW o \in Others, EnterExclusive(o) \/ EnterShared(o) PROVE SyncInv'
    <3>1. UNCHANGED <<partial, final, altered>> /\ Spend("visit")
      BY <2>4 DEF EnterExclusive, EnterShared, spool, files
    <3>2. spent'["alter"] = spent["alter"]
      BY <3>1, NotAltered
    <3> QED BY <1>8, <3>1, <3>2, SyncKept
  <2>5. ASSUME NEW o \in Others, Exit(o) \/ \E i \in Inputs : Register(o, i) PROVE SyncInv'
    <3>1. UNCHANGED <<partial, final, altered, spent>>
      BY <2>5 DEF Exit, Register, spool, files
    <3> QED BY <1>8, <3>1, SyncKept
  <2> QED BY <1>8, <2>2, <2>3, <2>4, <2>5 DEF Environment
<1>9. CASE UNCHANGED dvars
  BY <1>9, SyncKept DEF dvars, vars, spool, files
<1> QED
  BY <1>1, <1>2, <1>3, <1>4, <1>5, <1>6, <1>7, <1>8, <1>9 DEF SyncingNext, DNext, Otherwise

\* The call syncs what it publishes, through every mixture of adopted, torn and
\* quarantined partials, as long as every write of a partial gets an fsync that
\* returns.  So what can be published unsynced are the whole partials of calls whose
\* fsync failed, or that ended between the write and its return, adopted later by
\* their bytes alone.
THEOREM ReturnedSyncsSuffice ==
  SyncingSpec => [](spent["alter"] = 0 => PublishedIsSynced)
<1>1. DInit => IInv /\ SyncInv
  <2>1. DInit => SyncInv
    BY DEF DInit, Init, SyncInv, PublishedIsSynced, Jobs, Kinds
  <2> QED BY <2>1, InductiveInit DEF DInit
<1>2. IInv /\ SyncInv /\ [SyncingNext]_dvars => IInv' /\ SyncInv'
  BY SyncStep, DurableStep DEF SyncingNext
<1>3. SyncInv => (spent["alter"] = 0 => PublishedIsSynced)
  BY DEF SyncInv
<1> QED BY <1>1, <1>2, <1>3, PTL DEF SyncingSpec

================================================================================
