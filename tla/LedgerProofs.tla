------------------------------ MODULE LedgerProofs ------------------------------
(***************************************************************************)
(* ProcessArtifact implements EvidenceLedger: under the mapping of         *)
(* ProcessArtifact!Ledger every step of a call, of an interruption or of   *)
(* the environment is a step of the abstract ledger or leaves it alone.    *)
(***************************************************************************)
EXTENDS ProcessArtifactProofs

Authorized == {j \in Jobs : row[j] = "exact"}
Published  == {j \in Jobs : Pair(j)}

\* What the abstract ledger sees.
view == <<job, Authorized, Published, altered>>

\* The steps of the abstract ledger, under the mapping.
LEMMA AbstractSteps ==
  ASSUME NEW j \in Jobs,
         \/ /\ job[j] = "MISSING"
            /\ job' = [job EXCEPT ![j] = "PREPARED"]
            /\ UNCHANGED <<Authorized, Published, altered>>
         \/ /\ job[j] = "PREPARED"
            /\ Published' = Published \cup {j}
            /\ UNCHANGED <<job, Authorized, altered>>
         \/ /\ j \in Published
            /\ job[j] \in {"PREPARED", "COMPLETE"}
            /\ altered' = altered \ {j}
            /\ UNCHANGED <<job, Authorized, Published>>
         \/ /\ job[j] = "PREPARED"
            /\ j \in Published \cup altered
            /\ job' = [job EXCEPT ![j] = "COMPLETE"]
            /\ Authorized' = Authorized \cup {j}
            /\ UNCHANGED <<Published, altered>>
         \/ /\ altered' = altered \cup {j}
            /\ Published' \in {Published, Published \cup {j}, Published \ {j}}
            /\ UNCHANGED <<job, Authorized>>
  PROVE  Ledger!Next
  BY DEF Ledger!Next, Ledger!Prepare, Ledger!Publish, Ledger!Verify, Ledger!Complete,
     Ledger!Disturb, Authorized, Published

\* A step that changes no row, no published pair and no doubt is invisible.
LEMMA Invisible ==
  ASSUME UNCHANGED <<job, row, final, altered>>
  PROVE  UNCHANGED view
  BY DEF view, Authorized, Published, Pair

\* Every initial state is an initial state of the ledger.
LEMMA RefinesInit == Init => Ledger!Init
<1> SUFFICES ASSUME Init PROVE Ledger!Init
  OBVIOUS
<1>1. job \in [Jobs -> {"MISSING", "FOREIGN"}] /\ altered = {}
  BY DEF Init
<1>2. {j \in Jobs : row[j] = "exact"} = {}
  BY DEF Init
<1>3. \A j \in Jobs : final[j]["report"] = "absent"
  BY DEF Init, Kinds
<1>4. {j \in Jobs : Pair(j)} = {}
  BY <1>3 DEF Pair, Kinds
<1> QED BY <1>1, <1>2, <1>4 DEF Ledger!Init

\* Every step is a step of the ledger or none.
LEMMA RefinesStep == IInv /\ [Next]_vars => [Ledger!Next]_(Ledger!vars)
<1> SUFFICES ASSUME IInv, [Next]_vars PROVE Ledger!Next \/ UNCHANGED view
  BY DEF Ledger!vars, view, Authorized, Published
<1> USE DEF IInv, Typed, TypeOK
<1>1. ASSUME NEW p \in Procs, Prepare(p) PROVE Ledger!Next \/ UNCHANGED view
  <2>1. CASE UNCHANGED job
    BY <1>1, <2>1, Invisible DEF Prepare, Raise, db, spool, files
  <2>2. CASE ~UNCHANGED job
    <3>1. /\ job[cur[p]] = "MISSING" /\ cur[p] \in Jobs
          /\ job' = [job EXCEPT ![cur[p]] = "PREPARED"]
          /\ UNCHANGED <<row, final, altered>>
      BY <1>1, <2>2 DEF Prepare, Raise, Engaged, db, spool, files
    <3> QED BY <3>1, AbstractSteps DEF Authorized, Published, Pair
  <2> QED BY <2>1, <2>2
<1>2. ASSUME NEW p \in Procs, Publish(p) PROVE Ledger!Next \/ UNCHANGED view
  <2>1. CASE UNCHANGED final
    BY <1>2, <2>1, Invisible DEF Publish, Raise, db, spool, files
  <2>2. CASE ~UNCHANGED final
    <3>1. /\ pc[p] = "publish" /\ cur[p] \in Jobs /\ kind[p] \in Kinds
          /\ job[cur[p]] = "PREPARED"
          /\ final[cur[p]][kind[p]] = "absent"
          /\ partial[cur[p]][kind[p]] = "full"
      BY <1>2, <2>2 DEF Publish, Raise, Engaged, RowsInv, Learnt, FileSteps, FilesInv,
         Progress, spool, files
    <3>2. /\ final' = [final EXCEPT ![cur[p]][kind[p]] = "exact"]
          /\ UNCHANGED <<job, row, altered>>
      BY <1>2, <3>1 DEF Publish, db
    <3>3. /\ final'[cur[p]][kind[p]] = "exact"
          /\ \A j \in Jobs, k \in Kinds :
               <<j, k>> # <<cur[p], kind[p]>> => final'[j][k] = final[j][k]
      BY <3>1, <3>2, NestedUpdate DEF FinalBytes
    <3>4. \A j \in Jobs \ {cur[p]} : Pair(j)' <=> Pair(j)
      BY <3>3 DEF Pair
    <3>5. ~Pair(cur[p])
      BY <3>1 DEF Pair
    <3>6. Published' = Published \cup {cur[p]} \/ UNCHANGED Published
      BY <3>1, <3>4, <3>5 DEF Published
    <3>7. UNCHANGED Authorized
      BY <3>2 DEF Authorized
    <3> QED BY <3>1, <3>2, <3>6, <3>7, AbstractSteps DEF view
  <2> QED BY <2>1, <2>2
<1>3. ASSUME NEW p \in Procs, VerifyPair(p) \/ Confirm(p) PROVE Ledger!Next \/ UNCHANGED view
  <2>1. CASE UNCHANGED altered
    BY <1>3, <2>1, Invisible DEF VerifyPair, Confirm, Raise, db, spool, files
  <2>2. CASE ~UNCHANGED altered
    <3>1. /\ Pair(cur[p]) /\ cur[p] \in Jobs
          /\ job[cur[p]] \in {"PREPARED", "COMPLETE"}
          /\ altered' = altered \ {cur[p]}
          /\ UNCHANGED <<job, row, final>>
      BY <1>3, <2>2 DEF VerifyPair, Confirm, Authority, Raise, Engaged, RowsInv, Learnt, db,
         spool, files
    <3> QED BY <3>1, AbstractSteps DEF Authorized, Published, Pair
  <2> QED BY <2>1, <2>2
<1>4. ASSUME NEW p \in Procs, Commit(p) PROVE Ledger!Next \/ UNCHANGED view
  <2>1. CASE Raise(p, "conflict")
    BY <2>1, Invisible DEF Raise, db, spool, files
  <2>2. CASE ~Raise(p, "conflict")
    <3>1. /\ cur[p] \in Jobs /\ job[cur[p]] = "PREPARED"
          /\ Pair(cur[p]) \/ cur[p] \in altered
          /\ row' = [row EXCEPT ![cur[p]] = "exact"]
          /\ job' = [job EXCEPT ![cur[p]] = "COMPLETE"]
          /\ UNCHANGED <<final, altered>>
      BY <1>4, <2>2 DEF Commit, Engaged, RowsInv, Learnt, FilesInv, Progress, spool, files
    <3>2. Authorized' = Authorized \cup {cur[p]} /\ UNCHANGED Published
      BY <3>1 DEF Authorized, Published, Pair
    <3>3. cur[p] \in Published \cup altered
      BY <3>1 DEF Published
    <3> QED BY <3>1, <3>2, <3>3, AbstractSteps
  <2> QED BY <2>1, <2>2
<1>5. ASSUME NEW p \in Procs, Proceed(p), ~Prepare(p), ~Publish(p), ~VerifyPair(p), ~Confirm(p),
             ~Commit(p)
      PROVE  UNCHANGED view
  BY <1>5, Invisible DEF Proceed, Acquire, LockTimeout, Gate, Eligible, Inspect, Stage,
     Quarantine, Withdraw, Open, Write, Unlink, Raise, db, spool, files
<1>6. ASSUME NEW j \in Jobs, NEW k \in Kinds, NEW bytes \in FinalBytes, AlterFinal(j, k, bytes)
      PROVE  Ledger!Next
  <2>1. /\ final' = [final EXCEPT ![j][k] = bytes]
        /\ altered' = altered \cup {j}
        /\ UNCHANGED <<job, row>>
    BY <1>6 DEF AlterFinal, db
  <2>2. \A i \in Jobs \ {j} : Pair(i)' <=> Pair(i)
    BY <2>1 DEF Pair
  <2>3. Published' \in {Published, Published \cup {j}, Published \ {j}}
    BY <2>2 DEF Published
  <2>4. UNCHANGED Authorized
    BY <2>1 DEF Authorized
  <2> QED BY <2>1, <2>3, <2>4, AbstractSteps
<1>7. ASSUME Environment PROVE Ledger!Next \/ UNCHANGED view
  BY <1>6, <1>7, Invisible DEF Environment, EnterExclusive, EnterShared, Exit, Register,
     AlterEvidence, db, spool, files
<1> QED
  BY <1>1, <1>2, <1>3, <1>4, <1>5, <1>7, Invisible DEF Next, Begin, Interrupt, Fail, Crash,
     vars, db, spool, files

\* The processor keeps the promise of the ledger: checkpoint, one visible pair,
\* one COMPLETE, in that order, whatever is interrupted.
THEOREM ProcessorImplementsLedger == Spec => ImplementsLedger
  BY RefinesInit, RefinesStep, Inductive, PTL DEF Spec, ImplementsLedger, Ledger!Spec

--------------------------------------------------------------------------------
\* The ledger never runs ahead of the spool, stated of the abstract ledger and
\* therefore true of the processor.
THEOREM LedgerIsBacked == Spec => []Ledger!SpoolBacksLedger
<1>1. IInv => Ledger!SpoolBacksLedger
  BY DEF IInv, RowsInv, FilesInv, Ledger!SpoolBacksLedger
<1> QED BY <1>1, Inductive, PTL

================================================================================
