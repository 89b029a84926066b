------------------------------ MODULE WorkerProofs ------------------------------
(***************************************************************************)
(* Proofs about Worker and ExactWorker, for any number of workers and      *)
(* inputs, any batches and manifests, and any bounds on interruptions.     *)
(***************************************************************************)
EXTENDS ExactWorker, LedgerProofs, FiniteSetTheorems

States == JobStates \ {"FOREIGN"}

--------------------------------------------------------------------------------
(***************************************************************************)
(* What a step of a worker is to the calls                                 *)
(***************************************************************************)

\* The calls stand still; an event other than a change of files is spent.
Still ==
  /\ UNCHANGED <<db, spool, locks, local, altered>>
  /\ spent' \in [Events -> Nat]
  /\ spent'["alter"] = spent["alter"]

\* Spending a fault between two calls is such a step.
LEMMA FaultIsStill ==
  ASSUME Typed, Spend("fault"), UNCHANGED <<db, spool, locks, local, altered>>
  PROVE  Still
  BY DEF Typed, TypeOK, Spend, Still, Events

\* The invariant of the calls does not mind.
LEMMA StillKeeps == IInv /\ Still => IInv'
<1> SUFFICES ASSUME IInv, Still PROVE IInv'
  OBVIOUS
<1> USE DEF Still, db, spool, files, locks, local
<1>1. Typed'
  BY DEF IInv, Typed, TypeOK, Engaged
<1>2. LockInv'
  BY DEF IInv, LockInv, Critical
<1>3. RowsInv'
  BY DEF IInv, RowsInv, Learnt
<1>4. FilesInv'
  <2>1. (\A p \in Procs : Progress(p))'
    BY DEF IInv, FilesInv, Progress, ReportOut, Pair
  <2>2. (\A j \in Jobs : job[j] = "COMPLETE" => Pair(j) \/ j \in altered)'
    BY DEF IInv, FilesInv, Pair
  <2>3. ReportBeforeManifest' /\ FilesHaveAuthority' /\ QuarantineIsTorn'
    BY DEF IInv, FilesInv, ReportBeforeManifest, FilesHaveAuthority, QuarantineIsTorn
  <2> QED BY <2>1, <2>2, <2>3 DEF IInv, FilesInv
<1>5. ResultInv'
  BY DEF IInv, ResultInv, ResultIsTrue
<1> QED BY <1>1, <1>2, <1>3, <1>4, <1>5 DEF IInv

\* Completed is a count.
LEMMA CompletedIsNat ==
  ASSUME XTypeOK, NEW w \in Procs
  PROVE  Completed(w) \in Nat
  BY DEF XTypeOK, WTypeOK, Completed, Counters

\* A worker is called for the job of an input.
LEMMA JobOfInput ==
  ASSUME NEW i \in Inputs
  PROVE  JobOf(i) \in Jobs /\ JobOf(i)[1] = i
  BY ListedAssumption DEF JobOf, Jobs

\* A step of the workers is a step of the calls, or leaves them still.
LEMMA StepOfCalls ==
  ASSUME Typed, XTypeOK, [XNext]_xvars
  PROVE  [Next]_vars \/ Still
<1>1. ASSUME NEW w \in Procs, SelectAll(w) \/ SelectExact(w) PROVE UNCHANGED vars
  BY <1>1 DEF SelectAll, Select, SelectExact
<1>2. ASSUME NEW w \in Procs, XAdvance(w) PROVE [Next]_vars
  <2>1. CASE InCall(w)
    BY <2>1 DEF InCall, Next
  <2>2. CASE Call(w)
    <3>1. pc[w] = "idle" /\ Begin(w, JobOf(batch[w][Completed(w) + 1]))
      BY <2>2 DEF Call, Begin
    <3>2. Completed(w) + 1 \in DOMAIN batch[w] /\ batch[w] \in Seq(Inputs)
      BY <2>2, CompletedIsNat DEF Call, XTypeOK, WTypeOK
    <3>3. JobOf(batch[w][Completed(w) + 1]) \in Jobs
      BY <3>2, JobOfInput
    <3> QED BY <3>1, <3>3 DEF Next
  <2> QED
    BY <1>2, <2>1, <2>2 DEF XAdvance, CheckEntry, Refuse, ReadState, Collect, Summarize
<1>3. ASSUME NEW w \in Procs, SnapshotFails(w) PROVE Still
  BY <1>3, FaultIsStill DEF SnapshotFails
<1>4. ASSUME NEW w \in Procs, Die(w) PROVE Next \/ Still
  BY <1>4, FaultIsStill DEF Die, Next, Interrupt
<1>5. ASSUME NEW w \in Procs, Fail(w) PROVE Next
  BY <1>5 DEF Next, Interrupt
<1>6. ASSUME Environment PROVE Next
  BY <1>6 DEF Next
<1> QED
  BY <1>1, <1>2, <1>3, <1>4, <1>5, <1>6 DEF XNext, xvars, allvars

\* A step that leaves the calls still is none of the ledger, and works on nothing.
LEMMA StillIsNothing ==
  ASSUME Still
  PROVE  UNCHANGED view /\ JobStep /\ NoReplaceStep /\ HolderStep
<1> USE DEF Still, db, spool, files
<1>1. UNCHANGED view
  BY Invisible
<1>2. JobStep /\ NoReplaceStep /\ HolderStep
  BY DEF JobStep, NoReplaceStep, HolderStep
<1> QED BY <1>1, <1>2

\* Beside workers or clients of any kind, the calls keep every promise they make
\* when they are alone.
LEMMA PromisesKept ==
  ASSUME IInv, [Next]_vars \/ Still
  PROVE  /\ [Ledger!Next]_(Ledger!vars)
         /\ JobStep /\ NoReplaceStep /\ HolderStep
<1>1. CASE [Next]_vars
  <2>1. IInv'
    BY <1>1, InductiveStep
  <2> QED
    BY <1>1, <2>1, RefinesStep, JobMoves, NoReplaceHolds, HolderStepHolds DEF IInv
<1>2. CASE Still
  BY <1>2, StillIsNothing DEF Ledger!vars, view, Authorized, Published
<1> QED BY <1>1, <1>2

\* What worker v has at hand in its run.
Own(v)  == <<phase[v], batch[v], prior[v], count[v], status[v], approved[v]>>

\* Jobs never go back: what has been reached stays reached.
Onward == \A j \in Jobs, s \in States : Reached(j, s) => Reached(j, s)'

\* The ranks, as numbers.
LEMMA Ranks ==
  /\ Rank("MISSING") = 0
  /\ Rank("PREPARED") = 1
  /\ Rank("COMPLETE") = 2
  BY DEF Rank

\* COMPLETE is reached by COMPLETE alone.
LEMMA ReachedComplete ==
  ASSUME Typed, NEW j \in Jobs, Reached(j, "COMPLETE")
  PROVE  job[j] = "COMPLETE"
  BY Ranks DEF Reached, Typed, TypeOK, JobStates

\* What is read has been reached.
LEMMA ReachedNow ==
  ASSUME Typed, NEW j \in Jobs, job[j] # "FOREIGN"
  PROVE  Reached(j, job[j])
<1>1. job[j] = "MISSING" \/ job[j] = "PREPARED" \/ job[j] = "COMPLETE"
  BY DEF Typed, TypeOK, JobStates
<1> QED BY <1>1, Ranks DEF Reached

\* Every step of the workers takes the jobs onward.
LEMMA JobsMoveOnward ==
  ASSUME IInv, XTypeOK, [XNext]_xvars
  PROVE  IInv' /\ Onward
<1>1. CASE [Next]_vars
  <2>1. JobStep
    BY <1>1, JobMoves DEF IInv
  <2>2. Onward
    BY <2>1, Ranks DEF JobStep, Onward, Reached, States, JobStates
  <2> QED BY <1>1, <2>2, InductiveStep
<1>2. CASE Still
  BY <1>2, StillKeeps DEF Still, db, Onward, Reached
<1> QED BY <1>1, <1>2, StepOfCalls DEF IInv

--------------------------------------------------------------------------------
(***************************************************************************)
(* The inductive invariant of one worker                                   *)
(***************************************************************************)

\* The batch is read in order, and nothing that was read is undone.
Reads(w) ==
  /\ Len(prior[w]) <= Len(batch[w])
  /\ \A n \in DOMAIN prior[w] : Reached(JobOf(batch[w][n]), prior[w][n])

\* The counters count the candidates in front, by the state read for each.
CountedAs(w, state) == {n \in 1..Completed(w) : prior[w][n] = state}
Counts(w) ==
  /\ Completed(w) <= Len(prior[w])
  /\ \A n \in 1..Completed(w) : job[JobOf(batch[w][n])] = "COMPLETE"
  /\ \A state \in States : count[w][CounterOf(state)] = Cardinality(CountedAs(w, state))

\* The snapshot is complete and, in an exact run, what was approved.
Settled(w) ==
  /\ Len(prior[w]) = Len(batch[w])
  /\ Exact(w) => Len(batch[w]) = Len(approved[w]) /\ Matches(w)

\* A call is for the candidate after those counted, and finds it COMPLETE if the
\* snapshot did.
Calls(w) ==
  /\ phase[w] # "calling" => pc[w] = "idle"
  /\ phase[w] = "calling" =>
       /\ Settled(w)
       /\ Completed(w) < Len(batch[w])
       /\ cur[w] = JobOf(batch[w][Completed(w) + 1])
       /\ prior[w][Completed(w) + 1] = "COMPLETE" =>
            pc[w] \in {"idle", "lock", "gate", "adopt"} /\ result[w] # "created"

\* A pass has counted all of a settled batch.
Passed(w) ==
  status[w] = "pass" =>
    phase[w] = "idle" /\ Settled(w) /\ Completed(w) = Len(batch[w])

WInv(w) == Reads(w) /\ Counts(w) /\ Calls(w) /\ Passed(w)

\* A run that keeps its batch, what it read and its counters keeps what holds of
\* them while jobs move onward.
LEMMA Kept ==
  ASSUME IInv, IInv', XTypeOK, Onward, NEW v \in Procs, Reads(v), Counts(v),
         <<batch[v], prior[v], count[v], approved[v]>>'
           = <<batch[v], prior[v], count[v], approved[v]>>
  PROVE  /\ Reads(v)' /\ Counts(v)'
         /\ Settled(v)' = Settled(v) /\ Completed(v)' = Completed(v)
<1>1. batch[v] \in Seq(Inputs) /\ prior[v] \in Seq(States) /\ Completed(v) \in Nat
  BY CompletedIsNat DEF XTypeOK, WTypeOK, States
<1>2. Completed(v)' = Completed(v)
  BY DEF Completed
<1>3. ASSUME NEW n \in DOMAIN prior[v] PROVE Reached(JobOf(batch[v][n]), prior[v][n])'
  <2>1. batch[v][n] \in Inputs /\ prior[v][n] \in States
    BY <1>1, <1>3 DEF Reads
  <2> QED BY <1>3, <2>1, JobOfInput DEF Reads, Onward
<1>4. ASSUME NEW n \in 1..Completed(v), job[JobOf(batch[v][n])] = "COMPLETE"
      PROVE  job'[JobOf(batch[v][n])] = "COMPLETE"
  <2>1. JobOf(batch[v][n]) \in Jobs
    BY <1>1, JobOfInput DEF Reads, Counts
  <2>2. Reached(JobOf(batch[v][n]), "COMPLETE")
    BY <1>4, Ranks DEF Reached
  <2>3. Reached(JobOf(batch[v][n]), "COMPLETE")'
    BY <2>1, <2>2 DEF Onward, States, JobStates
  <2>4. \/ job'[JobOf(batch[v][n])] = "MISSING" \/ job'[JobOf(batch[v][n])] = "PREPARED"
        \/ job'[JobOf(batch[v][n])] = "COMPLETE" \/ job'[JobOf(batch[v][n])] = "FOREIGN"
    BY <2>1 DEF IInv, Typed, TypeOK, JobStates
  <2>5. Rank(job'[JobOf(batch[v][n])]) >= Rank("COMPLETE") /\ job'[JobOf(batch[v][n])] # "FOREIGN"
    BY <2>3 DEF Reached
  <2> QED BY <2>4, <2>5, Ranks
<1>5. Reads(v)'
  BY <1>3 DEF Reads, JobOf
<1>6. Counts(v)'
  BY <1>2, <1>4 DEF Counts, CountedAs, JobOf
<1>7. Settled(v)' = Settled(v)
  BY DEF Settled, Exact, Matches
<1> QED BY <1>2, <1>5, <1>6, <1>7

\* A run that stands still keeps its invariant, if its call does its part.
LEMMA Frame ==
  ASSUME IInv, IInv', XTypeOK, Onward, NEW v \in Procs, WInv(v),
         Own(v)' = Own(v), cur'[v] = cur[v],
         phase[v] # "calling" => pc'[v] = "idle",
         phase[v] = "calling" /\ prior[v][Completed(v) + 1] = "COMPLETE" =>
           pc'[v] \in {"idle", "lock", "gate", "adopt"} /\ result'[v] # "created"
  PROVE  WInv(v)'
<1>1. Reads(v)' /\ Counts(v)' /\ Settled(v)' = Settled(v) /\ Completed(v)' = Completed(v)
  BY Kept DEF WInv, Own
<1>2. Calls(v)'
  BY <1>1 DEF WInv, Calls, JobOf, Own
<1>3. Passed(v)'
  BY <1>1 DEF WInv, Passed, Own
<1> QED BY <1>1, <1>2, <1>3 DEF WInv

--------------------------------------------------------------------------------
(***************************************************************************)
(* Types                                                                   *)
(***************************************************************************)

\* The counters, as one record each.
LEMMA CounterNames ==
  /\ CounterOf("COMPLETE") = "already_complete"
  /\ CounterOf("PREPARED") = "prepared_resumed"
  /\ CounterOf("MISSING") = "newly_completed"
  BY DEF CounterOf

\* Every state that may be read has a counter.
LEMMA StateCounters ==
  ASSUME NEW state \in States
  PROVE  CounterOf(state) \in Counters
<1>1. state = "MISSING" \/ state = "PREPARED" \/ state = "COMPLETE"
  BY DEF States, JobStates
<1> QED BY <1>1, CounterNames DEF Counters

\* Submitted manifests are sequences of entries.
LEMMA ManifestType ==
  ASSUME NEW some \in SUBSET Inputs, NEW said \in [some -> States]
  PROVE  Manifest(some, said) \in Seq(Entries)
<1>1. Listed[some] \in Seq(Inputs)
  BY ListedAssumption
<1>2. \A n \in DOMAIN Listed[some] : Listed[some][n] \in some
  BY ListedAssumption
<1>3. \A n \in DOMAIN Listed[some] :
        [input |-> Listed[some][n], state |-> said[Listed[some][n]]] \in Entries
  BY <1>1, <1>2 DEF Entries, States
<1> HIDE DEF Entries
<1>4. PICK k \in Nat : DOMAIN Listed[some] = 1..k
  BY <1>1
<1> QED BY <1>3, <1>4 DEF Manifest

\* Tally adds one to one counter, and so to Completed.
LEMMA TallyCounts ==
  ASSUME XTypeOK, NEW w \in Procs, NEW state \in States,
         state = prior[w][Completed(w) + 1], Tally(w)
  PROVE  /\ count' \in [Procs -> [Counters -> Nat]]
         /\ count'[w] = [count[w] EXCEPT ![CounterOf(state)] = @ + 1]
         /\ \A v \in Procs \ {w} : count'[v] = count[v]
         /\ Completed(w)' = Completed(w) + 1
<1>1. CounterOf(state) \in Counters
  BY StateCounters
<1>2. count \in [Procs -> [Counters -> Nat]]
  BY DEF XTypeOK, WTypeOK
<1>3. /\ count' \in [Procs -> [Counters -> Nat]]
      /\ count'[w] = [count[w] EXCEPT ![CounterOf(state)] = @ + 1]
      /\ \A v \in Procs \ {w} : count'[v] = count[v]
  BY <1>1, <1>2 DEF Tally
<1>4. Completed(w)' = Completed(w) + 1
  BY <1>1, <1>2, <1>3 DEF Completed, Counters
<1> QED BY <1>3, <1>4

\* Steps that leave the runs alone.
LEMMA SameRuns ==
  ASSUME XTypeOK, IInv', UNCHANGED <<wvars, approved>>
  PROVE  XTypeOK'
  BY DEF XTypeOK, WTypeOK, wvars, IInv, Typed

\* Finishing changes phase and status only.
LEMMA FinishTypes ==
  ASSUME XTypeOK, NEW w \in Procs, NEW outcome \in Statuses, Finish(w, outcome)
  PROVE  /\ phase' \in [Procs -> Phases] /\ status' \in [Procs -> Statuses]
         /\ phase'[w] = "idle" /\ status'[w] = outcome
         /\ \A v \in Procs \ {w} : phase'[v] = phase[v] /\ status'[v] = status[v]
  BY DEF XTypeOK, WTypeOK, Finish, Phases

\* Every step of the workers keeps the types.
LEMMA TypesKept ==
  ASSUME IInv, IInv', XTypeOK, \A w \in Procs : WInv(w), [XNext]_xvars
  PROVE  XTypeOK'
<1> USE DEF XTypeOK, WTypeOK
<1>1. TypeOK'
  BY DEF IInv, Typed
<1>2. ASSUME NEW w \in Procs, SelectAll(w) PROVE XTypeOK'
  <2>1. {i \in Inputs : asserted[i] = 1} \in SUBSET Inputs
    OBVIOUS
  <2>2. Listed[{i \in Inputs : asserted[i] = 1}] \in Seq(Inputs)
    BY <2>1, ListedAssumption
  <2>3. NoCounts \in [Counters -> Nat] /\ <<>> \in Seq(JobStates \ {"FOREIGN"})
    BY DEF NoCounts
  <2> HIDE DEF NoCounts
  <2> QED BY <1>1, <1>2, <2>2, <2>3 DEF SelectAll, Select, Phases, Statuses
<1>3. ASSUME NEW w \in Procs, SelectExact(w) PROVE XTypeOK'
  <2>0. PICK some \in SUBSET Inputs : \E said \in [some -> States] :
          approved' = [approved EXCEPT ![w] = Manifest(some, said)]
    BY <1>3 DEF SelectExact, Submit, States
  <2>1. PICK said \in [some -> States] :
          approved' = [approved EXCEPT ![w] = Manifest(some, said)]
    BY <2>0
  <2>2. Manifest(some, said) \in Seq(Entries)
    BY ManifestType
  <2>3. NoCounts \in [Counters -> Nat] /\ <<>> \in Seq(JobStates \ {"FOREIGN"})
        /\ <<>> \in Seq(Inputs)
    BY DEF NoCounts
  <2> HIDE DEF NoCounts, Manifest, Entries
  <2>4. approved' \in [Procs -> {NoManifest} \cup Seq(Entries)]
        /\ \A v \in Procs : v # w => approved'[v] = approved[v]
    BY <2>1, <2>2
  <2>5. WTypeOK' /\ batch'[w] = <<>> /\ \A v \in Procs : v # w => batch'[v] = batch[v]
    BY <1>1, <1>3, <2>3 DEF SelectExact, Phases, Statuses
  <2>6. ASSUME NEW v \in Procs, approved'[v] # NoManifest
        PROVE  /\ Len(batch'[v]) <= Len(approved'[v])
               /\ \A n \in DOMAIN batch'[v] : batch'[v][n] = approved'[v][n].input
    <3>1. CASE v = w
      BY <2>1, <2>2, <2>5, <3>1
    <3>2. CASE v # w
      BY <2>4, <2>5, <2>6, <3>2
    <3> QED BY <3>1, <3>2
  <2> QED BY <2>4, <2>5, <2>6
<1>4. ASSUME NEW w \in Procs, CheckEntry(w) PROVE XTypeOK'
  <2>1. CASE UNCHANGED batch
    BY <1>1, <1>4, <2>1, FinishTypes DEF CheckEntry, Statuses
  <2> DEFINE i == approved[w][Len(batch[w]) + 1].input
  <2>2. CASE batch' = [batch EXCEPT ![w] = Append(@, i)]
    <3>1. /\ Exact(w) /\ Len(batch[w]) < Len(approved[w])
          /\ UNCHANGED <<phase, status, prior, count, approved>>
      <4>1. batch' # batch
        BY <2>2
      <4> QED BY <1>4, <4>1 DEF CheckEntry
    <3>2. approved[w] \in Seq(Entries) /\ batch[w] \in Seq(Inputs)
      BY <3>1 DEF Exact
    <3>3. i \in Inputs
      <4>1. Len(batch[w]) + 1 \in 1..Len(approved[w])
        BY <3>1, <3>2
      <4>2. approved[w][Len(batch[w]) + 1] \in Entries
        BY <3>2, <4>1
      <4> QED BY <4>2 DEF Entries
    <3>4. batch' \in [Procs -> Seq(Inputs)] /\ batch'[w] = Append(batch[w], i)
          /\ \A v \in Procs : v # w => batch'[v] = batch[v]
      <4> HIDE DEF i
      <4> QED BY <2>2, <3>2, <3>3
    <3>5. Len(batch'[w]) <= Len(approved[w])
          /\ \A n \in DOMAIN batch'[w] : batch'[w][n] = approved[w][n].input
      BY <3>1, <3>2, <3>3, <3>4 DEF Exact
    <3> QED BY <1>1, <3>1, <3>4, <3>5
  <2> QED BY <1>4, <2>1, <2>2 DEF CheckEntry
<1>5. ASSUME NEW w \in Procs, Refuse(w) PROVE XTypeOK'
  BY <1>1, <1>5, FinishTypes DEF Refuse, Statuses
<1>6. ASSUME NEW w \in Procs, ReadState(w), UNCHANGED approved PROVE XTypeOK'
  <2> DEFINE state == job[JobOf(batch[w][Len(prior[w]) + 1])]
  <2>1. CASE Finish(w, "error") /\ UNCHANGED <<batch, prior, count>>
    BY <1>1, <1>6, <2>1, FinishTypes DEF Statuses
  <2>2. CASE state # "FOREIGN" /\ prior' = [prior EXCEPT ![w] = Append(@, state)]
             /\ UNCHANGED <<phase, batch, count, status>>
    <3>1. batch[w][Len(prior[w]) + 1] \in Inputs
      BY <1>6 DEF ReadState
    <3>2. state \in JobStates \ {"FOREIGN"}
      BY <2>2, <3>1, JobOfInput DEF TypeOK
    <3>3. prior' \in [Procs -> Seq(JobStates \ {"FOREIGN"})]
      <4> HIDE DEF state
      <4> QED BY <2>2, <3>2
    <3> QED BY <1>1, <1>6, <2>2, <3>3
  <2> QED BY <1>6, <2>1, <2>2 DEF ReadState
<1>7. ASSUME NEW w \in Procs, Call(w), UNCHANGED approved PROVE XTypeOK'
  BY <1>1, <1>7 DEF Call, Phases
<1>8. ASSUME NEW w \in Procs, Collect(w), UNCHANGED approved PROVE XTypeOK'
  <2>1. CASE Tally(w) /\ UNCHANGED status /\ phase' = [phase EXCEPT ![w] = "running"]
    <3>1. phase[w] = "calling"
      BY <1>8 DEF Collect
    <3>2. prior[w][Completed(w) + 1] \in States
      BY <3>1, CompletedIsNat DEF WInv, Calls, Settled, States
    <3>3. count' \in [Procs -> [Counters -> Nat]]
      BY <2>1, <3>2, TallyCounts
    <3> QED BY <1>1, <1>8, <2>1, <3>3 DEF Collect, Phases
  <2>2. CASE UNCHANGED count /\ \E outcome \in {"deferred", "error"} : Finish(w, outcome)
    BY <1>1, <1>8, <2>2, FinishTypes DEF Collect, Statuses
  <2> QED BY <1>8, <2>1, <2>2 DEF Collect
<1>9. ASSUME NEW w \in Procs, Summarize(w), UNCHANGED approved PROVE XTypeOK'
  BY <1>1, <1>9, FinishTypes DEF Summarize, Statuses
<1>10. ASSUME NEW w \in Procs, SnapshotFails(w) \/ Die(w), UNCHANGED approved PROVE XTypeOK'
  BY <1>1, <1>10, FinishTypes DEF SnapshotFails, Die, Statuses
<1>11. CASE UNCHANGED <<wvars, approved>>
  BY <1>11, SameRuns
<1> QED
  BY <1>2, <1>3, <1>4, <1>5, <1>6, <1>7, <1>8, <1>9, <1>10, <1>11
     DEF XNext, XAdvance, InCall, xvars, allvars

--------------------------------------------------------------------------------
(***************************************************************************)
(* The steps of one worker                                                 *)
(***************************************************************************)

\* A call keeps the job it is about.
LEMMA CallKeepsJob ==
  ASSUME Typed, NEW p \in Procs, Proceed(p)
  PROVE  pc[p] # "idle" /\ cur'[p] = cur[p]
  BY DEF Proceed, Acquire, LockTimeout, Gate, Eligible, Prepare, Inspect, Stage, Quarantine,
     Withdraw, Open, Write, Publish, Unlink, VerifyPair, Commit, Confirm, Raise, Leave, Goto,
     Staged, local

\* A call for a COMPLETE job works on nothing: it adopts, or it fails.
LEMMA CompleteIsAdopted ==
  ASSUME IInv, NEW p \in Procs, Proceed(p), pc[p] \in {"lock", "gate", "adopt"},
         job[cur[p]] = "COMPLETE"
  PROVE  /\ pc'[p] \in {"idle", "gate", "adopt"}
         /\ result'[p] # "created"
         /\ UNCHANGED <<job, row, final, partial, quarantine>>
<1> USE DEF IInv, Typed, TypeOK, db, spool, files
<1>0. result[p] = "none"
  BY DEF ResultInv
<1>1. ASSUME NEW r \in Errors \cup {"busy"}, Raise(p, r)
      PROVE  pc'[p] = "idle" /\ result'[p] # "created" /\ UNCHANGED <<db, spool>>
  BY <1>1 DEF Raise, Leave, Errors
<1>2. CASE pc[p] = "lock"
  <2>1. Acquire(p) \/ LockTimeout(p)
    BY <1>2 DEF Proceed, Gate, Eligible, Prepare, Inspect, Stage, Quarantine,
       Withdraw, Open, Write, Publish, Unlink, VerifyPair, Commit, Confirm
  <2>2. CASE Acquire(p)
    BY <1>0, <2>2 DEF Acquire, Goto
  <2>3. CASE LockTimeout(p)
    BY <1>1, <2>3 DEF LockTimeout
  <2> QED BY <2>1, <2>2, <2>3
<1>3. CASE pc[p] = "gate"
  <2>1. Gate(p)
    BY <1>3 DEF Proceed, Acquire, LockTimeout, Eligible, Prepare, Inspect, Stage, Quarantine,
       Withdraw, Open, Write, Publish, Unlink, VerifyPair, Commit, Confirm
  <2>2. CASE Raise(p, "evidence")
    BY <1>1, <2>2 DEF Errors
  <2>3. CASE Goto(p, "adopt") /\ UNCHANGED <<db, spool>>
    BY <1>0, <2>3 DEF Goto
  <2> QED BY <2>1, <2>2, <2>3 DEF Gate
<1>4. CASE pc[p] = "adopt"
  <2>1. Confirm(p)
    BY <1>4 DEF Proceed, Acquire, LockTimeout, Gate, Eligible, Prepare, Inspect, Stage,
       Quarantine, Withdraw, Open, Write, Publish, Unlink, VerifyPair, Commit
  <2>2. CASE Raise(p, "evidence")
    BY <1>1, <2>2 DEF Errors
  <2>3. CASE Leave(p, "existing") /\ UNCHANGED <<db, spool>>
    BY <2>3 DEF Leave
  <2> QED BY <1>4, <2>1, <2>2, <2>3 DEF Confirm
<1> QED BY <1>2, <1>3, <1>4

\* The candidate a worker is called for is COMPLETE if the snapshot said so.
LEMMA KnownComplete ==
  ASSUME IInv, XTypeOK, NEW w \in Procs, WInv(w), phase[w] = "calling",
         prior[w][Completed(w) + 1] = "COMPLETE"
  PROVE  job[cur[w]] = "COMPLETE"
<1>1. Completed(w) + 1 \in DOMAIN prior[w] /\ Completed(w) + 1 \in DOMAIN batch[w]
      /\ batch[w] \in Seq(Inputs)
  BY CompletedIsNat DEF WInv, Calls, Settled, XTypeOK, WTypeOK
<1>2. Reached(cur[w], "COMPLETE") /\ cur[w] = JobOf(batch[w][Completed(w) + 1])
  BY <1>1 DEF WInv, Reads, Calls
<1>3. cur[w] \in Jobs
  BY <1>1, <1>2, JobOfInput
<1> QED BY <1>2, <1>3, ReachedComplete DEF IInv

\* A new run starts with nothing read or counted.
LEMMA SelectStep ==
  ASSUME IInv, XTypeOK, XTypeOK', NEW w \in Procs, WInv(w), SelectAll(w) \/ SelectExact(w)
  PROVE  WInv(w)'
<1>1. /\ phase[w] = "idle" /\ phase'[w] = "running" /\ status'[w] = "none"
      /\ prior'[w] = <<>> /\ count'[w] = NoCounts /\ UNCHANGED vars
  BY DEF SelectAll, Select, SelectExact, XTypeOK, WTypeOK
<1>2. Completed(w)' = 0
  BY <1>1 DEF Completed, NoCounts, Counters
<1>3. Reads(w)'
  BY <1>1 DEF Reads, XTypeOK, WTypeOK
<1>4. Counts(w)'
  <2>1. \A state \in States : CountedAs(w, state)' = {}
    BY <1>2 DEF CountedAs
  <2>2. \A state \in States : count'[w][CounterOf(state)] = 0
    BY <1>1, StateCounters DEF NoCounts
  <2>3. (\A state \in States : count[w][CounterOf(state)] = Cardinality(CountedAs(w, state)))'
    BY <2>1, <2>2, FS_EmptySet
  <2>4. (Completed(w) <= Len(prior[w]))'
    BY <1>1, <1>2
  <2>5. (\A n \in 1..Completed(w) : job[JobOf(batch[w][n])] = "COMPLETE")'
    BY <1>2
  <2> QED BY <2>3, <2>4, <2>5 DEF Counts
<1>5. Calls(w)' /\ Passed(w)'
  BY <1>1 DEF WInv, Calls, Passed, vars, local
<1> QED BY <1>3, <1>4, <1>5 DEF WInv

\* Steps that change phase and status only.
LEMMA PhaseStep ==
  ASSUME IInv, IInv', XTypeOK, Onward, NEW w \in Procs, WInv(w),
         <<batch[w], prior[w], count[w], approved[w]>>'
           = <<batch[w], prior[w], count[w], approved[w]>>,
         phase'[w] # "calling", pc'[w] = "idle",
         status'[w] = "pass" => phase'[w] = "idle" /\ Settled(w) /\ Completed(w) = Len(batch[w])
  PROVE  WInv(w)'
<1>1. Reads(w)' /\ Counts(w)' /\ Settled(w)' = Settled(w) /\ Completed(w)' = Completed(w)
  BY Kept DEF WInv
<1> QED BY <1>1 DEF WInv, Calls, Passed

\* One more entry of a manifest is taken for a candidate.
LEMMA CheckStep ==
  ASSUME IInv, IInv', XTypeOK, Onward, NEW w \in Procs, WInv(w), CheckEntry(w)
  PROVE  WInv(w)'
<1>1. phase[w] = "running" /\ pc[w] = "idle" /\ status[w] # "pass" /\ UNCHANGED vars
      /\ UNCHANGED <<prior, count, approved>>
  BY DEF CheckEntry, Ready, WInv, Calls, Passed
<1>2. CASE Finish(w, "error") /\ UNCHANGED batch
  BY <1>1, <1>2, PhaseStep, FinishTypes DEF Statuses, vars, local
<1> DEFINE i == approved[w][Len(batch[w]) + 1].input
<1>3. CASE batch' = [batch EXCEPT ![w] = Append(@, i)] /\ UNCHANGED <<phase, status>>
  <2>1. batch[w] \in Seq(Inputs) /\ prior[w] \in Seq(States) /\ Completed(w) \in Nat
    BY CompletedIsNat DEF XTypeOK, WTypeOK, States
  <2>2. batch'[w] = Append(batch[w], i)
    BY <1>3 DEF XTypeOK, WTypeOK
  <2> HIDE DEF i
  <2>3. Len(batch'[w]) = Len(batch[w]) + 1 /\ \A n \in DOMAIN batch[w] : batch'[w][n] = batch[w][n]
    BY <2>1, <2>2
  <2>4. Completed(w)' = Completed(w)
    BY <1>1 DEF Completed
  <2>5. Reads(w)'
    <3>1. (Len(prior[w]) <= Len(batch[w]))'
      BY <1>1, <2>1, <2>3 DEF WInv, Reads
    <3>2. ASSUME NEW n \in DOMAIN prior'[w] PROVE Reached(JobOf(batch[w][n]), prior[w][n])'
      <4>1. n \in DOMAIN prior[w] /\ n \in DOMAIN batch[w]
        BY <1>1, <2>1, <3>2 DEF WInv, Reads
      <4> QED BY <1>1, <2>3, <4>1 DEF WInv, Reads, Reached, vars, db, JobOf
    <3> QED BY <3>1, <3>2 DEF Reads
  <2>6. Counts(w)'
    <3>1. ASSUME NEW n \in 1..Completed(w) PROVE job'[JobOf(batch'[w][n])] = "COMPLETE"
      <4>1. n \in DOMAIN batch[w]
        BY <2>1 DEF WInv, Reads, Counts
      <4> QED BY <1>1, <2>3, <4>1 DEF WInv, Counts, vars, db, JobOf
    <3>2. \A state \in States : CountedAs(w, state)' = CountedAs(w, state)
      BY <1>1, <2>4 DEF CountedAs
    <3> QED BY <1>1, <2>4, <3>1, <3>2 DEF WInv, Counts, JobOf
  <2>7. Calls(w)' /\ Passed(w)'
    BY <1>1, <1>3 DEF Calls, Passed, vars, local
  <2> QED BY <2>5, <2>6, <2>7 DEF WInv
<1> QED BY <1>2, <1>3 DEF CheckEntry

\* One more state is read.
LEMMA ReadStep ==
  ASSUME IInv, IInv', XTypeOK, Onward, NEW w \in Procs, WInv(w), ReadState(w),
         UNCHANGED approved
  PROVE  WInv(w)'
<1>1. phase[w] = "running" /\ pc[w] = "idle" /\ status[w] # "pass" /\ UNCHANGED vars
      /\ Len(prior[w]) < Len(batch[w])
  BY DEF ReadState, WInv, Calls, Passed
<1> DEFINE state == job[JobOf(batch[w][Len(prior[w]) + 1])]
<1>2. CASE Finish(w, "error") /\ UNCHANGED <<batch, prior, count>>
  BY <1>1, <1>2, PhaseStep, FinishTypes DEF Statuses, vars, local
<1>3. CASE state # "FOREIGN" /\ prior' = [prior EXCEPT ![w] = Append(@, state)]
           /\ UNCHANGED <<phase, batch, count, status>>
  <2>1. batch[w] \in Seq(Inputs) /\ prior[w] \in Seq(States) /\ Completed(w) \in Nat
    BY CompletedIsNat DEF XTypeOK, WTypeOK, States
  <2>2. batch[w][Len(prior[w]) + 1] \in Inputs
    BY <1>1, <2>1
  <2>3. Reached(JobOf(batch[w][Len(prior[w]) + 1]), state) /\ state \in States
    BY <1>3, <2>2, JobOfInput, ReachedNow DEF IInv, Typed, TypeOK, States
  <2>4. prior'[w] = Append(prior[w], state)
    BY <1>3 DEF XTypeOK, WTypeOK
  <2>5. \A j \in Jobs : job'[j] = job[j]
    BY <1>1 DEF vars, db
  <2>6. Completed(w)' = Completed(w)
    BY <1>3 DEF Completed
  <2> HIDE DEF state
  <2>7. /\ Len(prior'[w]) = Len(prior[w]) + 1
        /\ \A n \in DOMAIN prior[w] : prior'[w][n] = prior[w][n]
        /\ prior'[w][Len(prior[w]) + 1] = state
        /\ DOMAIN prior'[w] = DOMAIN prior[w] \cup {Len(prior[w]) + 1}
    BY <2>1, <2>3, <2>4
  <2>8. ASSUME NEW n \in DOMAIN prior'[w]
        PROVE  Reached(JobOf(batch[w][n]), prior'[w][n])
    BY <2>3, <2>7 DEF WInv, Reads
  <2>9. Reads(w)'
    <3>1. (Len(prior[w]) <= Len(batch[w]))'
      BY <1>1, <1>3, <2>1, <2>7
    <3>2. ASSUME NEW n \in DOMAIN prior'[w] PROVE Reached(JobOf(batch[w][n]), prior[w][n])'
      BY <1>1, <1>3, <2>8 DEF Reached, vars, db, JobOf
    <3> QED BY <3>1, <3>2 DEF Reads
  <2>10. \A s : CountedAs(w, s)' = CountedAs(w, s)
    BY <2>1, <2>6, <2>7 DEF CountedAs, WInv, Counts
  <2>11. Counts(w)'
    <3>1. (Completed(w) <= Len(prior[w]))'
      BY <2>1, <2>6, <2>7 DEF WInv, Counts
    <3>2. (\A n \in 1..Completed(w) : job[JobOf(batch[w][n])] = "COMPLETE")'
      BY <1>1, <1>3, <2>6 DEF WInv, Counts, vars, db, JobOf
    <3>3. (\A s \in States : count[w][CounterOf(s)] = Cardinality(CountedAs(w, s)))'
      BY <1>3, <2>10 DEF WInv, Counts
    <3> QED BY <3>1, <3>2, <3>3 DEF Counts
  <2>12. Calls(w)' /\ Passed(w)'
    BY <1>1, <1>3 DEF Calls, Passed, vars, local
  <2> QED BY <2>9, <2>11, <2>12 DEF WInv
<1> QED BY <1>2, <1>3 DEF ReadState

\* The next candidate of a settled batch is called for.
LEMMA CallStep ==
  ASSUME IInv, IInv', XTypeOK, Onward, NEW w \in Procs, WInv(w), Call(w),
         Reconstructed(w), UNCHANGED approved
  PROVE  WInv(w)'
<1>1. /\ phase[w] = "running" /\ phase'[w] = "calling" /\ status'[w] # "pass"
      /\ pc'[w] = "lock" /\ result'[w] = "none"
      /\ cur'[w] = JobOf(batch[w][Completed(w) + 1])
      /\ Completed(w) < Len(batch[w])
      /\ UNCHANGED <<batch, prior, count, status>>
  BY DEF Call, Begin, Ready, WInv, Passed, XTypeOK, WTypeOK, IInv, Typed, TypeOK
<1>2. Settled(w)
  BY DEF Call, Ready, Settled, Reconstructed, AllRead
<1>3. Reads(w)' /\ Counts(w)' /\ Settled(w)' = Settled(w) /\ Completed(w)' = Completed(w)
  BY <1>1, Kept DEF WInv
<1> QED BY <1>1, <1>2, <1>3 DEF WInv, Calls, Passed, JobOf

\* One more number in the range that was counted.
LEMMA CountOneMore ==
  ASSUME XTypeOK, NEW w \in Procs, UNCHANGED prior, Completed(w)' = Completed(w) + 1,
         NEW state \in States
  PROVE  /\ Cardinality(CountedAs(w, state)) \in Nat
         /\ prior[w][Completed(w) + 1] = state =>
              Cardinality(CountedAs(w, state)') = Cardinality(CountedAs(w, state)) + 1
         /\ prior[w][Completed(w) + 1] # state => CountedAs(w, state)' = CountedAs(w, state)
<1> DEFINE c == Completed(w)
<1>1. c \in Nat
  BY CompletedIsNat
<1>2. IsFiniteSet(CountedAs(w, state))
  <2>1. IsFiniteSet(1..c)
    BY <1>1, FS_Interval
  <2>2. CountedAs(w, state) \in SUBSET (1..c)
    BY DEF CountedAs
  <2> QED BY <2>1, <2>2, FS_Subset
<1>3. c + 1 \notin CountedAs(w, state)
  BY <1>1 DEF CountedAs
<1>4. CASE prior[w][c + 1] = state
  <2>1. CountedAs(w, state)' = CountedAs(w, state) \cup {c + 1}
    BY <1>1, <1>4 DEF CountedAs
  <2> QED BY <1>2, <1>3, <1>4, <2>1, FS_AddElement, FS_CardinalityType
<1>5. CASE prior[w][c + 1] # state
  <2>1. CountedAs(w, state)' = CountedAs(w, state)
    BY <1>1, <1>5 DEF CountedAs
  <2> QED BY <1>2, <1>5, <2>1, FS_CardinalityType
<1> QED BY <1>4, <1>5

\* The candidate whose call came back is counted, or the run ends.
LEMMA CollectStep ==
  ASSUME IInv, IInv', XTypeOK, Onward, NEW w \in Procs, WInv(w), Collect(w),
         UNCHANGED approved
  PROVE  WInv(w)'
<1>1. phase[w] = "calling" /\ pc[w] = "idle" /\ pc'[w] = "idle" /\ status[w] # "pass"
      /\ UNCHANGED vars /\ UNCHANGED <<batch, prior>>
  BY DEF Collect, WInv, Passed, vars, local
<1>2. ASSUME NEW outcome \in {"deferred", "error"}, Finish(w, outcome), UNCHANGED count
      PROVE  WInv(w)'
  BY <1>1, <1>2, PhaseStep, FinishTypes DEF Statuses
<1>3. CASE /\ result[w] \in {"created", "existing"}
           /\ Tally(w) /\ phase' = [phase EXCEPT ![w] = "running"] /\ UNCHANGED status
  <2> DEFINE state == prior[w][Completed(w) + 1]
  <2>1. /\ batch[w] \in Seq(Inputs) /\ prior[w] \in Seq(States) /\ Completed(w) \in Nat
        /\ Completed(w) + 1 <= Len(prior[w])
        /\ Len(prior[w]) = Len(batch[w])
    BY <1>1, CompletedIsNat DEF XTypeOK, WTypeOK, States, WInv, Calls, Settled
  <2>2. state \in States
    BY <2>1
  <2>3. job[JobOf(batch[w][Completed(w) + 1])] = "COMPLETE"
    BY <1>1, <1>3 DEF WInv, Calls, IInv, ResultInv, ResultIsTrue
  <2>4. /\ count'[w] = [count[w] EXCEPT ![CounterOf(state)] = @ + 1]
        /\ Completed(w)' = Completed(w) + 1
    BY <1>3, <2>2, TallyCounts
  <2>5. Reads(w)'
    BY <1>1 DEF WInv, Reads, Reached, vars, db, JobOf
  <2>6. \A n \in 1..(Completed(w) + 1) : job[JobOf(batch[w][n])] = "COMPLETE"
    BY <2>1, <2>3 DEF WInv, Counts
  <2>7. ASSUME NEW s \in States
        PROVE  count'[w][CounterOf(s)] = Cardinality(CountedAs(w, s)')
    <3>1. count[w] \in [Counters -> Nat] /\ CounterOf(s) \in Counters
          /\ count[w][CounterOf(s)] = Cardinality(CountedAs(w, s))
      BY StateCounters DEF WInv, Counts, XTypeOK, WTypeOK
    <3>2. CASE s = state
      BY <1>1, <2>4, <3>1, <3>2, CountOneMore
    <3>3. CASE s # state
      <4>1. CounterOf(s) # CounterOf(state)
        BY <2>2, <3>3, CounterNames DEF States, JobStates
      <4>2. CountedAs(w, s)' = CountedAs(w, s)
        BY <1>1, <2>4, <3>3, CountOneMore
      <4> QED BY <2>4, <3>1, <4>1, <4>2
    <3> QED BY <3>2, <3>3
  <2>8. Counts(w)'
    <3>1. (Completed(w) <= Len(prior[w]))'
      BY <1>1, <2>1, <2>4
    <3>2. (\A n \in 1..Completed(w) : job[JobOf(batch[w][n])] = "COMPLETE")'
      BY <1>1, <2>4, <2>6 DEF vars, db, JobOf
    <3> QED BY <2>7, <3>1, <3>2 DEF Counts
  <2>9. Calls(w)' /\ Passed(w)'
    BY <1>1, <1>3 DEF Calls, Passed, XTypeOK, WTypeOK
  <2> QED BY <2>5, <2>8, <2>9 DEF WInv
<1> QED BY <1>2, <1>3 DEF Collect

\* The summary, a refusal, a failed query or a kill end the run.
LEMMA EndStep ==
  ASSUME IInv, IInv', XTypeOK, Onward, NEW w \in Procs, WInv(w),
         \/ Summarize(w) /\ Reconstructed(w) /\ UNCHANGED approved
         \/ Refuse(w)
         \/ (SnapshotFails(w) \/ Die(w)) /\ UNCHANGED approved
  PROVE  WInv(w)'
<1> USE DEF XTypeOK, WTypeOK
<1>1. CASE Summarize(w) /\ Reconstructed(w) /\ UNCHANGED approved
  <2>1. Settled(w) /\ Completed(w) = Len(batch[w]) /\ pc'[w] = "idle"
    BY <1>1 DEF Summarize, Ready, Settled, Reconstructed, AllRead, WInv, Calls, vars, local
  <2> QED BY <1>1, <2>1, PhaseStep, FinishTypes DEF Summarize, Statuses
<1>2. CASE Refuse(w)
  BY <1>2, PhaseStep, FinishTypes DEF Refuse, AllRead, Ready, Statuses, WInv, Calls, vars, local
<1>3. CASE SnapshotFails(w) /\ UNCHANGED approved
  BY <1>3, PhaseStep, FinishTypes DEF SnapshotFails, Statuses, WInv, Calls, local
<1>4. CASE Die(w) /\ UNCHANGED approved
  <2>1. pc'[w] = "idle"
    BY <1>4 DEF Die, Crash, Leave, local, IInv, Typed, TypeOK
  <2> QED BY <1>4, <2>1, PhaseStep, FinishTypes DEF Die, Statuses
<1> QED BY <1>1, <1>2, <1>3, <1>4

--------------------------------------------------------------------------------
(***************************************************************************)
(* The theorems                                                            *)
(***************************************************************************)
XInv == IInv /\ XTypeOK /\ \A w \in Procs : WInv(w)

\* Workers start with no run.
LEMMA XInvInit == XInit => XInv
<1> SUFFICES ASSUME XInit PROVE XInv
  OBVIOUS
<1>1. IInv
  BY InductiveInit DEF XInit, WInit
<1>2. NoCounts \in [Counters -> Nat]
  BY DEF NoCounts
<1>3. XTypeOK
  <2> HIDE DEF NoCounts
  <2> QED BY <1>1, <1>2 DEF XInit, WInit, XTypeOK, WTypeOK, IInv, Typed, Phases, Statuses
<1>4. ASSUME NEW w \in Procs PROVE WInv(w)
  <2>1. Completed(w) = 0 /\ phase[w] = "idle" /\ pc[w] = "idle" /\ status[w] = "none"
        /\ prior[w] = <<>> /\ batch[w] = <<>>
    BY DEF XInit, WInit, Init, Completed, NoCounts, Counters
  <2>2. \A state \in States : CountedAs(w, state) = {} /\ count[w][CounterOf(state)] = 0
    BY <2>1, StateCounters DEF CountedAs, XInit, WInit, NoCounts
  <2>3. Completed(w) <= Len(prior[w])
    BY <2>1
  <2>4. \A state \in States : count[w][CounterOf(state)] = Cardinality(CountedAs(w, state))
    BY <2>2, FS_EmptySet
  <2>5. \A n \in 1..Completed(w) : job[JobOf(batch[w][n])] = "COMPLETE"
    BY <2>1
  <2>6. Reads(w) /\ Calls(w) /\ Passed(w)
    BY <2>1 DEF Reads, Calls, Passed
  <2> QED BY <2>3, <2>4, <2>5, <2>6 DEF WInv, Counts
<1> QED BY <1>1, <1>3, <1>4 DEF XInv

\* A call, interrupted or not, is what its worker expects.
LEMMA InCallStep ==
  ASSUME IInv, IInv', XTypeOK, Onward, NEW w \in Procs, WInv(w),
         Proceed(w) \/ Fail(w), UNCHANGED <<wvars, approved>>
  PROVE  WInv(w)'
<1>1. Own(w)' = Own(w)
  BY DEF Own, wvars
<1>2. CASE Proceed(w)
  <2>1. pc[w] # "idle" /\ cur'[w] = cur[w] /\ phase[w] = "calling"
    BY <1>2, CallKeepsJob DEF IInv, WInv, Calls
  <2>2. ASSUME prior[w][Completed(w) + 1] = "COMPLETE"
        PROVE  pc'[w] \in {"idle", "lock", "gate", "adopt"} /\ result'[w] # "created"
    BY <1>2, <2>1, <2>2, KnownComplete, CompleteIsAdopted DEF WInv, Calls
  <2> QED BY <1>1, <2>1, <2>2, Frame
<1>3. CASE Fail(w)
  <2>1. cur'[w] = cur[w] /\ pc'[w] = "idle" /\ result'[w] # "created"
    BY <1>3 DEF Fail, Leave, ErrorsAt, IInv, Typed, TypeOK
  <2> QED BY <1>1, <2>1, Frame
<1> QED BY <1>2, <1>3

\* A step of one worker leaves the other runs and calls where they are.
LEMMA OthersRunOn ==
  ASSUME IInv, XTypeOK, NEW v \in Procs, NEW w \in Procs, w # v,
         \/ SelectAll(w) \/ SelectExact(w) \/ XAdvance(w)
         \/ (SnapshotFails(w) \/ Die(w) \/ (Fail(w) /\ UNCHANGED wvars))
              /\ UNCHANGED approved
  PROVE  Own(v)' = Own(v) /\ Mine(v)' = Mine(v)
<1> USE DEF IInv, XTypeOK, WTypeOK
<1>1. ASSUME NEW outcome, Finish(w, outcome)
      PROVE  phase'[v] = phase[v] /\ status'[v] = status[v]
  BY <1>1 DEF Finish
<1>2. CASE SelectAll(w)
  BY <1>2 DEF SelectAll, Select, Own, Mine, vars, local
<1>3. CASE SelectExact(w)
  BY <1>3 DEF SelectExact, Submit, Own, Mine, vars, local
<1>4. CASE CheckEntry(w) \/ Refuse(w)
  BY <1>1, <1>4 DEF CheckEntry, Refuse, Own, Mine, vars, local
<1>5. CASE InCall(w) /\ UNCHANGED approved
  BY <1>5, OthersStay DEF InCall, Own, wvars
<1>6. CASE ReadState(w) /\ UNCHANGED approved
  BY <1>1, <1>6 DEF ReadState, Own, Mine, vars, local
<1>7. CASE Collect(w) /\ UNCHANGED approved
  BY <1>1, <1>7 DEF Collect, Tally, Own, Mine, vars, local
<1>8. CASE Call(w) /\ UNCHANGED approved
  BY <1>8 DEF Call, Begin, Own, Mine, IInv, Typed, TypeOK
<1>9. CASE Summarize(w) /\ UNCHANGED approved
  BY <1>1, <1>9 DEF Summarize, Own, Mine, vars, local
<1>10. CASE SnapshotFails(w) /\ UNCHANGED approved
  BY <1>1, <1>10 DEF SnapshotFails, Own, Mine, local
<1>11. CASE Die(w) /\ UNCHANGED approved
  BY <1>1, <1>11, OthersStay DEF Die, Interrupt, Own, Mine, local
<1>12. CASE Fail(w) /\ UNCHANGED wvars /\ UNCHANGED approved
  BY <1>12, OthersStay DEF Interrupt, Own, wvars
<1> QED
  BY <1>2, <1>3, <1>4, <1>5, <1>6, <1>7, <1>8, <1>9, <1>10, <1>11, <1>12 DEF XAdvance

\* Every step keeps the invariant of every worker.
LEMMA XInvStep == XInv /\ [XNext]_xvars => XInv'
<1> SUFFICES ASSUME XInv, [XNext]_xvars PROVE XInv'
  OBVIOUS
<1>1. IInv' /\ Onward
  BY JobsMoveOnward DEF XInv
<1>2. XTypeOK'
  BY <1>1, TypesKept DEF XInv
<1> SUFFICES ASSUME NEW v \in Procs PROVE WInv(v)'
  BY <1>1, <1>2 DEF XInv
<1>3. IInv /\ XTypeOK /\ WInv(v) /\ Typed
  BY DEF XInv, IInv
<1>4. ASSUME Own(v)' = Own(v), Mine(v)' = Mine(v) PROVE WInv(v)'
  BY <1>1, <1>3, <1>4, Frame DEF Mine, WInv, Calls
<1>5. CASE UNCHANGED xvars
  BY <1>4, <1>5 DEF xvars, allvars, vars, wvars, local, Own, Mine
<1>6. CASE Environment /\ UNCHANGED <<wvars, approved>>
  BY <1>4, <1>6 DEF Environment, EnterExclusive, EnterShared, Exit, Register, AlterFinal,
     AlterEvidence, wvars, local, Own, Mine
<1>7. ASSUME NEW w \in Procs, w # v,
             \/ SelectAll(w) \/ SelectExact(w) \/ XAdvance(w)
             \/ (SnapshotFails(w) \/ Die(w) \/ (Fail(w) /\ UNCHANGED wvars))
                  /\ UNCHANGED approved
      PROVE  Own(v)' = Own(v) /\ Mine(v)' = Mine(v)
  BY <1>3, <1>7, OthersRunOn
<1>8. CASE SelectAll(v) \/ SelectExact(v)
  BY <1>2, <1>3, <1>8, SelectStep
<1>9. CASE XAdvance(v)
  <2>1. CASE CheckEntry(v) \/ Refuse(v)
    BY <1>1, <1>3, <2>1, CheckStep, EndStep
  <2>2. CASE (InCall(v) \/ ReadState(v) \/ Collect(v)) /\ UNCHANGED approved
    BY <1>1, <1>3, <2>2, InCallStep, ReadStep, CollectStep DEF InCall
  <2>3. CASE Reconstructed(v) /\ (Call(v) \/ Summarize(v)) /\ UNCHANGED approved
    BY <1>1, <1>3, <2>3, CallStep, EndStep
  <2> QED BY <1>9, <2>1, <2>2, <2>3 DEF XAdvance
<1>10. CASE (SnapshotFails(v) \/ Die(v) \/ (Fail(v) /\ UNCHANGED wvars)) /\ UNCHANGED approved
  BY <1>1, <1>3, <1>10, EndStep, InCallStep
<1> QED BY <1>4, <1>5, <1>6, <1>7, <1>8, <1>9, <1>10 DEF XNext

\* The invariant holds.
THEOREM WorkersInductive == XSpec => []XInv
  BY XInvInit, XInvStep, PTL DEF XSpec

\* Types, of the calls, the runs and the manifests.
THEOREM WorkerTypes == XSpec => []XTypeOK
<1>1. XInv => XTypeOK
  BY DEF XInv
<1> QED BY <1>1, WorkersInductive, PTL

\* "pass" speaks about the database as it is.
THEOREM PassIsAlwaysComplete == XSpec => []PassIsComplete
<1>1. XInv => PassIsComplete
  <2> SUFFICES ASSUME XInv, NEW w \in Procs, status[w] = "pass", NEW n \in DOMAIN batch[w]
               PROVE  job[JobOf(batch[w][n])] = "COMPLETE"
    BY DEF PassIsComplete
  <2>1. n \in 1..Completed(w)
    BY DEF XInv, WInv, Passed, XTypeOK, WTypeOK
  <2> QED BY <2>1 DEF XInv, WInv, Counts
<1> QED BY <1>1, WorkersInductive, PTL

\* Counted candidates are the front of the batch, and COMPLETE.
THEOREM CountedIsAlwaysComplete == XSpec => []CountedIsComplete
<1>1. XInv => CountedIsComplete
  <2> SUFFICES ASSUME XInv, NEW w \in Procs, NEW n \in 1..Completed(w)
               PROVE  n \in DOMAIN batch[w] /\ job[JobOf(batch[w][n])] = "COMPLETE"
    BY DEF CountedIsComplete
  <2>1. Completed(w) \in Nat /\ batch[w] \in Seq(Inputs) /\ prior[w] \in Seq(States)
    BY CompletedIsNat DEF XInv, XTypeOK, WTypeOK, States
  <2> QED BY <2>1 DEF XInv, WInv, Reads, Counts
<1> QED BY <1>1, WorkersInductive, PTL

\* What a run created it never counts as already complete.
THEOREM AlreadyAlwaysMeansBefore == XSpec => []AlreadyMeansBefore
<1>1. XInv => AlreadyMeansBefore
  BY DEF XInv, WInv, Calls, AlreadyMeansBefore
<1> QED BY <1>1, WorkersInductive, PTL

\* A pass of an exact run reports its manifest.
THEOREM PassIsAlwaysAsApproved == XSpec => []PassIsAsApproved
<1>1. XInv => PassIsAsApproved
  <2> SUFFICES ASSUME XInv, NEW w \in Procs, Exact(w), status[w] = "pass"
               PROVE  /\ \A n \in DOMAIN approved[w] :
                           job[JobOf(approved[w][n].input)] = "COMPLETE"
                      /\ \A state \in States :
                           count[w][CounterOf(state)] = Cardinality(
                             {n \in DOMAIN approved[w] : approved[w][n].state = state})
    BY DEF PassIsAsApproved, States
  <2>1. /\ Completed(w) = Len(batch[w]) /\ Len(prior[w]) = Len(batch[w])
        /\ Len(batch[w]) = Len(approved[w]) /\ Matches(w)
    BY DEF XInv, WInv, Passed, Settled
  <2>2. /\ approved[w] \in Seq(Entries) /\ batch[w] \in Seq(Inputs) /\ prior[w] \in Seq(States)
        /\ \A n \in DOMAIN batch[w] : batch[w][n] = approved[w][n].input
    BY DEF XInv, XTypeOK, WTypeOK, Exact, States
  <2> HIDE DEF Entries
  <2>3. DOMAIN approved[w] = 1..Completed(w) /\ DOMAIN prior[w] = 1..Completed(w)
        /\ DOMAIN batch[w] = 1..Completed(w)
    BY <2>1, <2>2
  <2>4. \A n \in DOMAIN approved[w] : job[JobOf(approved[w][n].input)] = "COMPLETE"
    BY <2>2, <2>3 DEF XInv, WInv, Counts
  <2>5. ASSUME NEW state \in States
        PROVE  CountedAs(w, state) = {n \in DOMAIN approved[w] : approved[w][n].state = state}
    BY <2>1, <2>3 DEF CountedAs, Matches
  <2> QED BY <2>4, <2>5 DEF XInv, WInv, Counts
<1> QED BY <1>1, WorkersInductive, PTL

\* What the ledger and the spool hold for a job.
Held(j) == <<job[j], row[j], final[j], partial[j], quarantine[j]>>

\* A call changes what is held for its own job only.
LEMMA WorksOnItsJob ==
  ASSUME Typed, NEW p \in Procs, Proceed(p), NEW j \in Jobs, j # cur[p]
  PROVE  Held(j)' = Held(j)
<1> USE DEF Held, Typed, TypeOK, db, spool, files
<1>1. CASE UNCHANGED <<db, spool>>
  BY <1>1
<1>2. CASE Prepare(p) \/ Commit(p)
  BY <1>2 DEF Prepare, Commit, Raise
<1>3. CASE Quarantine(p) \/ Withdraw(p) \/ Open(p) \/ Write(p) \/ Unlink(p)
  BY <1>3 DEF Quarantine, Withdraw, Open, Write, Unlink, SetPartial
<1>4. CASE Publish(p)
  BY <1>4 DEF Publish, Raise
<1> QED
  BY <1>1, <1>2, <1>3, <1>4 DEF Proceed, Acquire, LockTimeout, Gate, Eligible, Inspect, Stage,
     VerifyPair, Confirm, Raise

\* What is held for a job changes by a call past the lock only, or from outside.
LEMMA OnlyCallsWork ==
  ASSUME XInv, [XNext]_xvars, NEW w \in Procs, Critical(w), NEW j \in Jobs,
         Held(j)' # Held(j), spent' = spent
  PROVE  Proceed(w)
<1> USE DEF Held, db, spool, files
<1>1. IInv /\ Typed /\ LockInv /\ spent \in [Events -> Nat]
  BY DEF XInv, IInv, Typed, TypeOK
<1>2. ~\E e \in Events : Spend(e)
  BY <1>1 DEF Spend
<1>3. {"fault", "alter", "visit"} \subseteq Events
  BY DEF Events
<1>4. ~Environment
  BY <1>2, <1>3 DEF Environment, EnterExclusive, EnterShared, Exit, Register, AlterFinal,
     AlterEvidence
<1>5. \A v \in Procs : ~SnapshotFails(v) /\ ~Die(v) /\ ~Fail(v)
  BY <1>2, <1>3 DEF SnapshotFails, Die, Crash, Fail
<1>6. ~UNCHANGED vars /\ ~UNCHANGED <<db, spool>>
  BY DEF vars
<1>7. PICK v \in Procs : InCall(v)
  BY <1>4, <1>5, <1>6 DEF XNext, XAdvance, SelectAll, Select, SelectExact, CheckEntry, Refuse,
     ReadState, Collect, Call, Begin, Summarize, xvars, allvars
<1>8. CASE v # w
  <2>1. pc[v] \in {"idle", "lock"}
    BY <1>1, <1>8, Apart
  <2>2. Acquire(v) \/ LockTimeout(v)
    BY <1>7, <2>1 DEF InCall, Proceed, Gate, Eligible, Prepare, Inspect, Stage, Quarantine,
       Withdraw, Open, Write, Publish, Unlink, VerifyPair, Commit, Confirm, GateSteps, FileSteps
  <2> QED BY <1>6, <2>2 DEF Acquire, LockTimeout, Raise
<1> QED BY <1>7, <1>8 DEF InCall

\* Work is done only under a manifest that has come true, for an entry that was
\* not approved as COMPLETE.
THEOREM WorkIsAlwaysApproved == XSpec => ApprovedWork
<1> DEFINE Rightly(w, j) ==
      /\ \E n \in DOMAIN approved[w] :
           JobOf(approved[w][n].input) = j /\ approved[w][n].state # "COMPLETE"
      /\ \A n \in DOMAIN approved[w] :
           Reached(JobOf(approved[w][n].input), approved[w][n].state)
<1>1. XInv /\ [XNext]_xvars =>
        \A w \in Procs : Exact(w) => \A j \in Jobs : Works(w, j) => Rightly(w, j)
  <2> SUFFICES ASSUME XInv, [XNext]_xvars, NEW w \in Procs, Exact(w), NEW j \in Jobs,
                      Critical(w), Held(j)' # Held(j), spent' = spent
               PROVE  Rightly(w, j)
    BY DEF Works, Held
  <2>1. IInv /\ Typed /\ XTypeOK /\ WInv(w)
    BY DEF XInv, IInv
  <2>2. Proceed(w) /\ cur[w] = j
    BY <2>1, OnlyCallsWork, WorksOnItsJob
  <2>3. /\ phase[w] = "calling" /\ Settled(w) /\ Completed(w) < Len(batch[w])
        /\ j = JobOf(batch[w][Completed(w) + 1])
    BY <2>1, <2>2, CallKeepsJob DEF WInv, Calls
  <2>4. prior[w][Completed(w) + 1] # "COMPLETE"
    <3> SUFFICES ASSUME prior[w][Completed(w) + 1] = "COMPLETE" PROVE FALSE
      OBVIOUS
    <3>1. pc[w] \in {"lock", "gate", "adopt"} /\ job[cur[w]] = "COMPLETE"
      BY <2>1, <2>2, <2>3, CallKeepsJob, KnownComplete DEF WInv, Calls
    <3> QED BY <2>1, <2>2, <3>1, CompleteIsAdopted DEF Held
  <2>5. /\ approved[w] \in Seq(Entries) /\ batch[w] \in Seq(Inputs) /\ prior[w] \in Seq(States)
        /\ \A n \in DOMAIN batch[w] : batch[w][n] = approved[w][n].input
        /\ Completed(w) \in Nat
    BY <2>1, CompletedIsNat DEF XTypeOK, WTypeOK, Exact, States
  <2> HIDE DEF Entries
  <2>6. /\ DOMAIN approved[w] = DOMAIN batch[w] /\ DOMAIN prior[w] = DOMAIN batch[w]
        /\ Completed(w) + 1 \in DOMAIN batch[w]
        /\ \A n \in DOMAIN prior[w] : prior[w][n] = approved[w][n].state
    BY <2>3, <2>5 DEF Settled, Matches
  <2>7. \A n \in DOMAIN approved[w] :
          Reached(JobOf(approved[w][n].input), approved[w][n].state)
    BY <2>1, <2>5, <2>6 DEF WInv, Reads
  <2>8. JobOf(approved[w][Completed(w) + 1].input) = j
        /\ approved[w][Completed(w) + 1].state # "COMPLETE"
    BY <2>3, <2>4, <2>5, <2>6
  <2> QED BY <2>6, <2>7, <2>8
<1> QED BY <1>1, WorkersInductive, PTL DEF XSpec, ApprovedWork

--------------------------------------------------------------------------------
(***************************************************************************)
(* The call under its workers                                              *)
(***************************************************************************)

\* Workers of either command are callers process_artifact was built for: whatever
\* they snapshot, approve, count or lose by a kill, every state of the calls under
\* them is one of those the call promises.
THEOREM WorkersKeepCallsSafe == XSpec => []CallSafety
<1>1. XInv => CallSafety
  BY CallsAreSafe DEF XInv
<1> QED BY <1>1, WorkersInductive, PTL

\* Each step of the workers, with their reading, counting and refusing, is a step
\* of the evidence ledger or none.
THEOREM WorkersImplementLedger == XSpec => ImplementsLedger
<1>1. XInit => Ledger!Init
  BY RefinesInit DEF XInit, WInit
<1>2. XInv /\ [XNext]_xvars => [Ledger!Next]_(Ledger!vars)
  BY StepOfCalls, PromisesKept DEF XInv, IInv
<1> QED BY <1>1, <1>2, WorkersInductive, PTL DEF XSpec, ImplementsLedger, Ledger!Spec

\* Under the workers, too, jobs move forward on one assertion only, published files
\* are not replaced, and only the holder of the lock writes.
THEOREM WorkersStepLikeCalls == XSpec => UnambiguousProgress /\ NoReplace /\ HolderWrites
<1>1. XInv /\ [XNext]_xvars => JobStep /\ NoReplaceStep /\ HolderStep
  BY StepOfCalls, PromisesKept DEF XInv, IInv
<1> QED
  BY <1>1, WorkersInductive, PTL DEF XSpec, UnambiguousProgress, NoReplace, HolderWrites

--------------------------------------------------------------------------------
(***************************************************************************)
(* How many steps a run has left                                           *)
(***************************************************************************)

\* The candidates of a run, those included that a manifest still promises.
Total(w) == IF Exact(w) THEN Len(approved[w]) ELSE Len(batch[w])

\* With t candidates, of which b are taken up, q read and c counted: two steps to
\* take each up and read it, a step to call, the steps of the call and a step to
\* count it; and one for the summary.
Ahead(t, b, q, c) == 1 + 2 * (t - b) + (b - q) + (CallSteps + 2) * (t - c)

RunLeft(w) ==
  IF phase[w] = "idle" THEN 0
  ELSE Ahead(Total(w), Len(batch[w]), Len(prior[w]), Completed(w))
         - (IF phase[w] = "calling" THEN CallSteps + 1 - Remaining(w) ELSE 0)

\* A step of a run lowers its number, and nothing anybody else does raises it.
RunLeftStep ==
  \A w \in Procs :
    /\ RunLeft(w) \in 0..((CallSteps + 4) * Total(w) + 1)
    /\ XAdvance(w) => RunLeft(w)' < RunLeft(w)
    /\ phase[w] # "idle" => RunLeft(w)' <= RunLeft(w)

RunsDown == [][RunLeftStep]_xvars

\* The numbers RunLeft is made of.
LEMMA RunNumbers ==
  ASSUME XInv, NEW w \in Procs
  PROVE  /\ Total(w) \in Nat /\ Len(batch[w]) \in Nat /\ Len(prior[w]) \in Nat
         /\ Completed(w) \in Nat /\ Remaining(w) \in 0..23
         /\ Len(batch[w]) <= Total(w)
         /\ Len(prior[w]) <= Len(batch[w])
         /\ Completed(w) <= Len(prior[w])
         /\ phase[w] = "calling" => Completed(w) < Len(batch[w])
<1>1. batch[w] \in Seq(Inputs) /\ prior[w] \in Seq(States)
      /\ (Exact(w) => approved[w] \in Seq(Entries) /\ Len(batch[w]) <= Len(approved[w]))
  BY DEF XInv, XTypeOK, WTypeOK, States, Exact
<1>2. Total(w) \in Nat /\ Len(batch[w]) <= Total(w)
  BY <1>1 DEF Total
<1>3. Completed(w) \in Nat
  BY CompletedIsNat DEF XInv
<1>4. Remaining(w) \in 0..23
  BY RemainingType DEF XInv, IInv, CallSteps
<1>5. /\ Len(prior[w]) <= Len(batch[w]) /\ Completed(w) <= Len(prior[w])
      /\ phase[w] = "calling" => Completed(w) < Len(batch[w])
  BY DEF XInv, WInv, Reads, Counts, Calls
<1> QED BY <1>1, <1>2, <1>3, <1>4, <1>5

\* Taking up, reading and counting lower what is ahead.
LEMMA AheadNumbers ==
  ASSUME NEW t \in Nat, NEW b \in Nat, NEW q \in Nat, NEW c \in Nat,
         b <= t, q <= b, c <= q
  PROVE  /\ Ahead(t, b, q, c) \in 1..((CallSteps + 4) * t + 1)
         /\ c < b => Ahead(t, b, q, c) > CallSteps + 2
         /\ Ahead(t, b + 1, q, c) = Ahead(t, b, q, c) - 1
         /\ Ahead(t, b, q + 1, c) = Ahead(t, b, q, c) - 1
         /\ Ahead(t, b, q, c + 1) = Ahead(t, b, q, c) - (CallSteps + 2)
<1>1. CallSteps = 23
  BY DEF CallSteps
<1>2. \A x, y, z \in Nat : Ahead(x, y, z, c) = 1 + 2 * (x - y) + (y - z) + 25 * (x - c)
  BY <1>1 DEF Ahead
<1>3. Ahead(t, b, q, c + 1) = 1 + 2 * (t - b) + (b - q) + 25 * (t - (c + 1))
  BY <1>1 DEF Ahead
<1>4. Ahead(t, b, q, c) = 1 + 2 * (t - b) + (b - q) + 25 * (t - c)
  BY <1>2
<1>5. (CallSteps + 4) * t + 1 = 27 * t + 1
  BY <1>1
<1>6. Ahead(t, b, q, c) \in 1..(27 * t + 1)
  BY <1>4
<1>7. c < b => Ahead(t, b, q, c) > CallSteps + 2
  BY <1>1, <1>4
<1>8. Ahead(t, b + 1, q, c) = Ahead(t, b, q, c) - 1
  BY <1>2
<1>9. Ahead(t, b, q + 1, c) = Ahead(t, b, q, c) - 1
  BY <1>2
<1>10. Ahead(t, b, q, c + 1) = Ahead(t, b, q, c) - (CallSteps + 2)
  BY <1>1, <1>3, <1>4
<1> QED BY <1>5, <1>6, <1>7, <1>8, <1>9, <1>10

\* What is ahead of a run is a number.
LEMMA AheadIsInt ==
  ASSUME XInv, NEW w \in Procs
  PROVE  Ahead(Total(w), Len(batch[w]), Len(prior[w]), Completed(w)) \in Int
<1> DEFINE t == Total(w)
           b == Len(batch[w])
           q == Len(prior[w])
           c == Completed(w)
<1>1. t \in Nat /\ b \in Nat /\ q \in Nat /\ c \in Nat /\ b <= t /\ q <= b /\ c <= q
  BY RunNumbers
<1> HIDE DEF t, b, q, c
<1>2. Ahead(t, b, q, c) \in 1..((CallSteps + 4) * t + 1)
  BY <1>1, AheadNumbers
<1>3. Ahead(t, b, q, c) \in Int
  BY <1>2
<1> QED BY <1>3 DEF t, b, q, c

\* So a run has at most 27 steps for each candidate and one.
LEMMA RunLeftType ==
  ASSUME XInv, NEW w \in Procs
  PROVE  /\ RunLeft(w) \in 0..((CallSteps + 4) * Total(w) + 1)
         /\ phase[w] # "idle" => RunLeft(w) > 0
<1> DEFINE a == Ahead(Total(w), Len(batch[w]), Len(prior[w]), Completed(w))
           top == (CallSteps + 4) * Total(w) + 1
<1>1. a \in 1..top /\ (phase[w] = "calling" => a > CallSteps + 2)
  BY RunNumbers, AheadNumbers
<1>2. top \in Nat /\ CallSteps = 23 /\ Remaining(w) \in 0..23
  <2>1. CallSteps + 4 \in Nat /\ Total(w) \in Nat /\ CallSteps = 23 /\ Remaining(w) \in 0..23
    BY RunNumbers DEF CallSteps
  <2>2. \A k, n \in Nat : k * n + 1 \in Nat
    OBVIOUS
  <2> QED BY <2>1, <2>2
<1>3. /\ phase[w] = "idle" => RunLeft(w) = 0
      /\ phase[w] = "calling" => RunLeft(w) = a - (CallSteps + 1 - Remaining(w))
      /\ phase[w] \notin {"idle", "calling"} => RunLeft(w) = a - 0
  BY Zenon DEF RunLeft
<1> HIDE DEF a, top
<1>4. RunLeft(w) \in 0..top /\ (phase[w] # "idle" => RunLeft(w) > 0)
  BY <1>1, <1>2, <1>3
<1> QED BY <1>4 DEF top

\* The same of the state after a step.
LEMMA RunLeftTypeNext == XInv' => (\A w \in Procs : RunLeft(w) \in Int)'
<1>1. XInv => \A w \in Procs : RunLeft(w) \in Int
  BY RunLeftType
<1> QED BY <1>1, PTL

\* What a run has left is what its own variables and its call say.
LEMMA SameRunLeft ==
  ASSUME XInv, XInv', NEW w \in Procs, Own(w)' = Own(w), phase[w] # "idle"
  PROVE  /\ Remaining(w)' <= Remaining(w) => RunLeft(w)' <= RunLeft(w)
         /\ Remaining(w)' < Remaining(w) /\ phase[w] = "calling" => RunLeft(w)' < RunLeft(w)
<1> DEFINE a == Ahead(Total(w), Len(batch[w]), Len(prior[w]), Completed(w))
           old == Remaining(w)
           new == Remaining(w)'
<1>1. /\ phase'[w] = phase[w] /\ batch'[w] = batch[w] /\ prior'[w] = prior[w]
      /\ Completed(w)' = Completed(w) /\ Total(w)' = Total(w)
  BY DEF Own, Completed, Total, Exact
<1>2. a \in Int /\ old \in 0..23 /\ new \in 0..23 /\ CallSteps = 23
  <2>1. a \in Int
    BY AheadIsInt
  <2>2. old \in 0..23 /\ new \in 0..23 /\ CallSteps = 23
    BY RunNumbers, RemainingTypeNext DEF XInv, IInv, CallSteps
  <2> QED BY <2>1, <2>2
<1>3. a' = a
  BY <1>1 DEF Ahead
<1>4. /\ phase[w] = "calling" => RunLeft(w) = a - (CallSteps + 1 - old)
      /\ phase[w] # "calling" => RunLeft(w) = a - 0
  BY Zenon DEF RunLeft
<1>5. /\ phase[w] = "calling" => RunLeft(w)' = a - (CallSteps + 1 - new)
      /\ phase[w] # "calling" => RunLeft(w)' = a - 0
  BY <1>1, <1>3, Zenon DEF RunLeft
<1> HIDE DEF a, old, new
<1>6. (new <= old => RunLeft(w)' <= RunLeft(w))
      /\ (new < old /\ phase[w] = "calling" => RunLeft(w)' < RunLeft(w))
  BY <1>2, <1>4, <1>5
<1> QED BY <1>6 DEF old, new

\* A run that ends has nothing left.
LEMMA NothingLeft ==
  ASSUME XInv, NEW w \in Procs, phase[w] # "idle", NEW outcome, Finish(w, outcome)
  PROVE  RunLeft(w)' < RunLeft(w)
<1>1. phase'[w] = "idle"
  BY DEF Finish, XInv, XTypeOK, WTypeOK
<1>2. RunLeft(w)' = 0
  BY <1>1 DEF RunLeft
<1> QED BY <1>2, RunLeftType

\* Every step of a run lowers its number.
LEMMA AdvanceLowers ==
  ASSUME XInv, XInv', NEW w \in Procs, XAdvance(w)
  PROVE  RunLeft(w)' < RunLeft(w)
<1> DEFINE t == Total(w)
           b == Len(batch[w])
           q == Len(prior[w])
           c == Completed(w)
           r == Remaining(w)
<1>0. XTypeOK /\ Typed /\ IInv
  BY DEF XInv, IInv
<1>1. /\ t \in Nat /\ b \in Nat /\ q \in Nat /\ c \in Nat /\ r \in 0..23
      /\ b <= t /\ q <= b /\ c <= q /\ CallSteps = 23
      /\ Ahead(t, b, q, c) \in Int
  BY RunNumbers, AheadIsInt DEF CallSteps
<1>2. /\ phase[w] = "running" => RunLeft(w) = Ahead(t, b, q, c) - 0
      /\ phase[w] = "calling" => RunLeft(w) = Ahead(t, b, q, c) - (CallSteps + 1 - r)
  BY Zenon DEF RunLeft
<1>3. /\ phase'[w] = "running" => RunLeft(w)' = Ahead(t', b', q', c') - 0
      /\ phase'[w] = "calling" => RunLeft(w)' = Ahead(t', b', q', c') - (CallSteps + 1 - r')
  BY Zenon DEF RunLeft
<1>4. CASE CheckEntry(w)
  <2>1. phase[w] = "running" /\ UNCHANGED <<prior, count, approved>> /\ Exact(w)
    BY <1>4 DEF CheckEntry, Ready
  <2>2. CASE Finish(w, "error")
    BY <2>1, <2>2, NothingLeft
  <2>3. CASE UNCHANGED <<phase, status>> /\ ~Finish(w, "error")
    <3>1. PICK i : batch' = [batch EXCEPT ![w] = Append(@, i)]
      BY <1>4, <2>3 DEF CheckEntry
    <3>2. batch \in [Procs -> Seq(Inputs)] /\ batch' \in [Procs -> Seq(Inputs)]
      BY <1>0 DEF XInv, XTypeOK, WTypeOK
    <3>3. b' = b + 1
      <4>1. batch'[w] = Append(batch[w], i)
        BY <3>1, <3>2
      <4> QED BY <3>2, <4>1
    <3>4. t' = t /\ q' = q /\ c' = c /\ phase'[w] = "running"
      BY <2>1, <2>3 DEF Total, Exact, Completed
    <3> HIDE DEF t, b, q, c, r
    <3>5. Ahead(t', b', q', c') = Ahead(t, b, q, c) - 1
      <4>1. Ahead(t', b', q', c') = Ahead(t, b + 1, q, c)
        BY <3>3, <3>4
      <4>2. Ahead(t, b + 1, q, c) = Ahead(t, b, q, c) - 1
        BY <1>1, AheadNumbers
      <4> QED BY <4>1, <4>2
    <3> QED BY <1>1, <1>2, <1>3, <2>1, <3>4, <3>5
  <2> QED BY <1>4, <2>2, <2>3 DEF CheckEntry
<1>5. CASE ReadState(w) /\ UNCHANGED approved
  <2>1. phase[w] = "running"
    BY <1>5 DEF ReadState
  <2>2. CASE Finish(w, "error")
    BY <2>1, <2>2, NothingLeft
  <2>3. CASE UNCHANGED <<phase, batch, count, status>> /\ ~Finish(w, "error")
    <3>1. PICK s : prior' = [prior EXCEPT ![w] = Append(@, s)]
      BY <1>5, <2>3 DEF ReadState
    <3>2. prior \in [Procs -> Seq(States)]
      BY <1>0 DEF XTypeOK, WTypeOK, States
    <3>3. q' = q + 1
      <4>1. prior'[w] = Append(prior[w], s)
        BY <3>1, <3>2
      <4> QED BY <3>2, <4>1
    <3>4. t' = t /\ b' = b /\ c' = c /\ phase'[w] = "running"
      BY <1>5, <2>1, <2>3 DEF Total, Exact, Completed
    <3> HIDE DEF t, b, q, c, r
    <3>5. Ahead(t', b', q', c') = Ahead(t, b, q, c) - 1
      <4>1. Ahead(t', b', q', c') = Ahead(t, b, q + 1, c)
        BY <3>3, <3>4
      <4>2. Ahead(t, b, q + 1, c) = Ahead(t, b, q, c) - 1
        BY <1>1, AheadNumbers
      <4> QED BY <4>1, <4>2
    <3> QED BY <1>1, <1>2, <1>3, <2>1, <3>4, <3>5
  <2> QED BY <1>5, <2>2, <2>3 DEF ReadState
<1>6. CASE Call(w) /\ UNCHANGED approved
  <2>1. /\ phase[w] = "running" /\ phase'[w] = "calling"
        /\ pc'[w] = "lock" /\ t' = t /\ b' = b /\ q' = q /\ c' = c
    BY <1>0, <1>6 DEF Call, Ready, Begin, Typed, TypeOK, XTypeOK, WTypeOK, Total, Exact, Completed
  <2>2. r' = 23
    BY <2>1 DEF Remaining
  <2> HIDE DEF t, b, q, c, r
  <2> QED BY <1>1, <1>2, <1>3, <2>1, <2>2
<1>7. CASE Collect(w) /\ UNCHANGED approved
  <2>1. phase[w] = "calling" /\ pc[w] = "idle" /\ UNCHANGED <<batch, prior>>
    BY <1>7 DEF Collect
  <2>2. CASE \E outcome \in {"deferred", "error"} : Finish(w, outcome)
    BY <2>1, <2>2, NothingLeft
  <2>3. CASE Tally(w) /\ phase' = [phase EXCEPT ![w] = "running"]
    <3>1. prior[w][Completed(w) + 1] \in States
      <4>1. prior[w] \in Seq(States) /\ Completed(w) < Len(prior[w]) /\ Completed(w) \in Nat
        BY <1>0, <2>1, RunNumbers DEF XTypeOK, WTypeOK, States, XInv, WInv, Calls, Settled
      <4> QED BY <4>1
    <3>2. c' = c + 1
      BY <1>0, <2>3, <3>1, TallyCounts
    <3>3. t' = t /\ b' = b /\ q' = q /\ phase'[w] = "running"
      BY <1>0, <1>7, <2>1, <2>3 DEF Total, Exact, XTypeOK, WTypeOK
    <3>4. r = 0
      BY <2>1 DEF Remaining
    <3> HIDE DEF t, b, q, c, r
    <3>5. Ahead(t', b', q', c') = Ahead(t, b, q, c) - 25
      BY <1>1, <3>2, <3>3, AheadNumbers
    <3> QED BY <1>1, <1>2, <1>3, <2>1, <3>3, <3>4, <3>5
  <2> QED BY <1>7, <2>2, <2>3 DEF Collect
<1>8. CASE Refuse(w) \/ Summarize(w)
  <2>1. phase[w] # "idle" /\ \E outcome \in Statuses : Finish(w, outcome)
    BY <1>8 DEF Refuse, AllRead, Ready, Summarize, Statuses
  <2> QED BY <2>1, NothingLeft
<1>9. CASE InCall(w) /\ UNCHANGED approved
  <2>1. Own(w)' = Own(w) /\ Proceed(w)
    BY <1>9 DEF InCall, wvars, Own
  <2>2. phase[w] = "calling"
    BY <1>0, <2>1, CallKeepsJob DEF XInv, WInv, Calls
  <2>3. Remaining(w)' < Remaining(w)
    BY <1>0, <2>1, ProceedLowers
  <2> QED BY <2>1, <2>2, <2>3, SameRunLeft
<1> QED BY <1>4, <1>5, <1>6, <1>7, <1>8, <1>9 DEF XAdvance

\* No other worker, no interruption and no outside event raises it.
LEMMA NobodyProlongs ==
  ASSUME XInv, XInv', [XNext]_xvars, NEW w \in Procs, phase[w] # "idle"
  PROVE  RunLeft(w)' <= RunLeft(w)
<1>0. IInv /\ Typed /\ XTypeOK /\ RunLeft(w) \in Nat
  BY RunLeftType DEF XInv, IInv
<1>1. ASSUME Own(w)' = Own(w), Mine(w)' = Mine(w) PROVE RunLeft(w)' <= RunLeft(w)
  <2>1. Remaining(w)' <= Remaining(w)
    <3>1. CASE pc[w] = "idle"
      BY <1>1, <3>1 DEF Mine, Remaining
    <3>2. CASE pc[w] # "idle" /\ [Next]_vars
      BY <1>0, <3>2, NobodyRaises
    <3>3. CASE Still
      <4>1. Remaining(w)' = Remaining(w)
        BY <3>3 DEF Still, local, spool, files, Remaining
      <4>2. Remaining(w) \in 0..23
        BY RunNumbers
      <4> QED BY <4>1, <4>2
    <3> QED BY <1>0, <3>1, <3>2, <3>3, StepOfCalls
  <2> QED BY <1>1, <2>1, SameRunLeft
<1>2. CASE XAdvance(w)
  <2>1. RunLeft(w)' < RunLeft(w)
    BY <1>2, AdvanceLowers
  <2> QED BY <1>0, <2>1, RunLeftTypeNext
<1>3. CASE SnapshotFails(w) \/ Die(w)
  <2>1. \E outcome \in Statuses : Finish(w, outcome)
    BY <1>3 DEF SnapshotFails, Die, Statuses
  <2>2. RunLeft(w)' < RunLeft(w)
    BY <2>1, NothingLeft
  <2> QED BY <1>0, <2>2, RunLeftTypeNext
<1>4. CASE Fail(w) /\ UNCHANGED <<wvars, approved>>
  <2>1. Own(w)' = Own(w) /\ pc'[w] = "idle"
    BY <1>0, <1>4 DEF Own, wvars, Fail, Leave, Typed, TypeOK
  <2>2. Remaining(w)' = 0 /\ Remaining(w) \in 0..23
    BY <2>1, RunNumbers DEF Remaining
  <2> QED BY <2>1, <2>2, SameRunLeft
<1>5. ASSUME NEW v \in Procs, v # w,
             \/ SelectAll(v) \/ SelectExact(v) \/ XAdvance(v)
             \/ (SnapshotFails(v) \/ Die(v) \/ (Fail(v) /\ UNCHANGED wvars))
                  /\ UNCHANGED approved
      PROVE  RunLeft(w)' <= RunLeft(w)
  BY <1>0, <1>1, <1>5, OthersRunOn
<1>6. CASE Environment /\ UNCHANGED <<wvars, approved>>
  BY <1>1, <1>6 DEF Environment, EnterExclusive, EnterShared, Exit, Register, AlterFinal,
     AlterEvidence, wvars, local, Own, Mine
<1>7. CASE UNCHANGED xvars
  BY <1>1, <1>7 DEF xvars, allvars, vars, wvars, local, Own, Mine
<1>8. ~SelectAll(w) /\ ~SelectExact(w)
  BY DEF SelectAll, Select, SelectExact
<1> QED BY <1>2, <1>3, <1>4, <1>5, <1>6, <1>7, <1>8 DEF XNext

\* A run of n candidates ends after at most 27 n + 1 of its own steps: nobody it works
\* beside, no damage it finds and no manifest it was given makes it go round.
THEOREM RunsAlwaysRunDown == XSpec => RunsDown
<1>1. XInv /\ XInv' /\ [XNext]_xvars => RunLeftStep
  BY RunLeftType, AdvanceLowers, NobodyProlongs DEF RunLeftStep
<1> QED BY <1>1, WorkersInductive, PTL DEF XSpec, RunsDown

================================================================================
