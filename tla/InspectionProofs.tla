---------------------------- MODULE InspectionProofs ----------------------------
(***************************************************************************)
(* Proofs about Inspection, for any workers, clients and tools.            *)
(*                                                                         *)
(* The argument: what a client has read stays true, because jobs move      *)
(* onward only (Past); what it answers is one of three inspections, and    *)
(* the tables of the contracts take each of them (Presented).              *)
(***************************************************************************)
EXTENDS Inspection, WorkerProofs

--------------------------------------------------------------------------------
(***************************************************************************)
(* The workers beside the clients                                          *)
(***************************************************************************)

\* The runs of the workers, as far as their calls rest on them.
RunsTyped ==
  /\ phase \in [Procs -> Phases]
  /\ batch \in [Procs -> Seq(Inputs)]
  /\ prior \in [Procs -> Seq(States)]
  /\ count \in [Procs -> [Counters -> Nat]]
  /\ \A w \in Procs : phase[w] = "calling" => Completed(w) + 1 \in DOMAIN prior[w]

\* Events are never taken back.
Counting == spent'["fault"] \in Nat /\ spent'["fault"] >= spent["fault"]

\* What a step of the system does to what has been read before it.
Past ==
  /\ Onward
  /\ \A j \in Jobs : job[j] = "FOREIGN" => job'[j] = "FOREIGN"
  /\ Counting

\* No step of the calls takes one back.
LEMMA SpendingGrows ==
  ASSUME Typed, [Next]_vars
  PROVE  Counting
<1> USE DEF Typed, TypeOK, Events, Counting
<1>1. ASSUME NEW e \in Events, Spend(e) PROVE Counting
  BY <1>1 DEF Spend
<1>2. CASE UNCHANGED spent
  BY <1>2
<1>3. ASSUME NEW p \in Procs, Proceed(p) PROVE UNCHANGED spent
  BY <1>3 DEF Proceed, Acquire, LockTimeout, Gate, Eligible, Prepare, Inspect, Stage,
     Quarantine, Withdraw, Open, Write, Publish, Unlink, VerifyPair, Commit, Confirm, Raise
<1>4. ASSUME Environment PROVE UNCHANGED spent \/ \E e \in Events : Spend(e)
  BY <1>4 DEF Environment, EnterExclusive, EnterShared, Exit, Register, AlterFinal, AlterEvidence
<1>5. ASSUME NEW p \in Procs, Interrupt(p) PROVE \E e \in Events : Spend(e)
  BY <1>5 DEF Interrupt, Fail, Crash
<1>6. ASSUME NEW p \in Procs, NEW j \in Jobs, Begin(p, j) PROVE UNCHANGED spent
  BY <1>6 DEF Begin
<1> QED
  BY <1>1, <1>2, <1>3, <1>4, <1>5, <1>6 DEF Next, vars

\* A step of the calls, or one that leaves them still, keeps their invariant and
\* what has been read.
LEMMA CallsKeepPast ==
  ASSUME IInv, [Next]_vars \/ (Still /\ Counting)
  PROVE  IInv' /\ Past
<1>1. CASE [Next]_vars
  <2>1. JobStep
    BY <1>1, JobMoves DEF IInv
  <2>2. Onward /\ \A j \in Jobs : job[j] = "FOREIGN" => job'[j] = "FOREIGN"
    BY <2>1, Ranks DEF JobStep, Onward, Reached, States, JobStates
  <2> QED BY <1>1, <2>2, InductiveStep, SpendingGrows DEF Past, IInv
<1>2. CASE Still /\ Counting
  BY <1>2, StillKeeps DEF Past, Onward, Reached, Still, db
<1> QED BY <1>1, <1>2

\* Completed is a count.
LEMMA CompletedTyped ==
  ASSUME RunsTyped, NEW w \in Procs
  PROVE  Completed(w) \in Nat
  BY DEF RunsTyped, Completed, Counters

\* A step of the workers is a step of the calls or leaves them still.
LEMMA WorkersCall ==
  ASSUME IInv, RunsTyped, [WNext]_allvars
  PROVE  [Next]_vars \/ (Still /\ Counting)
<1>1. ASSUME NEW w \in Procs, Select(w) PROVE UNCHANGED vars
  BY <1>1 DEF Select
<1>2. ASSUME NEW w \in Procs, Advance(w) PROVE [Next]_vars
  <2>1. CASE InCall(w)
    BY <2>1 DEF InCall, Next
  <2>2. CASE Call(w)
    <3>1. Completed(w) + 1 \in DOMAIN batch[w] /\ batch[w] \in Seq(Inputs)
      BY <2>2, CompletedTyped DEF Call, RunsTyped
    <3>2. JobOf(batch[w][Completed(w) + 1]) \in Jobs
      BY <3>1, JobOfInput
    <3> QED BY <2>2, <3>2 DEF Call, Next
  <2> QED BY <1>2, <2>1, <2>2 DEF Advance, ReadState, Collect, Summarize
<1>3. ASSUME NEW w \in Procs, Spend("fault"),
             UNCHANGED <<db, spool, locks, local, altered>>
      PROVE  Still /\ Counting
  BY <1>3, FaultIsStill DEF IInv, Typed, TypeOK, Spend, Events, Counting
<1>4. ASSUME NEW w \in Procs, SnapshotFails(w)
      PROVE  Still /\ Counting
  BY <1>3, <1>4 DEF SnapshotFails
<1>5. ASSUME NEW w \in Procs, Die(w)
      PROVE  Next \/ (Still /\ Counting)
  BY <1>3, <1>5 DEF Die, Next, Interrupt
<1>6. ASSUME NEW w \in Procs, Fail(w) PROVE Next
  BY <1>6 DEF Next, Interrupt
<1>7. ASSUME Environment PROVE Next
  BY <1>7 DEF Next
<1> QED
  BY <1>1, <1>2, <1>4, <1>5, <1>6, <1>7 DEF WNext, allvars

\* So it keeps their invariant and what has been read.
LEMMA WorkersStep ==
  ASSUME IInv, RunsTyped, [WNext]_allvars
  PROVE  IInv' /\ Past
  BY WorkersCall, CallsKeepPast

\* A step of the workers keeps the types of their runs.
LEMMA RunsStayTyped ==
  ASSUME IInv, RunsTyped, [WNext]_allvars
  PROVE  RunsTyped'
<1> USE DEF RunsTyped
<1>1. ASSUME NEW w \in Procs, Select(w) PROVE RunsTyped'
  <2>1. {i \in Inputs : asserted[i] = 1} \in SUBSET Inputs
    OBVIOUS
  <2>2. Listed[{i \in Inputs : asserted[i] = 1}] \in Seq(Inputs)
    BY <2>1, ListedAssumption
  <2>3. NoCounts \in [Counters -> Nat] /\ <<>> \in Seq(States)
    BY DEF NoCounts
  <2>4. \A v \in Procs : phase'[v] = "calling" =>
          v # w /\ phase[v] = "calling" /\ count'[v] = count[v] /\ prior'[v] = prior[v]
    BY <1>1 DEF Select
  <2> HIDE DEF NoCounts
  <2> QED BY <1>1, <2>2, <2>3, <2>4 DEF Select, Phases, Completed
<1>2. ASSUME NEW w \in Procs, ReadState(w) PROVE RunsTyped'
  <2> DEFINE state == job[JobOf(batch[w][Len(prior[w]) + 1])]
  <2>1. CASE Finish(w, "error") /\ UNCHANGED <<batch, prior, count>>
    BY <2>1 DEF Finish, Phases, Completed
  <2>2. CASE state # "FOREIGN" /\ prior' = [prior EXCEPT ![w] = Append(@, state)]
             /\ UNCHANGED <<phase, batch, count, status>>
    <3>1. batch[w][Len(prior[w]) + 1] \in Inputs /\ phase[w] = "running"
      BY <1>2 DEF ReadState
    <3>2. state \in States
      BY <2>2, <3>1, JobOfInput DEF IInv, Typed, TypeOK, States
    <3> HIDE DEF state
    <3>3. prior' \in [Procs -> Seq(States)] /\ \A v \in Procs \ {w} : prior'[v] = prior[v]
      BY <2>2, <3>2
    <3> QED BY <2>2, <3>1, <3>3 DEF Completed
  <2> QED BY <1>2, <2>1, <2>2 DEF ReadState
<1>3. ASSUME NEW w \in Procs, Call(w) PROVE RunsTyped'
  <2>1. Completed(w) + 1 \in DOMAIN prior[w]
    BY <1>3, CompletedTyped DEF Call, Ready
  <2> QED BY <1>3, <2>1 DEF Call, Phases, Completed
<1>4. ASSUME NEW w \in Procs, Collect(w) PROVE RunsTyped'
  <2>1. CASE Tally(w) /\ phase' = [phase EXCEPT ![w] = "running"] /\ UNCHANGED <<batch, prior>>
    <3>1. prior[w][Completed(w) + 1] \in States
      BY <1>4 DEF Collect
    <3>2. CounterOf(prior[w][Completed(w) + 1]) \in Counters
      BY <3>1, StateCounters
    <3>3. count' \in [Procs -> [Counters -> Nat]] /\ \A v \in Procs \ {w} : count'[v] = count[v]
      BY <2>1, <3>2 DEF Tally
    <3> QED BY <2>1, <3>3 DEF Phases, Completed
  <2>2. CASE UNCHANGED <<batch, prior, count>> /\ \E outc \in Statuses : Finish(w, outc)
    BY <2>2 DEF Finish, Phases, Completed
  <2> QED BY <1>4, <2>1, <2>2 DEF Collect, Statuses
<1>5. ASSUME NEW w \in Procs, Summarize(w) \/ SnapshotFails(w) \/ Die(w) PROVE RunsTyped'
  BY <1>5 DEF Summarize, SnapshotFails, Die, Finish, Phases, Completed
<1>6. CASE UNCHANGED wvars
  BY <1>6 DEF wvars, Completed
<1> QED
  BY <1>1, <1>2, <1>3, <1>4, <1>5, <1>6 DEF WNext, Advance, InCall, allvars

--------------------------------------------------------------------------------
(***************************************************************************)
(* From the counts to the receipt                                          *)
(***************************************************************************)

\* The inspections a client can be given.
Inspections ==
  [eligible : Nat, missing : Nat, prepared : Nat, complete : Nat, deferred : {0},
   conflict : Nat, integrity : {"PASS", "FAIL"}]

\* What each of them is classified as.
CodeOf(i) ==
  CASE i.integrity = "FAIL"                                      -> "INTEGRITY_FAILURE"
    [] i.integrity # "FAIL" /\ i.conflict > 0                    -> "IDENTITY_CONFLICT"
    [] i.integrity # "FAIL" /\ i.conflict = 0 /\ i.prepared > 0  -> "PREPARED_BACKLOG"
    [] i.integrity # "FAIL" /\ i.conflict = 0 /\ i.prepared = 0 /\ i.missing > 0
                                                                 -> "MISSING_BACKLOG"
    [] OTHER                                                     -> "CONVERGED"

\* The classifier's order, entry by entry.
LEMMA OrderOfCodes ==
  /\ DOMAIN R!ProcessorOrder = 1..7
  /\ R!ProcessorOrder[1] = "INTEGRITY_FAILURE"
  /\ R!ProcessorOrder[2] = "IDENTITY_CONFLICT"
  /\ R!ProcessorOrder[3] = "UNAVAILABLE"
  /\ R!ProcessorOrder[4] = "PREPARED_BACKLOG"
  /\ R!ProcessorOrder[5] = "MISSING_BACKLOG"
  /\ R!ProcessorOrder[6] = "DEFERRED_BUSY"
  /\ R!ProcessorOrder[7] = "CONVERGED"
  BY DEF R!ProcessorOrder

\* The first finding in that order is the answer.
LEMMA FirstWins ==
  ASSUME NEW o, o.service = "processor", NEW n \in 1..7,
         R!ProcessorOrder[n] \in R!Findings(o),
         \A m \in 1..(n - 1) : R!ProcessorOrder[m] \notin R!Findings(o)
  PROVE  R!Primary(o) = R!ProcessorOrder[n]
<1>1. R!First(R!ProcessorOrder, R!Findings(o)) = n
  <2> DEFINE k == R!First(R!ProcessorOrder, R!Findings(o))
  <2>1. /\ k \in 1..7
        /\ R!ProcessorOrder[k] \in R!Findings(o)
        /\ \A m \in 1..(k - 1) : R!ProcessorOrder[m] \notin R!Findings(o)
    BY OrderOfCodes DEF R!First
  <2>2. ~(k < n) /\ ~(n < k)
    <3> HIDE DEF k
    <3> QED BY <2>1
  <2> HIDE DEF k
  <2>3. k = n
    BY <2>1, <2>2
  <2> QED BY <2>3 DEF k
<1> QED BY <1>1 DEF R!Primary, R!Order

\* The pilot's findings are the contracts' findings, and the classifier answers
\* with the first of them.
LEMMA Classified ==
  ASSUME NEW i \in Inspections
  PROVE  /\ R!Consistent(Observation(i))
         /\ R!Primary(Observation(i)) = CodeOf(i)
<1> DEFINE o == Observation(i)
<1>1. /\ o.service = "processor" /\ o.integrity = i.integrity /\ o.findings = FindingCodes(i)
      /\ o.nonzero = Nonzero(i)
  BY DEF Observation
<1>2. /\ i.deferred = 0 /\ i.integrity \in {"PASS", "FAIL"} /\ i.conflict \in Nat
      /\ i.prepared \in Nat /\ i.missing \in Nat
  BY DEF Inspections
<1>3. /\ "identity_conflict" \in Nonzero(i) <=> i.conflict > 0
      /\ "prepared" \in Nonzero(i) <=> i.prepared > 0
      /\ "missing" \in Nonzero(i) <=> i.missing > 0
      /\ "deferred_lock" \in Nonzero(i) <=> i.deferred > 0
  BY DEF Nonzero
<1> HIDE DEF o
<1>4. R!Findings(o) = FindingCodes(i)
  BY <1>1, <1>3 DEF R!Findings, R!ProcessorFindings, FindingCodes
<1>5. /\ "INTEGRITY_FAILURE" \in R!Findings(o) <=> i.integrity = "FAIL"
      /\ "IDENTITY_CONFLICT" \in R!Findings(o) <=> i.conflict > 0
      /\ "UNAVAILABLE" \notin R!Findings(o)
      /\ "PREPARED_BACKLOG" \in R!Findings(o) <=> i.prepared > 0
      /\ "MISSING_BACKLOG" \in R!Findings(o) <=> i.missing > 0
      /\ "DEFERRED_BUSY" \notin R!Findings(o)
      /\ CodeOf(i) = "CONVERGED" => "CONVERGED" \in R!Findings(o)
  BY <1>2, <1>4 DEF FindingCodes, R!Codes, CodeOf
<1>6. R!Consistent(o)
  BY <1>1, <1>4 DEF R!Consistent
<1>7. R!Primary(o) = CodeOf(i)
  <2>1. CASE i.integrity = "FAIL"
    BY <1>1, <1>5, <2>1, FirstWins, OrderOfCodes DEF CodeOf
  <2>2. CASE i.integrity # "FAIL" /\ i.conflict > 0
    BY <1>1, <1>5, <2>2, FirstWins, OrderOfCodes DEF CodeOf
  <2>3. CASE i.integrity # "FAIL" /\ i.conflict = 0 /\ i.prepared > 0
    BY <1>1, <1>5, <2>3, FirstWins, OrderOfCodes DEF CodeOf
  <2>4. CASE i.integrity # "FAIL" /\ i.conflict = 0 /\ i.prepared = 0 /\ i.missing > 0
    BY <1>1, <1>5, <2>4, FirstWins, OrderOfCodes DEF CodeOf
  <2>5. CASE i.integrity # "FAIL" /\ i.conflict = 0 /\ i.prepared = 0 /\ i.missing = 0
    <3>1. CodeOf(i) = "CONVERGED"
      BY <2>5 DEF CodeOf
    <3> QED BY <1>1, <1>5, <2>5, <3>1, FirstWins, OrderOfCodes
  <2> QED BY <1>2, <2>1, <2>2, <2>3, <2>4, <2>5
<1> QED BY <1>6, <1>7 DEF o

\* The wave-C operation of each answer, and what the policy says of it.
LEMMA WaveCAnswers ==
  ASSUME NEW o, R!Primary(o) \in {"INTEGRITY_FAILURE", "IDENTITY_CONFLICT",
                                  "PREPARED_BACKLOG", "MISSING_BACKLOG", "CONVERGED"}
  PROVE  /\ R!WaveCOperation(o) \in R!Allowed(o)
         /\ R!Row(R!WaveCOperation(o)).waveC # "FORBID"
         /\ R!Row(R!WaveCOperation(o)).mutation
              \in {"READ_ONLY", "PROPOSAL_ONLY", "ESCALATION_ONLY"}
<1>1. R!WaveCOperation(o) \in R!Allowed(o)
      /\ R!WaveCOperation(o) \in {"NO_ACTION", "PROPOSE_CATCH_UP", "ESCALATE_STATE"}
  <2>1. CASE R!Primary(o) = "CONVERGED"
    BY <2>1 DEF R!WaveCOperation, R!Allowed, R!InvokeOps
  <2>2. CASE R!Primary(o) \in {"MISSING_BACKLOG", "PREPARED_BACKLOG"}
    BY <2>2 DEF R!WaveCOperation, R!Allowed, R!InvokeOps
  <2>3. CASE R!Primary(o) \in {"INTEGRITY_FAILURE", "IDENTITY_CONFLICT"}
    <3>1. R!Allowed(o) = {"ESCALATE_STATE"}
      BY <2>3 DEF R!Allowed
    <3> QED BY <3>1 DEF R!WaveCOperation, R!InvokeOps
  <2> QED BY <2>1, <2>2, <2>3
<1>2. ASSUME NEW op \in {"NO_ACTION", "PROPOSE_CATCH_UP", "ESCALATE_STATE"}
      PROVE  /\ R!Row(op).waveC # "FORBID"
             /\ R!Row(op).mutation \in {"READ_ONLY", "PROPOSAL_ONLY", "ESCALATION_ONLY"}
  BY DEF R!Row, R!Policy, R!ReadOps, R!ProposeOps, R!InvokeOps, R!EscalateOps, R!OperatorOps
<1> QED BY <1>1, <1>2

\* The proposal, its validators and the receipt take every legal inspection.
LEMMA Presented ==
  ASSUME NEW i \in Inspections, Legal(i)
  PROVE  Presentable(i)
<1> DEFINE o  == Observation(i)
           op == R!WaveCOperation(o)
           p  == R!WaveCProposal(o)
<1>1. R!Consistent(o) /\ o.service = "processor"
  BY Classified DEF Observation
<1>2. /\ op \in R!Allowed(o)
      /\ R!Row(op).waveC # "FORBID"
      /\ R!Row(op).mutation \in {"READ_ONLY", "PROPOSAL_ONLY", "ESCALATION_ONLY"}
  <2>1. R!Primary(o) \in {"INTEGRITY_FAILURE", "IDENTITY_CONFLICT",
                          "PREPARED_BACKLOG", "MISSING_BACKLOG", "CONVERGED"}
    BY Classified DEF CodeOf
  <2> HIDE DEF o
  <2> QED BY <2>1, WaveCAnswers
<1> HIDE DEF o
<1>3. /\ p.obs = o /\ p.class = R!Classify(o) /\ p.op = op /\ p.phase = "WAVE_C"
      /\ p.mutation = R!Row(op).mutation
      /\ p.params = R!Parameters(o, op)
      /\ p = R!Frozen(o, op, "WAVE_C", R!Parameters(o, op), "policy")
  BY DEF R!WaveCProposal, R!Frozen
<1>4. R!Parameters(o, op).form # "exact"
  BY DEF R!Parameters, R!NoParameters, R!ExpectSnapshot
<1>5. R!ProposalValid(p)
  <2>1. R!ClassificationValid(p.class, p.obs)
    BY <1>1, <1>3 DEF R!ClassificationValid
  <2>2. R!Disposition(p.op, p.phase) # "FORBID"
    BY <1>2, <1>3 DEF R!Disposition
  <2> HIDE DEF p, op
  <2> QED
    BY <1>1, <1>2, <1>3, <1>4, <2>1, <2>2
       DEF R!ProposalValid, R!ProcessorProposalValid, R!PlainValid, R!FieldsValid
<1>6. R!Closed(p, "none")
  BY <1>2, <1>3 DEF R!Closed
<1> HIDE DEF p
<1>7. /\ R!Receipt(p, "none", "none", "none").status = "READ_ONLY_COMPLETE"
      /\ R!Receipt(p, "none", "none", "none").appr = "none"
      /\ R!Receipt(p, "none", "none", "none").exec = "none"
      /\ R!Receipt(p, "none", "none", "none").check = "none"
  BY DEF R!Receipt, R!ClosedStatus
<1>8. R!Acceptable(p, "none", "none", "none")
  BY <1>5, <1>6, <1>7 DEF R!Acceptable, R!ReceiptAllowed
<1>9. p.mutation # "BOUNDED_EXECUTION"
  BY <1>2, <1>3
<1> QED
  BY <1>1, <1>7, <1>8, <1>9 DEF Presentable, o, p

--------------------------------------------------------------------------------
(***************************************************************************)
(* One client                                                              *)
(***************************************************************************)

\* As many numbers as the last of them.
LEMMA Interval ==
  ASSUME NEW n \in Nat
  PROVE  IsFiniteSet(1..n) /\ Cardinality(1..n) = n
<1>1. IsFiniteSet(1..n) /\ Cardinality(1..n) = IF 1 > n THEN 0 ELSE n - 1 + 1
  BY FS_Interval
<1> QED BY <1>1

\* A list of some inputs is no longer than the list of all.
LEMMA ListedLength ==
  ASSUME NEW some \in SUBSET Inputs
  PROVE  Len(Listed[some]) <= Len(Listed[Inputs])
<1> DEFINE few == Listed[some]
           all == Listed[Inputs]
           at  == [n \in 1..Len(few) |-> CHOOSE m \in 1..Len(all) : all[m] = few[n]]
<1>1. few \in Seq(Inputs) /\ all \in Seq(Inputs) /\ Inputs \in SUBSET Inputs
  BY ListedAssumption
<1>2. \A n \in 1..Len(few) : \E m \in 1..Len(all) : all[m] = few[n]
  <2>1. {all[n] : n \in DOMAIN all} = Inputs
    BY <1>1, ListedAssumption
  <2>2. DOMAIN all = 1..Len(all) /\ \A n \in 1..Len(few) : few[n] \in Inputs
    BY <1>1
  <2> HIDE DEF all, few
  <2> QED BY <2>1, <2>2
<1>3. \A m, n \in 1..Len(few) : few[m] = few[n] => m = n
  <2>1. \A m, n \in DOMAIN few : few[m] = few[n] => m = n
    BY ListedAssumption
  <2>2. DOMAIN few = 1..Len(few)
    BY <1>1
  <2> HIDE DEF few
  <2> QED BY <2>1, <2>2
<1>4. Len(few) \in Nat /\ Len(all) \in Nat
  BY <1>1
<1> HIDE DEF few, all
<1>5. at \in [1..Len(few) -> 1..Len(all)] /\ \A n \in 1..Len(few) : all[at[n]] = few[n]
  BY <1>2
<1> HIDE DEF at
<1>6. \A m, n \in 1..Len(few) : at[m] = at[n] => m = n
  BY <1>3, <1>5
<1>7. /\ IsFiniteSet(1..Len(few)) /\ Cardinality(1..Len(few)) = Len(few)
      /\ IsFiniteSet(1..Len(all)) /\ Cardinality(1..Len(all)) = Len(all)
  BY <1>4, Interval
<1>8. ~(Len(all) < Len(few))
  BY <1>5, <1>6, <1>7, FS_PigeonHole
<1> QED BY <1>4, <1>8 DEF few, all

\* The places where a state was read.
At(s, state) == {n \in DOMAIN s : s[n] = state}

\* They are counted.
LEMMA AtFinite ==
  ASSUME NEW s \in Seq(States), NEW state
  PROVE  /\ IsFiniteSet(At(s, state)) /\ Cardinality(At(s, state)) \in Nat
         /\ Cardinality(At(s, state)) = 0 => At(s, state) = {}
<1>1. IsFiniteSet(1..Len(s)) /\ At(s, state) \in SUBSET (1..Len(s))
  BY Interval DEF At
<1>2. IsFiniteSet(At(s, state))
  BY <1>1, FS_Subset
<1> QED BY <1>2, FS_CardinalityType, FS_EmptySet

\* Every state that was read is counted once.
LEMMA CountsAddUp ==
  ASSUME NEW s \in Seq(States)
  PROVE  Cardinality(At(s, "MISSING")) + Cardinality(At(s, "PREPARED"))
           + Cardinality(At(s, "COMPLETE")) = Len(s)
<1> DEFINE M == At(s, "MISSING")
           P == At(s, "PREPARED")
           C == At(s, "COMPLETE")
<1>1. IsFiniteSet(M) /\ IsFiniteSet(P) /\ IsFiniteSet(C)
      /\ Cardinality(M) \in Nat /\ Cardinality(P) \in Nat /\ Cardinality(C) \in Nat
  BY AtFinite
<1>2. M \cap P = {} /\ (M \cup P) \cap C = {}
  BY DEF At
<1>3. (M \cup P) \cup C = 1..Len(s)
  <2>1. \A n \in 1..Len(s) : s[n] \in {"MISSING", "PREPARED", "COMPLETE"}
    BY DEF States, JobStates
  <2> QED BY <2>1 DEF At
<1>4. Cardinality(1..Len(s)) = Len(s)
  BY Interval
<1> DEFINE m == Cardinality(M)
           p == Cardinality(P)
           k == Cardinality(C)
<1> HIDE DEF M, P, C
<1>5. /\ IsFiniteSet(M \cup P)
      /\ Cardinality(M \cup P) = Cardinality(M) + Cardinality(P) - Cardinality(M \cap P)
  BY <1>1, FS_Union
<1>6. Cardinality((M \cup P) \cup C)
        = Cardinality(M \cup P) + Cardinality(C) - Cardinality((M \cup P) \cap C)
  BY <1>1, <1>5, FS_Union
<1>7. Cardinality({}) = 0
  BY FS_EmptySet
<1>8. m + p + k = Len(s)
  <2>1. m \in Nat /\ p \in Nat /\ k \in Nat
    BY <1>1
  <2>2. Cardinality(M \cup P) = m + p - 0
    BY <1>2, <1>5, <1>7
  <2>3. Len(s) = Cardinality(M \cup P) + k - 0
    BY <1>2, <1>3, <1>4, <1>6, <1>7
  <2> HIDE DEF m, p, k
  <2> QED BY <2>1, <2>2, <2>3
<1> QED BY <1>8 DEF m, p, k, M, P, C

\* A count of what was read is an inspection the core accepts.
LEMMA CountedInspection ==
  ASSUME NEW c \in Clients, states[c] \in Seq(States)
  PROVE  /\ Counted(c) \in Inspections /\ Legal(Counted(c))
         /\ Counted(c).eligible = Len(states[c])
         /\ Counted(c).conflict = 0 /\ Counted(c).integrity = "PASS"
         /\ Counted(c).missing = Cardinality(At(states[c], "MISSING"))
         /\ Counted(c).prepared = Cardinality(At(states[c], "PREPARED"))
<1>0. Zero \in Inspections /\ Zero.conflict = 0 /\ Zero.integrity = "PASS"
  BY DEF Zero, Inspections
<1> DEFINE e == Len(states[c])
           m == Cardinality(At(states[c], "MISSING"))
           p == Cardinality(At(states[c], "PREPARED"))
           k == Cardinality(At(states[c], "COMPLETE"))
<1>1. Counted(c) = [Zero EXCEPT !.eligible = e, !.missing = m, !.prepared = p,
                               !.complete = k]
  BY DEF Counted, At
<1>2. e \in Nat /\ m \in Nat /\ p \in Nat /\ k \in Nat
  BY AtFinite
<1>3. m + p + k = e
  BY CountsAddUp
<1>4. /\ Counted(c) \in Inspections
      /\ Counted(c).eligible = e /\ Counted(c).missing = m
      /\ Counted(c).prepared = p /\ Counted(c).complete = k
      /\ Counted(c).conflict = 0 /\ Counted(c).integrity = "PASS"
  <2> HIDE DEF e, m, p, k
  <2> QED BY <1>0, <1>1, <1>2 DEF Inspections
<1> HIDE DEF e, m, p, k
<1>5. Legal(Counted(c))
  BY <1>3, <1>4 DEF Legal
<1> QED BY <1>4, <1>5 DEF e, m, p

\* So are one conflict and an integrity failure.
Conflict == [Zero EXCEPT !.conflict = 1]
Failure  == [Zero EXCEPT !.integrity = "FAIL"]

\* What is in them.
LEMMA OtherInspections ==
  /\ Conflict \in Inspections /\ Legal(Conflict)
  /\ Conflict.conflict = 1 /\ Conflict.integrity = "PASS"
  /\ Failure \in Inspections /\ Legal(Failure) /\ Failure.integrity = "FAIL"
  /\ Conflict.eligible = 0 /\ Failure.eligible = 0
<1>1. /\ Zero \in Inspections /\ Zero.conflict = 0 /\ Zero.integrity = "PASS"
      /\ Zero.missing = 0 /\ Zero.prepared = 0 /\ Zero.complete = 0 /\ Zero.eligible = 0
  BY DEF Zero, Inspections
<1> QED BY <1>1 DEF Inspections, Legal, Conflict, Failure

--------------------------------------------------------------------------------
(***************************************************************************)
(* The inductive invariant                                                 *)
(***************************************************************************)

\* Types of what the clients and the tools keep.
ClientsTyped ==
  /\ schema \in Versions
  /\ consumed \in [Tools -> BOOLEAN]
  /\ completed \in BOOLEAN
  /\ stage \in [Clients -> Stages]
  /\ outcome \in [Clients -> Outcomes]
  /\ listed \in [Clients -> Seq(Inputs)]
  /\ states \in [Clients -> Seq(States)]
  /\ seen \in [Clients -> Inspections]
  /\ \A c \in Clients : outcome[c] = "none" <=> stage[c] # "answered"

\* The answer is one of three: the counts of all that was listed, a conflict that is
\* still there, or a failure that happened.
Answered(c) ==
  \/ seen[c] = Counted(c) /\ Len(states[c]) = Len(listed[c])
  \/ /\ seen[c] = Conflict
     /\ \E n \in DOMAIN listed[c] : job[JobOf(listed[c][n])] = "FOREIGN"
  \/ seen[c] = Failure /\ spent["fault"] > 0

\* What a client has read is still true.
Truthful(c) ==
  /\ stage[c] \notin {"states", "answered"} => states[c] = <<>>
  /\ Len(states[c]) <= Len(listed[c])
  /\ Len(listed[c]) <= Len(Listed[Inputs])
  /\ seen[c].eligible <= Len(Listed[Inputs])
  /\ \A n \in DOMAIN states[c] : Reached(JobOf(listed[c][n]), states[c][n])
  /\ outcome[c] # "raised"
  /\ outcome[c] = "result" => Answered(c)

CInv == ClientsTyped /\ \A c \in Clients : Truthful(c)

InsInv == IInv /\ RunsTyped /\ CInv

\* A client that stands still is as truthful as it was.
LEMMA StaysTruthful ==
  ASSUME IInv, Past, ClientsTyped, NEW c \in Clients, Truthful(c),
         stage'[c] = stage[c], listed'[c] = listed[c], states'[c] = states[c],
         seen'[c] = seen[c], outcome'[c] = outcome[c]
  PROVE  Truthful(c)'
<1>1. listed[c] \in Seq(Inputs) /\ states[c] \in Seq(States)
  BY DEF ClientsTyped
<1>2. \A n \in DOMAIN listed[c] : JobOf(listed[c][n]) \in Jobs
  BY <1>1, JobOfInput
<1>3. DOMAIN states[c] \subseteq DOMAIN listed[c]
  BY <1>1 DEF Truthful
<1>4. \A n \in DOMAIN states[c] : Reached(JobOf(listed[c][n]), states[c][n])'
  <2> SUFFICES ASSUME NEW n \in DOMAIN states[c]
               PROVE  Reached(JobOf(listed[c][n]), states[c][n])'
    OBVIOUS
  <2>1. JobOf(listed[c][n]) \in Jobs /\ states[c][n] \in States
    BY <1>1, <1>2, <1>3
  <2>2. Reached(JobOf(listed[c][n]), states[c][n])
    BY DEF Truthful
  <2> QED BY <2>1, <2>2 DEF Past, Onward, Reached, JobOf
<1>5. \A n \in DOMAIN listed[c] :
        job[JobOf(listed[c][n])] = "FOREIGN" => job'[JobOf(listed[c][n])] = "FOREIGN"
  BY <1>2 DEF Past
<1>6. Counted(c)' = Counted(c)
  BY DEF Counted
<1>7. spent["fault"] > 0 => spent'["fault"] > 0
  BY DEF Past, Counting, IInv, Typed, TypeOK, Events
<1>8. outcome'[c] = "result" => Answered(c)'
  <2>1. outcome[c] = "result" => Answered(c)
    BY DEF Truthful
  <2> QED BY <1>5, <1>6, <1>7, <2>1 DEF Answered, Conflict, Failure, Zero, JobOf
<1>9. \A n \in DOMAIN states'[c] : Reached(JobOf(listed[c][n]), states[c][n])'
  BY <1>4
<1> QED BY <1>8, <1>9 DEF Truthful

\* What a step of client c leaves alone of the others.
OthersSame(c) ==
  \A d \in Clients \ {c} :
    /\ stage'[d] = stage[d] /\ listed'[d] = listed[d] /\ states'[d] = states[d]
    /\ seen'[d] = seen[d] /\ outcome'[d] = outcome[d]

\* A step is a matter of the client that takes it.
LEMMA OneClient ==
  ASSUME IInv, Past, CInv, ClientsTyped', NEW c \in Clients, OthersSame(c),
         Truthful(c)'
  PROVE  CInv'
<1>1. \A d \in Clients \ {c} : Truthful(d)'
  BY StaysTruthful DEF CInv, OthersSame
<1> QED BY <1>1 DEF CInv

\* A step that reads nothing.
LEMMA MoveStep ==
  ASSUME IInv, Past, CInv, NEW c \in Clients, NEW step \in Stages \ {"answered"},
         stage[c] # "answered", stage[c] # "states",
         Move(c, step), UNCHANGED <<schema, listed, states>>,
         consumed' \in [Tools -> BOOLEAN], completed' \in BOOLEAN
  PROVE  CInv'
<1> USE DEF CInv, ClientsTyped
<1>1. /\ stage' \in [Clients -> Stages] /\ stage'[c] = step
      /\ \A d \in Clients \ {c} : stage'[d] = stage[d]
      /\ UNCHANGED <<seen, outcome>>
  BY DEF Move
<1>2. ClientsTyped' /\ OthersSame(c)
  BY <1>1 DEF OthersSame
<1>3. Truthful(c)'
  <2>1. states[c] = <<>> /\ outcome[c] = "none"
    BY DEF Truthful
  <2> QED BY <1>1, <2>1 DEF Truthful
<1> QED BY <1>2, <1>3, OneClient

\* A call that ends without an inspection.
LEMMA EndsStep ==
  ASSUME IInv, Past, CInv, NEW c \in Clients, NEW how \in Outcomes \ {"none", "raised", "result"},
         stage[c] # "answered", End(c, how), UNCHANGED <<schema, consumed, completed, listed, states>>
  PROVE  CInv'
<1> USE DEF CInv, ClientsTyped
<1>1. /\ stage' \in [Clients -> Stages] /\ stage'[c] = "answered"
      /\ outcome' \in [Clients -> Outcomes] /\ outcome'[c] = how
      /\ \A d \in Clients \ {c} : stage'[d] = stage[d] /\ outcome'[d] = outcome[d]
      /\ UNCHANGED seen
  BY DEF End, Stages
<1>2. ClientsTyped' /\ OthersSame(c)
  BY <1>1 DEF OthersSame
<1>3. /\ listed[c] \in Seq(Inputs) /\ states[c] \in Seq(States)
      /\ DOMAIN states[c] \subseteq DOMAIN listed[c]
  BY DEF Truthful
<1>4. \A n \in DOMAIN states[c] : Reached(JobOf(listed[c][n]), states[c][n])'
  <2> SUFFICES ASSUME NEW n \in DOMAIN states[c]
               PROVE  Reached(JobOf(listed[c][n]), states[c][n])'
    OBVIOUS
  <2>1. JobOf(listed[c][n]) \in Jobs /\ states[c][n] \in States
    BY <1>3, JobOfInput
  <2>2. Reached(JobOf(listed[c][n]), states[c][n])
    BY DEF Truthful
  <2> QED BY <2>1, <2>2 DEF Past, Onward, Reached, JobOf
<1>5. Truthful(c)'
  BY <1>1, <1>4 DEF Truthful, Reached, JobOf
<1> QED BY <1>1, <1>2, <1>5, OneClient

\* A call that ends with an inspection: it can be presented.
LEMMA AnswerStep ==
  ASSUME IInv, Past, CInv, NEW c \in Clients, stage[c] \in {"select", "states"},
         NEW i \in Inspections, Legal(i), Answer(c, i),
         UNCHANGED <<schema, consumed, completed, listed, states>>,
         \/ i = Counted(c) /\ Len(states[c]) = Len(listed[c])
         \/ i = Conflict /\ \E n \in DOMAIN listed[c] : job[JobOf(listed[c][n])] = "FOREIGN"
         \/ i = Failure /\ spent'["fault"] > 0
  PROVE  CInv'
<1> USE DEF CInv, ClientsTyped
<1>1. Presentable(i)
  BY Presented
<1>2. /\ stage' \in [Clients -> Stages] /\ stage'[c] = "answered"
      /\ outcome' \in [Clients -> Outcomes] /\ outcome'[c] = "result"
      /\ seen' \in [Clients -> Inspections] /\ seen'[c] = i
      /\ \A d \in Clients \ {c} : /\ stage'[d] = stage[d] /\ outcome'[d] = outcome[d]
                                  /\ seen'[d] = seen[d]
  BY <1>1 DEF Answer, Stages, Outcomes
<1>3. ClientsTyped' /\ OthersSame(c)
  BY <1>2 DEF OthersSame
<1>4. /\ listed[c] \in Seq(Inputs) /\ states[c] \in Seq(States)
      /\ DOMAIN states[c] \subseteq DOMAIN listed[c]
  BY DEF Truthful
<1>5. \A n \in DOMAIN states[c] : Reached(JobOf(listed[c][n]), states[c][n])'
  <2> SUFFICES ASSUME NEW n \in DOMAIN states[c]
               PROVE  Reached(JobOf(listed[c][n]), states[c][n])'
    OBVIOUS
  <2>1. JobOf(listed[c][n]) \in Jobs /\ states[c][n] \in States
    BY <1>4, JobOfInput
  <2>2. Reached(JobOf(listed[c][n]), states[c][n])
    BY DEF Truthful
  <2> QED BY <2>1, <2>2 DEF Past, Onward, Reached, JobOf
<1>6. i.eligible <= Len(Listed[Inputs])
  <2>1. /\ Len(states[c]) \in Nat /\ Len(listed[c]) \in Nat
        /\ Len(Listed[Inputs]) \in Nat
    BY <1>4, ListedAssumption
  <2>2. i.eligible = Len(states[c]) \/ i.eligible = 0
    BY <1>4, CountedInspection, OtherInspections
  <2> QED BY <2>1, <2>2 DEF Truthful
<1>7. Answered(c)'
  <2>1. Counted(c)' = Counted(c)
    BY DEF Counted
  <2>2. \A n \in DOMAIN listed[c] :
          job[JobOf(listed[c][n])] = "FOREIGN" => job'[JobOf(listed[c][n])] = "FOREIGN"
    BY <1>4, JobOfInput DEF Past
  <2> QED BY <1>2, <2>1, <2>2 DEF Answered, Conflict, Failure, Zero, JobOf
<1>8. Truthful(c)'
  <2>1. \A n \in DOMAIN states'[c] : Reached(JobOf(listed[c][n]), states[c][n])'
    BY <1>5
  <2> QED BY <1>2, <1>6, <1>7, <2>1 DEF Truthful
<1> QED BY <1>3, <1>8, OneClient

\* The candidates are listed.
LEMMA ListStep ==
  ASSUME IInv, Past, CInv, NEW c \in Clients, ListCandidates(c)
  PROVE  CInv'
<1> USE DEF CInv, ClientsTyped
<1> DEFINE some == {i \in Inputs : asserted[i] = 1}
<1>1. some \in SUBSET Inputs
  OBVIOUS
<1>2. Listed[some] \in Seq(Inputs) /\ Len(Listed[some]) <= Len(Listed[Inputs])
  BY <1>1, ListedAssumption, ListedLength
<1>3. /\ stage[c] = "select"
      /\ stage' = [stage EXCEPT ![c] = "states"]
      /\ listed' = [listed EXCEPT ![c] = Listed[some]]
      /\ UNCHANGED <<schema, consumed, completed, states, seen, outcome>>
  BY DEF ListCandidates, Move
<1> HIDE DEF some
<1>4. ClientsTyped' /\ OthersSame(c) /\ stage'[c] = "states" /\ listed'[c] = Listed[some]
  BY <1>2, <1>3 DEF OthersSame, Stages
<1>5. states[c] = <<>> /\ outcome[c] = "none"
  BY <1>3 DEF Truthful
<1>6. Truthful(c)'
  <2>1. Len(Listed[some]) \in Nat /\ Len(states[c]) = 0 /\ DOMAIN states[c] = {}
    BY <1>2, <1>5
  <2> QED BY <1>2, <1>3, <1>4, <1>5, <2>1 DEF Truthful
<1> QED BY <1>4, <1>6, OneClient

\* One more state is read, or a contradiction found.
LEMMA ReadJobStep ==
  ASSUME IInv, Past, CInv, NEW c \in Clients, ReadJob(c)
  PROVE  CInv'
<1> USE DEF CInv, ClientsTyped
<1> DEFINE m     == Len(states[c]) + 1
           state == job[JobOf(listed[c][m])]
<1>1. /\ stage[c] = "states" /\ Len(states[c]) < Len(listed[c])
      /\ UNCHANGED <<allvars, schema, consumed, completed, listed>>
  BY DEF ReadJob
<1>2. /\ listed[c] \in Seq(Inputs) /\ states[c] \in Seq(States)
      /\ m \in DOMAIN listed[c] /\ JobOf(listed[c][m]) \in Jobs
  BY <1>1, JobOfInput
<1>3. CASE Answer(c, [Zero EXCEPT !.conflict = 1]) /\ state = "FOREIGN" /\ UNCHANGED states
  BY <1>1, <1>2, <1>3, AnswerStep, OtherInspections DEF Conflict
<1>4. CASE /\ state # "FOREIGN" /\ states' = [states EXCEPT ![c] = Append(@, state)]
           /\ Move(c, "states")
  <2>1. state \in States /\ Reached(JobOf(listed[c][m]), state)
    BY <1>2, <1>4, ReachedNow DEF IInv, Typed, TypeOK, States
  <2>2. UNCHANGED job
    BY <1>1 DEF allvars, vars, db
  <2>3. states'[c] = Append(states[c], state)
    BY <1>4
  <2> HIDE DEF state
  <2>4. /\ stage' = [stage EXCEPT ![c] = "states"] /\ UNCHANGED <<seen, outcome>>
        /\ states' \in [Clients -> Seq(States)]
        /\ \A d \in Clients \ {c} : states'[d] = states[d]
    BY <1>4, <2>1 DEF Move
  <2>5. ClientsTyped' /\ OthersSame(c) /\ stage'[c] = "states"
    BY <1>1, <2>4 DEF OthersSame, Stages
  <2>6. /\ Len(states'[c]) = m /\ states'[c][m] = state
        /\ \A n \in DOMAIN states'[c] : n # m =>
             n \in DOMAIN states[c] /\ states'[c][n] = states[c][n]
    BY <1>2, <2>1, <2>3
  <2> HIDE DEF m
  <2>7. \A n \in DOMAIN states'[c] : Reached(JobOf(listed[c][n]), states'[c][n])
    BY <2>1, <2>6 DEF Truthful
  <2>8. \A n \in DOMAIN states'[c] : Reached(JobOf(listed[c][n]), states[c][n])'
    BY <1>1, <2>2, <2>7 DEF Reached, JobOf
  <2>9. outcome[c] = "none"
    BY <1>1
  <2>10. Len(states'[c]) <= Len(listed'[c])
    BY <1>1, <1>2, <2>6 DEF m
  <2>11. Truthful(c)'
    BY <1>1, <2>4, <2>5, <2>8, <2>9, <2>10 DEF Truthful
  <2> QED BY <2>5, <2>11, OneClient
<1> QED BY <1>3, <1>4 DEF ReadJob

\* The other steps of a client.
LEMMA ClientStep ==
  ASSUME IInv, Past, CInv, NEW c \in Clients,
         \/ Forbid(c) \/ Claim(c) \/ TestCompleted(c) \/ SetCompleted(c) \/ ReadVersion(c)
         \/ Count(c)
         \/ Unreadable(c) /\ spent'["fault"] > 0
  PROVE  CInv'
<1> USE DEF CInv, ClientsTyped
<1>1. CASE Forbid(c)
  BY <1>1, EndsStep DEF Forbid, Outcomes
<1>2. CASE Claim(c)
  <2>1. CASE End(c, "consumed") /\ UNCHANGED consumed
    BY <1>2, <2>1, EndsStep DEF Claim, Outcomes
  <2>2. CASE Move(c, "core")
    <3>1. consumed' \in [Tools -> BOOLEAN]
      BY <1>2 DEF Claim
    <3> QED BY <1>2, <2>2, <3>1, MoveStep DEF Claim, Stages
  <2> QED BY <1>2, <2>1, <2>2 DEF Claim
<1>3. CASE TestCompleted(c)
  <2>1. CASE End(c, "completed")
    BY <1>3, <2>1, EndsStep DEF TestCompleted, Outcomes
  <2>2. CASE Move(c, "entered")
    BY <1>3, <2>2, MoveStep DEF TestCompleted, Stages
  <2> QED BY <1>3, <2>1, <2>2 DEF TestCompleted
<1>4. CASE SetCompleted(c)
  BY <1>4, MoveStep DEF SetCompleted, Stages
<1>5. CASE ReadVersion(c)
  <2>1. CASE schema = LastVersion
    BY <1>5, <2>1, MoveStep DEF ReadVersion, Stages
  <2>2. CASE schema # LastVersion
    BY <1>5, <2>2, EndsStep DEF ReadVersion, Outcomes
  <2> QED BY <2>1, <2>2
<1>6. CASE Count(c)
  <2>1. /\ stage[c] = "states" /\ Len(states[c]) = Len(listed[c]) /\ Answer(c, Counted(c))
        /\ UNCHANGED <<schema, consumed, completed, listed, states>>
    BY <1>6 DEF Count
  <2>2. Counted(c) \in Inspections /\ Legal(Counted(c))
    BY CountedInspection
  <2> QED BY <2>1, <2>2, AnswerStep
<1>7. CASE Unreadable(c) /\ spent'["fault"] > 0
  <2>1. CASE stage[c] \in {"version", "select"} /\ End(c, "error")
    BY <1>7, <2>1, EndsStep DEF Unreadable, Outcomes
  <2>2. CASE stage[c] \in {"select", "states"} /\ Answer(c, [Zero EXCEPT !.integrity = "FAIL"])
    <3>1. Answer(c, Failure) /\ UNCHANGED <<schema, consumed, completed, listed, states>>
      BY <1>7, <2>2 DEF Unreadable, Failure
    <3> QED BY <1>7, <2>2, <3>1, AnswerStep, OtherInspections
  <2> QED BY <1>7, <2>1, <2>2 DEF Unreadable
<1> QED BY <1>1, <1>2, <1>3, <1>4, <1>5, <1>6, <1>7

\* Every step keeps all the parts.
LEMMA InspectionStep == InsInv /\ [INext]_insvars => InsInv'
<1> SUFFICES ASSUME InsInv, [INext]_insvars PROVE InsInv'
  OBVIOUS
<1> USE DEF InsInv
<1>1. ASSUME [WNext]_allvars PROVE IInv' /\ Past /\ RunsTyped'
  BY <1>1, WorkersStep, RunsStayTyped
<1>2. CASE [WNext]_allvars /\ UNCHANGED ivars
  <2>1. ClientsTyped'
    BY <1>2 DEF CInv, ClientsTyped, ivars
  <2>2. \A c \in Clients : Truthful(c)'
    BY <1>1, <1>2, StaysTruthful DEF CInv, ivars
  <2> QED BY <1>1, <1>2, <2>1, <2>2 DEF CInv
<1>3. ASSUME NEW c \in Clients, Inspecting(c) \/ Forbid(c) PROVE InsInv'
  <2>1. UNCHANGED allvars
    BY <1>3 DEF Inspecting, Forbid, Claim, TestCompleted, SetCompleted, ReadVersion,
       ListCandidates, ReadJob, Count
  <2>2. IInv' /\ Past /\ RunsTyped'
    BY <1>1, <2>1
  <2>3. CInv'
    BY <1>3, <2>2, ClientStep, ListStep, ReadJobStep DEF Inspecting
  <2> QED BY <2>2, <2>3
<1>4. ASSUME NEW c \in Clients, Unreadable(c) PROVE InsInv'
  <2>1. Spend("fault") /\ UNCHANGED <<db, spool, locks, local, altered, wvars>>
    BY <1>4 DEF Unreadable
  <2>2. Still /\ Counting /\ spent'["fault"] > 0
    BY <2>1, FaultIsStill DEF IInv, Typed, TypeOK, Spend, Events, Counting
  <2>3. IInv' /\ Past
    BY <2>2, CallsKeepPast
  <2>4. RunsTyped'
    BY <2>1 DEF RunsTyped, wvars, Completed
  <2>5. CInv'
    BY <1>4, <2>2, <2>3, ClientStep
  <2> QED BY <2>3, <2>4, <2>5
<1>5. CASE Upgrade
  <2>1. IInv' /\ Past /\ RunsTyped'
    BY <1>1, <1>5 DEF Upgrade
  <2>2. ClientsTyped'
    BY <1>5 DEF Upgrade, CInv, ClientsTyped, Versions, LastVersion
  <2>3. \A c \in Clients : Truthful(c)'
    BY <1>5, <2>1, StaysTruthful DEF CInv, Upgrade
  <2> QED BY <2>1, <2>2, <2>3 DEF CInv
<1> QED BY <1>2, <1>3, <1>4, <1>5 DEF INext, insvars

\* They hold at the start.
LEMMA InspectionInit == IInit => InsInv
<1> SUFFICES ASSUME IInit PROVE InsInv
  OBVIOUS
<1>1. IInv
  BY InductiveInit DEF IInit, WInit
<1>2. RunsTyped
  <2>1. NoCounts \in [Counters -> Nat]
    BY DEF NoCounts
  <2> QED BY <2>1 DEF IInit, WInit, RunsTyped, Phases
<1>3. Zero \in Inspections /\ Zero.eligible = 0
  BY DEF Zero, Inspections
<1>4. ClientsTyped
  <2>1. /\ schema \in Versions
        /\ consumed \in [Tools -> BOOLEAN]
        /\ completed \in BOOLEAN
    BY DEF IInit
  <2>2. stage \in [Clients -> Stages] /\ outcome \in [Clients -> Outcomes]
    BY DEF IInit, Stages, Outcomes
  <2>3. listed \in [Clients -> Seq(Inputs)] /\ states \in [Clients -> Seq(States)]
    BY DEF IInit
  <2>4. seen \in [Clients -> Inspections]
    BY <1>3 DEF IInit
  <2>5. \A c \in Clients : outcome[c] = "none" <=> stage[c] # "answered"
    BY DEF IInit
  <2> QED BY <2>1, <2>2, <2>3, <2>4, <2>5 DEF ClientsTyped
<1>5. ASSUME NEW c \in Clients PROVE Truthful(c)
  <2>1. Len(Listed[Inputs]) \in Nat
    BY ListedAssumption
  <2>2. /\ stage[c] = "asking" /\ listed[c] = <<>> /\ states[c] = <<>> /\ seen[c] = Zero
        /\ outcome[c] = "none"
    BY DEF IInit
  <2> QED BY <1>3, <2>1, <2>2 DEF Truthful
<1> QED BY <1>1, <1>2, <1>4, <1>5 DEF InsInv, CInv

\* The conjunction of the parts is an invariant.
THEOREM InspectionsInductive == ISpec => []InsInv
  BY InspectionInit, InspectionStep, PTL DEF ISpec

--------------------------------------------------------------------------------
(***************************************************************************)
(* The properties                                                          *)
(***************************************************************************)

\* Types, and no inspection counts more than there is.
THEOREM InspectionTypes == ISpec => []ITypeOK
<1>1. InsInv => ITypeOK
  BY DEF InsInv, CInv, ClientsTyped, Truthful, ITypeOK, States
<1> QED BY <1>1, InspectionsInductive, PTL

\* Whatever a snapshot torn by working workers counts, it ends in a receipt.
THEOREM EveryCountIsAlwaysPresentable == ISpec => []EveryCountIsPresentable
<1>1. InsInv => EveryCountIsPresentable
  BY DEF InsInv, CInv, Truthful, EveryCountIsPresentable
<1> QED BY <1>1, InspectionsInductive, PTL

\* CONVERGED, IDENTITY_CONFLICT and INTEGRITY_FAILURE are still true when they are
\* answered, and ever after.
THEOREM AnswersAlwaysStayTrue == ISpec => []AnswersStayTrue
<1>1. InsInv => AnswersStayTrue
  <2> SUFFICES ASSUME InsInv, NEW c \in Clients, outcome[c] = "result"
               PROVE  LET code == R!Primary(Observation(seen[c]))
                      IN  /\ code = "CONVERGED" =>
                               \A n \in DOMAIN listed[c] : job[JobOf(listed[c][n])] = "COMPLETE"
                          /\ code = "IDENTITY_CONFLICT" =>
                               \E n \in DOMAIN listed[c] : job[JobOf(listed[c][n])] = "FOREIGN"
                          /\ code = "INTEGRITY_FAILURE" => spent["fault"] > 0
    BY DEF AnswersStayTrue
  <2> USE DEF InsInv, CInv, ClientsTyped
  <2>1. R!Primary(Observation(seen[c])) = CodeOf(seen[c])
    BY Classified
  <2>2. Answered(c) /\ listed[c] \in Seq(Inputs) /\ states[c] \in Seq(States)
    BY DEF Truthful
  <2>3. CASE seen[c] = Counted(c) /\ Len(states[c]) = Len(listed[c])
    <3>1. /\ Counted(c).conflict = 0 /\ Counted(c).integrity = "PASS"
          /\ Counted(c).missing = Cardinality(At(states[c], "MISSING"))
          /\ Counted(c).prepared = Cardinality(At(states[c], "PREPARED"))
      BY <2>2, CountedInspection
    <3>2. /\ Cardinality(At(states[c], "MISSING")) \in Nat
          /\ Cardinality(At(states[c], "PREPARED")) \in Nat
      BY <2>2, AtFinite
    <3>3. CodeOf(Counted(c)) = "CONVERGED" =>
            At(states[c], "MISSING") = {} /\ At(states[c], "PREPARED") = {}
      <4>1. CodeOf(Counted(c)) = "CONVERGED" =>
              Counted(c).missing = 0 /\ Counted(c).prepared = 0
        BY <3>1, <3>2 DEF CodeOf
      <4> QED BY <2>2, <3>1, <4>1, AtFinite
    <3>4. CodeOf(Counted(c)) \notin {"IDENTITY_CONFLICT", "INTEGRITY_FAILURE"}
      BY <3>1, <3>2 DEF CodeOf
    <3>5. ASSUME CodeOf(Counted(c)) = "CONVERGED", NEW n \in DOMAIN listed[c]
          PROVE  job[JobOf(listed[c][n])] = "COMPLETE"
      <4>1. n \in DOMAIN states[c] /\ states[c][n] \in States
        BY <2>2, <2>3, <3>5
      <4>2. states[c][n] = "COMPLETE"
        BY <3>3, <3>5, <4>1 DEF At, States, JobStates
      <4>3. Reached(JobOf(listed[c][n]), "COMPLETE")
        BY <4>1, <4>2 DEF Truthful
      <4>4. JobOf(listed[c][n]) \in Jobs
        BY <2>2, <3>5, JobOfInput
      <4> QED BY <4>3, <4>4, ReachedComplete DEF IInv
    <3> QED BY <2>1, <2>3, <3>4, <3>5
  <2>4. CASE seen[c] = Conflict /\ \E n \in DOMAIN listed[c] : job[JobOf(listed[c][n])] = "FOREIGN"
    <3>1. CodeOf(Conflict) = "IDENTITY_CONFLICT"
      BY OtherInspections DEF CodeOf
    <3> QED BY <2>1, <2>4, <3>1
  <2>5. CASE seen[c] = Failure /\ spent["fault"] > 0
    <3>1. CodeOf(Failure) = "INTEGRITY_FAILURE"
      BY OtherInspections DEF CodeOf
    <3> QED BY <2>1, <2>5, <3>1
  <2> QED BY <2>2, <2>3, <2>4, <2>5 DEF Answered
<1> QED BY <1>1, InspectionsInductive, PTL

\* The clients a tool let in.
Users(t) == {c \in Clients : ToolOf[c] = t /\ Admitted(c)}

\* None before it is consumed, and one for ever after.
OneUser == \A t \in Tools : IF consumed[t] THEN \E c \in Clients : Users(t) = {c} ELSE Users(t) = {}

\* A client is let in by a claim only.
LEMMA OnlyClaimsAdmit ==
  ASSUME ClientsTyped, [INext]_insvars, ~ \E c \in Clients : Claim(c)
  PROVE  UNCHANGED consumed /\ \A d \in Clients : Admitted(d)' = Admitted(d)
<1> USE DEF ClientsTyped, Stages, Outcomes
<1>1. CASE UNCHANGED ivars
  BY <1>1 DEF ivars, Admitted
<1>2. ASSUME NEW c \in Clients, NEW i, Answer(c, i), stage[c] \in {"select", "states"}
      PROVE  \A d \in Clients : Admitted(d)' = Admitted(d)
  <2>1. outcome'[c] \in {"result", "raised"} /\ \A d \in Clients \ {c} :
          outcome'[d] = outcome[d] /\ stage'[d] = stage[d]
    BY <1>2 DEF Answer
  <2> QED BY <1>2, <2>1 DEF Admitted
<1>3. ASSUME NEW c \in Clients, Inspecting(c) \/ Forbid(c) \/ Unreadable(c), ~Claim(c)
      PROVE  UNCHANGED consumed /\ \A d \in Clients : Admitted(d)' = Admitted(d)
  <2>1. CASE Forbid(c) \/ TestCompleted(c) \/ SetCompleted(c) \/ ReadVersion(c) \/ ListCandidates(c)
    BY <2>1 DEF Forbid, TestCompleted, SetCompleted, ReadVersion, ListCandidates, End, Move,
                Admitted
  <2>2. CASE ReadJob(c) \/ Count(c) \/ Unreadable(c)
    <3>1. UNCHANGED consumed
      BY <2>2 DEF ReadJob, Count, Unreadable
    <3>2. CASE Move(c, "states") /\ stage[c] = "states"
      BY <3>1, <3>2 DEF Move, Admitted
    <3>3. CASE End(c, "error") /\ stage[c] \in {"version", "select"}
      <4>1. /\ Admitted(c) /\ Admitted(c)'
            /\ \A d \in Clients \ {c} : stage'[d] = stage[d] /\ outcome'[d] = outcome[d]
        BY <3>3 DEF End, Admitted
      <4> QED BY <3>1, <4>1 DEF Admitted
    <3>4. CASE \E i : Answer(c, i) /\ stage[c] \in {"select", "states"}
      BY <1>2, <3>1, <3>4
    <3>5. \/ Move(c, "states") /\ stage[c] = "states"
          \/ End(c, "error") /\ stage[c] \in {"version", "select"}
          \/ \E i : Answer(c, i) /\ stage[c] \in {"select", "states"}
      <4>1. CASE ReadJob(c)
        BY <4>1 DEF ReadJob
      <4>2. CASE Count(c)
        BY <4>2 DEF Count
      <4>3. CASE Unreadable(c)
        BY <4>3 DEF Unreadable
      <4> QED BY <2>2, <4>1, <4>2, <4>3
    <3> QED BY <3>2, <3>3, <3>4, <3>5
  <2> QED BY <1>3, <2>1, <2>2 DEF Inspecting
<1>4. CASE Upgrade
  BY <1>4 DEF Upgrade, Admitted
<1> QED BY <1>1, <1>3, <1>4 DEF INext, insvars, Inspecting

\* A claim lets one client in, and consumes its tool with it.
LEMMA ClaimAdmitsOne ==
  ASSUME ClientsTyped, OneUser, NEW c \in Clients, Claim(c)
  PROVE  OneUser'
<1> USE DEF ClientsTyped, Stages, Outcomes
<1>1. stage[c] = "asking" /\ ~Admitted(c)
      /\ \A d \in Clients \ {c} : stage'[d] = stage[d] /\ outcome'[d] = outcome[d]
  BY DEF Claim, Admitted, Move, End
<1>2. CASE UNCHANGED consumed /\ (~Admitted(c)' \/ ToolOf[c] \notin Tools)
  <2>1. \A t \in Tools : Users(t)' = Users(t)
    BY <1>1, <1>2 DEF Users, Admitted
  <2> QED BY <1>2, <2>1 DEF OneUser
<1>3. CASE /\ ToolOf[c] \in Tools /\ ~consumed[ToolOf[c]] /\ Admitted(c)'
           /\ consumed' = [consumed EXCEPT ![ToolOf[c]] = TRUE]
  <2>1. Users(ToolOf[c])' = {c}
    BY <1>1, <1>3 DEF OneUser, Users, Admitted
  <2>2. \A t \in Tools \ {ToolOf[c]} : Users(t)' = Users(t) /\ consumed'[t] = consumed[t]
    BY <1>1, <1>3 DEF Users, Admitted
  <2> QED BY <1>3, <2>1, <2>2 DEF OneUser
<1> QED BY <1>1, <1>2, <1>3, ClientsAssumption DEF Claim, Move, End, Admitted

\* However clients race for a tool, it admits one of them.
THEOREM OneCallPerToolHolds == ISpec => []OneCallPerTool
<1>1. IInit => OneUser
  BY DEF IInit, OneUser, Users, Admitted
<1>2. InsInv /\ OneUser /\ [INext]_insvars => OneUser'
  <2> SUFFICES ASSUME InsInv, OneUser, [INext]_insvars PROVE OneUser'
    OBVIOUS
  <2>1. ClientsTyped
    BY DEF InsInv, CInv
  <2>2. CASE \E c \in Clients : Claim(c)
    BY <2>1, <2>2, ClaimAdmitsOne
  <2>3. CASE ~ \E c \in Clients : Claim(c)
    <3>1. UNCHANGED consumed /\ \A t \in Tools : Users(t)' = Users(t)
      BY <2>1, <2>3, OnlyClaimsAdmit DEF Users
    <3> QED BY <3>1 DEF OneUser
  <2> QED BY <2>2, <2>3
<1>3. OneUser => OneCallPerTool
  <2> SUFFICES ASSUME OneUser, NEW t \in Tools
               PROVE  Cardinality(Users(t)) = IF consumed[t] THEN 1 ELSE 0
    BY DEF OneCallPerTool, Users
  <2>1. CASE consumed[t]
    <3>1. PICK c \in Clients : Users(t) = {c}
      BY <2>1 DEF OneUser
    <3>2. Cardinality({c}) = 1
      BY FS_Singleton
    <3> QED BY <2>1, <3>1, <3>2
  <2>2. CASE ~consumed[t]
    <3>1. Users(t) = {}
      BY <2>2 DEF OneUser
    <3> QED BY <2>2, <3>1, FS_EmptySet
  <2> QED BY <2>1, <2>2
<1> QED BY <1>1, <1>2, <1>3, InspectionsInductive, PTL DEF ISpec

--------------------------------------------------------------------------------
(***************************************************************************)
(* The call beside inspections                                             *)
(***************************************************************************)

\* Whatever clients ask for, what the calls see is a step of theirs or nothing.
LEMMA InspectionsLeaveCalls ==
  ASSUME InsInv, [INext]_insvars
  PROVE  [Next]_vars \/ Still
<1>1. CASE [WNext]_allvars
  BY <1>1, WorkersCall DEF InsInv
<1>2. ASSUME NEW c \in Clients, Inspecting(c) \/ Forbid(c) PROVE UNCHANGED allvars
  BY <1>2 DEF Inspecting, Forbid, Claim, TestCompleted, SetCompleted, ReadVersion,
     ListCandidates, ReadJob, Count
<1>3. ASSUME NEW c \in Clients, Unreadable(c) PROVE Still
  BY <1>3, FaultIsStill DEF Unreadable, InsInv, IInv
<1>4. CASE Upgrade
  BY <1>4 DEF Upgrade, allvars
<1> QED BY <1>1, <1>2, <1>3, <1>4 DEF INext, insvars, allvars

\* Inspections, migrations and workers together leave every state of the calls one
\* that process_artifact promises.
THEOREM InspectionsKeepCallsSafe == ISpec => []CallSafety
<1>1. InsInv => CallSafety
  BY CallsAreSafe DEF InsInv
<1> QED BY <1>1, InspectionsInductive, PTL

\* The pilot is read-only in what it does and not only in what it says: with any
\* number of clients beside the workers the system is still the evidence ledger.
THEOREM InspectionsImplementLedger == ISpec => ImplementsLedger
<1>1. IInit => Ledger!Init
  BY RefinesInit DEF IInit, WInit
<1>2. InsInv /\ [INext]_insvars => [Ledger!Next]_(Ledger!vars)
  BY InspectionsLeaveCalls, PromisesKept DEF InsInv
<1> QED BY <1>1, <1>2, InspectionsInductive, PTL DEF ISpec, ImplementsLedger, Ledger!Spec

\* And no client makes a job move, a file vanish or a call write without the lock.
THEOREM InspectionsStepLikeCalls == ISpec => UnambiguousProgress /\ NoReplace /\ HolderWrites
<1>1. InsInv /\ [INext]_insvars => JobStep /\ NoReplaceStep /\ HolderStep
  BY InspectionsLeaveCalls, PromisesKept DEF InsInv
<1> QED
  BY <1>1, InspectionsInductive, PTL DEF ISpec, UnambiguousProgress, NoReplace, HolderWrites

================================================================================
