------------------------------ MODULE ExactWorker ------------------------------
(***************************************************************************)
(* run_exact (processor/worker.py): process exactly the entries of an      *)
(* approved manifest, after reading every one of them again and finding    *)
(* what was approved.  Workers run either command; nothing is locked       *)
(* between the reconstruction and the calls.                               *)
(***************************************************************************)
EXTENDS Worker, FiniteSets

CONSTANT NoManifest   \* approved[w] in a plain run

ASSUME NoManifestAssumption == NoManifest \notin Seq([input : Inputs, state : JobStates])

Entries == [input : Inputs, state : JobStates \ {"FOREIGN"}]

VARIABLE approved   \* the manifest of each worker's last run

xvars == <<allvars, approved>>

\* A well-formed manifest: entries sorted by artifact id, each input at most once.
\* What it says of an input need not be true, or not be true any more.
Manifest(some, said) ==
  [n \in DOMAIN Listed[some] |->
     [input |-> Listed[some][n], state |-> said[Listed[some][n]]]]

\* approved[w] becomes any well-formed manifest.
Submit(w) ==
  \E some \in SUBSET Inputs : \E said \in [some -> JobStates \ {"FOREIGN"}] :
    approved' = [approved EXCEPT ![w] = Manifest(some, said)]

XTypeOK ==
  /\ WTypeOK
  /\ approved \in [Procs -> {NoManifest} \cup Seq(Entries)]
  /\ \A w \in Procs : approved[w] # NoManifest =>
       /\ Len(batch[w]) <= Len(approved[w])
       /\ \A n \in DOMAIN batch[w] : batch[w][n] = approved[w][n].input

XInit == WInit /\ approved = [w \in Procs |-> NoManifest]

--------------------------------------------------------------------------------
Exact(w) == approved[w] # NoManifest

\* run
SelectAll(w) == Select(w) /\ approved' = [approved EXCEPT ![w] = NoManifest]

\* Mutant: candidates of the previous run are kept.
SelectExactKeepsBatch(w) ==
  /\ phase[w] = "idle"
  /\ phase' = [phase EXCEPT ![w] = "running"]
  /\ Submit(w)
  /\ prior' = [prior EXCEPT ![w] = <<>>]
  /\ count' = [count EXCEPT ![w] = NoCounts]
  /\ status' = [status EXCEPT ![w] = "none"]
  /\ UNCHANGED <<vars, batch>>

\* run_exact, with context and form of the manifest in order: another manifest is
\* refused before anything is read.
SelectExact(w) ==
  /\ phase[w] = "idle"
  /\ phase' = [phase EXCEPT ![w] = "running"]
  /\ Submit(w)
  /\ batch' = [batch EXCEPT ![w] = <<>>]
  /\ prior' = [prior EXCEPT ![w] = <<>>]
  /\ count' = [count EXCEPT ![w] = NoCounts]
  /\ status' = [status EXCEPT ![w] = "none"]
  /\ UNCHANGED vars

\* The row of the next entry, if it has exactly one assertion.  Its job state is
\* a query of its own (ReadState).
CheckEntry(w) ==
  /\ Exact(w)
  /\ Ready(w)
  /\ Len(batch[w]) < Len(approved[w])
  /\ LET i == approved[w][Len(batch[w]) + 1].input
     IN  \/ /\ asserted[i] = 1
            /\ batch' = [batch EXCEPT ![w] = Append(@, i)]
            /\ UNCHANGED <<phase, status>>
         \/ /\ asserted[i] # 1
            /\ Finish(w, "error")
            /\ UNCHANGED batch
  /\ UNCHANGED <<vars, prior, count, approved>>

AllRead(w) == Ready(w) /\ Len(batch[w]) = Len(approved[w])

\* Mutant: each entry is compared when its turn comes.
MatchesSoFar(w) ==
  \A n \in DOMAIN prior[w] : n <= Completed(w) + 1 => prior[w][n] = approved[w][n].state

\* current_tuple = payloads: every state read is the approved one.
Matches(w) == \A n \in DOMAIN prior[w] : prior[w][n] = approved[w][n].state

Refuse(w) ==
  /\ Exact(w)
  /\ AllRead(w)
  /\ ~Matches(w)
  /\ Finish(w, "error")
  /\ UNCHANGED <<vars, batch, prior, count, approved>>

\* The candidates are complete; for run that is Ready.
Reconstructed(w) == Exact(w) => AllRead(w) /\ Matches(w)

--------------------------------------------------------------------------------
XAdvance(w) ==
  \/ CheckEntry(w) \/ Refuse(w)
  \/ /\ InCall(w) \/ ReadState(w) \/ Collect(w)
     /\ UNCHANGED approved
  \/ /\ Reconstructed(w)
     /\ Call(w) \/ Summarize(w)
     /\ UNCHANGED approved

XNext ==
  \/ \E w \in Procs : SelectAll(w) \/ SelectExact(w) \/ XAdvance(w)
  \/ /\ \E w \in Procs : SnapshotFails(w) \/ Die(w) \/ (Fail(w) /\ UNCHANGED wvars)
     /\ UNCHANGED approved
  \/ Environment /\ UNCHANGED <<wvars, approved>>

XSpec == XInit /\ [][XNext]_xvars

--------------------------------------------------------------------------------
(***************************************************************************)
(* Properties                                                              *)
(***************************************************************************)

Rank(state) == [MISSING |-> 0, PREPARED |-> 1, COMPLETE |-> 2][state]

\* Job j is at least as far as the state that was read or approved.
Reached(j, state) == job[j] # "FOREIGN" /\ Rank(job[j]) >= Rank(state)

\* The step changes what the ledger or the spool holds for a job, while w is the
\* call in the spool, and nothing outside intervenes.
Works(w, j) ==
  LET held == <<job[j], row[j], final[j], partial[j], quarantine[j]>>
  IN  Critical(w) /\ held' # held /\ spent' = spent

\* "validates one approved item set" before any mutation: an exact run that
\* writes for one entry works on an entry that was not approved as COMPLETE, and
\* every entry of its manifest, also those far behind, has reached the state it
\* was approved with.  No work is done under a manifest that was never true.
ApprovedWork ==
  [][\A w \in Procs : Exact(w) => \A j \in Jobs : Works(w, j) =>
       /\ \E n \in DOMAIN approved[w] :
            JobOf(approved[w][n].input) = j /\ approved[w][n].state # "COMPLETE"
       /\ \A n \in DOMAIN approved[w] :
            Reached(JobOf(approved[w][n].input), approved[w][n].state)]_xvars

\* A pass of run_exact reports the manifest: all its entries are COMPLETE now, and
\* its three counters are the numbers of entries approved in each state, however
\* other workers moved them meanwhile.
PassIsAsApproved ==
  \A w \in Procs : Exact(w) /\ status[w] = "pass" =>
    /\ \A n \in DOMAIN approved[w] : job[JobOf(approved[w][n].input)] = "COMPLETE"
    /\ \A state \in JobStates \ {"FOREIGN"} :
         count[w][CounterOf(state)] =
           Cardinality({n \in DOMAIN approved[w] : approved[w][n].state = state})

================================================================================
