--------------------------------- MODULE Worker ---------------------------------
(***************************************************************************)
(* run (processor/worker.py): take one read-only snapshot of the eligible  *)
(* inputs, then call process_artifact for each of them in order, stop at   *)
(* the first busy lock or error, and print a summary.  Every process of    *)
(* ProcessArtifact is one worker here; its calls are the steps of that     *)
(* module.                                                                 *)
(***************************************************************************)
EXTENDS ProcessArtifact, Sequences

CONSTANT Listed   \* a set of inputs as ORDER BY a.artifact_id lists it

ASSUME ListedAssumption ==
  /\ Profiles = {"integrity"}
  /\ Listed \in [SUBSET Inputs -> Seq(Inputs)]
  /\ \A some \in SUBSET Inputs :
       /\ {Listed[some][n] : n \in DOMAIN Listed[some]} = some
       /\ \A m, n \in DOMAIN Listed[some] : Listed[some][m] = Listed[some][n] => m = n

JobOf(i) == <<i, "integrity">>

Phases   == {"idle", "running", "calling"}
Statuses == {"none", "pass", "deferred", "error"}
Counters == {"already_complete", "prepared_resumed", "newly_completed"}

VARIABLES
  phase,    \* where each worker is in run
  batch,    \* the snapshot: its inputs, in order
  prior,    \* the job states read for them, as far as they are read
  count,    \* the counters of the summary
  status    \* outcome of the last finished run

wvars == <<phase, batch, prior, count, status>>
allvars == <<vars, wvars>>

WTypeOK ==
  /\ TypeOK
  /\ phase \in [Procs -> Phases]
  /\ batch \in [Procs -> Seq(Inputs)]
  /\ prior \in [Procs -> Seq(JobStates \ {"FOREIGN"})]
  /\ count \in [Procs -> [Counters -> Nat]]
  /\ status \in [Procs -> Statuses]

NoCounts == [c \in Counters |-> 0]

WInit ==
  /\ Init
  /\ phase = [w \in Procs |-> "idle"]
  /\ batch = [w \in Procs |-> <<>>]
  /\ prior = [w \in Procs |-> <<>>]
  /\ count = [w \in Procs |-> NoCounts]
  /\ status = [w \in Procs |-> "none"]

--------------------------------------------------------------------------------
Completed(w) == count[w]["already_complete"] + count[w]["prepared_resumed"]
                  + count[w]["newly_completed"]

CounterOf(state) ==
  [COMPLETE |-> "already_complete",
   PREPARED |-> "prepared_resumed",
   MISSING  |-> "newly_completed"][state]

\* Return from run with a status, or leave it by an exception or a signal.
Finish(w, outcome) ==
  /\ phase' = [phase EXCEPT ![w] = "idle"]
  /\ status' = [status EXCEPT ![w] = outcome]

\* The first query of snapshot: artifacts with exactly one assertion, sorted.
\* The queries run in autocommit mode without the spool lock, so each of them
\* sees the database of its own moment.
Select(w) ==
  /\ phase[w] = "idle"
  /\ phase' = [phase EXCEPT ![w] = "running"]
  /\ batch' = [batch EXCEPT ![w] = Listed[{i \in Inputs : asserted[i] = 1}]]
  /\ prior' = [prior EXCEPT ![w] = <<>>]
  /\ count' = [count EXCEPT ![w] = NoCounts]
  /\ status' = [status EXCEPT ![w] = "none"]
  /\ UNCHANGED vars

\* _job_state of the next candidate; a contradicted identity ends the run.
ReadState(w) ==
  LET state == job[JobOf(batch[w][Len(prior[w]) + 1])]
  IN  /\ phase[w] = "running"
      /\ Len(prior[w]) < Len(batch[w])
      /\ \/ /\ state = "FOREIGN"
            /\ Finish(w, "error")
            /\ UNCHANGED <<batch, prior, count>>
         \/ /\ state # "FOREIGN"
            /\ prior' = [prior EXCEPT ![w] = Append(@, state)]
            /\ UNCHANGED <<phase, batch, count, status>>
      /\ UNCHANGED vars

\* A failed query, or a database or spool that is not there.
SnapshotFails(w) ==
  /\ phase[w] = "running"
  /\ Spend("fault")
  /\ Finish(w, "error")
  /\ UNCHANGED <<db, spool, locks, local, altered, batch, prior, count>>

\* The snapshot is complete and no call is running.
Ready(w) == phase[w] = "running" /\ Len(prior[w]) = Len(batch[w])

\* _process_candidate: the next candidate is the one after those counted.
Call(w) ==
  /\ Ready(w)
  /\ Completed(w) < Len(batch[w])
  /\ Begin(w, JobOf(batch[w][Completed(w) + 1]))
  /\ phase' = [phase EXCEPT ![w] = "calling"]
  /\ UNCHANGED <<batch, prior, count, status>>

Tally(w) ==
  count' = [count EXCEPT ![w][CounterOf(prior[w][Completed(w) + 1])] = @ + 1]

\* Mutants: a busy lock or an error does not stop the batch; an error is retried.
CollectIgnoring(w, outcomes) ==
  /\ phase[w] = "calling"
  /\ pc[w] = "idle"
  /\ result[w] \in outcomes \cup {"created", "existing"}
  /\ Tally(w)
  /\ phase' = [phase EXCEPT ![w] = "running"]
  /\ UNCHANGED <<vars, batch, prior, status>>
CollectIgnoresBusy(w) == CollectIgnoring(w, {"busy"})
CollectIgnoresErrors(w) == CollectIgnoring(w, Errors)
CollectRetries(w) ==
  /\ phase[w] = "calling"
  /\ pc[w] = "idle"
  /\ \/ result[w] \in {"created", "existing"} /\ Tally(w)
     \/ result[w] \in Errors \cup {"busy"} /\ UNCHANGED count
  /\ phase' = [phase EXCEPT ![w] = "running"]
  /\ UNCHANGED <<vars, batch, prior, status>>

\* The call came back: a busy lock defers the rest of the batch, an error ends
\* the run, any disposition counts under the state the snapshot saw.
Collect(w) ==
  /\ phase[w] = "calling"
  /\ pc[w] = "idle"
  /\ \/ /\ result[w] = "busy"
        /\ Finish(w, "deferred")
        /\ UNCHANGED count
     \/ /\ result[w] \in Errors
        /\ Finish(w, "error")
        /\ UNCHANGED count
     \/ /\ result[w] \in {"created", "existing"}
        /\ Tally(w)
        /\ phase' = [phase EXCEPT ![w] = "running"]
        /\ UNCHANGED status
  /\ UNCHANGED <<vars, batch, prior>>

\* remaining = len(candidates) - completed is zero.
Summarize(w) ==
  /\ Ready(w)
  /\ Completed(w) = Len(batch[w])
  /\ Finish(w, "pass")
  /\ UNCHANGED <<vars, batch, prior, count>>

\* The process running the worker is killed, inside a call or between calls.
Die(w) ==
  /\ phase[w] # "idle"
  /\ \/ Crash(w)
     \/ pc[w] = "idle" /\ Spend("fault")
        /\ UNCHANGED <<db, spool, locks, local, altered>>
  /\ Finish(w, "none")
  /\ UNCHANGED <<batch, prior, count>>

--------------------------------------------------------------------------------
InCall(w) == Proceed(w) /\ UNCHANGED wvars

Advance(w) ==
  InCall(w) \/ ReadState(w) \/ Call(w) \/ Collect(w) \/ Summarize(w)

WNext ==
  \/ \E w \in Procs : Select(w) \/ Advance(w) \/ SnapshotFails(w) \/ Die(w)
  \/ \E w \in Procs : Fail(w) /\ UNCHANGED wvars
  \/ Environment /\ UNCHANGED wvars

WSpec == WInit /\ [][WNext]_allvars

\* A started run is executed, external holders of the lock end.
RunFairness ==
  /\ \A w \in Procs : WF_allvars(Advance(w))
  /\ \A o \in Others : WF_allvars(Exit(o) /\ UNCHANGED wvars)

\* The operator, who owns retries, keeps starting runs.
Reruns        == \A w \in Procs : WF_allvars(Select(w))
RerunFairness == RunFairness /\ Reruns

--------------------------------------------------------------------------------
(***************************************************************************)
(* Properties                                                              *)
(***************************************************************************)

\* "pass" speaks about the database as it is now, although prior states and
\* candidates were read without a lock: every candidate of the run is COMPLETE,
\* also when another worker finished it or a later assertion made it ambiguous.
PassIsComplete ==
  \A w \in Procs : status[w] = "pass" =>
    \A n \in DOMAIN batch[w] : job[JobOf(batch[w][n])] = "COMPLETE"

\* A run that stops early stops for the candidate it names: all candidates it
\* counted are COMPLETE, and they are exactly the front of the batch.
CountedIsComplete ==
  \A w \in Procs : \A n \in 1..Completed(w) :
    /\ n \in DOMAIN batch[w]
    /\ job[JobOf(batch[w][n])] = "COMPLETE"

\* A candidate counted as already complete was complete before the run touched
\* anything, so it is never one this run created.
AlreadyMeansBefore ==
  \A w \in Procs : phase[w] = "calling" /\ result[w] = "created" =>
    prior[w][Completed(w) + 1] # "COMPLETE"

\* A started run ends with a summary or an error, or is killed: it never waits
\* for ever for the lock or for another worker.
RunsEnd == \A w \in Procs : phase[w] # "idle" ~> phase[w] = "idle"

\* Retries converge.  Once damage, contradicting rows and ambiguity are out of
\* the picture and the operator keeps starting runs, an eligible input ends
\* COMPLETE whatever was interrupted and whoever held the lock.
Converges ==
  Reruns => \A i \in Inputs : asserted[i] = 1 ~> job[JobOf(i)] = "COMPLETE" \/ asserted[i] > 1

\* "A committed PREPARED job is a resumable checkpoint" (portfolio-overview.md).
PreparedIsResumed ==
  \A i \in Inputs : job[JobOf(i)] = "PREPARED" ~> job[JobOf(i)] = "COMPLETE"

================================================================================
