----------------------------- MODULE EvidenceLedger -----------------------------
(***************************************************************************)
(* What the processor promises its readers, without processes, locks,      *)
(* partial files or interruptions: a job is checkpointed, its report and   *)
(* manifest become visible together, and only then does the ledger say     *)
(* COMPLETE, once and for ever (module docstring of process.py and the     *)
(* state diagram of docs/portfolio-overview.md, as process_artifact        *)
(* implements them).                                                       *)
(***************************************************************************)
CONSTANT Jobs

VARIABLES
  status,     \* MISSING, PREPARED or COMPLETE; FOREIGN for a contradicting row
  authority,  \* jobs with a derived artifact and its lineage in the ledger
  published,  \* jobs whose exact report and manifest are both in the spool
  doubtful    \* jobs whose files changed from outside since last verified

vars == <<status, authority, published, doubtful>>

Init ==
  /\ status \in [Jobs -> {"MISSING", "FOREIGN"}]
  /\ authority = {}
  /\ published = {}
  /\ doubtful = {}

Prepare(j) ==
  /\ status[j] = "MISSING"
  /\ status' = [status EXCEPT ![j] = "PREPARED"]
  /\ UNCHANGED <<authority, published, doubtful>>

Publish(j) ==
  /\ status[j] = "PREPARED"
  /\ published' = published \cup {j}
  /\ UNCHANGED <<status, authority, doubtful>>

Verify(j) ==
  /\ j \in published
  /\ status[j] \in {"PREPARED", "COMPLETE"}
  /\ doubtful' = doubtful \ {j}
  /\ UNCHANGED <<status, authority, published>>

Complete(j) ==
  /\ status[j] = "PREPARED"
  /\ j \in published \cup doubtful
  /\ status' = [status EXCEPT ![j] = "COMPLETE"]
  /\ authority' = authority \cup {j}
  /\ UNCHANGED <<published, doubtful>>

\* The file system is not the processor's alone.
Disturb(j) ==
  /\ doubtful' = doubtful \cup {j}
  /\ published' \in {published, published \cup {j}, published \ {j}}
  /\ UNCHANGED <<status, authority>>

Next ==
  \E j \in Jobs : Prepare(j) \/ Publish(j) \/ Verify(j) \/ Complete(j) \/ Disturb(j)

Spec == Init /\ [][Next]_vars

\* A reader who finds authority finds the files under it, or a file somebody
\* else touched: the ledger never runs ahead of the spool.
SpoolBacksLedger ==
  /\ authority = {j \in Jobs : status[j] = "COMPLETE"}
  /\ authority \subseteq published \cup doubtful

================================================================================
