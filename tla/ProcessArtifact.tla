---------------------------- MODULE ProcessArtifact ----------------------------
(***************************************************************************)
(* process_artifact (processor/pipeline/process.py): turn one raw artifact *)
(* into one derived report, one derived manifest, one lineage row and one  *)
(* COMPLETE job.  Several operating-system processes run it at the same    *)
(* time against one SQLite database and one spool directory; each of them  *)
(* may be killed or fail at any step and be started again.                 *)
(*                                                                         *)
(* One action is one durable or externally visible effect: a lock          *)
(* operation, a committed transaction, a file created, half written, linked*)
(* or unlinked, or a group of reads the next decision depends on.          *)
(***************************************************************************)
EXTENDS Naturals

CONSTANTS
  Inputs,    \* raw_media artifacts registered in the ledger
  Profiles,  \* processing profiles; a job is one input under one profile
  Procs,     \* operating-system processes running process_artifact
  Others,    \* external commands that share the spool lock
  NoJob,     \* value of cur[p] before the first call of process p
  Limit      \* bounds on "fault", "alter" and "visit" events, see Spend

Events == {"fault", "alter", "visit"}

ASSUME ConstantsAssumption ==
  /\ Procs \cap Others = {}
  /\ NoJob \notin Inputs \X Profiles
  /\ Limit \in [Events -> Nat]

Jobs  == Inputs \X Profiles
Kinds == {"report", "manifest"}

JobStates     == {"MISSING", "PREPARED", "COMPLETE", "FOREIGN"}
FinalBytes    == {"absent", "exact", "wrong"}
PartialBytes  == {"absent", "empty", "half", "full"}
Errors        == {"conflict", "filesystem", "evidence", "database"}
Results       == {"none", "created", "existing", "busy"} \cup Errors

\* Steps of the call after the spool lock is held, before and after the
\* PREPARED row is known to exist.
GateSteps  == {"gate", "eligible", "prepare"}
FileSteps  == {"inspect", "stage", "quarantine", "withdraw", "open", "write",
               "publish", "unlink"}
Steps      == {"idle", "lock", "adopt", "verify", "commit", "confirm"}
                 \cup GateSteps \cup FileSteps

VARIABLES
  \* SQLite, committed state
  job,        \* processing_jobs; MISSING is no row, FOREIGN a row that
              \* contradicts the job id or the identity tuple of this job
  row,        \* derived artifact with its lineage: none, exact or another's
  asserted,   \* capture_occurrence_assertions per input: 0, 1 or 2 (many)
  \* the spool
  evidence,   \* does the raw media pass the evidence gate
  final,      \* content-addressed report and manifest of each job
  partial,    \* partial/processing/<job>/{output,manifest}.json.partial
  quarantine, \* quarantine/processing/<job>/<hash>.<kind>.json.partial
  exclusive,  \* holders of LOCK_EX on .edge-agent.lock
  shared,     \* holders of LOCK_SH
  \* the processes
  pc, cur, kind, adopted, result,
  \* history and bounds
  altered,    \* jobs whose finals changed from outside since last verified
  spent       \* environment events so far

db    == <<job, row, asserted>>
files == <<final, partial, quarantine>>
spool == <<evidence, files>>
locks == <<exclusive, shared>>
local == <<pc, cur, kind, adopted, result>>
vars  == <<db, spool, locks, local, altered, spent>>

TypeOK ==
  /\ job \in [Jobs -> JobStates]
  /\ row \in [Jobs -> {"none", "exact", "other"}]
  /\ asserted \in [Inputs -> 0..2]
  /\ evidence \in [Inputs -> BOOLEAN]
  /\ final \in [Jobs -> [Kinds -> FinalBytes]]
  /\ partial \in [Jobs -> [Kinds -> PartialBytes]]
  /\ quarantine \in [Jobs -> SUBSET (Kinds \X PartialBytes)]
  /\ exclusive \subseteq Procs \cup Others
  /\ shared \subseteq Others
  /\ pc \in [Procs -> Steps]
  /\ cur \in [Procs -> Jobs \cup {NoJob}]
  /\ kind \in [Procs -> Kinds]
  /\ adopted \in [Procs -> BOOLEAN]
  /\ result \in [Procs -> Results]
  /\ altered \subseteq Jobs
  /\ spent \in [Events -> Nat]

\* A migrated ledger and a spool without derived output.  Rows that contradict
\* a deterministic identity, inputs without or with several assertions and
\* damaged raw media are there from the start.
Init ==
  /\ job \in [Jobs -> {"MISSING", "FOREIGN"}]
  /\ row \in [Jobs -> {"none", "other"}]
  /\ asserted \in [Inputs -> 0..2]
  /\ evidence \in [Inputs -> BOOLEAN]
  /\ final = [j \in Jobs |-> [k \in Kinds |-> "absent"]]
  /\ partial = [j \in Jobs |-> [k \in Kinds |-> "absent"]]
  /\ quarantine = [j \in Jobs |-> {}]
  /\ exclusive = {}
  /\ shared = {}
  /\ pc = [p \in Procs |-> "idle"]
  /\ cur = [p \in Procs |-> NoJob]
  /\ kind = [p \in Procs |-> "report"]
  /\ adopted = [p \in Procs |-> FALSE]
  /\ result = [p \in Procs |-> "none"]
  /\ altered = {}
  /\ spent = [e \in Events |-> 0]

--------------------------------------------------------------------------------
Spend(e) ==
  /\ spent[e] < Limit[e]
  /\ spent' = [spent EXCEPT ![e] = @ + 1]

Goto(p, step) ==
  /\ pc' = [pc EXCEPT ![p] = step]
  /\ UNCHANGED <<cur, kind, adopted, result>>

\* Leaving the call, by return or by exception: spool_lock's finally clause
\* releases the lock and closes it, the connection is closed, the locals die.
Leave(p, r) ==
  /\ pc' = [pc EXCEPT ![p] = "idle"]
  /\ kind' = [kind EXCEPT ![p] = "report"]
  /\ adopted' = [adopted EXCEPT ![p] = FALSE]
  /\ result' = [result EXCEPT ![p] = r]
  /\ exclusive' = exclusive \ {p}
  /\ UNCHANGED <<cur, shared>>

Raise(p, error) ==
  /\ Leave(p, error)
  /\ UNCHANGED <<db, spool, altered, spent>>

Pair(j) == \A k \in Kinds : final[j][k] = "exact"
Authority(j) == Pair(j) /\ job[j] = "COMPLETE" /\ row[j] = "exact"

--------------------------------------------------------------------------------
\* The call and the spool lock

Begin(p, j) ==
  /\ pc[p] = "idle"
  /\ pc' = [pc EXCEPT ![p] = "lock"]
  /\ cur' = [cur EXCEPT ![p] = j]
  /\ result' = [result EXCEPT ![p] = "none"]
  /\ UNCHANGED <<kind, adopted, db, spool, locks, altered, spent>>

\* Mutant: shared holders are overlooked.
LockFreeIgnoringShared == exclusive = {}

LockFree == exclusive = {} /\ shared = {}

Acquire(p) ==
  /\ pc[p] = "lock"
  /\ LockFree
  /\ exclusive' = exclusive \cup {p}
  /\ Goto(p, "gate")
  /\ UNCHANGED <<shared, db, spool, altered, spent>>

\* Mutants: the deadline is ignored, or reaching it is taken for success.
LockWaitsForEver(p) == FALSE
LockTimeoutProceeds(p) ==
  /\ pc[p] = "lock"
  /\ ~LockFree
  /\ Goto(p, "gate")
  /\ UNCHANGED <<db, spool, locks, altered, spent>>

\* Every poll until the deadline found the lock taken.
LockTimeout(p) ==
  /\ pc[p] = "lock"
  /\ ~LockFree
  /\ Raise(p, "busy")

--------------------------------------------------------------------------------
\* Steps before the PREPARED row

\* Mutant: no fast path for a COMPLETE job.
GateWithoutFastPath(p) ==
  /\ pc[p] = "gate"
  /\ evidence[cur[p][1]]
  /\ Goto(p, "eligible")
  /\ UNCHANGED <<db, spool, locks, altered, spent>>

\* _require_v4, evidence_gate, plan_derivation and the read of the job.  Of a row
\* that is COMPLETE under this job id, _verify_authority compares the state and the
\* output, not the identity columns: a contradicting row is FOREIGN here when the
\* comparison refuses it.
Gate(p) ==
  /\ pc[p] = "gate"
  /\ \/ /\ ~evidence[cur[p][1]] \/ job[cur[p]] = "FOREIGN"
        /\ Raise(p, "evidence")
     \/ /\ evidence[cur[p][1]]
        /\ Goto(p, IF job[cur[p]] = "COMPLETE" THEN "adopt" ELSE "eligible")
        /\ UNCHANGED <<db, spool, locks, altered, spent>>

\* Mutants: several assertions are as good as one; files before the PREPARED row.
EligibleWhenAmbiguous(p) ==
  /\ pc[p] = "eligible"
  /\ asserted[cur[p][1]] # 0
  /\ Goto(p, "prepare")
  /\ UNCHANGED <<db, spool, locks, altered, spent>>
EligibleSkipsPrepare(p) ==
  /\ pc[p] = "eligible"
  /\ asserted[cur[p][1]] = 1
  /\ Goto(p, "inspect")
  /\ UNCHANGED <<db, spool, locks, altered, spent>>

\* _require_unambiguous_input_assertion and the read-only path audit.
Eligible(p) ==
  /\ pc[p] = "eligible"
  /\ \/ /\ asserted[cur[p][1]] = 0
        /\ Raise(p, "evidence")
     \/ /\ asserted[cur[p][1]] > 1
        /\ Raise(p, "conflict")
     \/ /\ asserted[cur[p][1]] = 1
        /\ Goto(p, "prepare")
        /\ UNCHANGED <<db, spool, locks, altered, spent>>

\* _create_or_adopt_prepared, a transaction of its own.
Prepare(p) ==
  /\ pc[p] = "prepare"
  /\ \/ /\ job[cur[p]] = "FOREIGN"
        /\ Raise(p, "conflict")
     \/ /\ job[cur[p]] = "MISSING"
        /\ job' = [job EXCEPT ![cur[p]] = "PREPARED"]
        /\ Goto(p, "inspect")
        /\ UNCHANGED <<row, asserted, spool, locks, altered, spent>>
     \/ /\ job[cur[p]] \in {"PREPARED", "COMPLETE"}
        /\ Goto(p, "inspect")
        /\ UNCHANGED <<db, spool, locks, altered, spent>>

--------------------------------------------------------------------------------
\* _produce_and_publish: stage both partials, link the report, then the manifest

Inspect(p) ==
  LET there == final[cur[p]]
  IN  /\ pc[p] = "inspect"
      /\ \/ /\ \/ \E k \in Kinds : there[k] = "wrong"
               \/ there["manifest"] = "exact" /\ there["report"] = "absent"
            /\ Raise(p, "evidence")
         \/ /\ Pair(cur[p])
            /\ Goto(p, "verify")
            /\ UNCHANGED <<db, spool, locks, altered, spent>>
         \/ /\ there["manifest"] = "absent"
            /\ there["report"] # "wrong"
            /\ pc' = [pc EXCEPT ![p] = "stage"]
            /\ adopted' = [adopted EXCEPT ![p] = (there["report"] = "exact")]
            /\ kind' = [kind EXCEPT ![p] =
                          IF there["report"] = "exact" THEN "manifest" ELSE "report"]
            /\ UNCHANGED <<cur, result, db, spool, locks, altered, spent>>

\* Mutant: the manifest is published first.
StagedManifestFirst(p) ==
  /\ pc' = [pc EXCEPT ![p] = IF kind[p] = "report" THEN "stage" ELSE "publish"]
  /\ kind' = [kind EXCEPT ![p] = "manifest"]
  /\ UNCHANGED <<cur, adopted, result>>

\* The partial of kind[p] now holds its exact payload.  report_is_final was
\* read at Inspect and is not read again.
Staged(p) ==
  /\ pc' = [pc EXCEPT ![p] = IF kind[p] = "report" THEN "stage" ELSE "publish"]
  /\ kind' = [kind EXCEPT ![p] =
                IF kind[p] = "report" \/ adopted[p] THEN "manifest" ELSE "report"]
  /\ UNCHANGED <<cur, adopted, result>>

SetPartial(p, bytes) ==
  partial' = [partial EXCEPT ![cur[p]][kind[p]] = bytes]

\* Mutant: whole partials are quarantined too.
StageQuarantinesAll(p) ==
  /\ pc[p] = "stage"
  /\ Goto(p, IF partial[cur[p]][kind[p]] = "absent" THEN "open" ELSE "quarantine")
  /\ UNCHANGED <<db, spool, locks, altered, spent>>

\* A partial of an earlier, interrupted call is adopted when it is whole and
\* put into quarantine when it is torn.
Stage(p) ==
  LET left == partial[cur[p]][kind[p]]
  IN  /\ pc[p] = "stage"
      /\ \/ left = "full" /\ Staged(p)
         \/ left = "absent" /\ Goto(p, "open")
         \/ left \in {"empty", "half"} /\ Goto(p, "quarantine")
      /\ UNCHANGED <<db, spool, locks, altered, spent>>

\* Mutant: bytes that an interrupted quarantine left at the destination are fatal.
QuarantineOnce(p) ==
  LET torn == <<kind[p], partial[cur[p]][kind[p]]>>
  IN  /\ pc[p] = "quarantine"
      /\ \/ torn \in quarantine[cur[p]] /\ Raise(p, "evidence")
         \/ /\ torn \notin quarantine[cur[p]]
            /\ quarantine' = [quarantine EXCEPT ![cur[p]] = @ \cup {torn}]
            /\ Goto(p, "withdraw")
            /\ UNCHANGED <<db, evidence, final, partial, locks, altered, spent>>

\* The destination is named by the hash of the torn bytes: either it already
\* holds them and the source is dropped, or the source is linked there.
Quarantine(p) ==
  LET torn == <<kind[p], partial[cur[p]][kind[p]]>>
  IN  /\ pc[p] = "quarantine"
      /\ \/ /\ torn \in quarantine[cur[p]]
            /\ SetPartial(p, "absent")
            /\ Goto(p, "open")
            /\ UNCHANGED quarantine
         \/ /\ torn \notin quarantine[cur[p]]
            /\ quarantine' = [quarantine EXCEPT ![cur[p]] = @ \cup {torn}]
            /\ Goto(p, "withdraw")
            /\ UNCHANGED partial
      /\ UNCHANGED <<db, evidence, final, locks, altered, spent>>

Withdraw(p) ==
  /\ pc[p] = "withdraw"
  /\ SetPartial(p, "absent")
  /\ Goto(p, "open")
  /\ UNCHANGED <<db, evidence, final, quarantine, locks, altered, spent>>

Open(p) ==
  /\ pc[p] = "open"
  /\ SetPartial(p, "empty")
  /\ Goto(p, "write")
  /\ UNCHANGED <<db, evidence, final, quarantine, locks, altered, spent>>

\* The report is written and fsynced in two halves, the manifest in one.
Write(p) ==
  /\ pc[p] = "write"
  /\ \/ /\ kind[p] = "report" /\ partial[cur[p]][kind[p]] = "empty"
        /\ SetPartial(p, "half")
        /\ UNCHANGED local
     \/ /\ kind[p] = "manifest" \/ partial[cur[p]][kind[p]] = "half"
        /\ SetPartial(p, "full")
        /\ Staged(p)
  /\ UNCHANGED <<db, evidence, final, quarantine, locks, altered, spent>>

\* Mutant: rename instead of link, which replaces what is there.
PublishByRename(p) ==
  /\ pc[p] = "publish"
  /\ final' = [final EXCEPT ![cur[p]][kind[p]] = "exact"]
  /\ Goto(p, "unlink")
  /\ UNCHANGED <<db, evidence, partial, quarantine, locks, altered, spent>>

\* publish_no_replace: os.link never replaces; on a collision the bytes found
\* are verified and the partial is redundant.
Publish(p) ==
  LET there == final[cur[p]][kind[p]]
  IN  /\ pc[p] = "publish"
      /\ \/ /\ there = "absent"
            /\ final' = [final EXCEPT ![cur[p]][kind[p]] =
                  IF partial[cur[p]][kind[p]] = "full" THEN "exact" ELSE "wrong"]
            /\ Goto(p, "unlink")
            /\ UNCHANGED <<db, evidence, partial, quarantine, locks, altered, spent>>
         \/ /\ there = "exact"
            /\ Goto(p, "unlink")
            /\ UNCHANGED <<db, spool, locks, altered, spent>>
         \/ /\ there = "wrong"
            /\ Raise(p, "evidence")

Unlink(p) ==
  /\ pc[p] = "unlink"
  /\ SetPartial(p, "absent")
  /\ pc' = [pc EXCEPT ![p] = IF kind[p] = "report" THEN "publish" ELSE "verify"]
  /\ kind' = [kind EXCEPT ![p] = "manifest"]
  /\ UNCHANGED <<cur, adopted, result, db, evidence, final, quarantine, locks,
                 altered, spent>>

--------------------------------------------------------------------------------
\* Steps after publication

\* Mutant: the pair is trusted without a look.
VerifyPairBlindly(p) ==
  /\ pc[p] = "verify"
  /\ altered' = altered \ {cur[p]}
  /\ Goto(p, "commit")
  /\ UNCHANGED <<db, spool, locks, spent>>

\* _verify_final_pair, before any authority is committed.
VerifyPair(p) ==
  /\ pc[p] = "verify"
  /\ \/ /\ Pair(cur[p])
        /\ altered' = altered \ {cur[p]}
        /\ Goto(p, "commit")
        /\ UNCHANGED <<db, spool, locks, spent>>
     \/ /\ ~Pair(cur[p])
        /\ Raise(p, "evidence")

\* Mutants: the artifact and lineage rows are left out; the column gets the
\* name of the job state.
CommitJobOnly(p) ==
  /\ pc[p] = "commit"
  /\ row[cur[p]] # "other"
  /\ job' = [job EXCEPT ![cur[p]] = "COMPLETE"]
  /\ Goto(p, "confirm")
  /\ UNCHANGED <<row, asserted, spool, locks, altered, spent>>
CommitMixesColumns(p) ==
  /\ pc[p] = "commit"
  /\ row[cur[p]] # "other"
  /\ row' = [row EXCEPT ![cur[p]] = "COMPLETE"]
  /\ job' = [job EXCEPT ![cur[p]] = "COMPLETE"]
  /\ Goto(p, "confirm")
  /\ UNCHANGED <<asserted, spool, locks, altered, spent>>

\* _finalize_complete: artifact, lineage and PREPARED -> COMPLETE together.
Commit(p) ==
  /\ pc[p] = "commit"
  /\ \/ /\ row[cur[p]] = "other"
        /\ Raise(p, "conflict")
     \/ /\ row[cur[p]] # "other"
        /\ row' = [row EXCEPT ![cur[p]] = "exact"]
        /\ job' = [job EXCEPT ![cur[p]] = "COMPLETE"]
        /\ Goto(p, "confirm")
        /\ UNCHANGED <<asserted, spool, locks, altered, spent>>

\* Mutant: an adopted result is reported as created.
ConfirmAlwaysCreated(p) ==
  /\ pc[p] \in {"adopt", "confirm"}
  /\ Authority(cur[p])
  /\ Leave(p, "created")
  /\ altered' = altered \ {cur[p]}
  /\ UNCHANGED <<db, spool, spent>>

\* _verify_authority: after the commit, or instead of any work ("adopt").
Confirm(p) ==
  /\ pc[p] \in {"adopt", "confirm"}
  /\ \/ /\ Authority(cur[p])
        /\ Leave(p, IF pc[p] = "adopt" THEN "existing" ELSE "created")
        /\ altered' = altered \ {cur[p]}
        /\ UNCHANGED <<db, spool, spent>>
     \/ /\ ~Authority(cur[p])
        /\ Raise(p, "evidence")

--------------------------------------------------------------------------------
\* Interruptions.  An effect that did not happen is an interruption before its
\* action, one whose report was lost an interruption after it.

ErrorsAt(step) ==
  {error \in {"filesystem", "evidence", "database"} :
     \/ error = "filesystem" /\ step \in {"lock", "gate", "eligible"} \cup FileSteps
     \/ error = "evidence"   /\ step \in {"verify", "adopt", "confirm"}
     \/ error = "database"   /\ step \in GateSteps \cup {"commit", "adopt", "confirm"}}

Fail(p) ==
  /\ Spend("fault")
  /\ \E error \in ErrorsAt(pc[p]) : Leave(p, error)
  /\ UNCHANGED <<db, spool, altered>>

\* The process is killed: the kernel releases the flock and SQLite discards an
\* open transaction.  What reached the file system stays.
Crash(p) ==
  /\ pc[p] # "idle"
  /\ Spend("fault")
  /\ Leave(p, "none")
  /\ UNCHANGED <<db, spool, altered>>

--------------------------------------------------------------------------------
\* The rest of the node

\* finalize-and-register, import-recording-window and the other maintenance
\* commands hold LOCK_EX; registering one more occurrence of an input adds an
\* assertion.
EnterExclusive(o) ==
  /\ LockFree
  /\ Spend("visit")
  /\ exclusive' = exclusive \cup {o}
  /\ UNCHANGED <<db, spool, shared, local, altered>>

Register(o, i) ==
  /\ o \in exclusive
  /\ asserted[i] < 2
  /\ asserted' = [asserted EXCEPT ![i] = @ + 1]
  /\ UNCHANGED <<job, row, spool, locks, local, altered, spent>>

\* capture-rtsp-window holds LOCK_SH for its lifetime; captures overlap.
EnterShared(o) ==
  /\ o \notin shared
  /\ exclusive = {}
  /\ Spend("visit")
  /\ shared' = shared \cup {o}
  /\ UNCHANGED <<db, spool, exclusive, local, altered>>

Exit(o) ==
  /\ o \in exclusive \cup shared
  /\ exclusive' = exclusive \ {o}
  /\ shared' = shared \ {o}
  /\ UNCHANGED <<db, spool, local, altered, spent>>

\* Damage to, removal of or restoration of a published file, by anything that
\* ignores the advisory lock.
AlterFinal(j, k, bytes) ==
  /\ Spend("alter")
  /\ bytes # final[j][k]
  /\ final' = [final EXCEPT ![j][k] = bytes]
  /\ altered' = altered \cup {j}
  /\ UNCHANGED <<db, evidence, partial, quarantine, locks, local>>

AlterEvidence(i) ==
  /\ Spend("alter")
  /\ evidence' = [evidence EXCEPT ![i] = ~@]
  /\ UNCHANGED <<db, files, locks, local, altered>>

--------------------------------------------------------------------------------
Proceed(p) ==
  \/ Acquire(p) \/ LockTimeout(p)
  \/ Gate(p) \/ Eligible(p) \/ Prepare(p)
  \/ Inspect(p) \/ Stage(p) \/ Quarantine(p) \/ Withdraw(p) \/ Open(p) \/ Write(p)
  \/ Publish(p) \/ Unlink(p)
  \/ VerifyPair(p) \/ Commit(p) \/ Confirm(p)

Interrupt(p) == Fail(p) \/ Crash(p)

Environment ==
  \/ \E o \in Others : EnterExclusive(o) \/ EnterShared(o) \/ Exit(o)
  \/ \E o \in Others, i \in Inputs : Register(o, i)
  \/ \E j \in Jobs, k \in Kinds, bytes \in FinalBytes : AlterFinal(j, k, bytes)
  \/ \E i \in Inputs : AlterEvidence(i)

Next ==
  \/ \E p \in Procs, j \in Jobs : Begin(p, j)
  \/ \E p \in Procs : Proceed(p) \/ Interrupt(p)
  \/ Environment

Spec == Init /\ [][Next]_vars

\* The operating system runs every process, and an external command that took
\* the lock eventually ends.  Nobody promises a call, an interruption, a visit.
Fairness ==
  /\ \A p \in Procs : WF_vars(Proceed(p))
  /\ \A o \in Others : WF_vars(Exit(o))

FairSpec == Spec /\ Fairness

--------------------------------------------------------------------------------
(***************************************************************************)
(* Safety                                                                  *)
(***************************************************************************)
Critical(p) == pc[p] \notin {"idle", "lock"}

\* A call past lock.py's flock is alone in the spool: no second call, no
\* maintenance command and no capture overlaps it, whatever was interrupted.
Exclusion ==
  \A p \in Procs : Critical(p) => exclusive = {p} /\ shared = {}

\* COMPLETE in processing_jobs, the derived artifact with its lineage, and a
\* published exact pair stand or fall together: authority is never committed
\* early or by halves, and the pair under it is exact unless something outside
\* changed it after the last successful verification.
AuthorityIsWhole ==
  \A j \in Jobs :
    /\ job[j] = "COMPLETE" <=> row[j] = "exact"
    /\ job[j] = "COMPLETE" /\ j \notin altered => Pair(j)

\* Report first, manifest last: a published manifest always has its exact report,
\* and neither path ever shows torn bytes, however the writers were killed.
ReportBeforeManifest ==
  \A j \in Jobs \ altered :
    /\ final[j]["manifest"] # "absent" => final[j]["report"] # "absent"
    /\ \A k \in Kinds : final[j][k] # "wrong"

\* Write-ahead: no partial, quarantined or published file of a job exists before
\* its PREPARED row is durable, so every file in the spool can be traced to a row.
FilesHaveAuthority ==
  \A j \in Jobs :
    (\/ quarantine[j] # {}
     \/ \E k \in Kinds : partial[j][k] # "absent"
     \/ \E k \in Kinds : final[j][k] # "absent" /\ j \notin altered)
      => job[j] \in {"PREPARED", "COMPLETE"}

\* Recovery never throws away finished work: quarantine receives torn partials
\* only, and a partial left beside the file it was published as (a call was
\* interrupted between link and unlink) is a whole duplicate of it.
QuarantineIsTorn ==
  \A j \in Jobs, k \in Kinds :
    /\ <<k, "full">> \notin quarantine[j]
    /\ spent["alter"] = 0 /\ final[j][k] # "absent" => partial[j][k] \in {"absent", "full"}

\* What a caller was told stays true: after "created" or "existing" the job is
\* COMPLETE, and of all calls for a job at most one is told that it created it.
ResultIsTrue ==
  \A p \in Procs :
    /\ result[p] \in {"created", "existing"} => job[cur[p]] = "COMPLETE"
    /\ \A q \in Procs : result[p] = "created" /\ result[q] = "created" /\ p # q
                         => cur[p] # cur[q]

(***************************************************************************)
(* What a step may never do                                                *)
(***************************************************************************)

\* Rows only move MISSING -> PREPARED -> COMPLETE, and only while the input has
\* exactly one capture assertion: an assertion registered meanwhile is seen.
JobStep ==
  \A j \in Jobs : job'[j] # job[j] =>
    /\ <<job[j], job'[j]>> \in {<<"MISSING", "PREPARED">>, <<"PREPARED", "COMPLETE">>}
    /\ asserted[j[1]] = 1
UnambiguousProgress == [][JobStep]_vars

\* No step of the program replaces or removes a published file.
NoReplaceStep ==
  spent'["alter"] = spent["alter"] =>
    \A j \in Jobs, k \in Kinds : final[j][k] # "absent" => final'[j][k] = final[j][k]
NoReplace == [][NoReplaceStep]_vars

\* Only a call that holds the exclusive lock before and after the step changes
\* jobs, derived rows, partials or quarantine; so a call that ends as "busy"
\* has changed nothing, and nothing of it is left behind.
HolderStep ==
  <<job, row, partial, quarantine>>' # <<job, row, partial, quarantine>> =>
    \E p \in Procs : Critical(p) /\ Critical(p)' /\ exclusive = {p} /\ exclusive' = {p}
HolderWrites == [][HolderStep]_vars

(***************************************************************************)
(* Liveness                                                                *)
(***************************************************************************)

\* A call always comes back: neither the lock wait nor any recovery path hangs.
CallsReturn == \A p \in Procs : pc[p] # "idle" ~> pc[p] = "idle"

(***************************************************************************)
(* The promise                                                             *)
(***************************************************************************)
Ledger == INSTANCE EvidenceLedger WITH
  status    <- job,
  authority <- {j \in Jobs : row[j] = "exact"},
  published <- {j \in Jobs : Pair(j)},
  doubtful  <- altered

\* With every lock, crash, quarantine and retry, the processor is the ledger of
\* EvidenceLedger: each step of a call is one of its steps or none.
ImplementsLedger == Ledger!Spec

================================================================================
