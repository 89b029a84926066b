# Verification of the edge evidence processor

TLA+ modules, TLC runs and TLAPS proofs about the program in `src/`. The
program turns raw media artifacts that are registered in a SQLite ledger into
derived evidence (a report and a manifest per artifact) and must do so without
ever claiming more in the ledger than the spool directory can show: across
several operating-system processes, a shared advisory lock, crashes in the
middle of file publication, retries and damage from outside. The ledger itself
must refuse what no writer may do, at every schema version and through every
migration.

1. [The system](#the-system)
2. [Hazards and the properties that face them](#hazards-and-the-properties-that-face-them)
3. [The modules](#the-modules)
4. [Runs](#runs)
5. [Proofs](#proofs)
6. [What is abstracted](#what-is-abstracted)
7. [Not modelled](#not-modelled)
8. [Findings](#findings)
9. [Remarks on the code](#remarks-on-the-code)

## The system

| component | state | operations | interacts with |
|---|---|---|---|
| **process_artifact** `pipeline/process.py`, `staging.py` | `processing_jobs`, derived `artifacts`, `artifact_lineage`; partials, quarantine and published files in the spool | one call: lock, evidence gate, PREPARED row, two partials, publication by `os.link`, verification, COMPLETE transaction, re-verification | spool lock, SQLite, file system; called by the worker and the CLI |
| **spool lock** `pipeline/lock.py` | `flock` on `.edge-agent.lock` | exclusive with timeout, shared, release in `finally` or by the kernel | every command that touches the spool |
| **worker** `worker.py` | a snapshot of candidates and their job states, counters | `snapshot`, `run`, `run_exact` | reads SQLite without the lock, calls `process_artifact` |
| **command line** `cli.py`, `_cli.py`, `inspect.py` | none | parse, call, print, exit code | worker, inspection |
| **ledger schema** `database/migrations.py` (DDL) | tables, UNIQUE and CHECK constraints, append-only and lifecycle triggers | refuse what a row may never do | every writer of the ledger |
| **migration runner** `database/migrations.py`, `migration_history.py`, `replication_target_migration_v10.py` | `schema_migrations` | `migrate`: one transaction over all missing versions | all other commands require a version |
| **registration planning** `pipeline/register.py`, `finalize.py` | none of its own | plan the rows and files of a captured window | external registration commands |
| **media verification** `pipeline/verification.py` | none | `ffprobe` and hash checks | registration, evidence gate |
| **fingerprints** `processing/` | none | job id, output id, canonical report and manifest bytes | process_artifact |
| **occurrences** `pipeline/staging.py` (upper half) | partial and final manifests of captures | stage, adopt, publish | registration |
| **inspection** `pilot.py`, `agent/adk_tools.py`, `inspect.py` | `_completed` of the core, `_processor_consumed` of each tool over it | one read-only inspection: claim, schema version, snapshot, observation, classification, proposal, receipt | SQLite on two connections, without the lock; the contracts |
| **contracts** `contracts/` | none (immutable records bound by digest) | classify, propose, decide, execute, verify, conclude, for the processor and for replication | inspection (the read-only path); owners, executors and verifiers outside the repository |
| **replication tables** `migrations.py` version 9, `replication_target_migration_v10.py` | `replica_targets`, `replica_objects` | refuse changes of targets and of verified objects; the rebuild of version 10 | replication commands outside the repository, the migration runner |
| **synthetic demo** `examples/` | a temporary ledger and spool | build them, run the worker | worker |
| **deployment** `terraform/`, `fixtures/`, `Dockerfile` | none | - | - |

How they interact. A *call* of `process_artifact` owns the spool lock from the
first check to the last (`process.py:563`). Its effects go to two stores that
have no common transaction: SQLite (`PREPARED`, then artifact + lineage +
`COMPLETE` in one transaction) and the spool (partial, quarantine and final
directories). The order of the effects is the whole protocol: row before file,
report before manifest, files before `COMPLETE`, verification before and after.
The *worker* reads SQLite without the lock, so what it knows is old by the time
it calls. Captures hold the same lock shared, maintenance commands exclusively.

The *inspection* reads the migration history on one connection and the worker's
snapshot on another, again without the lock, and hands its counts through four
tables of the contracts. Everything that is *approved* - a manifest for
`run_exact`, a proposal for an owner - is approved at one moment and used at a
later one.

## Hazards and the properties that face them

* Death of the process at any point, in particular inside a write, between link
  and unlink, between quarantine link and unlink, between files and commit:
  `AuthorityIsWhole`, `FilesHaveAuthority`, `QuarantineIsTorn`,
  `ReportBeforeManifest`. Recovery that is itself interrupted, in particular during the
  quarantine of what an earlier interruption left: `Converges`. An fsync that fails, or
  death before it returns: the finding `PublishedIsSynced`.
* Competition for the lock and its timeout: `Exclusion`, `HolderWrites`,
  `ResultIsTrue`, `CallsReturn`, `RunsEnd`.
* Files that change from outside between publication, verification and commit:
  `AuthorityIsWhole`, `ImplementsLedger`, `NoReplace`.
* One more occurrence of the same media registered at any moment:
  `UnambiguousProgress`, `PassIsComplete`, and the finding `PreparedIsResumed`.
* A snapshot that is stale when it is used, by a worker (`PassIsComplete`,
  `CountedIsComplete`, `AlreadyMeansBefore`) and torn while it is read, by an
  inspection (`EveryCountIsPresentable`, `AnswersStayTrue`).
* An approved manifest that is checked entry by entry without the lock and
  executed later: `ApprovedWork`, `PassIsAsApproved`.
* Concurrent callers of a one-shot tool, some of them refused: `OneCallPerTool`; of
  a core whose flag has no lock: `AnswersStayTrue`.
* Records of superseded proposals, reused approvals, executions and verifications
  of something else, proposals built by hand: `ReceiptIsOneStory`,
  `VerifiedIsProven`, `OwnerDecided`, `NoActionInDoubt`, `CheckedIsFresh`,
  `ReadOnlyPath`, and the finding `ExecutionsAreReceipted`.
* Constraints that came version by version, over rows that were written before
  them, and rebuilds of tables under their triggers: `EventsTellTheTruth`,
  `AuthorityCycle`, `ImportsAreProven`, `AuthorityOnlyGrows`, `ReplicasOnlyGrow`,
  and the findings `BackfillSucceeds` and `CompletionIsProven`.
* Several processes that migrate one file at once: `OneHistory`, `MigratesAtOnce`. A
  migration that fails in a late version: `MigratesAtOnce`.

`PROJECT.json` lists every hazard at its line. Four have no property: two
workers may both count one input as newly completed (`worker.py:284`; no text
promises that counts of different runs add up), a batch that always fails at its
first input never reaches the second (`worker.py:276`; stated behaviour), captures
that overlap without end can starve an exclusive waiter (`lock.py:111`; `flock` is not
fair and nothing bounds them), and an approval for "a single execution" can be
executed twice (`model.py:432`; the executor is outside of the repository).

## The modules

| module | models | EXTENDS / INSTANCE |
|---|---|---|
| `ProcessArtifact` | the call, the lock, the spool and the ledger rows it works on, and the rest of the node | `EvidenceLedger` by refinement |
| `EvidenceLedger` | the abstract promise: checkpoint, publication, verification, completion | |
| `Durability` | the call once more, with what fsync has covered | `ProcessArtifact` |
| `Worker` | `run`: every process is a worker, its calls are the actions of `ProcessArtifact` | `ProcessArtifact` |
| `ExactWorker` | `run_exact` beside `run`: workers under approved manifests | `Worker` |
| `Inspection` | the inspection core and its tools, beside workers that go on working | `Worker`, `Receipts` |
| `ContractPolicy` | the decision tables: findings, classification, mutation policy, proposals, validators | |
| `Receipts` | which records may be concluded together, and the status of the receipt | `ContractPolicy` |
| `Contracts` | the records of both services on their way from observation to receipt | `Receipts` |
| `OccurrenceLedger` | the occurrence half of the SQLite schema, its guards at every version, and `migrate` | |
| `ReplicaLedger` | the replication tables, and processes that migrate one file at once, statement by statement | `ReplicaStore` by refinement |
| `ReplicaStore` | the abstract promise: a migration is one step to the head of its release or none, rows are added and worked off | |
| `ProcessArtifactProofs`, `LedgerProofs`, `DurabilityProofs`, `WorkerProofs`, `InspectionProofs`, `ContractsProofs`, `OccurrenceLedgerProofs`, `ReplicaLedgerProofs` | theorems | the module they are about; `LedgerProofs` builds on `ProcessArtifactProofs`, `DurabilityProofs` and `WorkerProofs` on `LedgerProofs`, `InspectionProofs` on `WorkerProofs` |
| `MCProcessArtifact`, `MCWorker`, `MCExactWorker`, `MCInspection`, `MCDurability`, `MCContracts`, `MCOccurrenceLedger`, `MCReplicaLedger` | instances for TLC | |

### ProcessArtifact

One action is one durable or visible effect, or one group of reads on which the
next decision rests.

| state | code |
|---|---|
| `job[j]` | the `processing_jobs` row of an input under a profile; `MISSING` is no row, `FOREIGN` a row that contradicts the deterministic job id or the identity tuple |
| `row[j]` | derived artifact and lineage: none, the exact ones, or rows that contradict them |
| `asserted[i]` | number of `capture_occurrence_assertions` of the input: none, one, several |
| `evidence[i]` | whether the raw file passes `evidence_gate` |
| `final`, `partial`, `quarantine` | the content-addressed paths; bytes are absent / exact / wrong, a partial is absent / empty / half / full |
| `exclusive`, `shared` | holders of `LOCK_EX` and `LOCK_SH` |
| `pc`, `cur`, `kind`, `adopted`, `result` | where each process is in the call, the job, the file (report or manifest) it works on, `report_is_final`, and how its last call ended |
| `altered` | history: jobs whose published files changed from outside since they were last verified |
| `spent` | how many interruptions, changes and visits happened, for the bounds |

| action | code |
|---|---|
| `Begin`, `Acquire`, `LockTimeout` | `process_artifact`, `spool_lock` |
| `Gate`, `Eligible`, `Prepare` | `_require_v4` to the read of the job; `_require_unambiguous_input_assertion`; `_create_or_adopt_prepared` |
| `Inspect`, `Stage`, `Quarantine`, `Withdraw`, `Open`, `Write`, `Publish`, `Unlink` | `_produce_and_publish` with `_stage_partial`, `quarantine_partial`, `_write_partial_with_barrier`, `publish_no_replace` |
| `VerifyPair`, `Commit`, `Confirm` | `_verify_final_pair`, `_finalize_complete`, `_verify_authority` |
| `Fail`, `Crash` | an exception at a step that can raise it; a kill at any step. An effect that was not reached is an interruption before its action, one whose report was lost an interruption after it |
| `EnterExclusive`, `EnterShared`, `Register`, `Exit`, `AlterFinal`, `AlterEvidence` | the rest of the node (external) |

`Init` is a migrated ledger with no derived output yet, in which inputs may be
ambiguous or damaged and foreign rows may sit where a job or an artifact belongs.

### Worker

`run` takes candidates in the order of their artifact id (`Select`), reads their
job states one by one in autocommit mode (`ReadState`), calls (`Call`), and
counts each disposition under the state the *snapshot* saw (`Collect`). A busy
lock ends the run as `deferred`, an error ends it as `error`, both without
counting. The calls themselves are the actions of `ProcessArtifact`, so workers
interleave inside each other's calls and snapshots.

### ExactWorker

A worker may run an approved manifest instead (`SelectExact`): any sorted list of
inputs with the state each was approved in, true or not. `_reconstruct_exact_candidates`
reads each entry in two queries of their own (`CheckEntry`: exactly one assertion;
`ReadState`: the job), compares all of them when all are read (`Refuse`), and only
then the calls begin, as in `run`. `approved[w]` is the manifest, `batch[w]` and
`prior[w]` are what has been read of it. Malformed manifests and contexts are refused
before anything is read and are left out; hashes of manifests are the manifests.

### EvidenceLedger

`Prepare`, `Publish`, `Verify`, `Complete`, and `Disturb` for the file system
that is not the processor's alone. `ProcessArtifact` implements it under
`status <- job`, `authority <- {j : row[j] = "exact"}`,
`published <- {j : Pair(j)}`, `doubtful <- altered`: everything between two
abstract steps - locks, partials, quarantine, crashes, retries - is stuttering.

### Durability

`Write` of `ProcessArtifact` writes and fsyncs in one step, which is all that
other processes can see. Here the fsync may also raise, or the call be killed before it
returns (`WriteUnsynced`): the bytes are there for the next call, and no fsync has
covered them. `partialSynced` and `finalSynced` are the files whose bytes some
fsync has covered: `OpenUnsynced` makes an inode with none, `WriteSynced` covers what
was written, `PublishInode` gives the inode of the partial its final name and
covers directories only (`staging.py:231`). All other steps are those of
`ProcessArtifact`.

### Inspection

| state | code |
|---|---|
| `schema` | last row of `schema_migrations`: one the worker accepts, 9 or 10 |
| `consumed[t]`, `completed` | `_processor_consumed` of each ADK tool, `_completed` of the core they share |
| `stage[c]`, `outcome[c]` | where each client's call is, and how it ended |
| `listed[c]`, `states[c]` | its candidates, and their job states as far as they are read |
| `seen[c]` | the `ProcessorInspection` it got: counts and integrity |

| action | code |
|---|---|
| `Forbid`, `Claim` | `run_async`: arguments are refused before the claim; `_claim_once` under the tool's lock |
| `TestCompleted`, `SetCompleted` | the core's own flag, tested and set in two steps (`pilot.py:394-396`) |
| `ReadVersion` | `_read_exact_schema_version`, its own connection, version 10 only |
| `ListCandidates`, `ReadJob`, `Count` | `snapshot` on the second connection, query by query; a contradicted identity ends it with one conflict and no counts |
| `Unreadable` | a database that is gone or damaged: an error, or an integrity failure |
| `Upgrade` | `migrate` of another process |

`Presentable` is everything the core and the constructors may raise at after the
counts are known: the legality of the inspection, the agreement of the pilot's
`_finding_codes` with the contracts' `_findings` (two versions of one table), the
proposal, its validation, and the receipt.

### ContractPolicy, Receipts, Contracts

`ContractPolicy` and `Receipts` are pure functions: the tables of
`contracts/processor.py`, `replication.py`, `policy.py`, and the receipt builder of
`model.py`. A digest is the value it is taken of, a count is known by whether it is
zero.

`Contracts` lets records pile up: `proposals`, `decisions`, `executions`,
`verifications`, `receipts` are sets that only grow, because records are immutable
and nothing is ever withdrawn; `now` is what an observation taken now would say.
Nobody orders the records, so each action may use any that exist.

| action | code |
|---|---|
| `Change` | the observed system changes, also back to what it was |
| `Propose`, `ProposeExact` | `propose_processor`, `propose_replication`; `propose_processor_successor`, `propose_exact_replication_action` |
| `Draft` | a proposal built with the constructor: as the policy has it for any operation and phase, or with one field off (`Slips`) |
| `Decide` | the owner: approve, deny, expire, for any invocation |
| `Execute` | an executor that asks `validate_processor_owner_approval` first (`checked`), or one that takes any approval and parameters |
| `Verify` | a verifier, within the bounds of `VerificationResult.__post_init__` |
| `Conclude` | `build_structured_receipt` with any records |

### OccurrenceLedger

The commands that write occurrences are not in the repository; its schema is. So
the writers here may try every plain INSERT, UPDATE and DELETE at any time, and
the guard of an action is what constraints, triggers and foreign keys of the
current version leave of it. One action is one committed transaction.

| state | code |
|---|---|
| `version` | the highest row of `schema_migrations` |
| `expected[o]`, `captured[o]`, `assertion[o]`, `event[o]`, `attempted[o]` | the rows of one occurrence id in `expected_occurrences` (its state), `capture_occurrences` (its artifact), `capture_occurrence_assertions` (artifact and manifest layout), `outbox_events` (type), `rtsp_capture_attempts` |
| `recording[r]`, `import[o]`, `provenance[o]` | `recording_imports`, `recording_import_jobs`, `recording_segment_provenance`; `import[o].guarded` is history: the job became COMPLETE by an UPDATE |

| action | code |
|---|---|
| `Expect`, `Terminate`, `Attempt` | version 3 and 7: intents and their guard; version 6: attempts need a PREPARED intent |
| `Capture`, `AddAssertion`, `CaptureAsserted` | a capture alone (before 8), an assertion for it (7), both in one transaction (from 8) |
| `Delete`, `Revise` | rows that go or change once written: all that foreign keys allow and no trigger in force forbids |
| `Publish` | outbox and `outbox_events_terminal_correctness` |
| `StartRecording`, `FinishRecording`, `StartImport`, `Attribute`, `FinishImport` | version 5 and the guards it keeps in 7 and 8 |
| `Migrate(head)` | `migrate` of a release whose newest version is `head`: the backfills of 3 and 7, the authority guard and deferred keys of 8, all or nothing |

Triggers are data. `Created(v)` and `Dropped(v)` list, by table and statement, what the
script of version v creates and drops, by name or with a table it rebuilds; `Triggers` is
what is left in force at each version, and an action asks `Guarded(table, statement)`
before it applies the body of a trigger. A guard that a rebuild forgot would be missing
from `Created`, and the statements it forbids would be steps of the model.

### ReplicaLedger

The replication commands are not in the repository; writers may try every INSERT,
UPDATE and DELETE on both tables, and constraints and triggers decide. A migrator
works inside a transaction that nobody else sees.

| state | code |
|---|---|
| `file` | the committed database: recorded versions (8 stands for the first eight), rows, triggers |
| `writer` | who holds the RESERVED lock |
| `work[m]`, `pc[m]`, `applied[m]` | the transaction of each migrator, where it is, `applied_versions` |

| action | code |
|---|---|
| `WriteTarget`, `WriteObject` | one statement of a writer, past CHECK, foreign key and triggers of the current version |
| `Open`, `Refused` | `BEGIN IMMEDIATE` and the versions read under it; the busy timeout, or a history ahead of the code |
| `Apply` | the first missing version: version 9 creates tables and triggers, version 10 copies both tables, drops them with their triggers and creates those again |
| `Commit`, `Abort` | all or nothing |

### ReplicaStore

`Migrate`, `GiveUp`, `AddTarget`, `AddObject`, `Advance`, over the versions and rows
a reader sees. `ReplicaLedger` implements it with the committed file, what each
migrator has reported, and how it ended: locks, transactions, copied tables and
triggers that are dropped and created again are stuttering.

## Runs

| run | instance | distinct states | shows |
|---|---|---|---|
| `call_safety` | 2 processes, 1 external command, 1 job, any ledger; 2 interruptions, 1 change, 2 visits | 557,000 | all safety and action properties of the call, and the refinement of `EvidenceLedger` |
| `worker_batches` | 2 workers, 2 inputs, three scenes | 643,000 | what summaries and counters claim is true; exact runs work and pass only as approved |
| `workers_live` | 2 workers, 1 input, three scenes, fair | 157,000 | calls come back, runs end, retries converge |
| `inspections` | 1 worker, 2 inputs, 4 clients, 2 tools, three scenes | 201,000 | one call per tool, every count has a receipt, answers stay true |
| `contract_receipts` | 2 inputs, every consistent observation of both services | 377,000 | receipts belong together, were approved, proven, not in doubt |
| `ledger_guards` | 2 occurrences and 2 artifacts of 2 sources, 1 recording, releases with heads 2, 3, 6, 7, 8, 10 | 362,000 | what the schema guarantees against every writer and through every migration |
| `replicas` | 3 migrators of releases 9, 10, 10; 2 targets, 1 URI, 2 contents, 2 attempts | 105,000 | one history of versions; replicas only grow; each migration is one step of `ReplicaStore` or none |
| `prepared_resumed` | 1 worker, reruns | | a finding below: expected violation |
| `backfill` | 2 occurrences of 1 artifact | | a finding below: expected violation |
| `direct_import` | as `ledger_guards` | | a finding below: expected violation |
| `denied_execution` | as `contract_receipts` | | a finding below: expected violation |
| `unsynced_partial` | 2 processes, 1 job, 1 interruption | | a finding below: expected violation |

Bounds. `Limit` bounds interruptions, outside changes and visits of external
commands, and in `Contracts` the records of each sort; `MaxAttempts` bounds the
attempts of a replica; every other variable is finite. The *scene*, or in
`Contracts` the first observation, is chosen with the initial state and decides
which question a behaviour is about, so that each run covers several instances
without their product.

* The call. Two interruptions are what recovery needs to be interrupted itself (a
  crash inside a write, then a crash during the quarantine of what it left). Two
  processes are enough for every conflict over one lock. Jobs share nothing but
  the lock and their input's assertions; the proofs remove the bound of one.
* `worker_batches`. Two inputs give a batch a front and a rest. "plain": batches of
  both workers over two inputs, with one interruption or one registration. A
  worker's name: that worker runs manifests - any sorted list of inputs with the
  state each was approved in, true or not - beside one with batches, undisturbed.
  "retry": either command over one input, with contradicting job rows, inputs that
  are not eligible, and one interruption or registration.
* `workers_live`. "alone": one worker over any ledger, one interruption, one change,
  two visits: every call returns, every run ends. "both": two workers over a clean
  ledger, one interruption or visit: they converge. "turns": the same workers one after
  the other, with two interruptions, so that the second may hit the recovery from the
  first - killed inside a write, then between the link into quarantine and the removal
  of the source. A quarantine that refuses what it finds there already breaks
  `Converges` in this scene and in no other.
* `inspections`. "beside": one client beside a worker, over contradicting and missing
  rows, with interruptions, registrations and unreadable databases. "race": four
  clients - two of one tool, one of another, one of the bare core - over a
  ledger at rest. "core": a client of a tool and one of the bare core pass the core's
  unlocked flag together and read beside a worker that goes on working, over one input.
* `contract_receipts`. Every combination of states and non-zero counts, with every
  operation and phase; five observations with proposals that differ from the policy
  in one field, to the receipt; two proposals, two executions and a verification of
  one observation in every mixture; two observations between which the world changes
  twice, also back.
* `ledger_guards` needs no bound: rows are added or changed in place, never
  multiplied, and every table has a slot per occurrence. Two sources are what the
  composite keys before version 7 and the source of a recording tell apart, two
  occurrences what UNIQUE manifests do. The heads are those that change a rule (5 and
  6 add tables only, 9 and 10 concern replication), so a database passes through
  every sequence of rule sets. Forgetting one re-created trigger of version 7 or 8 in
  `Created` violates a property of this run, with these exceptions: those on updates of
  attempts and provenance, whose columns are not modelled or have one value here; those
  on inserts of attempts and provenance, whose rows no property is about; the one on
  inserts of assertions in 7, because version 8 refuses what it would have let in; and
  in 8 those on captures and on deletes of assertions, which foreign keys forbid as well.
  `NoTriggerIsLost` covers these. That the re-created bodies are not weaker than the
  originals is read, not run: they are the same text but for
  `capture_occurrence_assertions_requires_complete` of 8, which leaves the capture to the
  deferred foreign key.
* `replicas`. An old release and two of the newest are every pair of releases that
  can meet; a VERIFIED, a PENDING and a missing object fit beside each other in two
  targets.

Symmetry is used in runs without liveness only. Deadlock is checked in the runs of
calls and workers: an idle process can always begin another call. It is not in those of
`OccurrenceLedger`, `ReplicaLedger`, `Contracts` and `Inspection`, which have ends: a
database in which every row is terminal at the newest version, migrators that are all
done, as many records as the bound allows, clients that have all been answered.

Fairness (`workers_live`, `prepared_resumed`). `RunFairness`: weak fairness of each
worker's `Advance` (the operating system runs it; nothing in a call blocks except the
lock, and the lock wait has a deadline, so `LockTimeout` is enabled whenever `Acquire`
is not) and of each external holder's `Exit` (such commands end, or the kernel drops
their lock). Starting a run, crashes, changes and visits are not fair. `Converges` has
its own antecedent, `Reruns`: the operator keeps starting runs, because the worker has no
retry loop. It is checked over one input, because a batch that fails at its first
input never reaches the second, and with finitely many visits, because `flock` is not
fair and captures may overlap for ever. Scene "alone" does not satisfy `Reruns` for
the worker nobody starts; convergence is the question of "both" and "turns".

## Proofs

Checked by `tlapm` (SMT, Zenon, LS4) for every value of the constants under the
assumptions the modules name: `ConstantsAssumption` (processes and external
commands are different, `NoJob` is not a job, limits are numbers),
`ListedAssumption` and `NoManifestAssumption` (a query lists each selected input once;
no manifest is not a manifest), `ClientsAssumption` (every client calls a tool or the
core), `ContractsAssumption` (observations are observations, bounds are numbers),
`LedgerAssumption` (the source functions are functions, releases have heads from 2
to 10, `None` is no row), `ReplicaAssumption` and `NoneAssumption` (heads from 8 to 10,
`None` is no row and no process). TLC evaluates each of them in a run.

**`ProcessArtifactProofs`.** The safety properties of the call are not inductive: that
a `COMPLETE` row has its pair needs what a process between publication and commit
knows about the files, which needs that nobody else holds the lock, which needs that
nobody passed the lock wait without it. `IInv` is built in layers, each proved
from the ones below it:

* `Typed`: types, and a process inside a call works on a job;
* `LockInv`: a call past the lock is the only holder;
* `RowsInv`: `COMPLETE` iff the derived rows are exact, and `Learnt(p)`, what the
  process at each step has read or written in the ledger;
* `FilesInv`: what partials, finals and quarantine may look like, and
  `Progress(p)`, what the holder of the lock has done to them at each step;
* `ResultInv`: what earlier callers were told.

`InductiveInit` and `InductiveStep` (one step per action) give `TypeCorrect`,
`ExclusionHolds`, `AuthorityIsAlwaysWhole`, `ReportComesFirst`,
`FilesAlwaysHaveAuthority`, `QuarantineIsAlwaysTorn`, `ResultIsAlwaysTrue`, and the
action properties `ProgressIsUnambiguous`, `OnlyTheHolderWrites`, `NothingIsReplaced`.
`JobMoves` says how a row of `processing_jobs` may change; the modules above rest on it.

`CallsRunDown` is the half of `CallsReturn` that is safety. `Remaining(p)` is the number
of steps the call of `p` can still take, 23 at the lock and read off `pc`, the file it
works on and what is left of its partial. Each step of the call lowers it, whatever state
its files were left in, and nobody else raises it: recovery does not loop. What remains
for TLC is that the fair scheduler gives those steps.

`AmbiguousJobsStandStill` is the finding `prepared_resumed` for every instance:
assertions are not taken back (`AssertionsStay`), and a job of an input with several of
them is in the same state for ever.

**`LedgerProofs`.** Every step of the call is a step of `EvidenceLedger` or a stutter
(`ProcessorImplementsLedger`), and, as a corollary on the abstract side,
`LedgerIsBacked`: a reader who finds authority finds the files, or files that
somebody else touched.

**`DurabilityProofs`.** An unsynced write leaves a partial like those that kills between two
writes leave (`UnsyncedWriteIsHarmless`), so `IInv` holds of `DSpec`, too: the call's promises
(`UnsyncedWritesKeepCallsSafe`) and the ledger (`UnsyncedWritesImplementLedger`) survive it.
What does not is durability, and `ReturnedSyncsSuffice` shows where the finding
`unsynced_partial` comes from: if every write of a partial gets an fsync that returns, and
nobody else alters the files, everything published has been synced, through all other
failures. Its invariant `SyncInv` adds that whatever is written in a partial has been synced, so that an adopted
partial is, too.

**`WorkerProofs`** (for `XSpec`: any number of workers, either command). What a worker
has read goes out of date in one direction only: `JobsMoveOnward` from `MISSING` over
`PREPARED` to `COMPLETE`. So `WInv` keeps, for each worker, that the states it has read
are at or behind the ledger (`Reads`), that its counters are the numbers of candidates
done (`Counts`), that its current call is about its next candidate (`Calls`), and that a
passed run completed its batch (`Passed`). From it `PassIsAlwaysComplete`,
`CountedIsAlwaysComplete`, `AlreadyAlwaysMeansBefore`, `PassIsAlwaysAsApproved`,
`WorkIsAlwaysApproved` and `WorkerTypes`.

The call is also proved under its callers. Every step of the workers is a step of
`ProcessArtifact` or leaves it alone (`StepOfCalls`), so its promises
(`WorkersKeepCallsSafe`, `WorkersStepLikeCalls`) and the ledger
(`WorkersImplementLedger`) hold of the whole system and not only of calls that come from
nowhere. `RunsAlwaysRunDown` adds up the steps: a run of n candidates ends after at most
27 n + 1 of its own, the 23 of each call among them, the half of `RunsEnd` that is safety.

**`InspectionProofs`** (for `ISpec`: any workers, inputs, clients and tools). `Past` is
what every step of the system does to what was read before it: jobs move onward, a
contradicted identity stays contradicted, faults are never taken back. `Truthful(c)`
says what a client has at each stage, and `Answered(c)` that its answer is one of
three: the counts of all that was listed, a conflict that is still there, or a failure
that happened. `CountsAddUp` (the counts of a sequence of three states add up to its
length) makes the inspection legal, and `Presented` takes each legal answer through
the contract tables. `OneUser` says that the clients a tool let in are none before it
is consumed and one after. Gives `EveryCountIsAlwaysPresentable`,
`AnswersAlwaysStayTrue`, `OneCallPerToolHolds`, `InspectionTypes`. Beside any clients and
an upgrade the calls keep all their promises (`InspectionsKeepCallsSafe`,
`InspectionsStepLikeCalls`) and the ledger (`InspectionsImplementLedger`): the pilot is
read-only in what it does, not only in what its receipt says.

**`ContractsProofs`** (any observations, slips, changes and number of records). `IInv`
binds every record to records that exist, and `Built` says of each receipt that
`build_structured_receipt` accepts its records, now as when it was built, because
records never change. The rest are lemmas about the tables: what is frozen by a
validated proposal, which classification admits which operation, and that the order
of codes always has a first one. Gives `ContractTypes`, `ReceiptsAreOneStory`,
`VerifiedIsAlwaysProven`, `OwnerAlwaysDecided`, `NoActionIsInDoubt`,
`CheckedIsAlwaysFresh`, `ReadOnlyPathIsOpen`, and `DeniedAndSuccessorsEndWithoutReceipt`:
in no history is a DENIED execution receipted (the finding `denied_execution`), nor an
exact processor proposal (the first remark below).

**`OccurrenceLedgerProofs`.** The invariant adds `NotYet` to the properties: a table is
empty before the version that creates it, and an attempt has an intent. Without it a
migration could overwrite rows that cannot be there. `CreatedStays` says that a version
creates what it drops, so that a trigger is in force from the version that creates it on
(`InForce`, `NoTriggerIsLost`) and `Delete` and `Revise` reach the rows of old versions
only (`LooseStep`). One step per statement and one for
`Migrate`; gives `LedgerTypes`, `OutboxIsTrue`, `CycleIsClosed`, `ImportsStayProven`,
`NothingIsTakenBack` for any number of occurrences, artifacts and recordings and any
sequence of releases. `AssertionsAccrueOneByOne` joins this module to the call: from
version 7 on a step of the ledger adds one assertion to one artifact or none, which is all
that the external action `Register` of `ProcessArtifact` does to `asserted`. `StuckForEver`
and `ContradictedForEver` are the findings `backfill` and `direct_import` for every
instance and for the rest of time: no statement and no release repairs either.

**`ReplicaLedgerProofs`.** The invariant relates the transaction of the one open
migrator to the file it copied (each recorded version in order, rows kept) and the
versions applied by finished migrators to the file. Gives `RTypes`, `OneHistoryHolds`,
`ReplicasAreKept` for any migrators, targets and objects. `MigrationsAreAtomic` is the
refinement of `ReplicaStore`: only `Commit` moves the versions, to the head of the release
at once, because the transaction's versions are the file's and those applied so far. It
is why `OccurrenceLedger` and `Inspection` may take `migrate` as one step (`Migrate`,
`Upgrade`).

Every invariant and action property of a passing run is stated by a theorem. Only
model-checked: the liveness
properties `CallsReturn`, `RunsEnd` and `Converges`; temporal proofs under fairness are
out of the prover's reach. Of the first two the step bounds above are proved, which
leaves that a step is enabled while there are any left; `Converges` also needs that
retries come and meet a free lock. The mapping of `ISpec` or `XSpec` to `Spec` is proved
step by step with faults of readers as stutters of the ledger, because a snapshot that
fails counts as an interruption without being one of a call.

## What is abstracted

* Bytes are the classes the code can tell apart: exact or not, torn or whole.
* The path guards and preflight checks of `process.py:761` are `Fail` with
  "filesystem": they read and raise. The schema-version check and an `ffprobe`
  that will not start are part of the gate. SQLite errors that escape unmapped
  are "database": both end the call without an effect.
* Two branches cannot be reached while the lock is held and are left out: a
  quarantine destination with other bytes under the same hash, and a partial that
  appears between the check and `O_EXCL`.
* A `FOREIGN` row stands for any row under the job id or identity that
  contradicts the other; which column differs does not matter to the call. A `COMPLETE`
  row is compared by state and output only (`process.py:573-576`, `619`): one with exact
  artifact and lineage under this job id, and other identity columns, would be adopted.
  No code in `src` writes such a row, and it is left out.
* A crash is the death of the process: the page cache survives. `Durability` tells
  which bytes an fsync has covered, but losing the others, and directory entries
  whose parents were never synced, is not an action.
* The file system is local and POSIX: `link` is atomic and never replaces.
* Manifests and contexts of `run_exact` that are malformed are refused before
  anything is read and are left out; a hash of a manifest is the manifest.
* Contracts: SHA-256 does not collide on the records compared, so a digest is what it
  is taken of. Authority and evidence references are part of the digest of an
  observation. Counts are zero or not. Times of approvals are not compared by the
  code and are left out.
* `Inspection` names the counts that the pilot fills in; those it always sets to zero
  are in `Zero`. Printing and exit codes are left out.
* `OccurrenceLedger` fixes what an occurrence id determines (source, session,
  sequence: the id is their hash, `register.py:87`), registers all artifacts in
  advance, names manifests by their layout, and leaves out the artifact column of
  intents (no constraint relates it to the capture), the publication columns of
  the outbox, changes to artifacts before version 4, and the refusal of drifted or
  newer histories, which changes nothing.
* `ReplicaLedger` starts at version 8 and lets writers use plain statements (see the
  remark on INSERT OR REPLACE); a history with another name for a version takes the
  path of a database ahead of the code.

## Not modelled

* **Worker CLI** (`cli.py`, `_cli.py`, `provenance.py`): parses, calls and prints; it
  keeps no state and decides nothing the worker has not decided.
* **Registration planning** (`register.py`, `finalize.py`) and **occurrence staging** (upper
  half of `staging.py`): pure validation and value building, and file primitives. The
  command that orders them - PREPARED row, partials, publication, COMPLETE - is not in
  the repository, so there is no protocol here to be faithful to. Its effect on the
  system is the external `Register` action, and any order of statements in
  `OccurrenceLedger`.
* **Media verification** and **fingerprints**: one Boolean per input and the identity of
  a job; the rest is `ffprobe`, hashing and formatting.
* **Text columns**: the CHECKs on formats of ids, hashes and times in `migrations.py`.
* **Synthetic demo** and **deployment**: drivers and infrastructure without logic of
  the system.

## Findings

`prepared_resumed`. `docs/portfolio-overview.md:14` calls a committed PREPARED job
"a resumable checkpoint". It is one only while its input keeps exactly one
assertion. If another occurrence of the same media is registered between the
interruption and the retry, the worker's snapshot no longer lists the input
(`worker.py:205`) and a direct call refuses it (`process.py:541`): the job stays
PREPARED. TLC shows it with a worker that is restarted for ever.

`backfill`. `migrations.py:810` promises an assertion for "every existing COMPLETE
occurrence". Before version 7 two occurrences of one source may carry the same
bytes, hence one artifact; the backfill gives both the manifest of that artifact
in a UNIQUE column (`migrations.py:1049`, `974`) and fails. All missing versions are
one transaction, so such a ledger cannot be migrated past version 6 by any later
release.

`direct_import`. `migrations.py:611` says what the completion of an import job
requires. The trigger checks it on UPDATE only; the table accepts a job that is
COMPLETE when it is inserted (`migrations.py:507`), with none of it.

`denied_execution`. `derive_receipt_status` has a status for an execution its tool
answered with DENIED (`model.py:747-748`). `StructuredReceipt` refuses every receipt of
that status that binds an execution (`model.py:670`), so the records of such a
lifecycle, valid and bound to each other, can never be concluded.

`unsynced_partial`. The docstring of `_produce_and_publish` says "partials →
fsync/verify → publish" (`process.py:698`). A call that is killed between `flush` and
the return of `fsync`, or whose `fsync` raises, leaves a whole partial; the next call compares its bytes, adopts it
without an fsync (`process.py:811-813`), links it and commits COMPLETE. After a loss of
power such a job may have a torn report.

## Remarks on the code

Found while modelling; no document promises otherwise, so they are not findings.

* An exact processor proposal (`propose_processor_successor`) can be approved and
  executed but never receipted: `validate_processor_proposal`, which the receipt builder
  calls, compares against the plain parameters (`processor.py:299-326`).
* An approval has no time in its digest: it revives when the observation it was
  given for comes back. `execution_limit` is 1 (`model.py:432`) and nothing counts.
* `_TRANSITIONS` (`model.py:675-691`) leads from EXECUTED to a receipt over VERIFIED or
  ESCALATED only, and to EXECUTED over an approval only; the receipt builder also
  concludes executions that failed or were not verified, and readbacks that need no
  approval. Nothing in `src` uses the table.
* `TARGET_UNAVAILABLE` is classified RETRY but admits `PROPOSE_VERIFY` unless the source is
  unavailable, too.
* The core is documented as one-shot (`pilot.py:377`), but its flag is tested and set
  without a lock (`pilot.py:394-396`): clients of two tools, or of none, may both
  inspect. The model lets them; the properties of `Inspection` hold all the same.
* `INSERT OR REPLACE` passes the guards of both replica tables: delete triggers do not
  fire for replaced rows unless `recursive_triggers` is on.
* The result of `PRAGMA foreign_key_check` inside a migration is never read; what keeps
  the promise are the foreign keys that fail the statement or the commit.
* Directories made with `mkdir(parents=True)` are not synced in their own parents, and
  finals that are adopted on a retry are not synced again.
