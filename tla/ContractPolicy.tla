----------------------------- MODULE ContractPolicy -----------------------------
(***************************************************************************)
(* The decision tables of processor/contracts: what an observation of a    *)
(* worker's authority is classified as, which operations a classification  *)
(* admits, what the mutation policy says of an operation, and which        *)
(* proposals the validators accept.  Everything here is a pure function.   *)
(*                                                                         *)
(* A digest is the value it is taken of: canonical_sha256 is injective on  *)
(* the records compared here as long as SHA-256 does not collide, so a     *)
(* message that binds a digest holds the message it binds.  A count is     *)
(* known by whether it is zero; its number is part of the snapshot.        *)
(***************************************************************************)
EXTENDS Naturals, FiniteSets

CONSTANT Inputs   \* semantic inputs: the digests of the snapshots observed

Phases == {"WAVE_C", "FUTURE_SUCCESSOR"}
Codes  == {"INTEGRITY_FAILURE", "IDENTITY_CONFLICT", "UNAVAILABLE",
           "PREPARED_BACKLOG", "MISSING_BACKLOG", "DEFERRED_BUSY", "CONVERGED",
           "IDENTITY_MISMATCH", "SOURCE_INTEGRITY_FAILURE",
           "TARGET_VERIFICATION_FAILURE", "TARGET_UNAVAILABLE",
           "FAILED_PENDING", "UNREGISTERED_BACKLOG", "PENDING_BACKLOG",
           "NOT_CONFIGURED"}

ProcessorObservations ==
  [service   : {"processor"},
   input     : Inputs,
   integrity : {"PASS", "FAIL", "UNAVAILABLE"},
   nonzero   : SUBSET {"identity_conflict", "prepared", "missing", "deferred_lock"},
   findings  : SUBSET Codes]

ReplicationObservations ==
  [service  : {"replication"},
   input    : Inputs,
   identity : {"MATCH", "MISMATCH", "NOT_CONFIGURED", "UNAVAILABLE"},
   provider : {"PASS", "FAIL", "UNAVAILABLE"},
   source   : {"PASS", "FAIL", "UNAVAILABLE"},
   nonzero  : SUBSET {"failed_pending", "unregistered", "pending"},
   findings : SUBSET Codes]

--------------------------------------------------------------------------------
\* Findings and classification

\* A finding per condition that holds; CONVERGED when none does.
ProcessorFindings(o) ==
  LET found == {code \in Codes :
        \/ code = "INTEGRITY_FAILURE" /\ o.integrity = "FAIL"
        \/ code = "UNAVAILABLE"       /\ o.integrity = "UNAVAILABLE"
        \/ code = "IDENTITY_CONFLICT" /\ "identity_conflict" \in o.nonzero
        \/ code = "PREPARED_BACKLOG"  /\ "prepared" \in o.nonzero
        \/ code = "MISSING_BACKLOG"   /\ "missing" \in o.nonzero
        \/ code = "DEFERRED_BUSY"     /\ "deferred_lock" \in o.nonzero}
  IN  IF found = {} THEN {"CONVERGED"} ELSE found

Unreachable(o) == "UNAVAILABLE" \in {o.identity, o.source, o.provider}

ReplicationFindings(o) ==
  LET found == {code \in Codes :
        \/ code = "IDENTITY_MISMATCH"           /\ o.identity = "MISMATCH"
        \/ code = "NOT_CONFIGURED"              /\ o.identity = "NOT_CONFIGURED"
        \/ code = "SOURCE_INTEGRITY_FAILURE"    /\ o.source = "FAIL"
        \/ code = "TARGET_VERIFICATION_FAILURE" /\ o.provider = "FAIL"
        \/ code = "TARGET_UNAVAILABLE"          /\ Unreachable(o)
        \/ code = "FAILED_PENDING"              /\ "failed_pending" \in o.nonzero
        \/ code = "UNREGISTERED_BACKLOG"        /\ "unregistered" \in o.nonzero
        \/ code = "PENDING_BACKLOG"             /\ "pending" \in o.nonzero}
  IN  IF found = {} THEN {"CONVERGED"} ELSE found

Findings(o) ==
  IF o.service = "processor" THEN ProcessorFindings(o) ELSE ReplicationFindings(o)

\* Mutant: a backlog is looked at before the integrity of the authority.
ProcessorOrderBacklogFirst ==
  <<"PREPARED_BACKLOG", "MISSING_BACKLOG", "INTEGRITY_FAILURE",
    "IDENTITY_CONFLICT", "UNAVAILABLE", "DEFERRED_BUSY", "CONVERGED">>

\* The order in which the classifiers ask; the first finding that holds wins.
ProcessorOrder ==
  <<"INTEGRITY_FAILURE", "IDENTITY_CONFLICT", "UNAVAILABLE",
    "PREPARED_BACKLOG", "MISSING_BACKLOG", "DEFERRED_BUSY", "CONVERGED">>

ReplicationOrder ==
  <<"IDENTITY_MISMATCH", "SOURCE_INTEGRITY_FAILURE",
    "TARGET_VERIFICATION_FAILURE", "NOT_CONFIGURED", "TARGET_UNAVAILABLE",
    "FAILED_PENDING", "UNREGISTERED_BACKLOG", "PENDING_BACKLOG", "CONVERGED">>

First(order, found) ==
  CHOOSE n \in DOMAIN order : order[n] \in found /\ \A m \in 1..(n - 1) : order[m] \notin found

Order(o)   == IF o.service = "processor" THEN ProcessorOrder ELSE ReplicationOrder
Primary(o) == Order(o)[First(Order(o), Findings(o))]

Actionability(code) ==
  CASE code = "CONVERGED" -> "NONE"
    [] code \in {"UNAVAILABLE", "DEFERRED_BUSY", "TARGET_UNAVAILABLE"} -> "RETRY"
    [] code \in {"PREPARED_BACKLOG", "MISSING_BACKLOG", "FAILED_PENDING",
                 "UNREGISTERED_BACKLOG", "PENDING_BACKLOG"} -> "PROPOSE"
    [] OTHER -> "ESCALATE"

\* It is bound to the observation by standing beside it in a proposal.
Classify(o) ==
  LET code == Primary(o) IN [code |-> code, action |-> Actionability(code)]

\* The classifier refuses an observation whose findings contradict its state,
\* the validator every classification but the classifier's own.
Consistent(o) == o.findings = Findings(o)
ClassificationValid(c, o) == Consistent(o) /\ c = Classify(o)

--------------------------------------------------------------------------------
\* The mutation matrix

ReadOps     == {"READ_OBSERVATION", "CLASSIFY", "EXPLAIN", "NO_ACTION",
                "RETRY_OBSERVATION"}
ProposeOps  == {"PROPOSE_CATCH_UP", "PROPOSE_VERIFY", "PROPOSE_RECONCILE",
                "PROPOSE_RUN"}
InvokeOps   == {"INVOKE_WORKER_RUN", "INVOKE_VERIFY", "INVOKE_RECONCILE",
                "INVOKE_RUN"}
EscalateOps == {"ESCALATE_STATE", "CHANGE_PROCESSOR_IDENTITY", "INITIALIZE_TARGET",
                "CHANGE_TARGET_IDENTITY", "CHANGE_TARGET_ROOT",
                "CHANGE_TARGET_MARKER_CONTENT", "CHANGE_TARGET_MARKER_METADATA",
                "CHANGE_TARGET_NAMESPACE", "CHANGE_DATABASE_BINDING"}
OperatorOps == {"RUN_MIGRATIONS", "PROVISION_PROVIDER", "CHANGE_IAM_OR_CREDENTIALS"}
ForbidOps   == {"DIRECT_DATABASE_MUTATION", "DIRECT_SPOOL_MUTATION", "BYPASS_LOCK",
                "GENERAL_SHELL", "BYPASS_COLLISION", "WEAKEN_IMMUTABILITY",
                "DIRECT_FINAL_OBJECT_MUTATION", "DIRECT_PARTIAL_CLEANUP",
                "GENERAL_PROVIDER_API", "DESTRUCTIVE_PROVIDER_ACTION"}
Operations  == UNION {ReadOps, ProposeOps, InvokeOps, EscalateOps, OperatorOps,
                      ForbidOps}

Policy(waveC, future, approval, mutation) ==
  [waveC |-> waveC, future |-> future, approval |-> approval, mutation |-> mutation]

\* resolve_processor_policy, resolve_replication_policy: deny by default.
Row(op) ==
  CASE op \in ReadOps     -> Policy("ALLOW", "ALLOW", "NONE", "READ_ONLY")
    [] op \in ProposeOps  -> Policy("ALLOW", "ALLOW", "NONE", "PROPOSAL_ONLY")
    [] op = "INVOKE_VERIFY" -> Policy("FORBID", "ALLOW", "NONE", "BOUNDED_EXECUTION")
    [] op \in InvokeOps \ {"INVOKE_VERIFY"} ->
         Policy("FORBID", "ALLOW", "EXPLICIT_OWNER", "BOUNDED_EXECUTION")
    [] op \in EscalateOps ->
         Policy("ESCALATE", "ESCALATE", "SEPARATE_DESIGN_AUTHORITY", "ESCALATION_ONLY")
    [] op = "RUN_MIGRATIONS" ->
         Policy("FORBID", "FORBID", "OPERATOR_OWNED", "ESCALATION_ONLY")
    [] op \in OperatorOps \ {"RUN_MIGRATIONS"} ->
         Policy("FORBID", "ESCALATE", "OPERATOR_OWNED", "ESCALATION_ONLY")
    [] OTHER -> Policy("FORBID", "FORBID", "NOT_APPROVABLE", "FORBIDDEN")

Disposition(op, phase) == IF phase = "WAVE_C" THEN Row(op).waveC ELSE Row(op).future

\* verification_requirement_codes, never empty.
Verification(op) ==
  CASE op = "INVOKE_WORKER_RUN" -> {"lineage-readback", "state-readback", "worker-receipt"}
    [] op = "INVOKE_VERIFY" -> {"provider-readback", "target-identity-readback",
                                "worker-receipt"}
    [] op = "INVOKE_RECONCILE" -> {"database-readback", "provider-readback",
                                   "worker-receipt"}
    [] op = "INVOKE_RUN" -> {"independent-target-verification", "provider-readback",
                             "worker-receipt"}
    [] OTHER -> {"readback"}

--------------------------------------------------------------------------------
\* Which operations a classification admits, and the proposal made of them

\* _allowed_operations of both services.
Allowed(o) ==
  LET code == Primary(o)
  IN  CASE code = "CONVERGED" -> {"NO_ACTION"}
        [] code \in {"DEFERRED_BUSY", "UNAVAILABLE"} -> {"RETRY_OBSERVATION"}
        [] code \in {"MISSING_BACKLOG", "PREPARED_BACKLOG"} ->
             {"PROPOSE_CATCH_UP", "INVOKE_WORKER_RUN"}
        [] code = "TARGET_UNAVAILABLE" ->
             IF o.source = "UNAVAILABLE" THEN {"RETRY_OBSERVATION"}
                                         ELSE {"PROPOSE_VERIFY", "INVOKE_VERIFY"}
        [] code = "FAILED_PENDING" -> {"PROPOSE_RECONCILE", "INVOKE_RECONCILE"}
        [] code \in {"UNREGISTERED_BACKLOG", "PENDING_BACKLOG"} ->
             {"PROPOSE_RUN", "INVOKE_RUN"}
        [] OTHER -> {"ESCALATE_STATE"}

\* exact_parameters: none, the expected snapshot, or an item-level manifest.
NoParameters       == [form |-> "none"]
ExpectSnapshot(i)  == [form |-> "snapshot", input |-> i]
ExactManifest(i, count, retry) ==
  [form |-> "exact", input |-> i, count |-> count, retry |-> retry]

Parameters(o, op) ==
  IF op = "NO_ACTION" THEN NoParameters ELSE ExpectSnapshot(o.input)

\* A proposal whose policy fields are those of the matrix.
Frozen(o, op, phase, params, version) ==
  [obs |-> o, class |-> Classify(o), op |-> op, phase |-> phase,
   disposition |-> Disposition(op, phase), mutation |-> Row(op).mutation,
   approval |-> Row(op).approval, required |-> Verification(op),
   params |-> params, version |-> version]

\* Proposal.__post_init__
Constructible(p) ==
  p.disposition # "FORBID" /\ p.mutation # "FORBIDDEN" /\ p.required # {}

\* propose_processor, propose_replication: the one wave-C operation admitted.
WaveCOperation(o) == CHOOSE op \in Allowed(o) : op \notin InvokeOps
WaveCProposal(o) ==
  Frozen(o, WaveCOperation(o), "WAVE_C", Parameters(o, WaveCOperation(o)), "policy")

\* propose_processor_successor, propose_exact_replication_action.  Only the
\* processor's manifest must be the observed input; only replication knows retry.
CanProposeExact(o, params) ==
  /\ Consistent(o)
  /\ params.form = "exact"
  /\ params.count > 0
  /\ \/ /\ o.service = "processor"
        /\ "INVOKE_WORKER_RUN" \in Allowed(o)
        /\ params.input = o.input
     \/ /\ o.service = "replication"
        /\ "INVOKE_RUN" \in Allowed(o)
        /\ params.retry = FALSE
ExactProposal(o, params) ==
  IF o.service = "processor"
    THEN Frozen(o, "INVOKE_WORKER_RUN", "FUTURE_SUCCESSOR", params, "policy")
    ELSE Frozen(o, "INVOKE_RUN", "FUTURE_SUCCESSOR", params, "exact-action")

--------------------------------------------------------------------------------
\* Validators

\* Mutant: the policy fields of a proposal are taken at its word.
FieldsValidWithoutPolicy(p, params) ==
  /\ ClassificationValid(p.class, p.obs)
  /\ p.op \in Allowed(p.obs)
  /\ p.params = params

\* _validate_proposal_fields, the same for both services.
FieldsValid(p, params) ==
  /\ ClassificationValid(p.class, p.obs)
  /\ p.op \in Allowed(p.obs)
  /\ Disposition(p.op, p.phase) # "FORBID"
  /\ p = Frozen(p.obs, p.op, p.phase, params, "policy")

\* Validators of both services for the parameters the policy gives.
PlainValid(p) ==
  /\ p.params.form # "exact"
  /\ FieldsValid(p, Parameters(p.obs, p.op))

\* validate_processor_proposal: an exact (successor) proposal is turned away.
ProcessorProposalValid(p) == PlainValid(p)

\* validate_replication_proposal rebuilds an exact action and compares.
ReplicationProposalValid(p) ==
  \/ p.version = "policy" /\ PlainValid(p)
  \/ /\ p.version = "exact-action"
     /\ ClassificationValid(p.class, p.obs)
     /\ CanProposeExact(p.obs, p.params)
     /\ p = ExactProposal(p.obs, p.params)

\* _validate_classification_and_proposal
ProposalValid(p) ==
  IF p.obs.service = "processor"
    THEN ProcessorProposalValid(p) ELSE ReplicationProposalValid(p)

\* validate_processor_successor_proposal, against the parameters of the caller.
SuccessorValid(p, params) ==
  /\ params.count > 0
  /\ FieldsValid(p, params)
  /\ p.op = "INVOKE_WORKER_RUN"
  /\ p.phase = "FUTURE_SUCCESSOR"
  /\ params.input = p.obs.input

================================================================================
