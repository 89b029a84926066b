------------------------------- MODULE Contracts -------------------------------
(***************************************************************************)
(* The records of processor/contracts/model.py on their way from an        *)
(* observation to a receipt: observation, classification, proposal, owner  *)
(* approval, execution, verification, receipt.                             *)
(*                                                                         *)
(* Records are immutable and bound to each other by digest, nothing is     *)
(* ever withdrawn, and nobody orders them: an approval may arrive after    *)
(* the world has changed, an executor may use an old approval, a verifier  *)
(* may look at another execution.  So records are kept in sets that only   *)
(* grow, and build_structured_receipt may be called with any of them.      *)
(* Proposers, classifiers, validators and the receipt builder are the code *)
(* of src; owners, executors and verifiers are outside of it, and what     *)
(* they may hand in is bounded by the records' __post_init__ only.         *)
(***************************************************************************)
EXTENDS Receipts

CONSTANTS
  Observations,  \* the observations the world can give rise to
  Slips,         \* ways in which a hand-made proposal for each of them differs
                 \* from the policy
  Becomes,       \* what the world may say next, for each of them
  Limit          \* how many records of each sort there may be, for each of them

SlipKinds == {"none", "operation", "class", "disposition", "mutation", "approval",
              "required", "params", "version"}
Sorts == {"change", "proposal", "decision", "execution", "verification", "receipt"}

ASSUME ContractsAssumption ==
  /\ Observations # {}
  /\ Observations \subseteq ProcessorObservations \cup ReplicationObservations
  /\ Slips \in [Observations -> SUBSET SlipKinds]
  /\ Becomes \in [Observations -> SUBSET Observations]
  /\ Limit \in [Observations -> [Sorts -> Nat]]

VARIABLES
  now,            \* what an observation taken now would say
  changes,        \* how often that has changed
  proposals, decisions, executions, verifications, receipts

vars == <<now, changes, proposals, decisions, executions, verifications, receipts>>

\* Every record binds records that exist.
TypeOK ==
  /\ now \in Observations
  /\ changes \in Nat
  /\ \A p \in proposals : p.obs \in Observations /\ Constructible(p)
  /\ \A a \in decisions : a.prop \in proposals /\ a.outcome \in Outcomes
  /\ \A e \in executions :
       /\ e.prop \in proposals
       /\ e.appr \in decisions \cup {None}
       /\ e.status \in ExecutionStates
  /\ \A v \in verifications : v.exec \in executions /\ v.status \in CheckStates
  /\ \A r \in receipts :
       /\ r.prop \in proposals
       /\ r.appr \in decisions \cup {None}
       /\ r.exec \in executions \cup {None}
       /\ r.check \in verifications \cup {None}
       /\ r.status \in ReceiptStates

Init ==
  /\ now \in Observations
  /\ changes = 0
  /\ proposals = {}
  /\ decisions = {}
  /\ executions = {}
  /\ verifications = {}
  /\ receipts = {}

Room(S, sort) == Cardinality(S) < Limit[now][sort]

--------------------------------------------------------------------------------
\* Observing and proposing

\* A worker ran, a target came or went: the next observation differs.  It may
\* be one that was made before.
Change(o) ==
  /\ changes < Limit[now]["change"]
  /\ o \in Becomes[now]
  /\ now' = o
  /\ changes' = changes + 1
  /\ UNCHANGED <<proposals, decisions, executions, verifications, receipts>>

Issue(p) ==
  /\ Room(proposals, "proposal")
  /\ proposals' = proposals \cup {p}
  /\ UNCHANGED <<now, changes, decisions, executions, verifications, receipts>>

\* propose_processor, propose_replication
Propose == Consistent(now) /\ Issue(WaveCProposal(now))

\* propose_processor_successor, propose_exact_replication_action; the former
\* validates what it built.
ProposeExact(i) ==
  LET params == ExactManifest(i, 1, FALSE)
      p      == ExactProposal(now, params)
  IN  /\ CanProposeExact(now, params)
      /\ now.service = "processor" => SuccessorValid(p, params)
      /\ Issue(p)

\* A proposal built with the constructor: as the policy has it for an operation
\* and a phase, or with one slip.
If(kind, o, drafts) == IF kind \in Slips[o] THEN drafts ELSE {}
Slipped(p) ==
  If("class", p.obs, {[p EXCEPT !.class.code = c] : c \in {"CONVERGED", "MISSING_BACKLOG"}})
  \cup
  If("disposition", p.obs, {[p EXCEPT !.disposition = d] : d \in {"ALLOW", "ESCALATE"}})
  \cup
  If("mutation", p.obs, {[p EXCEPT !.mutation = m] :
                           m \in {"READ_ONLY", "PROPOSAL_ONLY", "BOUNDED_EXECUTION"}})
  \cup
  If("approval", p.obs, {[p EXCEPT !.approval = a] : a \in {"NONE", "EXPLICIT_OWNER"}})
  \cup
  If("required", p.obs, {[p EXCEPT !.required = {"worker-receipt"}]})
  \cup
  If("params", p.obs, {[p EXCEPT !.params = q] :
                         q \in {NoParameters} \cup {ExpectSnapshot(i) : i \in Inputs}
                           \cup {ExactManifest(i, c, t) : i \in Inputs, c \in 0..1,
                                                          t \in BOOLEAN}})
  \cup
  If("version", p.obs, {[p EXCEPT !.version = "exact-action"]})

AsPolicy(ops) ==
  {Frozen(now, op, phase, Parameters(now, op), "policy") : op \in ops, phase \in Phases}

Drafts ==
  {p \in (UNION {Slipped(q) : q \in AsPolicy(Allowed(now))})
           \cup AsPolicy(IF "operation" \in Slips[now] THEN Operations ELSE {}) :
     Constructible(p)}

Draft == Room(proposals, "proposal") /\ \E p \in Drafts : Issue(p)

--------------------------------------------------------------------------------
\* Owner, executor, verifier

\* build_processor_owner_approval takes exact invocations only; replication has
\* no builder, its owner is asked about invocations as well.
Decide(p, outcome) ==
  /\ Room(decisions, "decision")
  /\ p.op \in InvokeOps
  /\ decisions' = decisions \cup {[prop |-> p, outcome |-> outcome]}
  /\ UNCHANGED <<now, changes, proposals, executions, verifications, receipts>>

\* ExecutionResult: only an invocation has a tool.  A checked execution passed
\* validate_processor_owner_approval with the observation of its own moment
\* before it ran; at is history.  An unchecked one took any approval or none,
\* and any parameters.
Execute(p, a, input, status, checked) ==
  /\ Room(executions, "execution")
  /\ p.op \in InvokeOps
  /\ checked => a # None /\ ApprovalBinds(a, p, now) /\ input = p.params
  /\ executions' = executions \cup
       {[prop |-> p, appr |-> a, input |-> input, status |-> status,
         checked |-> checked, at |-> now]}
  /\ UNCHANGED <<now, changes, proposals, decisions, verifications, receipts>>

\* VerificationResult.__post_init__: FAIL and ESCALATE name mismatches and no
\* other status does; a PASS proves something.
Verify(e, proven, status) ==
  /\ Room(verifications, "verification")
  /\ status = "PASS" => proven # {}
  /\ verifications' = verifications \cup
       {[exec |-> e, proven |-> proven, status |-> status]}
  /\ UNCHANGED <<now, changes, proposals, decisions, executions, receipts>>

--------------------------------------------------------------------------------
\* build_structured_receipt, called with any records at hand
Conclude(p, a, e, v) ==
  /\ Room(receipts, "receipt")
  /\ Acceptable(p, a, e, v)
  /\ receipts' = receipts \cup {Receipt(p, a, e, v)}
  /\ UNCHANGED <<now, changes, proposals, decisions, executions, verifications>>

--------------------------------------------------------------------------------
\* Parameters an executor may have been handed: those of any proposal of the
\* same operation.
Handed(p) == {q.params : q \in {r \in proposals : r.op = p.op}}

Next ==
  \/ \E o \in Becomes[now] : Change(o)
  \/ Propose
  \/ \E i \in Inputs : ProposeExact(i)
  \/ Draft
  \/ \E p \in proposals, outcome \in Outcomes : Decide(p, outcome)
  \/ \E p \in proposals, a \in decisions \cup {None}, status \in ExecutionStates,
        checked \in BOOLEAN :
       \E input \in Handed(p) : Execute(p, a, input, status, checked)
  \/ \E e \in executions, status \in CheckStates :
       \E proven \in {e.prop.required, e.prop.required \ {"worker-receipt"}, {}} :
         Verify(e, proven, status)
  \/ \E p \in proposals, a \in decisions \cup {None}, e \in executions \cup {None},
        v \in verifications \cup {None} : Conclude(p, a, e, v)

Spec == Init /\ [][Next]_vars

--------------------------------------------------------------------------------
(***************************************************************************)
(* Properties                                                              *)
(***************************************************************************)

\* A receipt tells one story: its approval decides on its proposal, its execution
\* ran that proposal's parameters under that approval, its verification looked
\* at that execution.  No mixture of records of superseded proposals, late
\* executions and other verifications gets through build_structured_receipt.
ReceiptIsOneStory ==
  \A r \in receipts :
    /\ r.appr # None => r.appr.prop = r.prop
    /\ r.exec # None => /\ r.exec.prop = r.prop
                       /\ r.exec.input = r.prop.params
                       /\ r.exec.appr = r.appr
    /\ r.check # None => r.exec # None /\ r.check.exec = r.exec

\* VERIFIED means that the tool ran to its end and that every readback the policy
\* demands for the operation was proven without a mismatch; nothing that was
\* refused, failed, skipped or merely not looked at is receipted as verified.
VerifiedIsProven ==
  \A r \in receipts : r.status = "VERIFIED" =>
    /\ r.exec.status = "EXECUTED"
    /\ r.check.status = "PASS"
    /\ Verification(r.prop.op) \subseteq r.check.proven

\* Whatever a hand-made proposal says of itself: wave C is read-only, and no run,
\* reconciliation or worker invocation is receipted unless the owner approved that
\* very proposal and the execution names that approval.  Only a replication
\* readback needs none.
OwnerDecided ==
  \A r \in receipts :
    /\ r.prop.phase = "WAVE_C" =>
         r.status = "READ_ONLY_COMPLETE" /\ r.appr = None /\ r.exec = None
    /\ r.exec # None =>
         \/ r.prop.op = "INVOKE_VERIFY"
         \/ /\ r.exec.appr \in decisions
            /\ r.exec.appr = [prop |-> r.prop, outcome |-> "APPROVE"]

\* No action in doubt: an execution is receipted only for an observation without
\* integrity failure, identity conflict or unreachable source, and a mutating one
\* only where the classifier asked for a proposal and everything was reachable.
Sound(o) ==
  IF o.service = "processor"
    THEN o.integrity = "PASS" /\ "identity_conflict" \notin o.nonzero
    ELSE /\ o.identity \in {"MATCH", "UNAVAILABLE"}
         /\ o.provider # "FAIL"
         /\ o.source = "PASS"
NoActionInDoubt ==
  \A r \in receipts : r.exec # None =>
    /\ Sound(r.prop.obs)
    /\ r.prop.op # "INVOKE_VERIFY" =>
         /\ r.prop.class.action = "PROPOSE"
         /\ r.prop.obs.service = "replication" => ~Unreachable(r.prop.obs)

\* An executor that asks validate_processor_owner_approval before it runs never
\* runs a superseded proposal: the world at that moment is the one the owner
\* was shown, however the world changed between decision and execution.
CheckedIsFresh ==
  \A e \in executions : e.checked =>
    /\ e.at = e.prop.obs
    /\ [prop |-> e.prop, outcome |-> "APPROVE"] \in decisions

\* Every observation that is consistent in itself has a wave-C proposal the
\* validators accept and a read-only receipt: classifier, proposer, policy and
\* validator agree on all of them.  (What is recorded already plays no part.)
ReadOnlyPath ==
  proposals = {} /\ Consistent(now) =>
    /\ Acceptable(WaveCProposal(now), None, None, None)
    /\ Receipt(WaveCProposal(now), None, None, None).status = "READ_ONLY_COMPLETE"

\* derive_receipt_status has a status for every execution result ("if
\* execution.status is ExecutionStatus.DENIED"), so an execution that is bound to
\* a valid proposal and its approval can be receipted.
ExecutionsAreReceipted ==
  \A e \in executions :
    ProposalValid(e.prop) /\ Ran(e.prop, e.appr, e, None)
      => ReceiptAllowed(Receipt(e.prop, e.appr, e, None))

================================================================================
