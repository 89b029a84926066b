----------------------------- MODULE ContractsProofs -----------------------------
(***************************************************************************)
(* For any observations, any hand-made proposals and any number of records *)
(* of each sort: what build_structured_receipt concludes belongs together, *)
(* was decided by the owner, was proven and was not in doubt.              *)
(*                                                                         *)
(* The argument: records never change, so a receipt stays as acceptable as *)
(* it was when it was built (Built); the rest are lemmas about the tables. *)
(***************************************************************************)
EXTENDS Contracts, WellFoundedInduction, TLAPS

--------------------------------------------------------------------------------
\* The mutation matrix

\* Only invocations are executed.
LEMMA BoundedIsInvocation ==
  ASSUME NEW op, Row(op).mutation = "BOUNDED_EXECUTION"
  PROVE  op \in InvokeOps
BY DEF Row, Policy, ReadOps, ProposeOps, InvokeOps, EscalateOps, OperatorOps

\* What the policy says of invocations: not in wave C, and with the owner's
\* approval but for a readback.
LEMMA InvocationPolicy ==
  ASSUME NEW op \in InvokeOps
  PROVE  /\ Row(op).waveC = "FORBID"
         /\ Row(op).future = "ALLOW"
         /\ Row(op).mutation = "BOUNDED_EXECUTION"
         /\ Row(op).approval = IF op = "INVOKE_VERIFY" THEN "NONE" ELSE "EXPLICIT_OWNER"
BY DEF Row, Policy, ReadOps, ProposeOps, InvokeOps, EscalateOps, OperatorOps

\* What wave C may propose is constructible.
WaveCOps == ReadOps \cup ProposeOps \cup {"ESCALATE_STATE"}
LEMMA WaveCPolicy ==
  ASSUME NEW op \in WaveCOps
  PROVE  /\ Row(op).waveC # "FORBID"
         /\ Row(op).mutation \in {"READ_ONLY", "PROPOSAL_ONLY", "ESCALATION_ONLY"}
         /\ Row(op).approval \in {"NONE", "SEPARATE_DESIGN_AUTHORITY"}
BY DEF Row, Policy, WaveCOps, ReadOps, ProposeOps, InvokeOps, EscalateOps, OperatorOps

LEMMA SomethingIsRequired ==
  ASSUME NEW op
  PROVE  Verification(op) # {}
BY DEF Verification

\* What a classification admits is an invocation or belongs to wave C, and
\* something of it belongs to wave C.
LEMMA AllowedOperations ==
  ASSUME NEW o
  PROVE  /\ Allowed(o) \subseteq WaveCOps \cup InvokeOps
         /\ \E op \in Allowed(o) : op \notin InvokeOps
<1> DEFINE code == Primary(o)
<1>1. CASE code = "CONVERGED"
  BY <1>1 DEF Allowed, WaveCOps, ReadOps, ProposeOps, InvokeOps
<1>2. CASE code \in {"DEFERRED_BUSY", "UNAVAILABLE"}
  BY <1>2 DEF Allowed, WaveCOps, ReadOps, ProposeOps, InvokeOps
<1>3. CASE code \in {"MISSING_BACKLOG", "PREPARED_BACKLOG"}
  BY <1>3 DEF Allowed, WaveCOps, ReadOps, ProposeOps, InvokeOps
<1>4. CASE code = "TARGET_UNAVAILABLE"
  BY <1>4 DEF Allowed, WaveCOps, ReadOps, ProposeOps, InvokeOps
<1>5. CASE code = "FAILED_PENDING"
  BY <1>5 DEF Allowed, WaveCOps, ReadOps, ProposeOps, InvokeOps
<1>6. CASE code \in {"UNREGISTERED_BACKLOG", "PENDING_BACKLOG"}
  BY <1>6 DEF Allowed, WaveCOps, ReadOps, ProposeOps, InvokeOps
<1>7. CASE code \notin {"CONVERGED", "DEFERRED_BUSY", "UNAVAILABLE", "MISSING_BACKLOG",
                        "PREPARED_BACKLOG", "TARGET_UNAVAILABLE", "FAILED_PENDING",
                        "UNREGISTERED_BACKLOG", "PENDING_BACKLOG"}
  <2>1. Allowed(o) = {"ESCALATE_STATE"}
    BY <1>7 DEF Allowed
  <2> QED
    BY <2>1 DEF WaveCOps, InvokeOps
<1> QED
  BY <1>1, <1>2, <1>3, <1>4, <1>5, <1>6, <1>7

\* Which findings come first where an invocation is admitted.
LEMMA InvocationsAdmitted ==
  ASSUME NEW o, NEW op \in InvokeOps, op \in Allowed(o)
  PROVE  \/ Primary(o) \in {"MISSING_BACKLOG", "PREPARED_BACKLOG", "FAILED_PENDING",
                            "UNREGISTERED_BACKLOG", "PENDING_BACKLOG"}
         \/ Primary(o) = "TARGET_UNAVAILABLE" /\ op = "INVOKE_VERIFY"
            /\ o.source # "UNAVAILABLE"
BY DEF Allowed, InvokeOps

--------------------------------------------------------------------------------
\* The classifiers

\* Of the findings that hold, the first in the classifier's order is the answer.
LEMMA FirstFound ==
  ASSUME NEW order, NEW N \in Nat, DOMAIN order = 1..N, NEW found,
         \E n \in 1..N : order[n] \in found
  PROVE  /\ First(order, found) \in 1..N
         /\ order[First(order, found)] \in found
         /\ \A m \in 1..(First(order, found) - 1) : order[m] \notin found
<1> DEFINE T == {n \in 1..N : order[n] \in found}
           less == OpToRel(<, Nat)
<1>1. IsWellFoundedOn(less, Nat)
  BY NatLessThanWellFounded
<1>2. T \subseteq Nat /\ T # {}
  OBVIOUS
<1>3. PICK x \in T : \A y \in T : <<y, x>> \notin less
  <2> HIDE DEF T, less
  <2> QED
    BY <1>1, <1>2, WFMin
<1>4. \A y \in T : ~ (y < x)
  BY <1>2, <1>3 DEF OpToRel
<1>5. ASSUME NEW m \in 1..(x - 1) PROVE order[m] \notin found
  <2>1. x \in 1..N /\ m \in 1..N /\ m < x
    OBVIOUS
  <2>2. m \notin T
    BY <1>4, <2>1
  <2> QED
    BY <2>1, <2>2
<1> QED
  BY <1>3, <1>5 DEF First

\* What the classifiers can answer: a code of their own service.
LEMMA ProcessorAnswers ==
  ASSUME NEW o \in ProcessorObservations
  PROVE  /\ First(ProcessorOrder, ProcessorFindings(o)) \in 1..7
         /\ \A m \in 1..(First(ProcessorOrder, ProcessorFindings(o)) - 1) :
              ProcessorOrder[m] \notin ProcessorFindings(o)
         /\ Primary(o) = ProcessorOrder[First(ProcessorOrder, ProcessorFindings(o))]
         /\ Primary(o) \in {"INTEGRITY_FAILURE", "IDENTITY_CONFLICT", "UNAVAILABLE",
                            "PREPARED_BACKLOG", "MISSING_BACKLOG", "DEFERRED_BUSY",
                            "CONVERGED"}
<1> DEFINE found == ProcessorFindings(o)
           first == First(ProcessorOrder, found)
<1>1. /\ DOMAIN ProcessorOrder = 1..7
      /\ ProcessorOrder[1] = "INTEGRITY_FAILURE"
      /\ ProcessorOrder[2] = "IDENTITY_CONFLICT"
      /\ ProcessorOrder[3] = "UNAVAILABLE"
      /\ ProcessorOrder[4] = "PREPARED_BACKLOG"
      /\ ProcessorOrder[5] = "MISSING_BACKLOG"
      /\ ProcessorOrder[6] = "DEFERRED_BUSY"
      /\ ProcessorOrder[7] = "CONVERGED"
  BY DEF ProcessorOrder
<1>2. \E n \in 1..7 : ProcessorOrder[n] \in found
  <2>1. \E code \in {"INTEGRITY_FAILURE", "UNAVAILABLE", "IDENTITY_CONFLICT", "PREPARED_BACKLOG",
                     "MISSING_BACKLOG", "DEFERRED_BUSY", "CONVERGED"} : code \in found
    BY DEF ProcessorFindings, Codes
  <2> QED
    BY <1>1, <2>1
<1>3. /\ first \in 1..7
      /\ \A m \in 1..(first - 1) : ProcessorOrder[m] \notin found
  BY <1>1, <1>2, FirstFound
<1>4. Primary(o) = ProcessorOrder[first]
  BY DEF Primary, Order, Findings, ProcessorObservations
<1>5. Primary(o) \in {"INTEGRITY_FAILURE", "IDENTITY_CONFLICT", "UNAVAILABLE",
                      "PREPARED_BACKLOG", "MISSING_BACKLOG", "DEFERRED_BUSY",
                      "CONVERGED"}
  <2> HIDE DEF found, first
  <2> QED
    BY <1>1, <1>3, <1>4
<1> QED
  BY <1>3, <1>4, <1>5

LEMMA ReplicationAnswers ==
  ASSUME NEW o \in ReplicationObservations
  PROVE  /\ First(ReplicationOrder, ReplicationFindings(o)) \in 1..9
         /\ \A m \in 1..(First(ReplicationOrder, ReplicationFindings(o)) - 1) :
              ReplicationOrder[m] \notin ReplicationFindings(o)
         /\ Primary(o) = ReplicationOrder[First(ReplicationOrder, ReplicationFindings(o))]
         /\ Primary(o) \in {"IDENTITY_MISMATCH", "SOURCE_INTEGRITY_FAILURE",
                            "TARGET_VERIFICATION_FAILURE", "NOT_CONFIGURED",
                            "TARGET_UNAVAILABLE", "FAILED_PENDING",
                            "UNREGISTERED_BACKLOG", "PENDING_BACKLOG", "CONVERGED"}
<1> DEFINE found == ReplicationFindings(o)
           first == First(ReplicationOrder, found)
<1>1. /\ DOMAIN ReplicationOrder = 1..9
      /\ ReplicationOrder[1] = "IDENTITY_MISMATCH"
      /\ ReplicationOrder[2] = "SOURCE_INTEGRITY_FAILURE"
      /\ ReplicationOrder[3] = "TARGET_VERIFICATION_FAILURE"
      /\ ReplicationOrder[4] = "NOT_CONFIGURED"
      /\ ReplicationOrder[5] = "TARGET_UNAVAILABLE"
      /\ ReplicationOrder[6] = "FAILED_PENDING"
      /\ ReplicationOrder[7] = "UNREGISTERED_BACKLOG"
      /\ ReplicationOrder[8] = "PENDING_BACKLOG"
      /\ ReplicationOrder[9] = "CONVERGED"
  BY DEF ReplicationOrder
<1>2. \E n \in 1..9 : ReplicationOrder[n] \in found
  <2>1. \E code \in {"IDENTITY_MISMATCH", "SOURCE_INTEGRITY_FAILURE", "NOT_CONFIGURED",
                     "TARGET_VERIFICATION_FAILURE", "TARGET_UNAVAILABLE", "FAILED_PENDING",
                     "UNREGISTERED_BACKLOG", "PENDING_BACKLOG", "CONVERGED"} : code \in found
    BY DEF ReplicationFindings, Codes
  <2> QED
    BY <1>1, <2>1
<1>3. /\ first \in 1..9
      /\ \A m \in 1..(first - 1) : ReplicationOrder[m] \notin found
  BY <1>1, <1>2, FirstFound
<1>4. Primary(o) = ReplicationOrder[first]
  BY DEF Primary, Order, Findings, ReplicationObservations
<1>5. Primary(o) \in {"IDENTITY_MISMATCH", "SOURCE_INTEGRITY_FAILURE",
                      "TARGET_VERIFICATION_FAILURE", "NOT_CONFIGURED",
                      "TARGET_UNAVAILABLE", "FAILED_PENDING",
                      "UNREGISTERED_BACKLOG", "PENDING_BACKLOG", "CONVERGED"}
  <2> HIDE DEF found, first
  <2> QED
    BY <1>1, <1>3, <1>4
<1> QED
  BY <1>3, <1>4, <1>5

\* The processor's classifier sees to integrity and conflicts before a backlog.
LEMMA ProcessorPrimary ==
  ASSUME NEW o \in ProcessorObservations, Consistent(o),
         Primary(o) \in {"MISSING_BACKLOG", "PREPARED_BACKLOG"}
  PROVE  /\ o.integrity = "PASS"
         /\ "identity_conflict" \notin o.nonzero
<1> DEFINE found == ProcessorFindings(o)
           first == First(ProcessorOrder, found)
<1>1. /\ DOMAIN ProcessorOrder = 1..7
      /\ ProcessorOrder[1] = "INTEGRITY_FAILURE"
      /\ ProcessorOrder[2] = "IDENTITY_CONFLICT"
      /\ ProcessorOrder[3] = "UNAVAILABLE"
      /\ ProcessorOrder[4] = "PREPARED_BACKLOG"
      /\ ProcessorOrder[5] = "MISSING_BACKLOG"
      /\ ProcessorOrder[6] = "DEFERRED_BUSY"
      /\ ProcessorOrder[7] = "CONVERGED"
  BY DEF ProcessorOrder
<1>2. /\ first \in 1..7
      /\ \A m \in 1..(first - 1) : ProcessorOrder[m] \notin found
      /\ Primary(o) = ProcessorOrder[first]
  BY ProcessorAnswers
<1>3. first \in {4, 5}
  <2> HIDE DEF first
  <2> QED
    BY <1>1, <1>2
<1>4. {"INTEGRITY_FAILURE", "IDENTITY_CONFLICT", "UNAVAILABLE"} \cap found = {}
  <2> HIDE DEF first, found
  <2>1. \A m \in 1..3 : ProcessorOrder[m] \notin found
    BY <1>2, <1>3
  <2> QED
    BY <1>1, <2>1
<1> QED
  BY <1>4 DEF ProcessorFindings, Codes, ProcessorObservations

\* The replication classifier sees to identity, source and target before
\* reachability, and to reachability before a backlog.
LEMMA ReplicationPrimary ==
  ASSUME NEW o \in ReplicationObservations, Consistent(o),
         Primary(o) \in {"TARGET_UNAVAILABLE", "FAILED_PENDING", "UNREGISTERED_BACKLOG",
                         "PENDING_BACKLOG"}
  PROVE  /\ o.identity \in {"MATCH", "UNAVAILABLE"}
         /\ o.source # "FAIL"
         /\ o.provider # "FAIL"
         /\ Primary(o) # "TARGET_UNAVAILABLE" => ~Unreachable(o)
<1> DEFINE found == ReplicationFindings(o)
           first == First(ReplicationOrder, found)
<1>1. /\ DOMAIN ReplicationOrder = 1..9
      /\ ReplicationOrder[1] = "IDENTITY_MISMATCH"
      /\ ReplicationOrder[2] = "SOURCE_INTEGRITY_FAILURE"
      /\ ReplicationOrder[3] = "TARGET_VERIFICATION_FAILURE"
      /\ ReplicationOrder[4] = "NOT_CONFIGURED"
      /\ ReplicationOrder[5] = "TARGET_UNAVAILABLE"
      /\ ReplicationOrder[6] = "FAILED_PENDING"
      /\ ReplicationOrder[7] = "UNREGISTERED_BACKLOG"
      /\ ReplicationOrder[8] = "PENDING_BACKLOG"
      /\ ReplicationOrder[9] = "CONVERGED"
  BY DEF ReplicationOrder
<1>2. /\ first \in 1..9
      /\ \A m \in 1..(first - 1) : ReplicationOrder[m] \notin found
      /\ Primary(o) = ReplicationOrder[first]
  BY ReplicationAnswers
<1>3. first \in 5..8 /\ (Primary(o) # "TARGET_UNAVAILABLE" => first # 5)
  <2> HIDE DEF first
  <2> QED
    BY <1>1, <1>2
<1>4. /\ {"IDENTITY_MISMATCH", "SOURCE_INTEGRITY_FAILURE", "TARGET_VERIFICATION_FAILURE",
          "NOT_CONFIGURED"} \cap found = {}
      /\ Primary(o) # "TARGET_UNAVAILABLE" => "TARGET_UNAVAILABLE" \notin found
  <2> HIDE DEF first, found
  <2>1. \A m \in 1..4 : ReplicationOrder[m] \notin found
    BY <1>2, <1>3
  <2>2. Primary(o) # "TARGET_UNAVAILABLE" => ReplicationOrder[5] \notin found
    BY <1>2, <1>3
  <2> QED
    BY <1>1, <2>1, <2>2
<1> QED
  BY <1>4 DEF ReplicationFindings, Codes, ReplicationObservations

--------------------------------------------------------------------------------
\* What proposers and drafts make can be constructed

LEMMA WaveCConstructible ==
  ASSUME NEW o
  PROVE  /\ Constructible(WaveCProposal(o))
         /\ WaveCProposal(o).obs = o
<1> DEFINE op == WaveCOperation(o)
<1>1. op \in WaveCOps
  BY AllowedOperations DEF WaveCOperation
<1> QED
  BY <1>1, WaveCPolicy, SomethingIsRequired
  DEF WaveCProposal, Frozen, Constructible, Disposition

LEMMA ExactConstructible ==
  ASSUME NEW o, NEW params
  PROVE  /\ Constructible(ExactProposal(o, params))
         /\ ExactProposal(o, params).obs = o
<1>1. "INVOKE_WORKER_RUN" \in InvokeOps /\ "INVOKE_RUN" \in InvokeOps
  BY DEF InvokeOps
<1> QED
  BY <1>1, InvocationPolicy, SomethingIsRequired
  DEF ExactProposal, Frozen, Constructible, Disposition

LEMMA DraftsConstructible ==
  ASSUME NEW p \in Drafts
  PROVE  Constructible(p) /\ p.obs = now
<1>1. ASSUME NEW ops, NEW q \in AsPolicy(ops)
      PROVE  q.obs = now
  BY <1>1 DEF AsPolicy, Frozen
<1>2. ASSUME NEW ops, NEW q \in AsPolicy(ops), NEW r \in Slipped(q)
      PROVE  r.obs = now
  BY <1>2 DEF Slipped, If, AsPolicy, Frozen
<1> DEFINE slipped == (UNION {Slipped(q) : q \in AsPolicy(Allowed(now))})
           others  == AsPolicy(IF "operation" \in Slips[now] THEN Operations ELSE {})
<1>3. Constructible(p) /\ p \in slipped \cup others
  BY DEF Drafts
<1>4. CASE p \in slipped
  <2>1. PICK q \in AsPolicy(Allowed(now)) : p \in Slipped(q)
    BY <1>4
  <2> QED
    BY <1>2, <1>3, <2>1
<1>5. CASE p \in others
  BY <1>1, <1>3, <1>5
<1> HIDE DEF slipped, others
<1> QED
  BY <1>3, <1>4, <1>5

--------------------------------------------------------------------------------
\* The inductive invariant

Proposals  == {p \in proposals : p.obs \in Observations /\ Constructible(p)}
Decisions  == [prop : proposals, outcome : Outcomes]
Executions == [prop : proposals, appr : decisions \cup {None}, input : {q.params : q \in proposals},
               status : ExecutionStates, checked : BOOLEAN, at : Observations]

Bound ==
  /\ now \in Observations
  /\ changes \in Nat
  /\ proposals \subseteq Proposals
  /\ decisions \subseteq Decisions
  /\ executions \subseteq Executions
  /\ \A v \in verifications : v.exec \in executions /\ v.status \in CheckStates

\* An executor that asked was given this answer at that moment.
Asked ==
  \A e \in executions : e.checked => e.appr # None /\ ApprovalBinds(e.appr, e.prop, e.at)

\* A receipt is what the builder made of records that are there.
Built ==
  \A r \in receipts :
    /\ r.prop \in proposals
    /\ r.appr \in decisions \cup {None}
    /\ r.exec \in executions \cup {None}
    /\ r.check \in verifications \cup {None}
    /\ Acceptable(r.prop, r.appr, r.exec, r.check)
    /\ r = Receipt(r.prop, r.appr, r.exec, r.check)

IInv == Bound /\ Asked /\ Built

\* Issuing a proposal for the observation of the moment.
LEMMA IssueStep ==
  ASSUME IInv, NEW p, p.obs = now, Constructible(p), Issue(p)
  PROVE  IInv'
<1> USE DEF Issue
<1>1. Bound'
  BY DEF IInv, Bound, Proposals, Decisions, Executions
<1>2. Asked' /\ Built'
  BY DEF IInv, Asked, Built
<1> QED
  BY <1>1, <1>2 DEF IInv

LEMMA DecideStep ==
  ASSUME IInv, NEW p \in proposals, NEW outcome \in Outcomes, Decide(p, outcome)
  PROVE  IInv'
<1> USE DEF Decide
<1>1. Bound'
  BY DEF IInv, Bound, Proposals, Decisions, Executions
<1>2. Asked' /\ Built'
  BY DEF IInv, Asked, Built
<1> QED
  BY <1>1, <1>2 DEF IInv

LEMMA ExecuteStep ==
  ASSUME IInv, NEW p \in proposals, NEW a \in decisions \cup {None},
         NEW status \in ExecutionStates, NEW checked \in BOOLEAN, NEW input \in Handed(p),
         Execute(p, a, input, status, checked)
  PROVE  IInv'
<1> USE DEF Execute
<1> DEFINE e == [prop |-> p, appr |-> a, input |-> input, status |-> status,
                 checked |-> checked, at |-> now]
<1>1. input \in {q.params : q \in proposals}
  BY DEF Handed
<1>2. e \in Executions
  BY <1>1 DEF IInv, Bound, Executions
<1>3. Bound'
  BY <1>2 DEF IInv, Bound, Proposals, Decisions, Executions
<1>4. Asked'
  BY DEF IInv, Asked
<1>5. Built'
  BY DEF IInv, Built
<1> QED
  BY <1>3, <1>4, <1>5 DEF IInv

LEMMA VerifyStep ==
  ASSUME IInv, NEW e \in executions, NEW status \in CheckStates, NEW proven,
         Verify(e, proven, status)
  PROVE  IInv'
<1> USE DEF Verify
<1>1. Bound'
  BY DEF IInv, Bound, Proposals, Decisions, Executions
<1>2. Asked' /\ Built'
  BY DEF IInv, Asked, Built
<1> QED
  BY <1>1, <1>2 DEF IInv

LEMMA ConcludeStep ==
  ASSUME IInv, NEW p \in proposals, NEW a \in decisions \cup {None},
         NEW e \in executions \cup {None}, NEW v \in verifications \cup {None},
         Conclude(p, a, e, v)
  PROVE  IInv'
<1> USE DEF Conclude
<1>1. Bound' /\ Asked'
  BY DEF IInv, Bound, Asked, Proposals, Decisions, Executions
<1>2. LET r == Receipt(p, a, e, v)
      IN  /\ r.prop = p /\ r.appr = a /\ r.exec = e /\ r.check = v
          /\ Acceptable(r.prop, r.appr, r.exec, r.check)
          /\ r = Receipt(r.prop, r.appr, r.exec, r.check)
  BY DEF Receipt
<1>3. Built'
  BY <1>2 DEF IInv, Built
<1> QED
  BY <1>1, <1>3 DEF IInv

LEMMA NextIInv == IInv /\ [Next]_vars => IInv'
<1> SUFFICES ASSUME IInv, [Next]_vars PROVE IInv'
  OBVIOUS
<1>1. ASSUME NEW o \in Becomes[now], Change(o) PROVE IInv'
  <2>1. Becomes[now] \in SUBSET Observations
    BY ContractsAssumption DEF IInv, Bound
  <2> QED
    BY <1>1, <2>1
    DEF Change, IInv, Bound, Asked, Built, Proposals, Decisions, Executions
<1>2. CASE Propose
  BY <1>2, WaveCConstructible, IssueStep DEF Propose
<1>3. ASSUME NEW i \in Inputs, ProposeExact(i) PROVE IInv'
  BY <1>3, ExactConstructible, IssueStep DEF ProposeExact
<1>4. CASE Draft
  BY <1>4, DraftsConstructible, IssueStep DEF Draft
<1>5. CASE UNCHANGED vars
  BY <1>5 DEF vars, IInv, Bound, Asked, Built, Proposals, Decisions, Executions
<1> QED
  BY <1>1, <1>2, <1>3, <1>4, <1>5, DecideStep, ExecuteStep, VerifyStep, ConcludeStep DEF Next

THEOREM Invariant == Spec => []IInv
<1>1. Init => IInv
  BY DEF Init, IInv, Bound, Asked, Built
<1> QED
  BY <1>1, NextIInv, PTL DEF Spec

--------------------------------------------------------------------------------
\* What acceptable records are, whoever made them

\* Bindings: nothing of another proposal, approval or execution.
LEMMA BoundTogether ==
  ASSUME NEW p, NEW a, NEW e, NEW v, Acceptable(p, a, e, v)
  PROVE  /\ a # None => a.prop = p
         /\ e # None => e.prop = p /\ e.input = p.params /\ e.appr = a
         /\ v # None => e # None /\ v.exec = e
BY DEF Acceptable, Closed, Ran, Matches, ApprovalBinds

\* A proposal the validators accept has the fields of the matrix, and its
\* operation is admitted by the classification of its observation.
LEMMA ValidIsFrozen ==
  ASSUME NEW p, ProposalValid(p), p.obs.service \in {"processor", "replication"}
  PROVE  /\ Consistent(p.obs)
         /\ p.op \in Allowed(p.obs)
         /\ p.class = Classify(p.obs)
         /\ p.disposition = Disposition(p.op, p.phase)
         /\ p.disposition # "FORBID"
         /\ p.mutation = Row(p.op).mutation
         /\ p.approval = Row(p.op).approval
         /\ p.required = Verification(p.op)
<1>1. CASE PlainValid(p)
  BY <1>1 DEF PlainValid, FieldsValid, ClassificationValid, Frozen
<1>2. CASE /\ p.obs.service = "replication"
           /\ CanProposeExact(p.obs, p.params)
           /\ ClassificationValid(p.class, p.obs)
           /\ p = ExactProposal(p.obs, p.params)
  <2>1. p = Frozen(p.obs, "INVOKE_RUN", "FUTURE_SUCCESSOR", p.params, "exact-action")
    BY <1>2 DEF ExactProposal
  <2>2. p.op = "INVOKE_RUN" /\ p.phase = "FUTURE_SUCCESSOR"
    BY <2>1 DEF Frozen
  <2>3. "INVOKE_RUN" \in InvokeOps
    BY DEF InvokeOps
  <2> QED
    BY <1>2, <2>1, <2>2, <2>3, InvocationPolicy
    DEF CanProposeExact, ClassificationValid, Frozen, Disposition
<1> QED
  BY <1>1, <1>2 DEF ProposalValid, ProcessorProposalValid, ReplicationProposalValid

\* Every receipt binds a proposal of an observation of one of the services.
LEMMA ObservedByAService ==
  ASSUME IInv, NEW r \in receipts
  PROVE  /\ r.prop.obs \in ProcessorObservations \cup ReplicationObservations
         /\ r.prop.obs.service \in {"processor", "replication"}
         /\ Acceptable(r.prop, r.appr, r.exec, r.check)
         /\ ProposalValid(r.prop)
<1>1. r.prop.obs \in Observations /\ Acceptable(r.prop, r.appr, r.exec, r.check)
  BY DEF IInv, Built, Bound, Proposals
<1>2. r.prop.obs \in ProcessorObservations \cup ReplicationObservations
  BY <1>1, ContractsAssumption
<1> QED
  BY <1>1, <1>2 DEF ProcessorObservations, ReplicationObservations, Acceptable

\* Only an invocation is executed.
LEMMA ExecutedIsInvocation ==
  ASSUME IInv, NEW r \in receipts, r.exec # None
  PROVE  /\ r.prop.op \in InvokeOps
         /\ r.prop.op \in Allowed(r.prop.obs)
         /\ r.prop.approval = Row(r.prop.op).approval
         /\ r.prop.mutation = "BOUNDED_EXECUTION"
<1>1. r.prop.mutation = "BOUNDED_EXECUTION"
  BY ObservedByAService DEF Acceptable, Ran
<1> QED
  BY <1>1, ObservedByAService, ValidIsFrozen, BoundedIsInvocation

--------------------------------------------------------------------------------
\* Every record binds records that are there, and every receipt has a status.
THEOREM ContractTypes == Spec => []TypeOK
<1>1. IInv => TypeOK
  <2> SUFFICES ASSUME IInv PROVE TypeOK
    OBVIOUS
  <2>1. ASSUME NEW r \in receipts PROVE r.status \in ReceiptStates
    <3>1. r.status = IF r.exec = None THEN ClosedStatus(r.appr)
                     ELSE DerivedStatus(r.exec, r.check)
      BY <2>1 DEF IInv, Built, Receipt
    <3>2. CASE r.exec = None
      BY <3>1, <3>2 DEF ClosedStatus, ReceiptStates
    <3>3. CASE r.exec # None
      <4>1. r.exec.status \in ExecutionStates
        BY <3>3 DEF IInv, Built, Bound, Executions
      <4>2. r.check # None => r.check.status \in CheckStates
        BY DEF IInv, Built, Bound
      <4> QED
        BY <3>1, <3>3, <4>1, <4>2
        DEF DerivedStatus, ReceiptStates, ExecutionStates, CheckStates
    <3> QED
      BY <3>2, <3>3
  <2>2. \A p \in proposals : p.obs \in Observations /\ Constructible(p)
    BY DEF IInv, Bound, Proposals
  <2>3. \A a \in decisions : a.prop \in proposals /\ a.outcome \in Outcomes
    BY DEF IInv, Bound, Decisions
  <2>4. \A e \in executions : /\ e.prop \in proposals
                              /\ e.appr \in decisions \cup {None}
                              /\ e.status \in ExecutionStates
    BY DEF IInv, Bound, Executions
  <2> QED
    BY <2>1, <2>2, <2>3, <2>4 DEF IInv, Bound, Built, TypeOK
<1> QED
  BY <1>1, Invariant, PTL

\* No mixture of records of different lifecycles is receipted.
THEOREM ReceiptsAreOneStory == Spec => []ReceiptIsOneStory
<1>1. IInv => ReceiptIsOneStory
  BY BoundTogether DEF IInv, Built, ReceiptIsOneStory
<1> QED
  BY <1>1, Invariant, PTL

\* Nothing unproven is receipted as VERIFIED.
THEOREM VerifiedIsAlwaysProven == Spec => []VerifiedIsProven
<1>1. IInv => VerifiedIsProven
  <2> SUFFICES ASSUME IInv, NEW r \in receipts, r.status = "VERIFIED"
               PROVE  /\ r.exec.status = "EXECUTED"
                      /\ r.check.status = "PASS"
                      /\ Verification(r.prop.op) \subseteq r.check.proven
    BY DEF VerifiedIsProven
  <2>1. r.status = IF r.exec = None THEN ClosedStatus(r.appr)
                   ELSE DerivedStatus(r.exec, r.check)
    BY DEF IInv, Built, Receipt
  <2>2. r.exec # None
    BY <2>1 DEF ClosedStatus
  <2>3. r.exec.status \in ExecutionStates
    BY <2>2 DEF IInv, Built, Bound, Executions
  <2>4. r.check # None => r.check.status \in CheckStates
    BY DEF IInv, Built, Bound
  <2>5. r.exec.status = "EXECUTED" /\ r.check # None /\ r.check.status = "PASS"
    BY <2>1, <2>2, <2>3, <2>4 DEF DerivedStatus, ExecutionStates, CheckStates
  <2>6. r.prop.required \subseteq r.check.proven
    BY <2>2, <2>5, ObservedByAService DEF Acceptable, Ran
  <2> QED
    BY <2>5, <2>6, ObservedByAService, ValidIsFrozen
<1> QED
  BY <1>1, Invariant, PTL

\* Wave C is read-only, and nothing but a readback runs without the owner.
THEOREM OwnerAlwaysDecided == Spec => []OwnerDecided
<1>1. IInv => OwnerDecided
  <2> SUFFICES ASSUME IInv, NEW r \in receipts
               PROVE  /\ r.prop.phase = "WAVE_C" =>
                           r.status = "READ_ONLY_COMPLETE" /\ r.appr = None /\ r.exec = None
                      /\ r.exec # None =>
                           \/ r.prop.op = "INVOKE_VERIFY"
                           \/ /\ r.exec.appr \in decisions
                              /\ r.exec.appr = [prop |-> r.prop, outcome |-> "APPROVE"]
    BY DEF OwnerDecided
  <2>1. ASSUME r.prop.phase = "WAVE_C" PROVE r.prop.mutation # "BOUNDED_EXECUTION"
    <3>1. r.prop.op \notin InvokeOps
      BY <2>1, ObservedByAService, ValidIsFrozen, InvocationPolicy DEF Disposition
    <3> QED
      BY <3>1, ObservedByAService, ValidIsFrozen, BoundedIsInvocation
  <2>2. ASSUME r.prop.mutation # "BOUNDED_EXECUTION"
        PROVE  r.status = "READ_ONLY_COMPLETE" /\ r.appr = None /\ r.exec = None
    <3>1. r.exec = None /\ r.appr = None
      BY <2>2, ObservedByAService DEF Acceptable, Ran, Closed
    <3>2. r.status = IF r.exec = None THEN ClosedStatus(r.appr)
                     ELSE DerivedStatus(r.exec, r.check)
      BY DEF IInv, Built, Receipt
    <3> QED
      BY <3>1, <3>2 DEF ClosedStatus
  <2>3. ASSUME r.exec # None, r.prop.op # "INVOKE_VERIFY"
        PROVE  /\ r.exec.appr \in decisions
               /\ r.exec.appr = [prop |-> r.prop, outcome |-> "APPROVE"]
    <3>1. r.prop.approval = "EXPLICIT_OWNER"
      BY <2>3, ExecutedIsInvocation, InvocationPolicy
    <3>2. /\ r.appr # None /\ r.exec.appr = r.appr
          /\ r.appr.outcome = "APPROVE" /\ r.appr.prop = r.prop
      BY <2>3, <3>1, ObservedByAService DEF Acceptable, Ran, ApprovalBinds, Matches
    <3>3. r.appr \in decisions /\ r.appr \in Decisions
      BY <3>2 DEF IInv, Built, Bound
    <3> QED
      BY <3>2, <3>3 DEF Decisions
  <2> QED
    BY <2>1, <2>2, <2>3
<1> QED
  BY <1>1, Invariant, PTL

\* Whatever is executed and receipted was not in doubt: the order in which the
\* classifiers ask leaves no invocation beside a failure or a conflict.
THEOREM NoActionIsInDoubt == Spec => []NoActionInDoubt
<1>1. IInv => NoActionInDoubt
  <2> SUFFICES ASSUME IInv, NEW r \in receipts, r.exec # None
               PROVE  /\ Sound(r.prop.obs)
                      /\ r.prop.op # "INVOKE_VERIFY" =>
                           /\ r.prop.class.action = "PROPOSE"
                           /\ r.prop.obs.service = "replication" => ~Unreachable(r.prop.obs)
    BY DEF NoActionInDoubt
  <2> DEFINE o == r.prop.obs
             op == r.prop.op
  <2>1. /\ o \in ProcessorObservations \cup ReplicationObservations
        /\ o.service \in {"processor", "replication"}
        /\ Consistent(o) /\ op \in InvokeOps /\ op \in Allowed(o)
        /\ r.prop.class = Classify(o)
    BY ObservedByAService, ExecutedIsInvocation, ValidIsFrozen
  <2>2. \/ Primary(o) \in {"MISSING_BACKLOG", "PREPARED_BACKLOG", "FAILED_PENDING",
                           "UNREGISTERED_BACKLOG", "PENDING_BACKLOG"}
        \/ /\ Primary(o) = "TARGET_UNAVAILABLE"
           /\ op = "INVOKE_VERIFY"
           /\ o.source # "UNAVAILABLE"
    BY <2>1, InvocationsAdmitted
  <2>3. op # "INVOKE_VERIFY" => r.prop.class.action = "PROPOSE"
    BY <2>1, <2>2 DEF Classify, Actionability
  <2>4. CASE o.service = "processor"
    <3>1. o \in ProcessorObservations
      BY <2>1, <2>4 DEF ProcessorObservations, ReplicationObservations
    <3>2. Primary(o) \in {"MISSING_BACKLOG", "PREPARED_BACKLOG"}
      BY <2>1, <2>2, <2>4, <3>1, ProcessorAnswers
    <3> QED
      BY <2>1, <2>3, <2>4, <3>1, <3>2, ProcessorPrimary DEF Sound
  <2>5. CASE o.service = "replication"
    <3>1. o \in ReplicationObservations
      BY <2>1, <2>5 DEF ProcessorObservations, ReplicationObservations
    <3>2. Primary(o) \in {"TARGET_UNAVAILABLE", "FAILED_PENDING", "UNREGISTERED_BACKLOG",
                          "PENDING_BACKLOG"}
      BY <2>1, <2>2, <2>5, <3>1, ReplicationAnswers
    <3>3. /\ o.identity \in {"MATCH", "UNAVAILABLE"}
          /\ o.source # "FAIL" /\ o.provider # "FAIL"
          /\ Primary(o) # "TARGET_UNAVAILABLE" => ~Unreachable(o)
      BY <2>1, <3>1, <3>2, ReplicationPrimary
    <3>4. o.source # "UNAVAILABLE"
      BY <2>2, <3>2, <3>3 DEF Unreachable
    <3>5. o.source = "PASS"
      BY <3>1, <3>3, <3>4 DEF ReplicationObservations
    <3> QED
      BY <2>2, <2>3, <2>5, <3>3, <3>5 DEF Sound
  <2> QED
    BY <2>1, <2>4, <2>5
<1> QED
  BY <1>1, Invariant, PTL

\* A checked execution runs what the owner was shown, in the world he was shown.
THEOREM CheckedIsAlwaysFresh == Spec => []CheckedIsFresh
<1>1. IInv => CheckedIsFresh
  <2> SUFFICES ASSUME IInv, NEW e \in executions, e.checked
               PROVE  /\ e.at = e.prop.obs
                      /\ [prop |-> e.prop, outcome |-> "APPROVE"] \in decisions
    BY DEF CheckedIsFresh
  <2>1. /\ e.appr # None /\ e.appr.outcome = "APPROVE"
        /\ e.appr.prop = e.prop /\ e.prop.obs = e.at
    BY DEF IInv, Asked, ApprovalBinds, Matches
  <2>2. e.appr \in decisions /\ e.appr \in Decisions
    BY <2>1 DEF IInv, Bound, Executions
  <2>3. e.appr = [prop |-> e.prop, outcome |-> "APPROVE"]
    BY <2>1, <2>2 DEF Decisions
  <2> QED
    BY <2>1, <2>2, <2>3
<1> QED
  BY <1>1, Invariant, PTL

\* Classifier, proposer, policy, validators and receipt agree on every observation.
THEOREM ReadOnlyPathIsOpen == Spec => []ReadOnlyPath
<1>1. IInv => ReadOnlyPath
  <2> SUFFICES ASSUME IInv, Consistent(now)
               PROVE  /\ Acceptable(WaveCProposal(now), None, None, None)
                      /\ Receipt(WaveCProposal(now), None, None, None).status
                           = "READ_ONLY_COMPLETE"
    BY DEF ReadOnlyPath
  <2> DEFINE op == WaveCOperation(now)
             p  == WaveCProposal(now)
  <2>1. op \in WaveCOps /\ op \in Allowed(now)
    BY AllowedOperations DEF WaveCOperation
  <2>2. /\ p.obs = now /\ p.class = Classify(now) /\ p.op = op /\ p.phase = "WAVE_C"
        /\ p.mutation = Row(op).mutation /\ p.version = "policy"
        /\ p.params = Parameters(now, op)
        /\ p = Frozen(now, op, "WAVE_C", Parameters(now, op), "policy")
    BY DEF WaveCProposal, Frozen
  <2>3. Parameters(now, op).form # "exact"
    BY DEF Parameters, NoParameters, ExpectSnapshot
  <2>4. PlainValid(p)
    <3>1. ClassificationValid(p.class, p.obs)
      BY <2>2 DEF ClassificationValid
    <3>2. Disposition(p.op, p.phase) # "FORBID"
      BY <2>1, <2>2, WaveCPolicy DEF Disposition
    <3> HIDE DEF p, op
    <3> QED
      BY <2>1, <2>2, <2>3, <3>1, <3>2 DEF PlainValid, FieldsValid
  <2>5. ProposalValid(p)
    BY <2>2, <2>4 DEF ProposalValid, ProcessorProposalValid, ReplicationProposalValid
  <2>6. Closed(p, None)
    BY <2>1, <2>2, WaveCPolicy DEF Closed
  <2> HIDE DEF p
  <2>7. /\ Receipt(p, None, None, None).status = "READ_ONLY_COMPLETE"
        /\ Receipt(p, None, None, None).appr = None
        /\ Receipt(p, None, None, None).exec = None
        /\ Receipt(p, None, None, None).check = None
    BY DEF Receipt, ClosedStatus
  <2>8. Acceptable(p, None, None, None)
    BY <2>5, <2>6, <2>7 DEF Acceptable, ReceiptAllowed
  <2> QED
    BY <2>7, <2>8 DEF p
<1> QED
  BY <1>1, Invariant, PTL

--------------------------------------------------------------------------------
\* What is never receipted, whoever asks and with whatever records

\* No receipt concludes an execution its tool reported as DENIED, or an exact
\* proposal for the processor's successor.
NeverReceipted ==
  \A r \in receipts :
    /\ r.exec # None => r.exec.status # "DENIED"
    /\ r.prop.obs.service = "processor" => r.prop.params.form # "exact"

\* The builder refuses a DENIED execution with every approval and verification: the
\* status it derives is one the receipt's constructor wants no execution for.
LEMMA DeniedIsRefused ==
  ASSUME NEW p, NEW a, NEW e, NEW v, e # None, e.status = "DENIED"
  PROVE  ~Acceptable(p, a, e, v)
<1>1. DerivedStatus(e, v) = "DENIED"
  BY DEF DerivedStatus
<1>2. /\ Receipt(p, a, e, v).status = "DENIED"
      /\ Receipt(p, a, e, v).exec = e
  BY <1>1 DEF Receipt
<1>3. ~ReceiptAllowed(Receipt(p, a, e, v))
  BY <1>2 DEF ReceiptAllowed
<1> QED BY <1>3 DEF Acceptable

\* Of the lifecycle of a DENIED execution, and of what propose_processor_successor
\* builds and its own validator accepts, no history of records leads to a receipt.
THEOREM DeniedAndSuccessorsEndWithoutReceipt == Spec => []NeverReceipted
<1>1. IInv => NeverReceipted
  <2> SUFFICES ASSUME IInv, NEW r \in receipts
               PROVE  /\ r.exec # None => r.exec.status # "DENIED"
                      /\ r.prop.obs.service = "processor" => r.prop.params.form # "exact"
    BY DEF NeverReceipted
  <2>1. Acceptable(r.prop, r.appr, r.exec, r.check)
    BY DEF IInv, Built
  <2>2. ProposalValid(r.prop)
    BY <2>1 DEF Acceptable
  <2>3. r.prop.obs.service = "processor" => r.prop.params.form # "exact"
    BY <2>2 DEF ProposalValid, ProcessorProposalValid, PlainValid
  <2> QED BY <2>1, <2>3, DeniedIsRefused
<1> QED
  BY <1>1, Invariant, PTL

================================================================================
