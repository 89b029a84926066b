-------------------------------- MODULE Receipts --------------------------------
(***************************************************************************)
(* build_structured_receipt (processor/contracts/model.py): which records  *)
(* may be concluded together, and the status of the receipt.  Pure         *)
(* functions of a proposal, an approval, an execution and a verification,  *)
(* the last three optional.                                                *)
(***************************************************************************)
EXTENDS ContractPolicy

CONSTANT None   \* an optional record that is not there

Outcomes        == {"APPROVE", "DENY", "EXPIRE"}
ExecutionStates == {"NOT_RUN", "DENIED", "EXECUTED", "FAILED"}
CheckStates     == {"NOT_RUN", "PASS", "FAIL", "ESCALATE", "UNAVAILABLE"}
ReceiptStates   == {"READ_ONLY_COMPLETE", "NOT_RUN", "DENIED", "EXPIRED",
                    "EXECUTION_FAILED", "EXECUTED_UNVERIFIED", "ESCALATED",
                    "VERIFIED", "VERIFICATION_FAILED"}

\* Mutant: the observation of the moment is not compared.
ApprovalIgnoresObservation(a, p, current) ==
  /\ a.outcome = "APPROVE"
  /\ a.prop = p

\* _approval_matches_proposal: the nine fields it compares are all taken from
\* the proposal that was decided on, and from the observation of the caller.
Matches(a, p, current) == a.prop = p /\ p.obs = current

\* approval_binds_proposal, validate_processor_owner_approval
ApprovalBinds(a, p, current) ==
  /\ a.outcome = "APPROVE"
  /\ Matches(a, p, current)

--------------------------------------------------------------------------------
\* The receipt of records that are bound to each other

\* Mutant: the status of the tool is passed on.
DerivedStatusRaw(e, v) ==
  IF e.status = "EXECUTED" /\ v # None THEN "VERIFIED" ELSE e.status

\* derive_receipt_status for a receipt that binds an execution.
DerivedStatus(e, v) ==
  CASE e.status = "DENIED"  -> "DENIED"
    [] e.status = "FAILED"  -> "EXECUTION_FAILED"
    [] e.status = "NOT_RUN" -> "NOT_RUN"
    [] e.status = "EXECUTED" ->
         IF v = None THEN "EXECUTED_UNVERIFIED"
         ELSE CASE v.status \in {"NOT_RUN", "UNAVAILABLE"} -> "EXECUTED_UNVERIFIED"
                [] v.status = "ESCALATE" -> "ESCALATED"
                [] v.status = "FAIL"     -> "VERIFICATION_FAILED"
                [] v.status = "PASS"     -> "VERIFIED"

\* StructuredReceipt.__post_init__
ReceiptAllowed(r) ==
  /\ r.status = "READ_ONLY_COMPLETE" => r.appr = None /\ r.exec = None /\ r.check = None
  /\ r.status \in {"EXECUTION_FAILED", "EXECUTED_UNVERIFIED", "ESCALATED", "VERIFIED",
                   "VERIFICATION_FAILED"} => r.exec # None
  /\ r.status \in {"ESCALATED", "VERIFIED", "VERIFICATION_FAILED"} => r.check # None
  /\ r.status \in {"DENIED", "EXPIRED"} => r.appr # None /\ r.exec = None /\ r.check = None
  /\ r.check # None => r.exec # None

\* Mutant: an escalation cannot be concluded.
ClosedWithoutEscalation(p, a) ==
  IF a = None THEN p.mutation \in {"READ_ONLY", "PROPOSAL_ONLY"}
  ELSE p.mutation = "BOUNDED_EXECUTION" /\ Matches(a, p, p.obs) /\ a.outcome # "APPROVE"

\* build_structured_receipt without an execution.
Closed(p, a) ==
  IF a = None THEN p.mutation \in {"READ_ONLY", "PROPOSAL_ONLY", "ESCALATION_ONLY"}
  ELSE /\ p.approval # "NONE"
       /\ p.mutation = "BOUNDED_EXECUTION"
       /\ Matches(a, p, p.obs)
       /\ a.outcome # "APPROVE"

ClosedStatus(a) ==
  IF a = None THEN "READ_ONLY_COMPLETE"
  ELSE IF a.outcome = "DENY" THEN "DENIED" ELSE "EXPIRED"

\* Mutants: bindings the builder could forget to compare.
RanUnbound(p, a, e, v) ==
  /\ p.mutation = "BOUNDED_EXECUTION"
  /\ e.prop.op = p.op
  /\ p.approval = "EXPLICIT_OWNER" => a # None /\ ApprovalBinds(a, p, p.obs)
RanUnproven(p, a, e, v) ==
  /\ p.mutation = "BOUNDED_EXECUTION"
  /\ e.prop = p
  /\ e.input = p.params
  /\ IF p.approval = "NONE" THEN a = None /\ e.appr = None
     ELSE a # None /\ ApprovalBinds(a, p, p.obs) /\ e.appr = a
  /\ v # None => v.exec = e

\* build_structured_receipt with an execution.  The observation the approval is
\* held against is the proposal's own: what has changed since is not asked.
Ran(p, a, e, v) ==
  /\ p.mutation = "BOUNDED_EXECUTION"
  /\ e.prop = p
  /\ e.input = p.params
  /\ IF p.approval = "NONE" THEN a = None /\ e.appr = None
     ELSE /\ p.approval \in {"EXPLICIT_OWNER", "SEPARATE_DESIGN_AUTHORITY",
                             "OPERATOR_OWNED"}
          /\ a # None
          /\ ApprovalBinds(a, p, p.obs)
          /\ e.appr = a
  /\ v # None => v.exec = e /\ (v.status = "PASS" => p.required \subseteq v.proven)

\* build_structured_receipt raises, or returns this receipt.
Receipt(p, a, e, v) ==
  [prop |-> p, appr |-> a, exec |-> e, check |-> v,
   status |-> IF e = None THEN ClosedStatus(a) ELSE DerivedStatus(e, v)]

Acceptable(p, a, e, v) ==
  /\ IF e = None THEN v = None /\ Closed(p, a) ELSE Ran(p, a, e, v)
  /\ ProposalValid(p)
  /\ ReceiptAllowed(Receipt(p, a, e, v))

================================================================================
