------------------------------ MODULE MCContracts ------------------------------
(***************************************************************************)
(* Instance of Contracts for TLC.  The first observation decides which     *)
(* question a behaviour is about.                                          *)
(***************************************************************************)
EXTENDS Contracts

CONSTANTS i1, i2

MCInputs == {i1, i2}

Observed(o) == [o EXCEPT !.findings = Findings(o)]

\* Observations whose findings are those of their state, built field by field:
\* the sets of all observations hold every contradicting one as well.
ProcessorSeen(input, integrity, nonzero) ==
  Observed([service |-> "processor", input |-> input, integrity |-> integrity,
            nonzero |-> nonzero, findings |-> {}])
ReplicationSeen(input, identity, provider, source, nonzero) ==
  Observed([service |-> "replication", input |-> input, identity |-> identity,
            provider |-> provider, source |-> source, nonzero |-> nonzero,
            findings |-> {}])

\* Every combination of states and non-zero counts, of both services.
AllObservations ==
  {ProcessorSeen(i1, g, n) : g \in {"PASS", "FAIL", "UNAVAILABLE"},
     n \in SUBSET {"identity_conflict", "prepared", "missing", "deferred_lock"}}
  \cup
  {ReplicationSeen(i1, d, p, s, n) :
     d \in {"MATCH", "MISMATCH", "NOT_CONFIGURED", "UNAVAILABLE"},
     p \in {"PASS", "FAIL", "UNAVAILABLE"}, s \in {"PASS", "FAIL", "UNAVAILABLE"},
     n \in SUBSET {"failed_pending", "unregistered", "pending"}}

\* Slips: one observation of each kind that admits an invocation, one that
\* must be escalated and one that contradicts itself.
Backlog == ProcessorSeen(i1, "PASS", {"missing"})
SlipObservations ==
  {Backlog, ReplicationSeen(i1, "MATCH", "PASS", "PASS", {"pending"}),
   ReplicationSeen(i1, "UNAVAILABLE", "PASS", "PASS", {}),
   ProcessorSeen(i1, "FAIL", {"missing"}),
   [Backlog EXCEPT !.findings = {"CONVERGED"}]}

\* Mixtures: records of two proposals and two executions.  Revisions: the world
\* changes, and back, between the records.
Target(nonzero) == ReplicationSeen(i2, "MATCH", "PASS", "PASS", nonzero)
Steady    == Target({"pending"})
Revisions == {Target({"unregistered"}), Target({"pending", "unregistered"})}

MCObservations == AllObservations \cup SlipObservations \cup {Steady} \cup Revisions

MCSlips ==
  [o \in MCObservations |->
     CASE o \in SlipObservations       -> SlipKinds
       [] o \in Revisions \/ o = Steady -> {}
       [] OTHER                        -> {"operation"}]

MCBecomes ==
  [o \in MCObservations |-> IF o \in Revisions THEN Revisions \ {o} ELSE {}]

Counts(change, proposal, decision, execution, verification, receipt) ==
  [change |-> change, proposal |-> proposal, decision |-> decision,
   execution |-> execution, verification |-> verification, receipt |-> receipt]

MCLimit ==
  [o \in MCObservations |->
     CASE o \in SlipObservations -> Counts(0, 1, 1, 1, 1, 1)
       [] o \in Revisions        -> Counts(2, 2, 2, 1, 0, 0)
       [] o = Steady             -> Counts(0, 2, 1, 2, 1, 1)
       [] OTHER                  -> Counts(0, 1, 1, 1, 0, 1)]

================================================================================
