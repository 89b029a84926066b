------------------------------- MODULE Inspection -------------------------------
(***************************************************************************)
(* The read-only inspection (processor/pilot.py, processor/agent) beside   *)
(* workers that go on working.  Clients call one configured core, either   *)
(* directly or through ADK tools built over it.  An inspection reads the   *)
(* migration history on one connection and the worker's snapshot, query by *)
(* query and without the spool lock, on another, and turns the counts into *)
(* an observation, a classification, a proposal and a receipt.             *)
(***************************************************************************)
EXTENDS Worker, FiniteSets

CONSTANTS
  Clients,  \* threads or tasks that ask for an inspection, once each
  Tools,    \* ADK tools built over the core
  Direct,   \* the core itself, for clients without a tool
  ToolOf    \* what each client calls

ASSUME ClientsAssumption ==
  /\ Direct \notin Tools
  /\ ToolOf \in [Clients -> Tools \cup {Direct}]

Versions    == 9..10   \* ledgers the worker accepts, of which inspection wants the last
LastVersion == 10

Stages   == {"asking", "core", "entered", "version", "select", "states", "answered"}
Outcomes == {"none", "forbidden", "consumed", "completed", "error", "raised", "result"}

Zero == [eligible |-> 0, missing |-> 0, prepared |-> 0, complete |-> 0,
         deferred |-> 0, conflict |-> 0, integrity |-> "PASS"]

\* The contracts.  An observed input is the digest of the counts.
R == INSTANCE Receipts WITH Inputs <- {Zero}, None <- "none"

VARIABLES
  schema,     \* last version in schema_migrations
  consumed,   \* _processor_consumed of each tool
  completed,  \* _completed of the core
  stage,      \* where each client is
  listed,     \* its candidates
  states,     \* their job states, as far as they are read
  seen,       \* the ProcessorInspection it got
  outcome     \* how its call ended

ivars   == <<schema, consumed, completed, stage, listed, states, seen, outcome>>
insvars == <<allvars, ivars>>

ITypeOK ==
  /\ schema \in Versions
  /\ consumed \in [Tools -> BOOLEAN]
  /\ completed \in BOOLEAN
  /\ stage \in [Clients -> Stages]
  /\ outcome \in [Clients -> Outcomes]
  /\ \A c \in Clients :
       /\ listed[c] \in Seq(Inputs)
       /\ states[c] \in Seq(JobStates \ {"FOREIGN"})
       /\ seen[c].eligible <= Len(Listed[Inputs])

IInit ==
  /\ WInit
  /\ schema \in Versions
  /\ consumed = [t \in Tools |-> FALSE]
  /\ completed = FALSE
  /\ stage = [c \in Clients |-> "asking"]
  /\ listed = [c \in Clients |-> <<>>]
  /\ states = [c \in Clients |-> <<>>]
  /\ seen = [c \in Clients |-> Zero]
  /\ outcome = [c \in Clients |-> "none"]

--------------------------------------------------------------------------------
\* From the counts to the receipt

\* ProcessorInspection.__post_init__
Legal(inspection) ==
  /\ inspection.integrity # "UNAVAILABLE"
  /\ inspection.integrity = "PASS" =>
       inspection.missing + inspection.prepared + inspection.complete
         = inspection.eligible

\* Mutant: only the findings of the backlog that is classified.
FindingCodesOfOneBacklog(inspection) ==
  CASE inspection.integrity = "FAIL" -> {"INTEGRITY_FAILURE"}
    [] inspection.integrity = "PASS" /\ inspection.conflict > 0 -> {"IDENTITY_CONFLICT"}
    [] inspection.prepared > 0 -> {"PREPARED_BACKLOG"}
    [] inspection.missing > 0 /\ inspection.prepared = 0 -> {"MISSING_BACKLOG"}
    [] OTHER -> {"CONVERGED"}

\* _finding_codes of the pilot, a second version of the contracts' _findings.
FindingCodes(inspection) ==
  LET found == {code \in R!Codes :
        \/ code = "INTEGRITY_FAILURE" /\ inspection.integrity = "FAIL"
        \/ code = "UNAVAILABLE"       /\ inspection.integrity = "UNAVAILABLE"
        \/ code = "IDENTITY_CONFLICT" /\ inspection.conflict > 0
        \/ code = "PREPARED_BACKLOG"  /\ inspection.prepared > 0
        \/ code = "MISSING_BACKLOG"   /\ inspection.missing > 0
        \/ code = "DEFERRED_BUSY"     /\ inspection.deferred > 0}
  IN  IF found = {} THEN {"CONVERGED"} ELSE found

Nonzero(inspection) ==
  {n \in {"identity_conflict", "prepared", "missing", "deferred_lock"} :
     \/ n = "identity_conflict" /\ inspection.conflict > 0
     \/ n = "prepared"          /\ inspection.prepared > 0
     \/ n = "missing"           /\ inspection.missing > 0
     \/ n = "deferred_lock"     /\ inspection.deferred > 0}

Observation(inspection) ==
  [service |-> "processor", input |-> inspection, integrity |-> inspection.integrity,
   nonzero |-> Nonzero(inspection), findings |-> FindingCodes(inspection)]

\* Everything ProcessorAgentCore.inspect and the constructors raise at.  (Bounded
\* quantifiers instead of LET: each value is computed once.)
Presentable(inspection) ==
  \E o \in {Observation(inspection)} : \E p \in {R!WaveCProposal(o)} :
    /\ Legal(inspection)
    /\ R!Consistent(o)
    /\ p.mutation # "BOUNDED_EXECUTION"
    /\ R!Acceptable(p, "none", "none", "none")
    /\ R!Receipt(p, "none", "none", "none").status = "READ_ONLY_COMPLETE"

--------------------------------------------------------------------------------
\* The tool and the core

Move(c, step) ==
  /\ stage' = [stage EXCEPT ![c] = step]
  /\ UNCHANGED <<seen, outcome>>

End(c, how) ==
  /\ stage' = [stage EXCEPT ![c] = "answered"]
  /\ outcome' = [outcome EXCEPT ![c] = how]
  /\ UNCHANGED seen

\* run_async with arguments: refused before the claim.
Forbid(c) ==
  /\ stage[c] = "asking"
  /\ ToolOf[c] # Direct
  /\ End(c, "forbidden")
  /\ UNCHANGED <<allvars, schema, consumed, completed, listed, states>>

\* Mutant: the claim is only recorded when the inspection has ended.
ClaimLate(c) ==
  /\ stage[c] = "asking"
  /\ \/ /\ ToolOf[c] # Direct /\ consumed[ToolOf[c]]
        /\ End(c, "consumed")
     \/ /\ ToolOf[c] # Direct => ~consumed[ToolOf[c]]
        /\ Move(c, "core")
  /\ UNCHANGED <<allvars, schema, consumed, completed, listed, states>>

\* _claim_once, under the lock of the tool; a direct call has nothing to claim.
Claim(c) ==
  /\ stage[c] = "asking"
  /\ \/ /\ ToolOf[c] = Direct
        /\ Move(c, "core")
        /\ UNCHANGED consumed
     \/ /\ ToolOf[c] # Direct
        /\ consumed[ToolOf[c]]
        /\ End(c, "consumed")
        /\ UNCHANGED consumed
     \/ /\ ToolOf[c] # Direct
        /\ ~consumed[ToolOf[c]]
        /\ consumed' = [consumed EXCEPT ![ToolOf[c]] = TRUE]
        /\ Move(c, "core")
  /\ UNCHANGED <<allvars, schema, completed, listed, states>>

\* The core's own flag is tested in one step and set in the next.
TestCompleted(c) ==
  /\ stage[c] = "core"
  /\ IF completed THEN End(c, "completed") ELSE Move(c, "entered")
  /\ UNCHANGED <<allvars, schema, consumed, completed, listed, states>>

SetCompleted(c) ==
  /\ stage[c] = "entered"
  /\ completed' = TRUE
  /\ Move(c, "version")
  /\ UNCHANGED <<allvars, schema, consumed, listed, states>>

--------------------------------------------------------------------------------
\* SQLiteProcessorReadTool.inspect

\* _read_exact_schema_version, on its own connection.
ReadVersion(c) ==
  /\ stage[c] = "version"
  /\ IF schema = LastVersion THEN Move(c, "select") ELSE End(c, "error")
  /\ UNCHANGED <<allvars, schema, consumed, completed, listed, states>>

\* snapshot: the candidates, on the second connection.
ListCandidates(c) ==
  /\ stage[c] = "select"
  /\ listed' = [listed EXCEPT ![c] = Listed[{i \in Inputs : asserted[i] = 1}]]
  /\ Move(c, "states")
  /\ UNCHANGED <<allvars, schema, consumed, completed, states>>

\* The inspection is built and given to the core.
Answer(c, inspection) ==
  /\ stage' = [stage EXCEPT ![c] = "answered"]
  /\ seen' = [seen EXCEPT ![c] = inspection]
  /\ outcome' = [outcome EXCEPT ![c] =
                   IF Presentable(inspection) THEN "result" ELSE "raised"]

\* Mutant: a contradicted identity is counted like any other state.
ReadJobUnchecked(c) ==
  /\ stage[c] = "states"
  /\ Len(states[c]) < Len(listed[c])
  /\ states' = [states EXCEPT ![c] = Append(@, job[JobOf(listed[c][Len(@) + 1])])]
  /\ Move(c, "states")
  /\ UNCHANGED <<allvars, schema, consumed, completed, listed>>

\* _job_state of the next candidate.  A contradicted identity is an answer: one
\* conflict and no counts.
ReadJob(c) ==
  LET state == job[JobOf(listed[c][Len(states[c]) + 1])]
  IN  /\ stage[c] = "states"
      /\ Len(states[c]) < Len(listed[c])
      /\ \/ /\ state = "FOREIGN"
            /\ Answer(c, [Zero EXCEPT !.conflict = 1])
            /\ UNCHANGED states
         \/ /\ state # "FOREIGN"
            /\ states' = [states EXCEPT ![c] = Append(@, state)]
            /\ Move(c, "states")
      /\ UNCHANGED <<allvars, schema, consumed, completed, listed>>

\* Mutant: resumable work is counted as done.
CountedOptimist(c) ==
  LET number(wanted) == Cardinality({n \in DOMAIN states[c] : states[c][n] \in wanted})
  IN  [Zero EXCEPT !.eligible = Len(states[c]), !.missing = number({"MISSING"}),
                   !.complete = number({"PREPARED", "COMPLETE"})]

Counted(c) ==
  LET number(wanted) == Cardinality({n \in DOMAIN states[c] : states[c][n] = wanted})
  IN  [Zero EXCEPT !.eligible = Len(states[c]), !.missing = number("MISSING"),
                   !.prepared = number("PREPARED"), !.complete = number("COMPLETE")]

Count(c) ==
  /\ stage[c] = "states"
  /\ Len(states[c]) = Len(listed[c])
  /\ Answer(c, Counted(c))
  /\ UNCHANGED <<allvars, schema, consumed, completed, listed, states>>

\* A database that is gone or cannot be read: ProcessorPilotError before and at
\* the second connection, an integrity failure once its queries run.
Unreadable(c) ==
  /\ Spend("fault")
  /\ \/ stage[c] \in {"version", "select"} /\ End(c, "error")
     \/ stage[c] \in {"select", "states"} /\ Answer(c, [Zero EXCEPT !.integrity = "FAIL"])
  /\ UNCHANGED <<db, spool, locks, local, altered, wvars, schema, consumed, completed,
                 listed, states>>

--------------------------------------------------------------------------------
\* migrate brings the ledger to the last version.
Upgrade ==
  /\ schema # LastVersion
  /\ schema' = LastVersion
  /\ UNCHANGED <<allvars, consumed, completed, stage, listed, states, seen, outcome>>

Inspecting(c) ==
  \/ Claim(c)
  \/ TestCompleted(c)
  \/ SetCompleted(c)
  \/ ReadVersion(c)
  \/ ListCandidates(c)
  \/ ReadJob(c)
  \/ Count(c)

INext ==
  \/ WNext /\ UNCHANGED ivars
  \/ \E c \in Clients : Inspecting(c) \/ Forbid(c) \/ Unreadable(c)
  \/ Upgrade

ISpec == IInit /\ [][INext]_insvars

--------------------------------------------------------------------------------
(***************************************************************************)
(* Properties                                                              *)
(***************************************************************************)

\* The client got past the claim of its tool.
Admitted(c) ==
  \/ stage[c] \in {"core", "entered", "version", "select", "states"}
  \/ outcome[c] \in {"completed", "error", "raised", "result"}

\* However clients race for a tool, it admits one of them and is consumed by that
\* one only: neither a call with arguments nor a loser of the race uses it up.
OneCallPerTool ==
  \A t \in Tools :
    Cardinality({c \in Clients : ToolOf[c] = t /\ Admitted(c)}) = IF consumed[t] THEN 1 ELSE 0

\* An inspection that could read the ledger always ends in a result: the pilot's
\* findings, the classifier, the proposer, the policy and the receipt agree on
\* whatever a snapshot torn by working workers counts.
EveryCountIsPresentable == \A c \in Clients : outcome[c] # "raised"

\* CONVERGED is true now, although states and candidates are of different moments
\* and workers went on: all candidates are COMPLETE.  IDENTITY_CONFLICT is true
\* now, and an integrity failure is never made up from a torn snapshot.
AnswersStayTrue ==
  \A c \in Clients : outcome[c] = "result" =>
    LET code == R!Primary(Observation(seen[c]))
    IN  /\ code = "CONVERGED" =>
             \A n \in DOMAIN listed[c] : job[JobOf(listed[c][n])] = "COMPLETE"
        /\ code = "IDENTITY_CONFLICT" =>
             \E n \in DOMAIN listed[c] : job[JobOf(listed[c][n])] = "FOREIGN"
        /\ code = "INTEGRITY_FAILURE" => spent["fault"] > 0

================================================================================
