-------------------------------- MODULE MCWorker --------------------------------
(***************************************************************************)
(* Instances of Worker for TLC.                                            *)
(***************************************************************************)
EXTENDS Worker, TLC

CONSTANTS p1, p2, o1, a1

MCProcs == {p1, p2}
MCOneProc == {p1}
MCOthers == {o1}
MCInputs == {a1}
MCListed == [some \in SUBSET MCInputs |-> SelectSeq(<<a1>>, LAMBDA i : i \in some)]

RetryLimit == [fault |-> 1, alter |-> 0, visit |-> 1]
LiveLimit == [fault |-> 2, alter |-> 1, visit |-> 2]

\* No contradicting rows, sound raw media, every input eligible at the start.
CleanInit ==
  /\ WInit
  /\ \A j \in Jobs : job[j] = "MISSING" /\ row[j] = "none"
  /\ \A i \in Inputs : evidence[i] /\ asserted[i] = 1

VARIABLE scene

mcvars == <<allvars, scene>>

\* One worker that is started again and again.
RetrySpec ==
  /\ CleanInit /\ scene = "retry"
  /\ [][WNext /\ UNCHANGED scene]_mcvars
  /\ RerunFairness

\* "alone": one worker over a ledger in any state, with contradictions, damage,
\* ambiguity, and one interruption.  Nobody starts the other one, so Reruns does not
\* hold here.
\* "both": two workers over a clean ledger, interrupted or visited once, with files
\* left alone.
\* "turns": the same workers one after the other, interrupted twice, so that the
\* recovery from an interruption is interrupted too.
LiveInit ==
  \/ scene = "alone" /\ WInit
  \/ scene \in {"both", "turns"} /\ CleanInit

LiveNext ==
  /\ WNext
  /\ UNCHANGED scene
  /\ scene = "alone" => UNCHANGED phase[p2] /\ spent'["fault"] <= 1
  /\ scene = "both" => spent'["alter"] = 0 /\ spent'["fault"] + spent'["visit"] <= 1
  /\ scene = "turns" =>
       /\ spent'["alter"] = 0 /\ spent'["visit"] = 0
       /\ phase'[p1] = "idle" \/ phase'[p2] = "idle"

LiveSpec == LiveInit /\ [][LiveNext]_mcvars /\ RunFairness

================================================================================
