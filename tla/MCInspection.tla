------------------------------ MODULE MCInspection ------------------------------
(***************************************************************************)
(* Instances of Inspection for TLC.                                        *)
(***************************************************************************)
EXTENDS Inspection, TLC

CONSTANTS p1, a1, a2, c1, c2, c3, c4, t1, t2

MCProcs == {p1}
MCInputs == {a1, a2}
MCListed == [some \in SUBSET MCInputs |-> SelectSeq(<<a1, a2>>, LAMBDA i : i \in some)]
MCLimit == [fault |-> 1, alter |-> 0, visit |-> 1]

\* Two clients race for one tool, beside a second tool over the same core and a
\* client without a tool.
MCClients == {c1, c2, c3, c4}
MCToolOf == [c \in MCClients |->
               CASE c \in {c1, c2} -> t1 [] c = c3 -> t2 [] c = c4 -> Direct]

VARIABLE scene

\* "beside": one client beside a worker, over contradicting and missing job rows and
\* inputs that are not eligible.  "race": all clients, over a ledger at rest.  "core": a
\* tool and a direct call pass the flag of their core together and read, beside a
\* worker, the jobs of one input.
MCInit ==
  /\ IInit
  /\ \A j \in Jobs : row[j] = "none"
  /\ \A i \in Inputs : evidence[i] /\ asserted[i] # 2
  /\ \/ scene = "beside"
     \/ scene = "race" /\ \A j \in Jobs : job[j] = "MISSING" /\ \A i \in Inputs : asserted[i] = 1
     \/ scene = "core" /\ asserted[a1] = 1 /\ asserted[a2] = 0 /\ schema = LastVersion

MCNext ==
  /\ INext
  /\ UNCHANGED scene
  /\ scene = "beside" => UNCHANGED <<stage[c2], stage[c3], stage[c4]>>
  /\ scene = "race" => UNCHANGED phase
  /\ scene = "core" => UNCHANGED <<stage[c1], stage[c2]>>

MCSpec == MCInit /\ [][MCNext]_<<insvars, scene>>

================================================================================
