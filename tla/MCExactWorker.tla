------------------------------ MODULE MCExactWorker -----------------------------
(***************************************************************************)
(* Instance of ExactWorker for TLC: two workers in one of three scenes,    *)
(* chosen with the initial state.                                          *)
(***************************************************************************)
EXTENDS ExactWorker, TLC

CONSTANTS p1, p2, o1, a1, a2

MCProcs == {p1, p2}
MCOthers == {o1}
MCInputs == {a1, a2}
MCListed == [some \in SUBSET MCInputs |-> SelectSeq(<<a1, a2>>, LAMBDA i : i \in some)]

\* A kill or failure, and a registration.
MCLimit == [fault |-> 1, alter |-> 0, visit |-> 1]

VARIABLE scene

mcvars == <<xvars, scene>>

Sound ==
  /\ \A j \in Jobs : row[j] = "none"
  /\ \A i \in Inputs : evidence[i]

\* No contradicting rows and every input eligible.
Clean ==
  /\ \A j \in Jobs : job[j] = "MISSING"
  /\ \A i \in Inputs : asserted[i] = 1

\* "plain": batches of two inputs, with an interruption or a visit.  A worker: it
\* runs manifests beside one with batches, both over two inputs, undisturbed.
\* "retry": either command over one input, with contradicting job rows and
\* inputs that are not eligible, with an interruption or a visit.
MCInit ==
  /\ XInit
  /\ Sound
  /\ \/ scene \in Procs \cup {"plain"} /\ Clean
     \/ scene = "retry" /\ asserted[a2] = 0 /\ job[JobOf(a2)] = "MISSING"

\* In "retry" only the first input is registered and approved.
Within ==
  /\ spent["fault"] + spent["visit"] <= IF scene \in Procs THEN 0 ELSE 1
  /\ CASE scene = "plain" -> \A w \in Procs : ~Exact(w)
       [] scene \in Procs -> \A w \in Procs : phase[w] # "idle" => (Exact(w) <=> w = scene)
       [] scene = "retry" -> /\ \A w \in Procs : Exact(w) =>
                                  \A n \in DOMAIN approved[w] : approved[w][n].input = a1
                             /\ asserted[a2] = 0

MCNext == XNext /\ UNCHANGED scene /\ Within'

MCSpec == MCInit /\ [][MCNext]_mcvars

WorkerSymmetry == Permutations(MCProcs)

================================================================================
