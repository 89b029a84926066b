--------------------------- MODULE MCProcessArtifact ---------------------------
(***************************************************************************)
(* Instances of ProcessArtifact for TLC.                                   *)
(***************************************************************************)
EXTENDS ProcessArtifact, TLC

CONSTANTS p1, p2, o1, a1

MCProcs == {p1, p2}
MCOthers == {o1}
MCOneInput == {a1}

\* Two interruptions, one change of a published file or of raw media, and two
\* visits of an external command.
MCLimit == [fault |-> 2, alter |-> 1, visit |-> 2]

ProcSymmetry == Permutations(MCProcs)

================================================================================
