--------------------------- MODULE MCOccurrenceLedger ---------------------------
(***************************************************************************)
(* Instances of OccurrenceLedger for TLC.                                  *)
(***************************************************************************)
EXTENDS OccurrenceLedger, TLC

CONSTANTS o1, o2, a1, a2, r1, s1, s2

TwoOccurrences == {o1, o2}
TwoArtifacts == {a1, a2}
TwoSources == {s1, s2}

\* Occurrences of both sources, artifacts first seen by either, a recording of one.
MixedSourceOf == (o1 :> s1) @@ (o2 :> s2)
MixedArtifactSource == (a1 :> s1) @@ (a2 :> s2)
OneRecording == {r1}
OneRecordingSource == (r1 :> s1)

\* Two occurrences of one source with the same bytes, and no imports.
OneArtifact == {a1}
OneSourceOf == (o1 :> s1) @@ (o2 :> s1)
OneArtifactSource == (a1 :> s1)
NoRecordings == {}
NoRecordingSource == <<>>

\* A head for every version that changes the rules or rebuilds a table (5 and 6
\* add tables only), and one after which nothing is left to change.
AllReleases == {2, 3, 6, 7, 8, 10}

================================================================================
