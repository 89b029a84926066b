----------------------------- MODULE MCReplicaLedger -----------------------------
(***************************************************************************)
(* Instance of ReplicaLedger for TLC.                                      *)
(***************************************************************************)
EXTENDS ReplicaLedger, TLC

CONSTANTS m1, m2, m3, t1, t2, c1, c2

\* An old release beside two of the newest.
MCMigrators == {m1, m2, m3}
MCHeadOf == [m \in MCMigrators |-> IF m = m1 THEN 9 ELSE 10]

\* The processes of the newest release, the targets and the contents are alike.
MCSymmetry == Permutations({m2, m3}) \cup Permutations({c1, c2}) \cup Permutations({t1, t2})

================================================================================
