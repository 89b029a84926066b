------------------------------ MODULE MCDurability ------------------------------
(***************************************************************************)
(* Instance of Durability for TLC: two processes, one fault at an fsync.   *)
(***************************************************************************)
EXTENDS Durability

CONSTANTS p1, p2, a1

MCProcs == {p1, p2}
MCInputs == {a1}
MCLimit == [fault |-> 1, alter |-> 0, visit |-> 0]

================================================================================
