----------------------------- MODULE MCLeader -----------------------------
(***************************************************************************)
(* Small instances of ChainLeader for TLC.                                 *)
(***************************************************************************)
EXTENDS ChainLeader

CONSTANTS p1, p2, v1, v2

OneEach == [p \in {p1, p2} |-> IF p = p1 THEN v1 ELSE v2]
=============================================================================
