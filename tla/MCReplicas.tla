----------------------------- MODULE MCReplicas -----------------------------
(***************************************************************************)
(* Small instances of Replicas for TLC.                                    *)
(***************************************************************************)
EXTENDS Replicas

CONSTANTS r1, r2
=============================================================================
