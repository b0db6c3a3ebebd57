----------------------------- MODULE MCQueries -----------------------------
(***************************************************************************)
(* A small instance of BlockQuery for TLC, over the trees of MCChecker.    *)
(***************************************************************************)
EXTENDS BlockQuery, MCChecker
=============================================================================
