------------------------------ MODULE MCMarks ------------------------------
(***************************************************************************)
(* A small instance of ForkMarks for TLC.                                  *)
(***************************************************************************)
EXTENDS ForkMarks

CONSTANTS a1, a2, b2, a3

\* Two rivals over one root, one of them extended.
Blocks == {a1, a2, b2, a3}

BlockHeight == [b \in Blocks \cup {NoBlock} |->
    CASE b = NoBlock -> 0 [] b = a1 -> 1 [] b \in {a2, b2} -> 2 [] b = a3 -> 3]

Ancestors == [b \in Blocks \cup {NoBlock} |-> [h \in 0 .. MaxHeight |->
    CASE h = 0 \/ h > BlockHeight[b] -> NoBlock
      [] h = BlockHeight[b] -> b
      [] h = 1 /\ h < BlockHeight[b] -> a1
      [] h = 2 /\ b = a3 -> a2]]
=============================================================================
