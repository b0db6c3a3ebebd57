---------------------------- MODULE MCSingleton ----------------------------
(***************************************************************************)
(* Small instances of Singleton for TLC.                                   *)
(***************************************************************************)
EXTENDS Singleton

CONSTANTS a1, a2, a3, b2, b3, p1, p2

\* Two branches of two blocks over one root.
ParentIn == [b \in {a1, a2, a3, b2, b3} |->
                CASE b = a1 -> NoBlock
                  [] b \in {a2, b2} -> a1
                  [] b = a3 -> a2
                  [] b = b3 -> b2]

Blocks == DOMAIN ParentIn

HeightOf ==
    LET H[b \in Blocks \cup {NoBlock}] ==
            IF b = NoBlock THEN 0 ELSE 1 + H[ParentIn[b]]
    IN  H

AncOf ==
    LET A[b \in Blocks \cup {NoBlock}] ==
            [h \in 0 .. MaxHeight |->
                IF b = NoBlock \/ h > HeightOf[b] THEN NoBlock
                ELSE IF h = HeightOf[b] THEN b
                ELSE A[ParentIn[b]][h]]
    IN  A

\* Every version has stored every block.
AllStored == [p \in {p1, p2} |-> Blocks]

\* The second version never saw the last block of the first branch.
OneMissing == [p \in {p1, p2} |-> IF p = p1 THEN Blocks ELSE Blocks \ {a3}]
=============================================================================
