----------------------------- MODULE MCChecker -----------------------------
(***************************************************************************)
(* Small instances of Checker for TLC.                                     *)
(***************************************************************************)
EXTENDS Checker

CONSTANTS a1, a2, a3, b1, b2, b3, c3

\* The parent of a block, NoBlock at the lowest height.
TwoBranches ==
    [b \in {a1, a2, a3, b2} |->
        CASE b = a1 -> NoBlock
          [] b = a2 -> a1
          [] b = b2 -> a1
          [] b = a3 -> a2]

\* A second branch that forks again.
LateFork ==
    [b \in {a1, a2, b2, b3, c3} |->
        CASE b = a1 -> NoBlock
          [] b \in {a2, b2} -> a1
          [] b \in {b3, c3} -> b2]

\* A long branch and a rival of its lowest block.
ShortRival ==
    [b \in {a1, a2, a3, b1} |->
        CASE b \in {a1, b1} -> NoBlock
          [] b = a2 -> a1
          [] b = a3 -> a2]

\* Two rivals for the lowest height, one of them extended twice.
Rivals ==
    [b \in {a1, a2, b1, b2} |->
        CASE b \in {a1, b1} -> NoBlock
          [] b \in {a2, b2} -> a1]

HeightIn(parent) ==
    LET H[b \in DOMAIN parent \cup {NoBlock}] ==
            IF b = NoBlock THEN 0 ELSE 1 + H[parent[b]]
    IN  H

AncIn(parent) ==
    LET A[b \in DOMAIN parent \cup {NoBlock}] ==
            [h \in 0 .. MaxHeight |->
                IF b = NoBlock \/ h > HeightIn(parent)[b] THEN NoBlock
                ELSE IF h = HeightIn(parent)[b] THEN b
                ELSE A[parent[b]][h]]
    IN  A

TwoBranchesBlocks == DOMAIN TwoBranches
TwoBranchesHeight == HeightIn(TwoBranches)
TwoBranchesAnc == AncIn(TwoBranches)

LateForkBlocks == DOMAIN LateFork
LateForkHeight == HeightIn(LateFork)
LateForkAnc == AncIn(LateFork)

RivalsBlocks == DOMAIN Rivals
RivalsHeight == HeightIn(Rivals)
RivalsAnc == AncIn(Rivals)

ShortRivalBlocks == DOMAIN ShortRival
ShortRivalHeight == HeightIn(ShortRival)
ShortRivalAnc == AncIn(ShortRival)

-----------------------------------------------------------------------------
Exact == INSTANCE ExactRelay WITH inner <- inner, outer <- outer

\* While the process stays up and Kafka's answers arrive, retries neither
\* repeat nor omit nor reorder an outer notice: the delivered map of
\* publishOuter makes the topic an exact copy of the expected stream, and the
\* whole stream is eventually there.
RelaysExactly == Exact!Spec
=============================================================================
