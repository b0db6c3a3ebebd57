----------------------------- MODULE BlockTree -----------------------------
(***************************************************************************)
(* The blocks of one chain, the inner notices that move its head, and the  *)
(* outer notices the checker publishes for them.                           *)
(*                                                                         *)
(* A block is an opaque identity: its hash.  The tree it lives in is given *)
(* by its height and by the table of its ancestors, so that a notice can   *)
(* name a run of blocks by its last block and its first height.            *)
(***************************************************************************)
EXTENDS Integers, Sequences, FiniteSets

CONSTANTS
    Block,      \* block hashes
    NoBlock,    \* the absent block: a nil anchor, a missing index entry
    MaxHeight,  \* the highest block height of the instance
    Height,     \* Height[b]: BlockNumber of b; 0 for NoBlock
    Anc         \* Anc[b][h]: the ancestor of b (b included) at height h

Heights == 1 .. MaxHeight

MaybeBlock == Block \cup {NoBlock}

ASSUME NoBlockAssumption == NoBlock \notin Block

ASSUME HeightAssumption ==
    /\ MaxHeight \in Nat \ {0}
    /\ Height \in [MaybeBlock -> 0 .. MaxHeight]
    /\ Height[NoBlock] = 0
    /\ \A b \in Block : Height[b] \in Heights

\* Height 0 lies below the modelled blocks: the parent of a block of height 1
\* is outside the instance.
ASSUME AncAssumption ==
    /\ Anc \in [MaybeBlock -> [0 .. MaxHeight -> MaybeBlock]]
    /\ \A b \in MaybeBlock, h \in 0 .. MaxHeight :
          /\ Anc[b][h] # NoBlock <=> h \in 1 .. Height[b]
          /\ h \in 1 .. Height[b] => Height[Anc[b][h]] = h
    /\ \A b \in Block : Anc[b][Height[b]] = b
    /\ \A b \in Block : \A h \in 1 .. Height[b] : \A k \in 0 .. h :
          Anc[Anc[b][h]][k] = Anc[b][k]

\* BlockContext.ParentHash
Parent(b) == Anc[b][Height[b] - 1]

-----------------------------------------------------------------------------
(***************************************************************************)
(* An inner notice [old, tail, first] replaces the chain that ended in old *)
(* by the one that ends in tail, from height first on:                     *)
(*   DropBlocks = the ancestors of old  at first .. Height[old]            *)
(*   NewBlocks  = the ancestors of tail at first .. Height[tail]           *)
(* both in ascending order.  The first notice of a topic has old = NoBlock.*)
(***************************************************************************)
Notice == [old : MaybeBlock, tail : Block, first : Heights]

DropCount(n) == IF Height[n.old] >= n.first THEN Height[n.old] - n.first + 1
                                            ELSE 0

NewCount(n) == Height[n.tail] - n.first + 1

HasDrops(n) == DropCount(n) > 0

\* The producer's contract: old and tail part exactly at height first, and the
\* notice carries at least one new block.
WellFormed(n) ==
    /\ n.first <= Height[n.tail]
    /\ Anc[n.old][n.first - 1] = Anc[n.tail][n.first - 1]
    /\ Anc[n.old][n.first] # Anc[n.tail][n.first]

\* OuterBlockChangeNotification: one block that joined or left the chain.
OuterNotice == [hash : MaybeBlock, isFork : BOOLEAN]

NoNotice == [hash |-> NoBlock, isFork |-> FALSE]

\* A slip the runs must catch: the drops from the lowest block up.
OuterItemAscending(n, i) ==
    IF i <= DropCount(n)
    THEN [hash |-> Anc[n.old][n.first + i - 1], isFork |-> TRUE]
    ELSE [hash |-> Anc[n.tail][n.first + i - DropCount(n) - 1], isFork |-> FALSE]

\* The i-th outer notice of n: the drops from the tip down, then the new
\* blocks from the lowest up.
OuterItem(n, i) ==
    IF i <= DropCount(n)
    THEN [hash |-> Anc[n.old][Height[n.old] - i + 1], isFork |-> TRUE]
    ELSE [hash |-> Anc[n.tail][n.first + i - DropCount(n) - 1], isFork |-> FALSE]

OuterCount(n) == DropCount(n) + NewCount(n)

\* q may come right after p in a stream a consumer applies entry by entry.
\* A repeated entry is harmless to it.
Follows(p, q) ==
    \/ q = p
    \/ ~p.isFork /\ ~q.isFork /\ Parent(q.hash) = p.hash
    \/ ~p.isFork /\ q.isFork /\ q.hash = p.hash
    \/ p.isFork /\ q.isFork /\ Parent(p.hash) = q.hash
    \/ p.isFork /\ ~q.isFork /\ Parent(q.hash) = Parent(p.hash)

MinOf(a, b) == IF a <= b THEN a ELSE b
=============================================================================
