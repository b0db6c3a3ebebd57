----------------------------- MODULE ExactRelay -----------------------------
(***************************************************************************)
(* What publishOuter promises its consumers: the outer topic carries, once *)
(* and in order, the drops (tip first) and the new blocks (lowest first)   *)
(* of every inner notice, and sooner or later all of them.                 *)
(***************************************************************************)
EXTENDS BlockTree

SeqExt == INSTANCE SequencesExt

VARIABLES inner, outer

\* The outer notices of one inner notice.
Outers(n) == [i \in 1 .. OuterCount(n) |-> OuterItem(n, i)]

Expected == SeqExt!FlattenSeq([k \in 1 .. Len(inner) |-> Outers(inner[k])])

Init == inner = <<>> /\ outer = <<>>

Extend == \E n \in Notice : inner' = Append(inner, n) /\ UNCHANGED outer

Relay ==
    /\ Len(outer) < Len(Expected)
    /\ outer' = Append(outer, Expected[Len(outer) + 1])
    /\ UNCHANGED inner

Next == Extend \/ Relay

Spec == Init /\ [][Next]_<<inner, outer>> /\ WF_<<inner, outer>>(Relay)
=============================================================================
