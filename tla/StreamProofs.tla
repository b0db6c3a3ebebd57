---------------------------- MODULE StreamProofs ----------------------------
(***************************************************************************)
(* The outer stream, the committed offsets and the index of a checker, for *)
(* every tree of blocks and any number of messages and failures.           *)
(*                                                                         *)
(* With synchronous commits the process may crash, be rebalanced and lose  *)
(* its DB any number of times.  With the background committer the proofs   *)
(* need a session that is not interrupted: VDropTail.cfg shows that the    *)
(* replay of older messages on a dropped tail breaks the stream.           *)
(***************************************************************************)
EXTENDS CheckerProofs, FiniteSetTheorems

\* What is handed to CommitMessages is never delivered to a later session.
CommitsHold == AsyncCommit => MaxCrashes = 0 /\ MaxRebalances = 0

-----------------------------------------------------------------------------
(***************************************************************************)
(* Where the outer topic stands: c messages are completely published, and  *)
(* p outer notices of the next one, n.  h is the notice that ended the     *)
(* c-th message.                                                           *)
(***************************************************************************)
Tip(b) == [hash |-> b, isFork |-> FALSE]

HeadAfter(c) == IF c = 0 THEN NoNotice ELSE Tip(inner[c].tail)

NoMsg == [old |-> NoBlock, tail |-> NoBlock, first |-> 0]

MsgAfter(c) == IF c < Len(inner) THEN inner[c + 1] ELSE NoMsg

Places(n) == IF n = NoMsg THEN {0} ELSE 0 .. OuterCount(n)

Place(p, h, n) == IF p = 0 THEN h ELSE OuterItem(n, p)

ID(n) == [tail |-> n.tail, newCount |-> NewCount(n), dropCount |-> DropCount(n)]

\* Each message moves the head its predecessor left.
ChainInv ==
    \A k \in 1 .. Len(inner) :
        /\ WellFormed(inner[k])
        /\ inner[k].old = IF k = 1 THEN NoBlock ELSE inner[k - 1].tail

\* The outer topic ends at its place, is contiguous, and has every notice it owes.
TopicInv(c, p, h, n) ==
    /\ OuterTail = Place(p, h, n)
    /\ c = 0 /\ p = 0 => outer = <<>>
    /\ OuterContiguous
    /\ \A o \in OuterNotice :
          /\ Required(o, c) <= Occurrences(o)
          /\ (\E i \in 1 .. p : o = OuterItem(n, i)) =>
                Required(o, c) + 1 <= Occurrences(o)

IndexOf(b) == [k \in Heights |-> Anc[b][k]]

\* The index has the chain of the last complete message, or of the next one,
\* which is written before any of it is published.  A rebuilt index has holes.
IndexInv(p, h, n) ==
    MaxRebuilds = 0 =>
        \/ p = 0 /\ canon = IndexOf(h.hash)
        \/ n # NoMsg /\ canon = IndexOf(n.tail)

InHand == {"replicas", "write", "mark", "publish"}

\* The offsets: what is committed is complete, the reader is at most one message
\* ahead or behind, and a message delivered again was handled in this session.
OffsetInv(c) ==
    /\ IF AsyncCommit THEN committed <= c /\ stash <= c ELSE committed = c /\ stash = 0
    /\ pc \in {"down", "fetch"} => cur = 0
    /\ pc = "down" => lastOffset = 0 /\ notice = NoID /\ (AsyncCommit => c = 0)
    /\ pc # "down" => fetched \in {c - 1, c, c + 1}
    /\ pc # "down" /\ cur = 0 => fetched <= c
    /\ cur \in {0, c, c + 1}
    /\ cur # 0 => fetched <= cur
    /\ cur = c + 1 => fetched >= c
    /\ lastOffset \in {0, c - 1}
    /\ pc \in InHand => cur = c + 1

\* Nothing of the next message has been begun in this session.
Waiting(p, h, n) ==
    /\ latest = Place(p, h, n)
    /\ notice = NoID \/ (p = 0 /\ notice.tail = h.hash)

\* Everything up to message c was handled in this session.
Resting(c, p, h, n) ==
    /\ p = 0
    /\ Waiting(p, h, n)
    /\ lastOffset = c - 1
    /\ MaxRebuilds = 0 => canon = IndexOf(h.hash)

\* latest before the first new block of n is published: the head before n, or
\* the dropped tip a restarted process found.
AtOrigin(h, n) == latest = h \/ (HasDrops(n) /\ latest = OuterItem(n, 1))

\* The first m notices of n are recorded as delivered; one more may be in the
\* topic without a record.
Delivered(m, p, n) ==
    /\ notice = ID(n)
    /\ m \in Nat /\ m <= p /\ p <= m + 1
    /\ delivered = {OuterItem(n, i) : i \in 1 .. m}

\* latest is one of the new blocks among the first m notices of n.
Reached(m, n) == \E k \in DropCount(n) + 1 .. m : latest = OuterItem(n, k)

\* Between two attempts at n.
Retrying(p, h, n) ==
    \E m \in {p - 1, p} : Delivered(m, p, n) /\ (AtOrigin(h, n) \/ Reached(m, n))

\* In an attempt at n, with publishOuter at pub.
Working(p, h, n) ==
    \E m \in {p - 1, p} :
        /\ Delivered(m, p, n)
        /\ pub <= m + 1
        /\ IF pub <= DropCount(n) + 1 THEN AtOrigin(h, n)
           ELSE latest = OuterItem(n, pub - 1)

\* n is complete, and not committed.
Complete(p, n) ==
    /\ p = OuterCount(n)
    /\ latest = OuterItem(n, p)
    /\ notice = NoID \/ Delivered(p, p, n)

\* How far the main flow is.
FlowInv(c, p, h, n) ==
    /\ pc = "fetch" => Waiting(p, h, n)
    /\ pc = "fetch" /\ fetched < c => Resting(c, p, h, n)
    /\ cur # 0 /\ cur = c => Resting(c, p, h, n)
    /\ cur = c + 1 =>
          /\ pc = "process" => Waiting(p, h, n) \/ Retrying(p, h, n)
          /\ pc \in InHand => Working(p, h, n)
          /\ pc \in {"align", "finish", "commit"} => Complete(p, n)
          /\ pc \in {"mark", "publish"} /\ MaxRebuilds = 0 => canon = IndexOf(n.tail)

Standing(c, p, h, n) ==
    /\ TopicInv(c, p, h, n)
    /\ IndexInv(p, h, n)
    /\ OffsetInv(c)
    /\ FlowInv(c, p, h, n)

StreamInv ==
    \E c \in 0 .. Len(inner) : \E p \in Places(MsgAfter(c)) :
        Standing(c, p, HeadAfter(c), MsgAfter(c))

-----------------------------------------------------------------------------
(***************************************************************************)
(* What one message calls for.                                             *)
(***************************************************************************)

\* What a message calls for is one of its outer notices.
LEMMA CarriedItem ==
    ASSUME NEW n \in Notice, WellFormed(n), NEW o \in OuterNotice, Carries(n, o)
    PROVE  \E i \in 1 .. OuterCount(n) : o = OuterItem(n, i)
  <1>0. /\ n.old \in MaybeBlock /\ n.tail \in Block /\ n.tail \in MaybeBlock
        /\ n.first \in Nat \ {0} /\ n.first <= Height[n.tail]
        /\ Height[n.tail] \in Nat /\ Height[n.old] \in Nat
        /\ DropCount(n) \in Nat /\ OuterCount(n) \in Nat \ {0}
        /\ DropCount(n) + 1 <= OuterCount(n)
        /\ OuterCount(n) = DropCount(n) + (Height[n.tail] - n.first + 1)
        /\ DropCount(n) > 0 => DropCount(n) = Height[n.old] - n.first + 1
        /\ DropCount(n) = 0 => Height[n.old] < n.first
    BY Shape
  <1>1. o.hash \in MaybeBlock /\ o.isFork \in BOOLEAN
        /\ o = [hash |-> o.hash, isFork |-> o.isFork]
    BY DEF OuterNotice
  <1>2. Height[o.hash] \in 0 .. MaxHeight /\ MaxHeight \in Nat /\ n.first <= Height[o.hash]
    BY <1>1, HeightAssumption DEF Carries
  <1>3. o.hash # NoBlock
    BY <1>0, <1>2, HeightAssumption
  <1>4. CASE o.isFork
    <2>1. Anc[n.old][Height[o.hash]] = o.hash
      BY <1>4 DEF Carries
    <2>2. Height[o.hash] <= Height[n.old]
      BY <1>0, <1>2, <1>3, <2>1, AncAssumption
    <2> DEFINE i == Height[n.old] - Height[o.hash] + 1
    <2>3. i \in 1 .. DropCount(n) /\ i \in 1 .. OuterCount(n)
          /\ Height[n.old] - i + 1 = Height[o.hash]
      BY <1>0, <1>2, <2>2
    <2> HIDE DEF i
    <2>4. OuterItem(n, i) = [hash |-> o.hash, isFork |-> TRUE]
      BY <2>1, <2>3, DropItem
    <2>5. o = OuterItem(n, i)
      BY <1>1, <1>4, <2>4
    <2> QED BY <2>3, <2>5
  <1>5. CASE ~o.isFork
    <2>1. Anc[n.tail][Height[o.hash]] = o.hash
      BY <1>5 DEF Carries
    <2>2. Height[o.hash] <= Height[n.tail]
      BY <1>0, <1>2, <1>3, <2>1, AncAssumption
    <2> DEFINE i == Height[o.hash] - n.first + DropCount(n) + 1
    <2>3. i \in DropCount(n) + 1 .. OuterCount(n) /\ i \in 1 .. OuterCount(n)
          /\ n.first + i - DropCount(n) - 1 = Height[o.hash]
      BY <1>0, <1>2, <2>2
    <2> HIDE DEF i
    <2>4. OuterItem(n, i) = [hash |-> o.hash, isFork |-> FALSE]
      BY <2>1, <2>3, NewItem
    <2>5. o.isFork = FALSE
      BY <1>1, <1>5
    <2>6. o = OuterItem(n, i)
      BY <1>1, <2>4, <2>5
    <2> QED BY <2>3, <2>6
  <1> QED BY <1>4, <1>5

-----------------------------------------------------------------------------
(***************************************************************************)
(* The index.                                                              *)
(***************************************************************************)

\* WriteBlockInfos turns the index of the chain a notice leaves, or one it has
\* written before, into the index of the chain it moves to.
LEMMA IndexWritten ==
    ASSUME NEW n \in Notice, WellFormed(n),
           canon = IndexOf(n.old) \/ canon = IndexOf(n.tail)
    PROVE  WrittenIndex(n) = IndexOf(n.tail)
  <1>0. /\ n.old \in MaybeBlock /\ n.tail \in MaybeBlock
        /\ n.first \in Nat \ {0} /\ n.first <= Height[n.tail]
        /\ Height[n.tail] \in Nat /\ Height[n.old] \in Nat
        /\ Height[n.old] + 1 >= n.first
        /\ Anc[n.old][n.first - 1] = Anc[n.tail][n.first - 1]
        /\ MaxHeight \in Nat
    BY Shape, HeightAssumption
  <1>1. \A b \in MaybeBlock, h \in Heights : Anc[b][h] = NoBlock <=> h > Height[b]
    <2>1. \A b \in MaybeBlock, h \in Heights :
             h \in 0 .. MaxHeight /\ (h \in 1 .. Height[b] <=> ~(h > Height[b]))
      BY <1>0, HeightAssumption DEF Heights
    <2> QED BY <2>1, AncAssumption
  <1>2. \A h \in Heights : h < n.first => Anc[n.old][h] = Anc[n.tail][h]
    <2> SUFFICES ASSUME NEW h \in Heights, h < n.first
                 PROVE  Anc[n.old][h] = Anc[n.tail][h]
      OBVIOUS
    <2>1. /\ n.first - 1 \in 1 .. Height[n.old] /\ n.first - 1 \in 1 .. Height[n.tail]
          /\ h \in 0 .. n.first - 1
      BY <1>0 DEF Heights
    <2>2. /\ Anc[Anc[n.old][n.first - 1]][h] = Anc[n.old][h]
          /\ Anc[Anc[n.tail][n.first - 1]][h] = Anc[n.tail][h]
      BY <1>0, <2>1, Ancestors
    <2> QED BY <1>0, <2>2
  <1>3. ASSUME NEW h \in Heights PROVE WrittenIndex(n)[h] = Anc[n.tail][h]
    <2>0. h \in Nat
      BY DEF Heights
    <2>1. CASE h \in n.first .. Height[n.tail]
      BY <2>1 DEF WrittenIndex
    <2>2. CASE h < n.first
      <3>1. h \notin n.first .. Height[n.tail] /\ h \notin StaleAbove(n.tail)
        BY <1>0, <2>0, <2>2 DEF StaleAbove
      <3>2. canon[h] = Anc[n.tail][h]
        BY <1>2, <2>2 DEF IndexOf
      <3> QED BY <3>1, <3>2 DEF WrittenIndex
    <2>3. CASE h > Height[n.tail]
      <3>0. h \notin n.first .. Height[n.tail] /\ Anc[n.tail][h] = NoBlock
        BY <1>0, <1>1, <2>0, <2>3
      <3>1. CASE h \in StaleAbove(n.tail)
        BY <3>0, <3>1 DEF WrittenIndex
      <3>2. CASE h \notin StaleAbove(n.tail)
        <4>1. canon[h] = NoBlock
          <5>1. CASE canon = IndexOf(n.tail)
            BY <3>0, <5>1 DEF IndexOf
          <5>2. CASE canon = IndexOf(n.old)
            <6>1. PICK k \in Height[n.tail] + 1 .. h : canon[k] = NoBlock
              BY <1>0, <2>0, <2>3, <3>2 DEF StaleAbove, Heights
            <6>2. k \in Heights /\ k <= h /\ k \in Nat
              BY <1>0, <2>0, <6>1 DEF Heights
            <6>3. k > Height[n.old]
              BY <1>0, <1>1, <5>2, <6>1, <6>2 DEF IndexOf
            <6>4. h > Height[n.old]
              BY <1>0, <2>0, <6>2, <6>3
            <6> QED BY <1>0, <1>1, <5>2, <6>4 DEF IndexOf
          <5> QED BY <5>1, <5>2
        <4> QED BY <3>0, <3>2, <4>1 DEF WrittenIndex
      <3> QED BY <3>1, <3>2
    <2> QED BY <1>0, <2>0, <2>1, <2>2, <2>3
  <1>4. WrittenIndex(n) = [h \in Heights |-> WrittenIndex(n)[h]]
    BY DEF WrittenIndex
  <1> QED BY <1>3, <1>4 DEF IndexOf

-----------------------------------------------------------------------------
(***************************************************************************)
(* Counting notices.                                                       *)
(***************************************************************************)

\* How often the messages up to c call for a notice, message by message.
LEMMA RequiredFacts ==
    ASSUME NEW o, NEW c \in Nat
    PROVE  /\ Required(o, c) \in Nat
           /\ \A d \in 0 .. c : Required(o, d) <= Required(o, c)
           /\ Required(o, c + 1) <= Required(o, c) + 1
           /\ ~Carries(inner[c + 1], o) => Required(o, c + 1) <= Required(o, c)
  <1> DEFINE R(d) == {k \in 1 .. d : Carries(inner[k], o)}
  <1>1. \A d \in Nat : IsFiniteSet(1 .. d)
    BY FS_Interval
  <1>2. \A d \in Nat : IsFiniteSet(R(d)) /\ Cardinality(R(d)) \in Nat
                       /\ Required(o, d) = Cardinality(R(d))
    <2> SUFFICES ASSUME NEW d \in Nat
                 PROVE  IsFiniteSet(R(d)) /\ Cardinality(R(d)) \in Nat
                        /\ Required(o, d) = Cardinality(R(d))
      OBVIOUS
    <2>1. R(d) \subseteq 1 .. d
      OBVIOUS
    <2>2. IsFiniteSet(R(d))
      BY <1>1, <2>1, FS_Subset
    <2>3. Cardinality(R(d)) \in Nat
      BY <2>2, FS_CardinalityType
    <2> QED BY <2>2, <2>3 DEF Required
  <1>3. \A d \in 0 .. c : Cardinality(R(d)) <= Cardinality(R(c))
    <2> SUFFICES ASSUME NEW d \in 0 .. c PROVE Cardinality(R(d)) <= Cardinality(R(c))
      OBVIOUS
    <2>1. R(d) \subseteq R(c)
      OBVIOUS
    <2> QED BY <1>2, <2>1, FS_Subset
  <1>4. CASE Carries(inner[c + 1], o)
    <2>1. R(c + 1) = R(c) \cup {c + 1} /\ c + 1 \notin R(c)
      BY <1>4
    <2>2. Cardinality(R(c + 1)) = Cardinality(R(c)) + 1
      BY <1>2, <2>1, FS_AddElement
    <2> HIDE DEF R
    <2>3. c + 1 \in Nat
      OBVIOUS
    <2> QED BY <1>2, <1>3, <1>4, <2>2, <2>3
  <1>5. CASE ~Carries(inner[c + 1], o)
    <2>1. R(c + 1) = R(c)
      BY <1>5
    <2> HIDE DEF R
    <2> QED BY <1>2, <1>3, <2>1
  <1> QED BY <1>4, <1>5

\* One more entry in the outer topic.
LEMMA Appended ==
    ASSUME outer \in Seq(OuterNotice), NEW x \in OuterNotice, outer' = Append(outer, x)
    PROVE  /\ OuterTail' = x
           /\ outer' # <<>>
           /\ \A o : Occurrences(o)' >= Occurrences(o)
           /\ Occurrences(x)' = Occurrences(x) + 1
           /\ OuterContiguous /\ (outer = <<>> \/ Follows(OuterTail, x)) => OuterContiguous'
  <1>1. /\ Len(outer') = Len(outer) + 1 /\ Len(outer) \in Nat
        /\ \A i \in 1 .. Len(outer) : outer'[i] = outer[i]
        /\ outer'[Len(outer) + 1] = x
    OBVIOUS
  <1> DEFINE S(o) == {i \in 1 .. Len(outer) : outer[i] = o}
             T(o) == {i \in 1 .. Len(outer) + 1 : outer'[i] = o}
  <1>2. \A o : Occurrences(o) = Cardinality(S(o)) /\ Occurrences(o)' = Cardinality(T(o))
    BY <1>1 DEF Occurrences
  <1>3. \A o : S(o) \subseteq T(o) /\ IsFiniteSet(T(o)) /\ IsFiniteSet(S(o))
    <2> SUFFICES ASSUME NEW o
                 PROVE  S(o) \subseteq T(o) /\ IsFiniteSet(T(o)) /\ IsFiniteSet(S(o))
      OBVIOUS
    <2>1. S(o) \subseteq T(o)
      BY <1>1
    <2>2. T(o) \subseteq 1 .. Len(outer) + 1
      OBVIOUS
    <2>3. IsFiniteSet(1 .. Len(outer) + 1)
      BY <1>1, FS_Interval
    <2>4. IsFiniteSet(T(o))
      BY <2>2, <2>3, FS_Subset
    <2> QED BY <2>1, <2>4, FS_Subset
  <1>4. \A o : Occurrences(o)' >= Occurrences(o)
    <2> SUFFICES ASSUME NEW o PROVE Cardinality(T(o)) >= Cardinality(S(o))
      BY <1>2
    <2>1. Cardinality(T(o)) \in Nat /\ Cardinality(S(o)) \in Nat
      BY <1>3, FS_CardinalityType
    <2>2. Cardinality(S(o)) <= Cardinality(T(o))
      BY <1>3, FS_Subset
    <2> QED BY <2>1, <2>2
  <1>5. Occurrences(x)' = Occurrences(x) + 1
    <2>1. T(x) = S(x) \cup {Len(outer) + 1} /\ Len(outer) + 1 \notin S(x)
      BY <1>1
    <2> QED BY <1>2, <1>3, <2>1, FS_AddElement
  <1>6. OuterTail' = x /\ outer' # <<>>
    BY <1>1 DEF OuterTail
  <1>7. ASSUME OuterContiguous, outer = <<>> \/ Follows(OuterTail, x)
        PROVE  OuterContiguous'
    <2> SUFFICES ASSUME NEW i \in 2 .. Len(outer) + 1
                 PROVE  Follows(outer'[i - 1], outer'[i])
      BY <1>1 DEF OuterContiguous
    <2>1. CASE i <= Len(outer)
      <3>1. i \in 2 .. Len(outer) /\ i - 1 \in 1 .. Len(outer) /\ i \in 1 .. Len(outer)
        BY <1>1, <2>1
      <3> QED BY <1>1, <1>7, <3>1 DEF OuterContiguous
    <2>2. CASE i = Len(outer) + 1
      <3>1. Len(outer) # 0 /\ i - 1 = Len(outer) /\ Len(outer) \in 1 .. Len(outer)
        BY <1>1, <2>2
      <3>2. OuterTail = outer[Len(outer)] /\ outer # <<>>
        BY <3>1 DEF OuterTail
      <3> QED BY <1>1, <1>7, <2>2, <3>1, <3>2
    <2> QED BY <1>1, <2>1, <2>2
  <1> QED BY <1>4, <1>5, <1>6, <1>7
-----------------------------------------------------------------------------
(***************************************************************************)
(* The message in hand, and what a step leaves alone.                      *)
(***************************************************************************)

\* h ends the c-th message, n is the one after it, and p is a place in n.
Facing(c, p, h, n) ==
    /\ c \in 0 .. Len(inner) /\ c \in Nat
    /\ p \in Places(n) /\ p \in Nat
    /\ h = HeadAfter(c) /\ n = MsgAfter(c)
    /\ h = Tip(h.hash) /\ h.hash \in MaybeBlock
    /\ h.hash = NoBlock <=> c = 0
    /\ n = NoMsg => p = 0
    /\ n # NoMsg => /\ n \in Notice /\ WellFormed(n)
                    /\ n.old = h.hash /\ p <= OuterCount(n)
    /\ cur = c + 1 => Msg = n /\ n # NoMsg
    /\ cur # 0 /\ cur = c => Msg.tail = h.hash

\* Every place of a well-formed topic is one.
LEMMA Placed ==
    ASSUME MainPart, ChainInv, NEW c \in 0 .. Len(inner), NEW p \in Places(MsgAfter(c))
    PROVE  Facing(c, p, HeadAfter(c), MsgAfter(c))
  <1> DEFINE h == HeadAfter(c)
             n == MsgAfter(c)
  <1>1. inner \in Seq(Notice) /\ cur \in Nat /\ cur <= Len(inner) /\ Len(inner) \in Nat
    BY DEF MainPart, PipelineTypeOK
  <1>2. \A k \in 1 .. Len(inner) : inner[k] \in Notice /\ inner[k].tail \in Block
    <2>1. \A k \in 1 .. Len(inner) : inner[k] \in Notice
      BY <1>1
    <2> QED BY <2>1 DEF Notice
  <1>3. h = Tip(h.hash) /\ h.hash \in MaybeBlock /\ (h.hash = NoBlock <=> c = 0)
    <2>1. CASE c = 0
      BY <2>1 DEF HeadAfter, NoNotice, Tip, MaybeBlock
    <2>2. CASE c # 0
      <3>1. c \in 1 .. Len(inner)
        BY <1>1, <2>2
      <3>2. h = Tip(inner[c].tail) /\ h.hash = inner[c].tail
        BY <2>2 DEF HeadAfter, Tip
      <3> QED BY <1>2, <2>2, <3>1, <3>2, NoBlockAssumption DEF MaybeBlock
    <2> QED BY <2>1, <2>2
  <1>4. CASE c = Len(inner)
    <2>1. n = NoMsg /\ p = 0
      BY <1>1, <1>4 DEF MsgAfter, Places
    <2>2. cur # c + 1
      BY <1>1, <1>4
    <2>3. cur # 0 /\ cur = c => Msg.tail = h.hash
      BY DEF Msg, HeadAfter, Tip
    <2> HIDE DEF h, n
    <2>4. h = HeadAfter(c) /\ n = MsgAfter(c)
      BY DEF h, n
    <2> QED BY <1>1, <1>3, <2>1, <2>2, <2>3, <2>4 DEF Facing
  <1>5. CASE c # Len(inner)
    <2>1. n = inner[c + 1] /\ c + 1 \in 1 .. Len(inner)
      BY <1>1, <1>5 DEF MsgAfter
    <2>2. n \in Notice /\ WellFormed(n) /\ n # NoMsg
      <3>1. n \in Notice /\ n.tail \in Block
        BY <1>2, <2>1
      <3>2. n # NoMsg
        BY <3>1, NoBlockAssumption DEF NoMsg
      <3> QED BY <2>1, <3>1, <3>2 DEF ChainInv
    <2>3. n.old = h.hash
      <3>1. c + 1 - 1 = c
        OBVIOUS
      <3> QED BY <2>1, <3>1 DEF ChainInv, HeadAfter, Tip, NoNotice
    <2>4. p \in Nat /\ p <= OuterCount(n)
      <3>1. OuterCount(n) \in Nat
        BY <2>2, Shape
      <3>2. p \in 0 .. OuterCount(n)
        BY <2>2 DEF Places
      <3> QED BY <3>1, <3>2
    <2>5. cur = c + 1 => Msg = n
      BY <2>1 DEF Msg
    <2>6. cur # 0 /\ cur = c => Msg.tail = h.hash
      BY DEF Msg, HeadAfter, Tip
    <2> HIDE DEF h, n
    <2>7. h = HeadAfter(c) /\ n = MsgAfter(c)
      BY DEF h, n
    <2> QED BY <1>1, <1>3, <2>2, <2>3, <2>4, <2>5, <2>6, <2>7 DEF Facing
  <1> QED BY <1>4, <1>5

\* The numbers of the main flow.
LEMMA Numbers ==
    ASSUME MainPart
    PROVE  /\ cur \in Nat /\ fetched \in Nat /\ committed \in Nat /\ stash \in Nat
           /\ lastOffset \in Nat /\ pub \in Nat \ {0}
           /\ inner \in Seq(Notice) /\ Len(inner) \in Nat
           /\ pc \notin {"down", "fetch"} => cur >= 1
           /\ budget["crashes"] \in Nat /\ budget["rebalances"] \in Nat
           /\ budget["rebuilds"] \in Nat
  BY DEF MainPart, PipelineTypeOK, MainInv

\* A topic nobody writes to keeps its place.
LEMMA TopicKept ==
    ASSUME NEW c, NEW p, NEW h, NEW n, TopicInv(c, p, h, n), UNCHANGED <<inner, outer>>
    PROVE  TopicInv(c, p, h, n)'
  BY DEF TopicInv, OuterTail, OuterContiguous, Required, Occurrences

\* What is said of the flow depends on latest, notice and delivered only.
LEMMA FlowKept ==
    ASSUME NEW p, NEW h, NEW n, UNCHANGED <<latest, notice, delivered>>
    PROVE  /\ Waiting(p, h, n)' <=> Waiting(p, h, n)
           /\ AtOrigin(h, n)' <=> AtOrigin(h, n)
           /\ \A m : Delivered(m, p, n)' <=> Delivered(m, p, n)
           /\ \A m : Reached(m, n)' <=> Reached(m, n)
           /\ Retrying(p, h, n)' <=> Retrying(p, h, n)
           /\ pub' = pub => (Working(p, h, n)' <=> Working(p, h, n))
           /\ Complete(p, n)' <=> Complete(p, n)
  <1>1. Waiting(p, h, n)' <=> Waiting(p, h, n)
    BY DEF Waiting
  <1>2. AtOrigin(h, n)' <=> AtOrigin(h, n)
    BY DEF AtOrigin
  <1>3. \A q, m : Delivered(m, q, n)' <=> Delivered(m, q, n)
    BY DEF Delivered
  <1>4. \A m : Reached(m, n)' <=> Reached(m, n)
    BY DEF Reached
  <1>5. Retrying(p, h, n)' <=> Retrying(p, h, n)
    BY <1>2, <1>3, <1>4 DEF Retrying
  <1>6. pub' = pub => (Working(p, h, n)' <=> Working(p, h, n))
    BY <1>2, <1>3 DEF Working
  <1>7. Complete(p, n)' <=> Complete(p, n)
    BY <1>3 DEF Complete
  <1> QED BY <1>1, <1>2, <1>3, <1>4, <1>5, <1>6, <1>7

\* A step of the worker, or one that does nothing.
LEMMA StreamIdle ==
    ASSUME NEW c, NEW p, NEW h, NEW n, Standing(c, p, h, n),
           UNCHANGED <<kafkaVars, runVars, outVars, canon>>
    PROVE  Standing(c, p, h, n)'
  <1>0. UNCHANGED <<inner, committed, stash, fetched, cur, lastOffset, pc, pub,
                    outer, latest, notice, delivered, canon>>
    BY DEF kafkaVars, runVars, outVars
  <1>1. TopicInv(c, p, h, n)'
    BY <1>0, TopicKept DEF Standing
  <1>2. IndexInv(p, h, n)'
    BY <1>0 DEF Standing, IndexInv
  <1>3. OffsetInv(c)'
    BY <1>0 DEF Standing, OffsetInv
  <1>4. FlowInv(c, p, h, n)'
    BY <1>0, FlowKept DEF Standing, FlowInv, Resting
  <1> QED BY <1>1, <1>2, <1>3, <1>4 DEF Standing
-----------------------------------------------------------------------------
(***************************************************************************)
(* Kafka, start and stop, and the way to the message in hand.              *)
(***************************************************************************)

\* A rebalance: with synchronous commits the reader goes back to message c + 1.
LEMMA StreamRebalance ==
    ASSUME CommitsHold, MainPart, NEW c, NEW p, NEW h, NEW n, Facing(c, p, h, n),
           Standing(c, p, h, n), Rebalance
    PROVE  Standing(c, p, h, n)'
  <1>0. /\ UNCHANGED <<inner, committed, cur, lastOffset, pc, pub,
                       outer, latest, notice, delivered, canon>>
        /\ fetched' = committed /\ stash' \in {0, stash} /\ pc # "down"
        /\ budget["rebalances"] < MaxRebalances
    BY DEF Rebalance, Spend, runVars, outVars, cursorVars
  <1>1. ~AsyncCommit
    BY <1>0, Numbers DEF CommitsHold
  <1>2. committed = c /\ stash = 0 /\ c \in Nat
    BY <1>1 DEF Standing, OffsetInv, Facing
  <1>3. TopicInv(c, p, h, n)'
    BY <1>0, TopicKept DEF Standing
  <1>4. IndexInv(p, h, n)'
    BY <1>0 DEF Standing, IndexInv
  <1>5. OffsetInv(c)'
    BY <1>0, <1>1, <1>2 DEF Standing, OffsetInv
  <1>6. FlowInv(c, p, h, n)'
    BY <1>0, <1>2, FlowKept DEF Standing, FlowInv, Resting
  <1> QED BY <1>3, <1>4, <1>5, <1>6 DEF Standing

\* The background committer commits what is complete.
LEMMA StreamFlush ==
    ASSUME MainPart, NEW c, NEW p, NEW h, NEW n, Facing(c, p, h, n),
           Standing(c, p, h, n), FlushCommit
    PROVE  Standing(c, p, h, n)'
  <1>0. /\ UNCHANGED <<inner, fetched, cur, lastOffset, pc, pub,
                       outer, latest, notice, delivered, canon>>
        /\ committed' = stash /\ stash' = 0 /\ stash # 0
    BY DEF FlushCommit, runVars, outVars, cursorVars
  <1>1. c \in Nat
    BY DEF Facing
  <1>3. TopicInv(c, p, h, n)'
    BY <1>0, TopicKept DEF Standing
  <1>4. IndexInv(p, h, n)'
    BY <1>0 DEF Standing, IndexInv
  <1>5. OffsetInv(c)'
    BY <1>0, <1>1 DEF Standing, OffsetInv
  <1>6. FlowInv(c, p, h, n)'
    BY <1>0, FlowKept DEF Standing, FlowInv, Resting
  <1> QED BY <1>3, <1>4, <1>5, <1>6 DEF Standing

\* A rebuilt DB has an empty index; where the topic stands is not in the DB.
LEMMA StreamRebuild ==
    ASSUME MainPart, NEW c, NEW p, NEW h, NEW n, Facing(c, p, h, n),
           Standing(c, p, h, n), RebuildDB
    PROVE  Standing(c, p, h, n)'
  <1>0. /\ UNCHANGED <<inner, committed, stash, fetched, cur, lastOffset, pc, pub,
                       outer, latest, notice, delivered>>
        /\ pc = "down" /\ budget["rebuilds"] < MaxRebuilds
    BY DEF RebuildDB, Spend, kafkaVars, runVars, outVars
  <1>1. MaxRebuilds # 0 /\ c \in Nat
    BY <1>0, Numbers DEF Facing
  <1>2. cur = 0
    BY <1>0 DEF Standing, OffsetInv
  <1>3. TopicInv(c, p, h, n)'
    BY <1>0, TopicKept DEF Standing
  <1>4. IndexInv(p, h, n)'
    BY <1>1 DEF IndexInv
  <1>5. OffsetInv(c)'
    BY <1>0 DEF Standing, OffsetInv
  <1>6. FlowInv(c, p, h, n)'
    BY <1>0, <1>1, <1>2 DEF FlowInv
  <1> QED BY <1>3, <1>4, <1>5, <1>6 DEF Standing

\* A new process takes the tail of the topic for its latest notice.
LEMMA StreamStart ==
    ASSUME MainPart, NEW c, NEW p, NEW h, NEW n, Facing(c, p, h, n),
           Standing(c, p, h, n), Start
    PROVE  Standing(c, p, h, n)'
  <1>0. /\ UNCHANGED <<inner, committed, stash, cur, lastOffset, pub,
                       outer, notice, delivered, canon>>
        /\ pc = "down" /\ pc' = "fetch" /\ latest' = OuterTail /\ fetched' = committed
    BY DEF Start
  <1>1. c \in Nat /\ committed \in Nat
    BY Numbers DEF Facing
  <1>2. cur = 0 /\ notice = NoID /\ lastOffset = 0
    BY <1>0 DEF Standing, OffsetInv
  <1>3. TopicInv(c, p, h, n)'
    BY <1>0, TopicKept DEF Standing
  <1>4. IndexInv(p, h, n)'
    BY <1>0 DEF Standing, IndexInv
  <1>5. committed = c
    BY <1>0, <1>1 DEF Standing, OffsetInv
  <1>6. OffsetInv(c)'
    BY <1>0, <1>1, <1>2, <1>5 DEF Standing, OffsetInv, InHand
  <1>7. Waiting(p, h, n)'
    BY <1>0, <1>2 DEF Standing, TopicInv, Waiting
  <1>8. FlowInv(c, p, h, n)'
    BY <1>0, <1>1, <1>2, <1>5, <1>7 DEF FlowInv
  <1> QED BY <1>3, <1>4, <1>6, <1>8 DEF Standing

\* A crash forgets the session; with synchronous commits nothing else is lost.
LEMMA StreamCrash ==
    ASSUME CommitsHold, MainPart, NEW c, NEW p, NEW h, NEW n, Facing(c, p, h, n),
           Standing(c, p, h, n), CrashPipeline
    PROVE  Standing(c, p, h, n)'
  <1>0. /\ UNCHANGED <<inner, committed, outer, canon>>
        /\ pc' = "down" /\ cur' = 0 /\ lastOffset' = 0 /\ stash' = 0 /\ notice' = NoID
        /\ budget["crashes"] < MaxCrashes
    BY DEF CrashPipeline, Spend
  <1>1. ~AsyncCommit /\ c \in Nat
    BY <1>0, Numbers DEF CommitsHold, Facing
  <1>2. committed = c
    BY <1>1 DEF Standing, OffsetInv
  <1>3. TopicInv(c, p, h, n)'
    BY <1>0, TopicKept DEF Standing
  <1>4. IndexInv(p, h, n)'
    BY <1>0 DEF Standing, IndexInv
  <1>5. OffsetInv(c)'
    BY <1>0, <1>1, <1>2 DEF OffsetInv, InHand
  <1>6. FlowInv(c, p, h, n)'
    BY <1>0, <1>1 DEF FlowInv
  <1> QED BY <1>3, <1>4, <1>5, <1>6 DEF Standing

\* The message that is fetched is the next one, or one handled in this session.
LEMMA StreamFetch ==
    ASSUME MainPart, NEW c, NEW p, NEW h, NEW n, Facing(c, p, h, n),
           Standing(c, p, h, n), Fetch
    PROVE  Standing(c, p, h, n)'
  <1>0. /\ UNCHANGED <<inner, committed, stash, lastOffset, pub,
                       outer, latest, notice, delivered, canon>>
        /\ pc = "fetch" /\ pc' = "process"
        /\ fetched' = fetched + 1 /\ cur' = fetched + 1
    BY DEF Fetch, outVars, cursorVars
  <1>1. c \in Nat /\ fetched \in Nat
    BY Numbers DEF Facing
  <1>2. cur = 0 /\ fetched \in {c - 1, c}
    BY <1>0, <1>1 DEF Standing, OffsetInv
  <1>3. TopicInv(c, p, h, n)'
    BY <1>0, TopicKept DEF Standing
  <1>4. IndexInv(p, h, n)'
    BY <1>0 DEF Standing, IndexInv
  <1>5. OffsetInv(c)'
    BY <1>0, <1>1, <1>2 DEF Standing, OffsetInv, InHand
  <1>6. Waiting(p, h, n)' /\ (fetched < c => Resting(c, p, h, n)')
    BY <1>0, FlowKept DEF Standing, FlowInv, Resting
  <1>7. FlowInv(c, p, h, n)'
    BY <1>0, <1>1, <1>2, <1>6 DEF FlowInv, InHand
  <1> QED BY <1>3, <1>4, <1>5, <1>7 DEF Standing

\* Only a message handled in this session is skipped.
LEMMA StreamSkip ==
    ASSUME MainPart, NEW c, NEW p, NEW h, NEW n, Facing(c, p, h, n),
           Standing(c, p, h, n), SkipSeen
    PROVE  Standing(c, p, h, n)'
  <1>0. /\ UNCHANGED <<inner, committed, stash, fetched, cur, lastOffset, pub,
                       outer, latest, notice, delivered, canon>>
        /\ pc = "process" /\ pc' = "commit" /\ lastOffset # 0 /\ cur - 1 <= lastOffset
    BY DEF SkipSeen, AlreadySeen, Offset, kafkaVars, outVars, cursorVars
  <1>1. c \in Nat /\ cur \in Nat /\ cur >= 1
    BY <1>0, Numbers DEF Facing
  <1>2. cur = c
    BY <1>0, <1>1 DEF Standing, OffsetInv
  <1>3. TopicInv(c, p, h, n)'
    BY <1>0, TopicKept DEF Standing
  <1>4. IndexInv(p, h, n)'
    BY <1>0 DEF Standing, IndexInv
  <1>5. OffsetInv(c)'
    BY <1>0, <1>1, <1>2 DEF Standing, OffsetInv, InHand
  <1>6. Resting(c, p, h, n)'
    BY <1>0, <1>1, <1>2, FlowKept DEF Standing, FlowInv, Resting
  <1>7. FlowInv(c, p, h, n)'
    BY <1>0, <1>1, <1>2, <1>6 DEF FlowInv
  <1> QED BY <1>3, <1>4, <1>5, <1>7 DEF Standing
-----------------------------------------------------------------------------
(***************************************************************************)
(* processNotice.                                                          *)
(***************************************************************************)

\* What the head before the message in hand is not.
LEMMA HeadDiffers ==
    ASSUME NEW c, NEW p, NEW h, NEW n, Facing(c, p, h, n), n # NoMsg
    PROVE  /\ h.hash # n.tail /\ n.tail \in Block
           /\ ID(n).tail # h.hash /\ ID(n) # NoID
           /\ DropCount(n) \in Nat /\ OuterCount(n) \in Nat \ {0}
           /\ DropCount(n) + 1 <= OuterCount(n)
           /\ HasDrops(n) <=> DropCount(n) >= 1
  <1>1. n \in Notice /\ WellFormed(n) /\ n.old = h.hash
    BY DEF Facing
  <1>2. /\ n.tail # n.old /\ n.tail \in Block
        /\ DropCount(n) \in Nat /\ OuterCount(n) \in Nat \ {0}
        /\ DropCount(n) + 1 <= OuterCount(n)
    BY <1>1, Shape
  <1>3. ID(n) # NoID
    BY <1>2, NoBlockAssumption DEF ID, NoID
  <1>4. ID(n).tail # h.hash
    BY <1>1, <1>2 DEF ID
  <1>5. HasDrops(n) <=> DropCount(n) >= 1
    BY <1>2 DEF HasDrops
  <1> QED BY <1>1, <1>2, <1>3, <1>4, <1>5

\* isAlreadyProcessed answers true for the next message only if all of it is
\* in the topic.
LEMMA ProcessedIsComplete ==
    ASSUME NEW c, NEW p, NEW h, NEW n, Facing(c, p, h, n), n # NoMsg,
           Waiting(p, h, n) \/ Retrying(p, h, n), n.tail = latest.hash
    PROVE  Complete(p, n)
  <1>0. n \in Notice /\ WellFormed(n) /\ p \in Nat /\ p <= OuterCount(n)
    BY DEF Facing
  <1>1. /\ h.hash # n.tail
        /\ DropCount(n) \in Nat /\ OuterCount(n) \in Nat \ {0}
        /\ DropCount(n) + 1 <= OuterCount(n)
        /\ HasDrops(n) <=> DropCount(n) >= 1
    BY HeadDiffers
  <1>2. CASE Waiting(p, h, n)
    <2>1. p # 0
      BY <1>1, <1>2 DEF Waiting, Place
    <2>2. latest = OuterItem(n, p) /\ notice = NoID /\ p \in 1 .. OuterCount(n)
      BY <1>0, <1>1, <1>2, <2>1 DEF Waiting, Place
    <2>3. p = OuterCount(n)
      BY <1>0, <2>2, ItemsDiffer
    <2> QED BY <2>2, <2>3 DEF Complete
  <1>3. CASE Retrying(p, h, n)
    <2>1. PICK m \in {p - 1, p} : Delivered(m, p, n) /\ (AtOrigin(h, n) \/ Reached(m, n))
      BY <1>3 DEF Retrying
    <2>2. m \in Nat /\ m <= p
      BY <2>1 DEF Delivered
    <2>3. ~AtOrigin(h, n)
      <3>1. latest # h
        BY <1>1
      <3>2. ~(HasDrops(n) /\ latest = OuterItem(n, 1))
        <4> SUFFICES ASSUME HasDrops(n), latest = OuterItem(n, 1) PROVE FALSE
          OBVIOUS
        <4>1. 1 \in 1 .. OuterCount(n) /\ 1 # OuterCount(n)
          BY <1>1
        <4> QED BY <1>0, <4>1, ItemsDiffer
      <3> QED BY <3>1, <3>2 DEF AtOrigin
    <2>4. PICK k \in DropCount(n) + 1 .. m : latest = OuterItem(n, k)
      BY <2>1, <2>3 DEF Reached
    <2>5. k \in 1 .. OuterCount(n) /\ k \in Nat /\ k <= m
      BY <1>0, <1>1, <2>2
    <2>6. k = OuterCount(n)
      BY <1>0, <2>4, <2>5, ItemsDiffer
    <2>7. m = p /\ k = p
      BY <1>0, <1>1, <2>2, <2>5, <2>6
    <2> QED BY <2>1, <2>4, <2>6, <2>7 DEF Complete
  <1> QED BY <1>2, <1>3

\* The idempotent short cut: the message is complete, or was handled before.
LEMMA StreamProcessed ==
    ASSUME MainPart, NEW c, NEW p, NEW h, NEW n, Facing(c, p, h, n),
           Standing(c, p, h, n), BeginProcessed
    PROVE  Standing(c, p, h, n)'
  <1>0. /\ UNCHANGED <<inner, committed, stash, fetched, cur, lastOffset, pub,
                       outer, latest, notice, delivered, canon>>
        /\ pc = "process" /\ pc' = "align" /\ Msg.tail = latest.hash
    BY DEF BeginProcessed, IsAlreadyProcessed, kafkaVars, outVars
  <1>1. c \in Nat /\ cur \in Nat /\ cur >= 1
    BY <1>0, Numbers DEF Facing
  <1>2. cur = c \/ cur = c + 1
    BY <1>1 DEF Standing, OffsetInv
  <1>3. TopicInv(c, p, h, n)'
    BY <1>0, TopicKept DEF Standing
  <1>4. IndexInv(p, h, n)'
    BY <1>0 DEF Standing, IndexInv
  <1>5. OffsetInv(c)'
    BY <1>0, <1>1, <1>2 DEF Standing, OffsetInv, InHand
  <1>6. cur = c => Resting(c, p, h, n)'
    BY <1>0, <1>1, FlowKept DEF Standing, FlowInv, Resting
  <1>7. cur = c + 1 => Complete(p, n)'
    <2> SUFFICES ASSUME cur = c + 1 PROVE Complete(p, n)
      BY <1>0, FlowKept
    <2>1. Msg = n /\ n # NoMsg
      BY DEF Facing
    <2>2. Waiting(p, h, n) \/ Retrying(p, h, n)
      BY <1>0 DEF Standing, FlowInv
    <2> QED BY <1>0, <2>1, <2>2, ProcessedIsComplete
  <1>8. FlowInv(c, p, h, n)'
    BY <1>0, <1>1, <1>2, <1>6, <1>7 DEF FlowInv, InHand
  <1> QED BY <1>3, <1>4, <1>5, <1>8 DEF Standing

\* msgCheck accepts the next message at its origin only.
LEMMA AcceptedAtOrigin ==
    ASSUME NEW c, NEW p, NEW h, NEW n, Facing(c, p, h, n), n # NoMsg,
           Waiting(p, h, n) \/ Retrying(p, h, n), MsgCheck(n)
    PROVE  AtOrigin(h, n) /\ (Waiting(p, h, n) => p <= 1)
  <1>0. n \in Notice /\ WellFormed(n) /\ p \in Nat /\ p <= OuterCount(n)
    BY DEF Facing
  <1>1. /\ DropCount(n) \in Nat /\ OuterCount(n) \in Nat \ {0}
        /\ DropCount(n) + 1 <= OuterCount(n)
        /\ HasDrops(n) <=> DropCount(n) >= 1
    BY HeadDiffers
  <1>2. ASSUME NEW k \in 1 .. OuterCount(n), latest = OuterItem(n, k)
        PROVE  HasDrops(n) /\ k = 1
    <2>1. latest # NoNotice
      BY <1>0, <1>2, ItemsDiffer
    <2>2. ~HasDrops(n) => latest.hash # Anc[n.tail][n.first - 1]
      BY <1>0, <1>2, ItemsDiffer
    <2>3. latest.hash = n.old => HasDrops(n) /\ k = 1
      BY <1>0, <1>2, ItemsDiffer
    <2> QED BY <2>1, <2>2, <2>3 DEF MsgCheck
  <1>3. ASSUME Waiting(p, h, n) PROVE AtOrigin(h, n) /\ p <= 1
    <2>1. CASE p = 0
      BY <1>3, <2>1 DEF Waiting, Place, AtOrigin
    <2>2. CASE p # 0
      <3>1. p \in 1 .. OuterCount(n) /\ latest = OuterItem(n, p)
        BY <1>0, <1>1, <1>3, <2>2 DEF Waiting, Place
      <3>2. HasDrops(n) /\ p = 1
        BY <1>2, <3>1
      <3> QED BY <3>1, <3>2 DEF AtOrigin
    <2> QED BY <2>1, <2>2
  <1>4. ASSUME Retrying(p, h, n) PROVE AtOrigin(h, n)
    <2>1. PICK m \in {p - 1, p} : Delivered(m, p, n) /\ (AtOrigin(h, n) \/ Reached(m, n))
      BY <1>4 DEF Retrying
    <2>2. m \in Nat /\ m <= p
      BY <2>1 DEF Delivered
    <2>3. ~Reached(m, n)
      <3> SUFFICES ASSUME NEW k \in DropCount(n) + 1 .. m, latest = OuterItem(n, k)
                   PROVE  FALSE
        BY DEF Reached
      <3>1. k \in 1 .. OuterCount(n) /\ k > DropCount(n)
        BY <1>0, <1>1, <2>2
      <3>2. HasDrops(n) /\ k = 1
        BY <1>2, <3>1
      <3> QED BY <1>1, <3>1, <3>2
    <2> QED BY <2>1, <2>3
  <1> QED BY <1>3, <1>4

\* An attempt begins with the first outer notice and forgets what a different
\* message delivered.
LEMMA StreamBegin ==
    ASSUME MainPart, NEW c, NEW p, NEW h, NEW n, Facing(c, p, h, n),
           Standing(c, p, h, n), BeginNew
    PROVE  Standing(c, p, h, n)'
  <1>0. /\ UNCHANGED <<inner, committed, stash, fetched, cur, lastOffset,
                       outer, latest, canon>>
        /\ pc = "process" /\ pc' = "replicas" /\ pub' = 1
        /\ ~IsAlreadyProcessed(Msg) /\ MsgCheck(Msg) /\ ~AlreadySeen
        /\ notice' = ID(Msg) /\ delivered' = IF ID(Msg) = notice THEN delivered ELSE {}
    BY DEF BeginNew, BeginNotice, kafkaVars, ID
  <1>1. c \in Nat /\ cur \in Nat /\ cur >= 1 /\ p \in Nat
    BY <1>0, Numbers DEF Facing
  <1>2. cur = c \/ cur = c + 1
    BY <1>1 DEF Standing, OffsetInv
  <1>3. cur = c + 1
    <2> SUFFICES ASSUME cur = c PROVE FALSE
      BY <1>2
    <2>1. Resting(c, p, h, n)
      BY <1>1 DEF Standing, FlowInv
    <2>2. latest = h /\ lastOffset = c - 1
      BY <2>1 DEF Resting, Waiting, Place
    <2>3. c = 1
      BY <1>0, <1>1, <2>2 DEF AlreadySeen, Offset
    <2>4. Msg.tail = h.hash /\ h.hash # NoBlock
      BY <1>1, <2>3 DEF Facing
    <2>5. latest # NoNotice
      BY <2>2, <2>4 DEF NoNotice
    <2> QED BY <1>0, <2>2, <2>4, <2>5 DEF IsAlreadyProcessed
  <1>4. Msg = n /\ n # NoMsg
    BY <1>3 DEF Facing
  <1>5. Waiting(p, h, n) \/ Retrying(p, h, n)
    BY <1>0, <1>3 DEF Standing, FlowInv
  <1>6. AtOrigin(h, n) /\ (Waiting(p, h, n) => p <= 1)
    BY <1>0, <1>4, <1>5, AcceptedAtOrigin
  <1>7. AtOrigin(h, n)'
    BY <1>0, <1>6 DEF AtOrigin
  <1>8. \E m \in {p - 1, p} : Delivered(m, p, n)'
    <2>1. CASE Waiting(p, h, n)
      <3>1. ID(n) # notice
        BY <1>4, <2>1, HeadDiffers DEF Waiting
      <3>2. delivered' = {} /\ notice' = ID(n)
        BY <1>0, <1>4, <3>1
      <3>3. {OuterItem(n, i) : i \in 1 .. 0} = {}
        OBVIOUS
      <3>4. p <= 1
        BY <1>6, <2>1
      <3>5. Delivered(0, p, n)'
        BY <1>1, <3>2, <3>3, <3>4 DEF Delivered
      <3>6. 0 \in {p - 1, p}
        BY <1>1, <3>4
      <3> QED BY <3>5, <3>6
    <2>2. CASE Retrying(p, h, n)
      <3>1. PICK m \in {p - 1, p} : Delivered(m, p, n)
        BY <2>2 DEF Retrying
      <3>2. notice' = notice /\ delivered' = delivered
        BY <1>0, <1>4, <3>1 DEF Delivered
      <3>3. Delivered(m, p, n)'
        BY <3>1, <3>2 DEF Delivered
      <3> QED BY <3>3
    <2> QED BY <1>5, <2>1, <2>2
  <1>9. Working(p, h, n)'
    <2>1. PICK m \in {p - 1, p} : Delivered(m, p, n)'
      BY <1>8
    <2>2. m \in Nat
      BY <2>1 DEF Delivered
    <2>3. DropCount(n) \in Nat
      BY <1>4, HeadDiffers
    <2>4. pub' <= m + 1 /\ pub' <= DropCount(n) + 1
      BY <1>0, <2>2, <2>3
    <2> QED BY <1>7, <2>1, <2>4 DEF Working
  <1>10. TopicInv(c, p, h, n)'
    BY <1>0, TopicKept DEF Standing
  <1>11. IndexInv(p, h, n)'
    BY <1>0 DEF Standing, IndexInv
  <1>12. OffsetInv(c)'
    BY <1>0, <1>1, <1>3 DEF Standing, OffsetInv, InHand
  <1>13. FlowInv(c, p, h, n)'
    BY <1>0, <1>1, <1>3, <1>9 DEF FlowInv, InHand
  <1> QED BY <1>10, <1>11, <1>12, <1>13 DEF Standing
\* The steps between beginNotice and the commit that touch neither the topic nor
\* the index.
LEMMA StreamAdvance ==
    ASSUME MainPart, NEW c, NEW p, NEW h, NEW n, Facing(c, p, h, n), Standing(c, p, h, n),
           ReplicasReady \/ MarkForks \/ AlignOuterSingleton \/ Finish
    PROVE  Standing(c, p, h, n)'
  <1>0. /\ UNCHANGED <<inner, committed, stash, fetched, cur, lastOffset, pub,
                       outer, latest, notice, delivered, canon>>
        /\ \/ pc = "replicas" /\ pc' = "write"
           \/ pc = "mark" /\ pc' = "publish"
           \/ pc = "align" /\ pc' = "finish"
           \/ pc = "finish" /\ pc' = "commit"
    BY DEF ReplicasReady, MarkForks, AlignOuterSingleton, Finish, Advance, kafkaVars,
           outVars, cursorVars
  <1>1. TopicInv(c, p, h, n)'
    BY <1>0, TopicKept DEF Standing
  <1>2. IndexInv(p, h, n)'
    BY <1>0 DEF Standing, IndexInv
  <1>3. OffsetInv(c)'
    BY <1>0 DEF Standing, OffsetInv, InHand
  <1>4. FlowInv(c, p, h, n)'
    BY <1>0, FlowKept DEF Standing, FlowInv, Resting, InHand
  <1> QED BY <1>1, <1>2, <1>3, <1>4 DEF Standing

\* The write leaves the index of the chain the message moves to.
LEMMA StreamWrite ==
    ASSUME MainPart, NEW c, NEW p, NEW h, NEW n, Facing(c, p, h, n), Standing(c, p, h, n),
           WriteDB
    PROVE  Standing(c, p, h, n)'
  <1>0. /\ UNCHANGED <<inner, committed, stash, fetched, cur, lastOffset, pub,
                       outer, latest, notice, delivered>>
        /\ pc = "write" /\ pc' = "mark" /\ canon' = WrittenIndex(Msg)
    BY DEF WriteDB, WriteBlockInfos, Advance, kafkaVars, outVars
  <1>1. cur = c + 1 /\ c \in Nat
    BY <1>0 DEF Standing, OffsetInv, InHand, Facing
  <1>2. Msg = n /\ n # NoMsg /\ n \in Notice /\ WellFormed(n) /\ n.old = h.hash
    BY <1>1 DEF Facing
  <1>3. MaxRebuilds = 0 => canon' = IndexOf(n.tail)
    <2> SUFFICES ASSUME MaxRebuilds = 0 PROVE WrittenIndex(n) = IndexOf(n.tail)
      BY <1>0, <1>2
    <2>1. canon = IndexOf(n.old) \/ canon = IndexOf(n.tail)
      BY <1>2 DEF Standing, IndexInv
    <2> QED BY <1>2, <2>1, IndexWritten
  <1>4. TopicInv(c, p, h, n)'
    BY <1>0, TopicKept DEF Standing
  <1>5. IndexInv(p, h, n)'
    BY <1>2, <1>3 DEF IndexInv
  <1>6. OffsetInv(c)'
    BY <1>0, <1>1 DEF Standing, OffsetInv, InHand
  <1>7. Working(p, h, n)'
    BY <1>0, <1>1, FlowKept DEF Standing, FlowInv, InHand
  <1>8. FlowInv(c, p, h, n)'
    BY <1>0, <1>1, <1>3, <1>7 DEF FlowInv, InHand
  <1> QED BY <1>4, <1>5, <1>6, <1>8 DEF Standing

\* publishOuter writes an outer notice exactly when it is not recorded.
LEMMA Recorded ==
    ASSUME NEW n \in Notice, WellFormed(n), NEW p \in Nat, p <= OuterCount(n), NEW m,
           Delivered(m, p, n), NEW i \in 1 .. OuterCount(n)
    PROVE  /\ OuterItem(n, i) \in delivered <=> i <= m
           /\ i = m + 1 => delivered \cup {OuterItem(n, i)}
                              = {OuterItem(n, k) : k \in 1 .. i}
  <1>1. m \in Nat /\ m <= p /\ delivered = {OuterItem(n, k) : k \in 1 .. m}
    BY DEF Delivered
  <1>2. OuterCount(n) \in Nat
    BY Shape
  <1>3. \A k \in 1 .. m : k \in 1 .. OuterCount(n) /\ (OuterItem(n, i) = OuterItem(n, k) => i = k)
    <2>1. \A k \in 1 .. m : k \in 1 .. OuterCount(n)
      BY <1>1, <1>2
    <2> QED BY <2>1, ItemsDiffer
  <1>4. OuterItem(n, i) \in delivered <=> i <= m
    BY <1>1, <1>2, <1>3
  <1>5. i = m + 1 => 1 .. i = (1 .. m) \cup {i}
    BY <1>1
  <1>6. i = m + 1 => delivered \cup {OuterItem(n, i)} = {OuterItem(n, k) : k \in 1 .. i}
    BY <1>1, <1>5
  <1> QED BY <1>4, <1>6

\* Occurrences are counted.
LEMMA OccurrencesType ==
    ASSUME NEW s \in Seq(OuterNotice), NEW o
    PROVE  Cardinality({i \in 1 .. Len(s) : s[i] = o}) \in Nat
  <1> DEFINE S == {i \in 1 .. Len(s) : s[i] = o}
  <1>1. Len(s) \in Nat /\ S \subseteq 1 .. Len(s)
    OBVIOUS
  <1>2. IsFiniteSet(1 .. Len(s))
    BY <1>1, FS_Interval
  <1>3. IsFiniteSet(S)
    BY <1>1, <1>2, FS_Subset
  <1> QED BY <1>3, FS_CardinalityType

\* The first notice of n that is not recorded goes to the topic: it is the next
\* one, or the last one once more.
LEMMA TopicAppended ==
    ASSUME NEW c, NEW p, NEW h, NEW n, Facing(c, p, h, n), n # NoMsg, TopicInv(c, p, h, n),
           NEW m \in Nat, m <= p, p <= m + 1, m + 1 <= OuterCount(n),
           outer \in Seq(OuterNotice), inner' = inner,
           outer' = Append(outer, OuterItem(n, m + 1))
    PROVE  TopicInv(c, m + 1, h, n)'
  <1> DEFINE x == OuterItem(n, m + 1)
  <1>0. /\ n \in Notice /\ WellFormed(n) /\ n.old = h.hash /\ p \in Nat /\ c \in Nat
        /\ h = Tip(h.hash) /\ (h.hash = NoBlock <=> c = 0)
    BY DEF Facing
  <1>1. OuterCount(n) \in Nat \ {0} /\ m + 1 \in 1 .. OuterCount(n)
    BY <1>0, Shape
  <1>2. x \in OuterNotice
    BY <1>0, <1>1, ItemsDiffer
  <1>3. outer = <<>> \/ Follows(OuterTail, x)
    <2>1. CASE p = 0
      <3>1. m + 1 = 1 /\ OuterTail = h
        BY <1>0, <2>1 DEF TopicInv, Place
      <3>2. CASE c = 0
        BY <2>1, <3>2 DEF TopicInv
      <3>3. CASE c # 0
        <4>1. n.old # NoBlock /\ h = [hash |-> n.old, isFork |-> FALSE]
          BY <1>0, <3>3 DEF Tip
        <4>2. Follows(h, OuterItem(n, 1))
          BY <1>0, <4>1, ItemsFollow
        <4> QED BY <3>1, <4>2
      <3> QED BY <3>2, <3>3
    <2>2. CASE p # 0 /\ p = m
      <3>1. OuterTail = OuterItem(n, p) /\ p \in 1 .. OuterCount(n) - 1 /\ p + 1 = m + 1
        BY <1>0, <1>1, <2>2 DEF TopicInv, Place
      <3> QED BY <1>0, <3>1, ItemsFollow
    <2>3. CASE p # 0 /\ p = m + 1
      <3>1. OuterTail = x
        BY <2>3 DEF TopicInv, Place
      <3> QED BY <3>1 DEF Follows
    <2> QED BY <1>0, <2>1, <2>2, <2>3
  <1> HIDE DEF x
  <1>4. outer' = Append(outer, x)
    BY DEF x
  <1>5. /\ OuterTail' = x
        /\ \A o : Occurrences(o)' >= Occurrences(o)
        /\ Occurrences(x)' = Occurrences(x) + 1
        /\ OuterContiguous'
    BY <1>2, <1>3, <1>4, Appended DEF TopicInv
  <1>6. OuterTail' = Place(m + 1, h, n)
    BY <1>5 DEF Place, x
  <1>7. ASSUME NEW o \in OuterNotice
        PROVE  /\ Required(o, c)' <= Occurrences(o)'
               /\ (\E i \in 1 .. m + 1 : o = OuterItem(n, i)) =>
                     Required(o, c)' + 1 <= Occurrences(o)'
    <2>1. Required(o, c)' = Required(o, c)
      BY DEF Required
    <2>2. Required(o, c) \in Nat
      BY <1>0, RequiredFacts
    <2>3. Occurrences(o) \in Nat /\ Occurrences(o)' \in Nat
      <3>1. outer' \in Seq(OuterNotice)
        BY <1>2, <1>4
      <3>2. Occurrences(o)' \in Nat
        BY <3>1, OccurrencesType DEF Occurrences
      <3> QED BY <3>2, OccurrencesType DEF Occurrences
    <2>4. /\ Required(o, c) <= Occurrences(o)
          /\ (\E i \in 1 .. p : o = OuterItem(n, i)) => Required(o, c) + 1 <= Occurrences(o)
      BY DEF TopicInv
    <2>5. Occurrences(o)' >= Occurrences(o) /\ (o = x => Occurrences(o)' = Occurrences(o) + 1)
      BY <1>5
    <2>6. Required(o, c)' <= Occurrences(o)'
      BY <2>1, <2>2, <2>3, <2>4, <2>5
    <2>7. ASSUME NEW i \in 1 .. m + 1, o = OuterItem(n, i)
          PROVE  Required(o, c)' + 1 <= Occurrences(o)'
      <3>1. CASE i = m + 1
        <4>1. o = x
          BY <2>7, <3>1 DEF x
        <4> QED BY <2>1, <2>2, <2>3, <2>4, <2>5, <4>1
      <3>2. CASE i # m + 1
        <4>1. i \in 1 .. p
          BY <1>0, <3>2
        <4> QED BY <2>1, <2>2, <2>3, <2>4, <2>5, <2>7, <4>1
      <3> QED BY <3>1, <3>2
    <2> QED BY <2>6, <2>7
  <1>8. m + 1 # 0
    OBVIOUS
  <1> QED BY <1>5, <1>6, <1>7, <1>8 DEF TopicInv
\* What an attempt knows when publishOuter is at pub.
LEMMA InAttempt ==
    ASSUME MainPart, NEW c, NEW p, NEW h, NEW n, Facing(c, p, h, n), Standing(c, p, h, n),
           pc = "publish"
    PROVE  /\ cur = c + 1 /\ c \in Nat /\ p \in Nat /\ Msg = n /\ n # NoMsg
           /\ n \in Notice /\ WellFormed(n) /\ p <= OuterCount(n)
           /\ DropCount(n) \in Nat /\ OuterCount(n) \in Nat \ {0}
           /\ DropCount(n) + 1 <= OuterCount(n)
           /\ pub \in 1 .. OuterCount(n) /\ pub \in Nat \ {0}
           /\ outer \in Seq(OuterNotice)
           /\ Working(p, h, n)
           /\ MaxRebuilds = 0 => canon = IndexOf(n.tail)
  <1>1. cur = c + 1 /\ c \in Nat /\ p \in Nat
    BY DEF Standing, OffsetInv, InHand, Facing
  <1>2. Msg = n /\ n # NoMsg /\ n \in Notice /\ WellFormed(n) /\ p <= OuterCount(n)
    BY <1>1 DEF Facing
  <1>3. /\ DropCount(n) \in Nat /\ OuterCount(n) \in Nat \ {0}
        /\ DropCount(n) + 1 <= OuterCount(n)
    BY <1>2, Shape
  <1>4. pub \in Nat \ {0} /\ pub <= OuterCount(n) /\ outer \in Seq(OuterNotice)
    BY <1>2 DEF MainPart, MainInv, PipelineTypeOK
  <1>5. pub \in 1 .. OuterCount(n)
    BY <1>3, <1>4
  <1>6. Working(p, h, n) /\ (MaxRebuilds = 0 => canon = IndexOf(n.tail))
    BY <1>1 DEF Standing, FlowInv, InHand
  <1> QED BY <1>1, <1>2, <1>3, <1>4, <1>5, <1>6

\* publishOuter, one notice further.
LEMMA StreamPublish ==
    ASSUME MainPart, NEW c, NEW p, NEW h, NEW n, Facing(c, p, h, n), Standing(c, p, h, n),
           PublishOne
    PROVE  \E q \in Places(n) : Standing(c, q, h, n)'
  <1>0. /\ UNCHANGED <<inner, committed, stash, fetched, cur, lastOffset, notice, canon>>
        /\ pc = "publish" /\ pub' = pub + 1
        /\ pc' = IF pub = OuterCount(Msg) THEN "align" ELSE "publish"
        /\ latest' = IF OuterItem(Msg, pub).isFork THEN latest ELSE OuterItem(Msg, pub)
        /\ IF OuterItem(Msg, pub) \in delivered
           THEN UNCHANGED <<outer, delivered>>
           ELSE /\ outer' = Append(outer, OuterItem(Msg, pub))
                /\ delivered' = delivered \cup {OuterItem(Msg, pub)}
    BY DEF PublishOne, PublishUnchanged, Item, kafkaVars
  <1>1. /\ cur = c + 1 /\ c \in Nat /\ p \in Nat /\ Msg = n /\ n # NoMsg
        /\ n \in Notice /\ WellFormed(n) /\ p <= OuterCount(n)
        /\ DropCount(n) \in Nat /\ OuterCount(n) \in Nat \ {0}
        /\ DropCount(n) + 1 <= OuterCount(n)
        /\ pub \in 1 .. OuterCount(n) /\ pub \in Nat \ {0}
        /\ outer \in Seq(OuterNotice)
        /\ Working(p, h, n)
        /\ MaxRebuilds = 0 => canon = IndexOf(n.tail)
    BY <1>0, InAttempt
  <1>2. PICK m \in {p - 1, p} :
            /\ Delivered(m, p, n)
            /\ pub <= m + 1
            /\ IF pub <= DropCount(n) + 1 THEN AtOrigin(h, n)
               ELSE latest = OuterItem(n, pub - 1)
    BY <1>1 DEF Working
  <1>3. m \in Nat /\ m <= p /\ p <= m + 1 /\ notice = ID(n)
    BY <1>2 DEF Delivered
  <1>4. /\ OuterItem(n, pub) \in delivered <=> pub <= m
        /\ pub = m + 1 => delivered \cup {OuterItem(n, pub)}
                             = {OuterItem(n, k) : k \in 1 .. pub}
    BY <1>1, <1>2, Recorded
  \* q and l are the place and the record after the step.
  <1>5. PICK q \in {p, m + 1}, l \in {m, m + 1} :
            /\ l \in {q - 1, q}
            /\ TopicInv(c, q, h, n)'
            /\ Delivered(l, q, n)'
            /\ pub <= l /\ q <= OuterCount(n)
    <2>1. CASE pub <= m
      <3>1. UNCHANGED <<outer, delivered>>
        BY <1>0, <1>1, <1>4, <2>1
      <3>2. TopicInv(c, p, h, n)'
        BY <1>0, <3>1, TopicKept DEF Standing
      <3>3. Delivered(m, p, n)'
        BY <1>0, <1>2, <3>1 DEF Delivered
      <3> QED BY <1>1, <2>1, <3>2, <3>3
    <2>2. CASE pub = m + 1
      <3>1. outer' = Append(outer, OuterItem(n, m + 1))
        BY <1>0, <1>1, <1>3, <1>4, <2>2
      <3>2. delivered' = {OuterItem(n, k) : k \in 1 .. pub}
        BY <1>0, <1>1, <1>3, <1>4, <2>2
      <3>3. m + 1 <= OuterCount(n)
        BY <1>1, <2>2
      <3>4. TopicInv(c, p, h, n) /\ inner' = inner
        BY <1>0 DEF Standing
      <3>5. TopicInv(c, m + 1, h, n)'
        BY <1>1, <1>3, <3>1, <3>3, <3>4, TopicAppended
      <3>6. notice' = ID(n) /\ m + 1 \in Nat /\ m + 1 <= m + 1 + 1
        BY <1>0, <1>3
      <3>7. Delivered(m + 1, m + 1, n)'
        BY <2>2, <3>2, <3>6 DEF Delivered
      <3> QED BY <2>2, <3>3, <3>5, <3>6, <3>7
    <2> QED BY <1>1, <1>2, <1>3, <2>1, <2>2
  <1>6. q \in Nat /\ q \in Places(n) /\ l \in Nat /\ q \in 0 .. OuterCount(n) /\ l <= q
    <2>1. l \in Nat /\ l <= q
      BY <1>5 DEF Delivered
    <2>2. q \in Nat
      BY <1>1, <1>5
    <2> QED BY <1>1, <1>5, <2>1, <2>2 DEF Places
  <1>7. OuterItem(n, pub).isFork <=> pub <= DropCount(n)
    BY <1>1, ItemsDiffer
  <1>8. IF pub' <= DropCount(n) + 1 THEN AtOrigin(h, n)' ELSE latest' = OuterItem(n, pub)
    <2>1. CASE pub <= DropCount(n)
      <3>1. latest' = latest /\ pub' <= DropCount(n) + 1 /\ pub <= DropCount(n) + 1
        BY <1>0, <1>1, <1>7, <2>1
      <3>2. AtOrigin(h, n)
        BY <1>2, <3>1
      <3> QED BY <3>1, <3>2 DEF AtOrigin
    <2>2. CASE ~(pub <= DropCount(n))
      <3>1. latest' = OuterItem(n, pub) /\ ~(pub' <= DropCount(n) + 1)
        BY <1>0, <1>1, <1>7, <2>2
      <3> QED BY <3>1
    <2> QED BY <2>1, <2>2
  <1>9. IndexInv(q, h, n)'
    BY <1>0, <1>1 DEF IndexInv
  <1>10. OffsetInv(c)'
    BY <1>0, <1>1 DEF Standing, OffsetInv, InHand
  <1>11. CASE pub = OuterCount(n)
    <2>1. pc' = "align" /\ q = OuterCount(n) /\ l = q
      BY <1>0, <1>1, <1>5, <1>6, <1>11
    <2>2. ~(pub' <= DropCount(n) + 1)
      BY <1>0, <1>1, <1>11
    <2>3. latest' = OuterItem(n, q)
      BY <1>8, <1>11, <2>1, <2>2
    <2>4. Complete(q, n)'
      BY <1>5, <2>1, <2>3 DEF Complete
    <2>5. FlowInv(c, q, h, n)'
      BY <1>0, <1>1, <2>1, <2>4 DEF FlowInv, InHand
    <2> QED BY <1>5, <1>6, <1>9, <1>10, <2>5 DEF Standing
  <1>12. CASE pub # OuterCount(n)
    <2>1. pc' = "publish"
      BY <1>0, <1>1, <1>12
    <2>2. pub' <= l + 1 /\ pub' - 1 = pub
      BY <1>0, <1>1, <1>5, <1>6
    <2>3. Working(q, h, n)'
      BY <1>5, <1>8, <2>2 DEF Working
    <2>4. FlowInv(c, q, h, n)'
      BY <1>0, <1>1, <2>1, <2>3 DEF FlowInv, InHand
    <2> QED BY <1>5, <1>6, <1>9, <1>10, <2>4 DEF Standing
  <1> QED BY <1>11, <1>12
\* publishOuter fails: the notice may be in the topic, with or without a record.
LEMMA StreamPublishFail ==
    ASSUME MainPart, NEW c, NEW p, NEW h, NEW n, Facing(c, p, h, n), Standing(c, p, h, n),
           PublishFail
    PROVE  \E q \in Places(n) : Standing(c, q, h, n)'
  <1>0. /\ UNCHANGED <<inner, committed, stash, fetched, cur, lastOffset, notice, canon,
                       latest>>
        /\ pc = "publish" /\ pub' = 1 /\ pc' = "process"
        /\ \/ UNCHANGED <<outer, delivered>>
           \/ /\ OuterItem(Msg, pub) \notin delivered
              /\ outer' = Append(outer, OuterItem(Msg, pub))
              /\ delivered' \in {delivered, delivered \cup {OuterItem(Msg, pub)}}
    BY DEF PublishFail, PublishUnchanged, Item, kafkaVars
  <1>1. /\ cur = c + 1 /\ c \in Nat /\ p \in Nat /\ Msg = n /\ n # NoMsg
        /\ n \in Notice /\ WellFormed(n) /\ p <= OuterCount(n)
        /\ DropCount(n) \in Nat /\ OuterCount(n) \in Nat \ {0}
        /\ DropCount(n) + 1 <= OuterCount(n)
        /\ pub \in 1 .. OuterCount(n) /\ pub \in Nat \ {0}
        /\ outer \in Seq(OuterNotice)
        /\ Working(p, h, n)
        /\ MaxRebuilds = 0 => canon = IndexOf(n.tail)
    BY <1>0, InAttempt
  <1>2. PICK m \in {p - 1, p} :
            /\ Delivered(m, p, n)
            /\ pub <= m + 1
            /\ IF pub <= DropCount(n) + 1 THEN AtOrigin(h, n)
               ELSE latest = OuterItem(n, pub - 1)
    BY <1>1 DEF Working
  <1>3. /\ m \in Nat /\ m <= p /\ p <= m + 1 /\ notice = ID(n)
        /\ delivered = {OuterItem(n, k) : k \in 1 .. m}
    BY <1>2 DEF Delivered
  <1>4. /\ OuterItem(n, pub) \in delivered <=> pub <= m
        /\ pub = m + 1 => delivered \cup {OuterItem(n, pub)}
                             = {OuterItem(n, k) : k \in 1 .. pub}
    BY <1>1, <1>2, Recorded
  <1>5. PICK q \in {p, m + 1}, l \in {m, m + 1} :
            /\ l \in {q - 1, q}
            /\ TopicInv(c, q, h, n)'
            /\ Delivered(l, q, n)'
            /\ q <= OuterCount(n)
    <2>1. CASE UNCHANGED <<outer, delivered>>
      <3>1. TopicInv(c, p, h, n)'
        BY <1>0, <2>1, TopicKept DEF Standing
      <3>2. Delivered(m, p, n)'
        BY <1>0, <1>2, <2>1 DEF Delivered
      <3> QED BY <1>1, <3>1, <3>2
    <2>2. CASE ~UNCHANGED <<outer, delivered>>
      <3>1. pub = m + 1 /\ m + 1 <= OuterCount(n)
        BY <1>0, <1>1, <1>2, <1>3, <1>4, <2>2
      <3>2. outer' = Append(outer, OuterItem(n, m + 1))
        BY <1>0, <1>1, <2>2, <3>1
      <3>3. TopicInv(c, p, h, n) /\ inner' = inner
        BY <1>0 DEF Standing
      <3>4. TopicInv(c, m + 1, h, n)'
        BY <1>1, <1>3, <3>1, <3>2, <3>3, TopicAppended
      <3>5. notice' = ID(n) /\ m + 1 \in Nat /\ m + 1 <= m + 1 + 1 /\ m <= m + 1
            /\ m + 1 <= m + 1 /\ m + 1 - 1 = m
        BY <1>0, <1>3
      <3>6. \/ delivered' = {OuterItem(n, k) : k \in 1 .. m}
            \/ delivered' = {OuterItem(n, k) : k \in 1 .. m + 1}
        BY <1>0, <1>1, <1>3, <1>4, <2>2, <3>1
      <3>7. Delivered(m, m + 1, n)' \/ Delivered(m + 1, m + 1, n)'
        BY <1>3, <3>5, <3>6 DEF Delivered
      <3> QED BY <3>1, <3>4, <3>5, <3>7
    <2> QED BY <2>1, <2>2
  <1>6. q \in Places(n) /\ l \in Nat /\ m <= l
    <2>1. l \in Nat /\ m <= l
      BY <1>3, <1>5
    <2>2. q \in 0 .. OuterCount(n)
      BY <1>1, <1>3, <1>5
    <2> QED BY <1>1, <2>1, <2>2 DEF Places
  <1>7. (AtOrigin(h, n) \/ Reached(l, n))'
    <2>1. CASE pub <= DropCount(n) + 1
      BY <1>0, <1>2, <2>1 DEF AtOrigin
    <2>2. CASE ~(pub <= DropCount(n) + 1)
      <3>1. latest' = OuterItem(n, pub - 1) /\ pub - 1 \in DropCount(n) + 1 .. l
        BY <1>0, <1>1, <1>2, <1>3, <1>6, <2>2
      <3>2. \E k \in DropCount(n) + 1 .. l : latest' = OuterItem(n, k)
        BY <3>1
      <3> QED BY <3>2 DEF Reached
    <2> QED BY <2>1, <2>2
  <1>8. Retrying(q, h, n)'
    BY <1>5, <1>7 DEF Retrying
  <1>9. IndexInv(q, h, n)'
    BY <1>0, <1>1 DEF IndexInv
  <1>10. OffsetInv(c)'
    BY <1>0, <1>1 DEF Standing, OffsetInv, InHand
  <1>11. FlowInv(c, q, h, n)'
    BY <1>0, <1>1, <1>8 DEF FlowInv, InHand
  <1> QED BY <1>5, <1>6, <1>9, <1>10, <1>11 DEF Standing

\* Any other failed step: the message is tried again from where it stands.
LEMMA StreamStepFail ==
    ASSUME MainPart, NEW c, NEW p, NEW h, NEW n, Facing(c, p, h, n), Standing(c, p, h, n),
           StepFail
    PROVE  Standing(c, p, h, n)'
  <1>0. /\ UNCHANGED <<inner, committed, stash, fetched, cur, lastOffset,
                       outer, latest, notice, delivered, canon>>
        /\ pc \in {"replicas", "write", "mark", "align", "finish"}
        /\ pub' = 1 /\ pc' = "process"
    BY DEF StepFail, Locked, kafkaVars, outVars, cursorVars
  <1>1. c \in Nat /\ p \in Nat /\ pub \in Nat \ {0}
    BY Numbers DEF Facing
  <1>2. TopicInv(c, p, h, n)'
    BY <1>0, TopicKept DEF Standing
  <1>3. IndexInv(p, h, n)'
    BY <1>0 DEF Standing, IndexInv
  <1>4. OffsetInv(c)'
    BY <1>0, <1>1 DEF Standing, OffsetInv, InHand
  <1>5. cur # 0 /\ cur = c => Resting(c, p, h, n)'
    BY <1>0, FlowKept DEF Standing, FlowInv, Resting
  <1>6. ASSUME cur = c + 1 PROVE Waiting(p, h, n) \/ Retrying(p, h, n)
    <2>0. /\ n # NoMsg /\ p <= OuterCount(n)
          /\ DropCount(n) \in Nat /\ OuterCount(n) \in Nat \ {0}
          /\ DropCount(n) + 1 <= OuterCount(n)
      BY <1>6, HeadDiffers DEF Facing
    <2>1. CASE pc \in InHand
      <3>1. PICK m \in {p - 1, p} :
                /\ Delivered(m, p, n)
                /\ pub <= m + 1
                /\ IF pub <= DropCount(n) + 1 THEN AtOrigin(h, n)
                   ELSE latest = OuterItem(n, pub - 1)
        BY <1>6, <2>1 DEF Standing, FlowInv, Working
      <3>2. m \in Nat
        BY <3>1 DEF Delivered
      <3>3. AtOrigin(h, n) \/ Reached(m, n)
        <4>1. CASE ~(pub <= DropCount(n) + 1)
          <5>1. latest = OuterItem(n, pub - 1) /\ pub - 1 \in DropCount(n) + 1 .. m
            BY <1>1, <2>0, <3>1, <3>2, <4>1
          <5> QED BY <5>1 DEF Reached
        <4> QED BY <3>1, <4>1
      <3> QED BY <3>1, <3>3 DEF Retrying
    <2>2. CASE pc \notin InHand
      <3>1. Complete(p, n)
        BY <1>0, <1>6, <2>2 DEF Standing, FlowInv, InHand
      <3>2. /\ p = OuterCount(n) /\ latest = OuterItem(n, p)
            /\ notice = NoID \/ Delivered(p, p, n)
        BY <3>1 DEF Complete
      <3>3. p # 0 /\ p \in DropCount(n) + 1 .. p
        BY <1>1, <2>0, <3>2
      <3>4. CASE notice = NoID
        BY <3>2, <3>3, <3>4 DEF Waiting, Place
      <3>5. CASE Delivered(p, p, n)
        <4>1. Reached(p, n)
          BY <3>2, <3>3 DEF Reached
        <4> QED BY <3>5, <4>1 DEF Retrying
      <3> QED BY <3>2, <3>4, <3>5
    <2> QED BY <2>1, <2>2
  <1>7. FlowInv(c, p, h, n)'
    BY <1>0, <1>5, <1>6, FlowKept DEF FlowInv, InHand
  <1> QED BY <1>2, <1>3, <1>4, <1>7 DEF Standing
\* The commit: message c + 1 is complete, and the topic stands at the next one.
LEMMA StreamCommit ==
    ASSUME MainPart, ChainInv, NEW c, NEW p, NEW h, NEW n, Facing(c, p, h, n),
           Standing(c, p, h, n), Commit, cur = c + 1
    PROVE  /\ c + 1 \in 0 .. Len(inner)
           /\ Standing(c + 1, 0, HeadAfter(c + 1), MsgAfter(c + 1))'
  <1>0. /\ UNCHANGED <<inner, fetched, pub, outer, latest, notice, delivered, canon>>
        /\ pc = "commit" /\ pc' = "fetch" /\ cur' = 0 /\ lastOffset' = cur - 1
        /\ IF AsyncCommit THEN stash' = (IF stash < cur THEN cur ELSE stash) /\ committed' = committed
           ELSE committed' = cur /\ stash' = stash
    BY DEF Commit, Offset, outVars, cursorVars
  <1>1. /\ c \in Nat /\ p \in Nat /\ fetched \in Nat /\ committed \in Nat /\ stash \in Nat
        /\ n # NoMsg /\ n \in Notice /\ WellFormed(n) /\ Msg = n
    BY Numbers DEF Facing
  <1>2. /\ c + 1 \in 1 .. Len(inner) /\ c + 1 \in 0 .. Len(inner)
        /\ inner[c + 1] = n
    <2>1. cur \in 0 .. Len(inner) /\ Len(inner) \in Nat
      BY DEF MainPart, PipelineTypeOK
    <2> QED BY <1>1, <2>1 DEF Msg
  <1>g. PICK g : g = Tip(n.tail)
    OBVIOUS
  <1>3. HeadAfter(c + 1)' = g
    BY <1>0, <1>1, <1>2, <1>g DEF HeadAfter
  <1>4. /\ p = OuterCount(n) /\ latest = OuterItem(n, p)
        /\ notice = NoID \/ Delivered(p, p, n)
    BY <1>0 DEF Standing, FlowInv, Complete
  <1>5. OuterItem(n, p) = g /\ p # 0
    <2>1. OuterItem(n, OuterCount(n)) = [hash |-> n.tail, isFork |-> FALSE]
      BY <1>1, ItemsFollow
    <2>2. OuterCount(n) # 0
      BY <1>1, Shape
    <2> QED BY <1>4, <1>g, <2>1, <2>2 DEF Tip
  <1>6. g.hash = n.tail
    BY <1>g DEF Tip
  <1>7. PICK k : k = MsgAfter(c + 1)'
    OBVIOUS
  <1>8. Waiting(0, g, k)'
    <2>1. latest' = Place(0, g, k)
      BY <1>0, <1>4, <1>5 DEF Place
    <2>2. notice = NoID \/ notice.tail = g.hash
      BY <1>4, <1>6 DEF Delivered, ID
    <2> QED BY <1>0, <2>1, <2>2 DEF Waiting
  <1>9. MaxRebuilds = 0 => canon' = IndexOf(g.hash)
    BY <1>0, <1>5, <1>6 DEF Standing, IndexInv
  <1>10. Resting(c + 1, 0, g, k)'
    BY <1>0, <1>1, <1>8, <1>9 DEF Resting
  <1>11. TopicInv(c + 1, 0, g, k)'
    <2>1. OuterTail' = Place(0, g, k)
      BY <1>0, <1>5 DEF Standing, TopicInv, OuterTail, Place
    <2>2. OuterContiguous'
      BY <1>0 DEF Standing, TopicInv, OuterContiguous
    <2>3. ASSUME NEW o \in OuterNotice PROVE Required(o, c + 1) <= Occurrences(o)
      <3>1. /\ Required(o, c) <= Occurrences(o)
            /\ (\E i \in 1 .. p : o = OuterItem(n, i)) => Required(o, c) + 1 <= Occurrences(o)
        BY DEF Standing, TopicInv
      <3>2. /\ Required(o, c) \in Nat /\ Required(o, c + 1) \in Nat
            /\ Required(o, c + 1) <= Required(o, c) + 1
            /\ ~Carries(n, o) => Required(o, c + 1) <= Required(o, c)
        <4>1. c + 1 \in Nat
          BY <1>1
        <4> QED BY <1>1, <1>2, <4>1, RequiredFacts
      <3>3. Occurrences(o) \in Nat
        <4>1. outer \in Seq(OuterNotice)
          BY DEF MainPart, PipelineTypeOK
        <4> QED BY <4>1, OccurrencesType DEF Occurrences
      <3>4. Carries(n, o) => \E i \in 1 .. p : o = OuterItem(n, i)
        BY <1>1, <1>4, CarriedItem
      <3> QED BY <3>1, <3>2, <3>3, <3>4
    <2>4. \A o \in OuterNotice : Required(o, c + 1)' <= Occurrences(o)'
      BY <1>0, <2>3 DEF Required, Occurrences
    <2>5. 1 .. 0 = {} /\ c + 1 # 0
      BY <1>1
    <2> QED BY <2>1, <2>2, <2>4, <2>5 DEF TopicInv
  <1>12. IndexInv(0, g, k)'
    BY <1>9 DEF IndexInv
  <1>13. OffsetInv(c + 1)'
    <2>1. /\ fetched >= c /\ fetched \in {c - 1, c, c + 1}
          /\ IF AsyncCommit THEN committed <= c /\ stash <= c ELSE committed = c /\ stash = 0
      BY <1>0 DEF Standing, OffsetInv
    <2> QED BY <1>0, <1>1, <2>1 DEF OffsetInv, InHand
  <1>14. FlowInv(c + 1, 0, g, k)'
    BY <1>0, <1>1, <1>8, <1>10 DEF FlowInv
  <1>15. Standing(c + 1, 0, g, k)'
    BY <1>11, <1>12, <1>13, <1>14 DEF Standing
  <1> QED BY <1>2, <1>3, <1>7, <1>15

\* A message handled before is committed once more.
LEMMA StreamCommitAgain ==
    ASSUME CommitsHold, MainPart, NEW c, NEW p, NEW h, NEW n, Facing(c, p, h, n),
           Standing(c, p, h, n), Commit, cur = c
    PROVE  Standing(c, p, h, n)'
  <1>0. /\ UNCHANGED <<inner, fetched, pub, outer, latest, notice, delivered, canon>>
        /\ pc = "commit" /\ pc' = "fetch" /\ cur' = 0 /\ lastOffset' = cur - 1
        /\ IF AsyncCommit THEN stash' = (IF stash < cur THEN cur ELSE stash) /\ committed' = committed
           ELSE committed' = cur /\ stash' = stash
    BY DEF Commit, Offset, outVars, cursorVars
  <1>1. c \in Nat /\ c >= 1 /\ stash \in Nat /\ fetched \in Nat
    BY <1>0, Numbers DEF Facing
  <1>2. Resting(c, p, h, n)
    BY <1>1 DEF Standing, FlowInv
  <1>3. Resting(c, p, h, n)' /\ Waiting(p, h, n)'
    BY <1>0, <1>2, FlowKept DEF Resting
  <1>4. TopicInv(c, p, h, n)'
    BY <1>0, TopicKept DEF Standing
  <1>5. IndexInv(p, h, n)'
    BY <1>0 DEF Standing, IndexInv
  <1>6. OffsetInv(c)'
    BY <1>0, <1>1 DEF Standing, OffsetInv, InHand
  <1>7. FlowInv(c, p, h, n)'
    BY <1>0, <1>1, <1>3 DEF FlowInv
  <1> QED BY <1>4, <1>5, <1>6, <1>7 DEF Standing
\* A message more at the end of the inner topic.
LEMMA StreamProduce ==
    ASSUME MainPart, ChainInv, NEW c, NEW p, NEW h, NEW n, Facing(c, p, h, n),
           Standing(c, p, h, n), Produce
    PROVE  ChainInv' /\ StreamInv'
  <1>0. UNCHANGED <<committed, stash, fetched, cur, lastOffset, pc, pub,
                    outer, latest, notice, delivered, canon>>
    BY DEF Produce, runVars, outVars, cursorVars
  <1>1. PICK t \in Block, f \in Heights :
            LET x == [old |-> IF Len(inner) = 0 THEN NoBlock ELSE inner[Len(inner)].tail,
                      tail |-> t, first |-> f]
            IN  WellFormed(x) /\ inner' = Append(inner, x)
    BY DEF Produce
  <1>2. PICK x : /\ x = [old |-> IF Len(inner) = 0 THEN NoBlock ELSE inner[Len(inner)].tail,
                         tail |-> t, first |-> f]
                 /\ WellFormed(x) /\ inner' = Append(inner, x)
    BY <1>1
  <1>3. /\ Len(inner') = Len(inner) + 1 /\ Len(inner) \in Nat
        /\ \A i \in 1 .. Len(inner) : inner'[i] = inner[i]
        /\ inner'[Len(inner) + 1] = x
    <2>1. inner \in Seq(Notice)
      BY Numbers
    <2> QED BY <1>2, <2>1
  <1>4. /\ c \in Nat /\ c \in 0 .. Len(inner) /\ c \in 0 .. Len(inner') /\ p \in Nat
        /\ h = HeadAfter(c) /\ n = MsgAfter(c)
    BY <1>3 DEF Facing
  <1>5. HeadAfter(c)' = h
    <2>1. c # 0 => c \in 1 .. Len(inner)
      BY <1>3, <1>4
    <2> QED BY <1>3, <1>4, <2>1 DEF HeadAfter
  <1>6. PICK k : k = MsgAfter(c)'
    OBVIOUS
  <1>7. (c < Len(inner) => k = n) /\ (~(c < Len(inner)) => n = NoMsg /\ p = 0)
    <2>1. c < Len(inner) => c < Len(inner') /\ c + 1 \in 1 .. Len(inner)
      BY <1>3, <1>4
    <2>2. c < Len(inner) => k = n
      BY <1>3, <1>4, <1>6, <2>1 DEF MsgAfter
    <2>3. ~(c < Len(inner)) => n = NoMsg
      BY <1>4 DEF MsgAfter
    <2> QED BY <2>2, <2>3 DEF Facing
  <1>8. k = n \/ (n = NoMsg /\ p = 0)
    BY <1>7
  <1>9. p \in Places(k)
    <2>1. CASE k = n
      BY <2>1 DEF Facing
    <2>2. CASE k # n
      <3>1. p = 0 /\ c = Len(inner) /\ c < Len(inner')
        BY <1>3, <1>4, <1>7, <2>2
      <3>2. k = x
        BY <1>3, <1>6, <3>1 DEF MsgAfter
      <3>3. x \in Notice
        <4>1. CASE Len(inner) = 0
          BY <1>2, <4>1 DEF Notice, MaybeBlock
        <4>2. CASE Len(inner) # 0
          <5>1. Len(inner) \in 1 .. Len(inner) /\ inner \in Seq(Notice)
            BY <1>3, <4>2, Numbers
          <5>2. inner[Len(inner)] \in Notice
            BY <5>1
          <5>3. inner[Len(inner)].tail \in Block
            BY <5>2 DEF Notice
          <5> QED BY <1>2, <4>2, <5>3 DEF Notice, MaybeBlock
        <4> QED BY <4>1, <4>2
      <3>4. OuterCount(x) \in Nat
        BY <1>2, <3>3, Shape
      <3> QED BY <3>1, <3>2, <3>4 DEF Places
    <2> QED BY <2>1, <2>2
  <1>10. TopicInv(c, p, h, k)'
    <2>1. OuterTail' = Place(p, h, k)
      BY <1>0, <1>8 DEF Standing, TopicInv, OuterTail, Place
    <2>2. OuterContiguous' /\ (c = 0 /\ p = 0 => outer' = <<>>)
      BY <1>0 DEF Standing, TopicInv, OuterContiguous
    <2>3. \A o : Required(o, c)' = Required(o, c) /\ Occurrences(o)' = Occurrences(o)
      <3> SUFFICES ASSUME NEW o
                   PROVE  Required(o, c)' = Required(o, c) /\ Occurrences(o)' = Occurrences(o)
        OBVIOUS
      <3>1. \A i \in 1 .. c : inner'[i] = inner[i]
        BY <1>3, <1>4
      <3>2. {i \in 1 .. c : Carries(inner'[i], o)} = {i \in 1 .. c : Carries(inner[i], o)}
        BY <3>1
      <3> QED BY <1>0, <3>2 DEF Required, Occurrences
    <2>4. \A o \in OuterNotice :
             /\ Required(o, c) <= Occurrences(o)
             /\ (\E i \in 1 .. p : o = OuterItem(k, i)) => Required(o, c) + 1 <= Occurrences(o)
      <3>1. CASE k = n
        BY <3>1 DEF Standing, TopicInv
      <3>2. CASE p = 0
        BY <3>2 DEF Standing, TopicInv
      <3> QED BY <1>8, <3>1, <3>2
    <2> QED BY <2>1, <2>2, <2>3, <2>4 DEF TopicInv
  <1>11. IndexInv(p, h, k)'
    BY <1>0, <1>8 DEF Standing, IndexInv
  <1>12. OffsetInv(c)'
    BY <1>0 DEF Standing, OffsetInv
  <1>13. FlowInv(c, p, h, k)'
    <2>1. CASE k = n
      BY <1>0, <2>1, FlowKept DEF Standing, FlowInv, Resting
    <2>2. CASE k # n
      <3>1. n = NoMsg /\ p = 0 /\ cur # c + 1
        BY <1>8, <2>2 DEF Facing
      <3>2. Waiting(p, h, n) => Waiting(p, h, k)'
        BY <1>0, <3>1 DEF Waiting, Place
      <3>3. Resting(c, p, h, n) => Resting(c, p, h, k)'
        BY <1>0, <3>2 DEF Resting
      <3> QED BY <1>0, <3>1, <3>2, <3>3 DEF Standing, FlowInv
    <2> QED BY <2>1, <2>2
  <1>14. StreamInv'
    BY <1>4, <1>5, <1>6, <1>9, <1>10, <1>11, <1>12, <1>13 DEF StreamInv, Standing
  <1>15. ChainInv'
    <2> SUFFICES ASSUME NEW i \in 1 .. Len(inner')
                 PROVE  /\ WellFormed(inner'[i])
                        /\ inner'[i].old = IF i = 1 THEN NoBlock ELSE inner'[i - 1].tail
      BY DEF ChainInv
    <2>1. CASE i \in 1 .. Len(inner)
      <3>1. inner'[i] = inner[i] /\ (i # 1 => inner'[i - 1] = inner[i - 1])
        BY <1>3, <2>1
      <3> QED BY <2>1, <3>1 DEF ChainInv
    <2>2. CASE i = Len(inner) + 1
      <3>1. inner'[i] = x
        BY <1>3, <2>2
      <3>2. i - 1 = Len(inner) /\ (i = 1 <=> Len(inner) = 0)
            /\ (Len(inner) # 0 => inner'[Len(inner)] = inner[Len(inner)])
        BY <1>3, <2>2
      <3> QED BY <1>2, <3>1, <3>2
    <2> QED BY <1>3, <2>1, <2>2
  <1> QED BY <1>14, <1>15

-----------------------------------------------------------------------------
(***************************************************************************)
(* The inductive invariant and what follows from it.                       *)
(***************************************************************************)

\* Nothing is published, written or committed at first.
LEMMA StreamInit == Init => ChainInv /\ StreamInv
  <1> SUFFICES ASSUME Init PROVE ChainInv /\ StreamInv
    OBVIOUS
  <1>0. /\ inner = <<>> /\ committed = 0 /\ stash = 0 /\ fetched = 0 /\ cur = 0
        /\ lastOffset = 0 /\ pc = "down" /\ outer = <<>> /\ notice = NoID
        /\ canon = EmptyIndex /\ Len(inner) = 0
    BY DEF Init, PipelineInit, CursorInit
  <1>1. ChainInv
    BY <1>0 DEF ChainInv
  <1>2. HeadAfter(0) = NoNotice /\ MsgAfter(0) = NoMsg
    BY <1>0 DEF HeadAfter, MsgAfter
  <1>3. TopicInv(0, 0, NoNotice, NoMsg)
    <2>1. OuterTail = Place(0, NoNotice, NoMsg) /\ OuterContiguous
      BY <1>0 DEF OuterTail, Place, OuterContiguous
    <2>2. ASSUME NEW o \in OuterNotice
          PROVE  /\ Required(o, 0) <= Occurrences(o)
                 /\ ~ \E i \in 1 .. 0 : o = OuterItem(NoMsg, i)
      <3>1. /\ {i \in 1 .. 0 : Carries(inner[i], o)} = {}
            /\ {i \in 1 .. Len(outer) : outer[i] = o} = {}
        BY <1>0
      <3>2. Cardinality({}) = 0
        BY FS_EmptySet
      <3>3. Required(o, 0) = 0
        BY <3>1, <3>2 DEF Required
      <3>4. Occurrences(o) = 0
        BY <3>1, <3>2 DEF Occurrences
      <3> QED BY <3>3, <3>4
    <2> QED BY <1>0, <2>1, <2>2 DEF TopicInv
  <1>4. IndexInv(0, NoNotice, NoMsg)
    <2>1. \A b \in Heights : Anc[NoBlock][b] = NoBlock
      <3>1. \A b \in Heights : b \in 0 .. MaxHeight /\ b \notin 1 .. Height[NoBlock]
        BY HeightAssumption DEF Heights
      <3>2. NoBlock \in MaybeBlock
        BY DEF MaybeBlock
      <3> QED BY <3>1, <3>2, AncAssumption
    <2>2. NoNotice.hash = NoBlock
      BY DEF NoNotice
    <2> QED BY <1>0, <2>1, <2>2 DEF IndexInv, IndexOf, EmptyIndex
  <1>5. OffsetInv(0)
    BY <1>0 DEF OffsetInv, InHand
  <1>6. FlowInv(0, 0, NoNotice, NoMsg)
    BY <1>0 DEF FlowInv
  <1>7. 0 \in 0 .. Len(inner) /\ 0 \in Places(NoMsg)
    BY <1>0 DEF Places
  <1> QED BY <1>1, <1>2, <1>3, <1>4, <1>5, <1>6, <1>7 DEF StreamInv, Standing

\* The worker reads the index and never writes it.
LEMMA WorkerFrames ==
    ASSUME LockedWorker(Observe(FALSE)) \/ WorkerStep \/ WorkerFailure
    PROVE  UNCHANGED <<kafkaVars, runVars, outVars, canon>>
  <1>1. UNCHANGED <<kafkaVars, runVars, outVars>>
    BY DEF WorkerStep, WorkerFailure, FailingWorker, LockedWorker, Worker, pipelineVars
  <1>2. \/ \E elapsed \in BOOLEAN : Observe(elapsed)
        \/ BeginStale \/ BeginBatch
        \/ ReadCanonical \/ EndScan \/ EmptyPlan \/ PutVerified \/ GiveUpHeight
        \/ FinishBatch \/ AbandonBatch
    BY DEF WorkerStep, WorkerFailure, LockedWorker, Worker, FailingWorker, PutStale
  <1>3. UNCHANGED canon
    BY <1>2 DEF Observe, BeginStale, BeginBatch, ReadCanonical, EndScan, EmptyPlan,
       PutVerified, GiveUpHeight, FinishBatch, AbandonBatch, NextHeight, EndBatch,
       WorkerFrame, CursorFrame
  <1> QED BY <1>1, <1>3

\* Every message has a place before its first outer notice.
LEMMA ZeroPlace ==
    ASSUME MainPart, ChainInv, NEW c \in 0 .. Len(inner)
    PROVE  0 \in Places(MsgAfter(c))
  <1>1. inner \in Seq(Notice) /\ Len(inner) \in Nat
    BY Numbers
  <1>2. CASE c < Len(inner)
    <2>1. c + 1 \in 1 .. Len(inner) /\ MsgAfter(c) = inner[c + 1]
      BY <1>1, <1>2 DEF MsgAfter
    <2>2. inner[c + 1] \in Notice /\ WellFormed(inner[c + 1])
      BY <1>1, <2>1 DEF ChainInv
    <2>3. OuterCount(inner[c + 1]) \in Nat
      BY <2>2, Shape
    <2> QED BY <2>1, <2>3 DEF Places
  <1>3. CASE ~(c < Len(inner))
    BY <1>3 DEF MsgAfter, Places
  <1> QED BY <1>2, <1>3

\* Every step keeps the topic, the offsets, the index and the flow in step.
LEMMA StreamNext ==
    ASSUME CommitsHold, MainPart, ChainInv, StreamInv, [Next]_vars
    PROVE  ChainInv' /\ StreamInv'
  <1>0. PICK c \in 0 .. Len(inner) : \E p \in Places(MsgAfter(c)) :
            Standing(c, p, HeadAfter(c), MsgAfter(c))
    BY DEF StreamInv
  <1>1. PICK p \in Places(MsgAfter(c)) : Standing(c, p, HeadAfter(c), MsgAfter(c))
    BY <1>0
  <1>2. PICK h, n : h = HeadAfter(c) /\ n = MsgAfter(c)
    OBVIOUS
  <1>3. Facing(c, p, h, n) /\ Standing(c, p, h, n)
    BY <1>1, <1>2, Placed
  <1>4. CASE Produce
    BY <1>3, <1>4, StreamProduce
  <1>5. ASSUME inner' = inner,
               \/ \E q \in Places(n) : Standing(c, q, h, n)'
               \/ /\ c + 1 \in 0 .. Len(inner)
                  /\ Standing(c + 1, 0, HeadAfter(c + 1), MsgAfter(c + 1))'
        PROVE  ChainInv' /\ StreamInv'
    <2>1. ChainInv'
      BY <1>5 DEF ChainInv
    <2>2. ASSUME NEW q \in Places(n), Standing(c, q, h, n)' PROVE StreamInv'
      <3>1. HeadAfter(c)' = h /\ MsgAfter(c)' = n /\ Len(inner') = Len(inner)
        BY <1>2, <1>5 DEF HeadAfter, MsgAfter
      <3> QED BY <1>1, <2>2, <3>1 DEF StreamInv
    <2>3. ASSUME c + 1 \in 0 .. Len(inner),
                 Standing(c + 1, 0, HeadAfter(c + 1), MsgAfter(c + 1))'
          PROVE  StreamInv'
      <3>1. 0 \in Places(MsgAfter(c + 1))
        BY <2>3, ZeroPlace
      <3>2. 0 \in Places(MsgAfter(c + 1))' /\ c + 1 \in 0 .. Len(inner')
        BY <1>5, <2>3, <3>1 DEF Places, MsgAfter
      <3> QED BY <2>3, <3>2 DEF StreamInv
    <2> QED BY <1>5, <2>1, <2>2, <2>3
  <1>6. p \in Places(n)
    BY <1>2
  <1>7. CASE Rebalance \/ FlushCommit \/ RebuildDB
    <2>1. inner' = inner
      BY <1>7 DEF Rebalance, FlushCommit, RebuildDB, kafkaVars
    <2>2. Standing(c, p, h, n)'
      BY <1>3, <1>7, StreamRebalance, StreamFlush, StreamRebuild
    <2> QED BY <1>5, <1>6, <2>1, <2>2
  <1>8. CASE Start \/ Crash
    <2>1. inner' = inner
      BY <1>8 DEF Start, Crash, CrashPipeline
    <2>2. Standing(c, p, h, n)'
      BY <1>3, <1>8, StreamStart, StreamCrash DEF Crash
    <2> QED BY <1>5, <1>6, <2>1, <2>2
  <1>9. CASE Fetch \/ SkipSeen \/ BeginProcessed \/ BeginNew
    <2>1. inner' = inner
      BY <1>9 DEF Fetch, SkipSeen, BeginProcessed, BeginNew, kafkaVars
    <2>2. Standing(c, p, h, n)'
      BY <1>3, <1>9, StreamFetch, StreamSkip, StreamProcessed, StreamBegin
    <2> QED BY <1>5, <1>6, <2>1, <2>2
  <1>10. CASE \/ ReplicasReady \/ WriteDB \/ MarkForks \/ AlignOuterSingleton \/ Finish
              \/ StepFail
    <2>1. inner' = inner
      BY <1>10 DEF ReplicasReady, WriteDB, MarkForks, AlignOuterSingleton, Finish,
         StepFail, Advance, kafkaVars
    <2>2. Standing(c, p, h, n)'
      BY <1>3, <1>10, StreamAdvance, StreamWrite, StreamStepFail
    <2> QED BY <1>5, <1>6, <2>1, <2>2
  <1>11. CASE PublishOne \/ PublishFail
    <2>1. inner' = inner
      BY <1>11 DEF PublishOne, PublishFail, PublishUnchanged, kafkaVars
    <2>2. \E q \in Places(n) : Standing(c, q, h, n)'
      BY <1>3, <1>11, StreamPublish, StreamPublishFail
    <2> QED BY <1>5, <2>1, <2>2
  <1>12. CASE Commit
    <2>1. inner' = inner /\ cur # 0
      BY <1>12, Numbers DEF Commit
    <2>2. cur = c \/ cur = c + 1
      BY <1>3, <2>1 DEF Standing, OffsetInv
    <2>3. CASE cur = c
      BY <1>3, <1>5, <1>6, <1>12, <2>1, <2>3, StreamCommitAgain
    <2>4. CASE cur = c + 1
      BY <1>3, <1>5, <1>12, <2>1, <2>4, StreamCommit
    <2> QED BY <2>2, <2>3, <2>4
  <1>13. CASE UNCHANGED <<kafkaVars, runVars, outVars, canon>>
    <2>1. inner' = inner
      BY <1>13 DEF kafkaVars
    <2>2. Standing(c, p, h, n)'
      BY <1>3, <1>13, StreamIdle
    <2> QED BY <1>5, <1>6, <2>1, <2>2
  <1>14. CASE FetchTimeout \/ Reject \/ RejectReplay \/ UNCHANGED vars
    BY <1>13, <1>14 DEF FetchTimeout, Reject, RejectReplay, vars, pipelineVars, cursorVars
  <1>15. CASE LockedWorker(Observe(FALSE)) \/ WorkerStep \/ WorkerFailure
    BY <1>13, <1>15, WorkerFrames
  <1>16. CASE Environment \/ MainStep \/ Main(FlushCommit) \/ MainFailure \/ Crash
    BY <1>4, <1>7, <1>8, <1>9, <1>10, <1>11, <1>12, <1>14, <1>16
       DEF Environment, MainStep, MainFailure, Main
  <1> QED BY <1>14, <1>15, <1>16 DEF Next

\* The stream invariant, for every number of failures, crashes, rebalances and
\* rebuilds the hypothesis admits.
THEOREM StreamInductive == ASSUME CommitsHold PROVE Spec => [](ChainInv /\ StreamInv)
  <1>1. Init => ChainInv /\ StreamInv
    BY StreamInit
  <1>2. IndInv /\ ChainInv /\ StreamInv /\ [Next]_vars => (ChainInv /\ StreamInv)'
    <2>1. IndInv => MainPart
      BY DEF IndInv, TypeOK, MainPart
    <2> QED BY <2>1, StreamNext
  <1> QED BY <1>1, <1>2, Inductive, PTL DEF Spec

\* WriteDropBlockNotice and WriteNewBlockNotice leave a contiguous outer topic,
\* whatever fails, crashes and is replayed.
THEOREM OuterStreamContiguous == ASSUME CommitsHold PROVE Spec => []OuterContiguous
  <1>1. ChainInv /\ StreamInv => OuterContiguous
    BY DEF StreamInv, Standing, TopicInv
  <1> QED BY <1>1, StreamInductive, PTL

\* No offset is committed before every outer notice of its message is in the topic.
THEOREM NoticesBeforeCommit == ASSUME CommitsHold PROVE Spec => []NoLostNotice
  <1>1. MainPart /\ StreamInv => NoLostNotice
    <2> SUFFICES ASSUME MainPart, StreamInv PROVE NoLostNotice
      OBVIOUS
    <2>1. PICK c \in 0 .. Len(inner) : \E p \in Places(MsgAfter(c)) :
              Standing(c, p, HeadAfter(c), MsgAfter(c))
      BY DEF StreamInv
    <2>2. /\ c \in Nat /\ committed \in Nat /\ stash \in Nat
          /\ committed <= c /\ stash <= c
      <3>1. committed \in Nat /\ stash \in Nat /\ Len(inner) \in Nat /\ c \in Nat
        BY Numbers
      <3> QED BY <2>1, <3>1 DEF Standing, OffsetInv
    <2>3. PICK u : u = IF stash > committed THEN stash ELSE committed
      OBVIOUS
    <2>4. u \in 0 .. c
      BY <2>2, <2>3
    <2>5. ASSUME NEW o \in OuterNotice PROVE Required(o, u) <= Occurrences(o)
      <3>1. Required(o, c) <= Occurrences(o)
        BY <2>1 DEF Standing, TopicInv
      <3>2. Required(o, u) <= Required(o, c) /\ Required(o, c) \in Nat
        BY <2>2, <2>4, RequiredFacts
      <3>3. Required(o, u) \in Nat
        <4>1. u \in Nat
          BY <2>2, <2>4
        <4> QED BY <4>1, RequiredFacts
      <3>4. Occurrences(o) \in Nat
        <4>1. outer \in Seq(OuterNotice)
          BY DEF MainPart, PipelineTypeOK
        <4> QED BY <4>1, OccurrencesType DEF Occurrences
      <3> QED BY <3>1, <3>2, <3>3, <3>4
    <2> QED BY <2>3, <2>5 DEF NoLostNotice
  <1>2. IndInv => MainPart
    BY DEF IndInv, TypeOK, MainPart
  <1> QED BY <1>1, <1>2, StreamInductive, Inductive, PTL

\* When processNotice has succeeded the index is the chain of the published head,
\* as long as nobody rebuilds the DB.
THEOREM IndexShowsHead ==
    ASSUME CommitsHold, MaxRebuilds = 0 PROVE Spec => []IndexFollowsOuter
  <1>1. MainPart /\ ChainInv /\ StreamInv => IndexFollowsOuter
    <2> SUFFICES ASSUME MainPart, ChainInv, StreamInv, pc = "commit"
                 PROVE  \A b \in Heights : canon[b] = Anc[latest.hash][b]
      BY DEF IndexFollowsOuter
    <2>1. PICK c \in 0 .. Len(inner) : \E p \in Places(MsgAfter(c)) :
              Standing(c, p, HeadAfter(c), MsgAfter(c))
      BY DEF StreamInv
    <2>2. PICK p \in Places(MsgAfter(c)) : Standing(c, p, HeadAfter(c), MsgAfter(c))
      BY <2>1
    <2>3. PICK h, n : h = HeadAfter(c) /\ n = MsgAfter(c)
      OBVIOUS
    <2>4. Facing(c, p, h, n) /\ Standing(c, p, h, n)
      BY <2>2, <2>3, Placed
    <2>5. cur # 0 /\ (cur = c \/ cur = c + 1)
      BY <2>4, Numbers DEF Standing, OffsetInv
    <2>6. canon = IndexOf(latest.hash)
      <3>1. CASE cur = c
        <4>1. Resting(c, p, h, n)
          BY <2>4, <2>5, <3>1 DEF Standing, FlowInv
        <4> QED BY <4>1 DEF Resting, Waiting, Place
      <3>2. CASE cur = c + 1
        <4>1. p = OuterCount(n) /\ latest = OuterItem(n, p)
          BY <2>4, <3>2 DEF Standing, FlowInv, Complete
        <4>2. n # NoMsg /\ n \in Notice /\ WellFormed(n)
          BY <2>4, <3>2 DEF Facing
        <4>3. OuterItem(n, p) = [hash |-> n.tail, isFork |-> FALSE] /\ p # 0
          BY <4>1, <4>2, ItemsFollow, Shape
        <4>4. canon = IndexOf(n.tail)
          BY <2>4, <4>3 DEF Standing, IndexInv
        <4> QED BY <4>1, <4>3, <4>4
      <3> QED BY <2>5, <3>1, <3>2
    <2> QED BY <2>6 DEF IndexOf
  <1>2. IndInv => MainPart
    BY DEF IndInv, TypeOK, MainPart
  <1> QED BY <1>1, <1>2, StreamInductive, Inductive, PTL
-----------------------------------------------------------------------------
(***************************************************************************)
(* The durable position.  With synchronous commits and a checker that is   *)
(* always continuous, the cursor is at the last committed message or one   *)
(* ahead of it.                                                            *)
(***************************************************************************)

\* The position and the head it was saved with, c messages being committed.
PositionInv(c) ==
    c > 0 =>
        /\ HasState
        /\ \/ /\ forkState.pos = c - 1
              /\ \/ forkState.published = inner[c].tail
                 \/ c < Len(inner) /\ forkState.published = inner[c + 1].tail
           \/ /\ forkState.pos = c
              /\ c < Len(inner) /\ forkState.published = inner[c + 1].tail

\* An older message is in hand, or about to be fetched.
Behind(c) == (cur # 0 /\ cur = c) \/ (pc = "fetch" /\ fetched < c)

BehindInv(c) == Behind(c) => forkState.pos = c - 1

\* finishForkScan comes before CommitMessages.
FinishedInv(c) ==
    pc = "commit" /\ cur = c + 1 =>
        HasState /\ forkState.pos = c /\ forkState.published = inner[c + 1].tail

CheckpointInv ==
    PositionInv(committed) /\ BehindInv(committed) /\ FinishedInv(committed)

\* What the stream says of the message in hand when commits are synchronous.
LEMMA SyncFacts ==
    ASSUME ~AsyncCommit, MainPart, ChainInv, StreamInv
    PROVE  /\ committed \in Nat /\ cur \in {0, committed, committed + 1}
           /\ pc \in {"down", "fetch"} => cur = 0
           /\ pc \notin {"down", "fetch"} => cur # 0 /\ cur \in 1 .. Len(inner)
           /\ pc = "fetch" => fetched <= committed
           /\ pc \in InHand => cur = committed + 1
           /\ pc \in {"align", "finish", "commit"} => latest = Tip(Msg.tail)
           /\ pc = "process" /\ AlreadySeen => cur = committed
           /\ stash = 0
  <1>1. PICK c \in 0 .. Len(inner) : \E p \in Places(MsgAfter(c)) :
            Standing(c, p, HeadAfter(c), MsgAfter(c))
    BY DEF StreamInv
  <1>2. PICK p \in Places(MsgAfter(c)) : Standing(c, p, HeadAfter(c), MsgAfter(c))
    BY <1>1
  <1>3. PICK h, n : h = HeadAfter(c) /\ n = MsgAfter(c)
    OBVIOUS
  <1>4. Facing(c, p, h, n) /\ Standing(c, p, h, n)
    BY <1>2, <1>3, Placed
  <1>5. committed = c /\ stash = 0 /\ c \in Nat /\ cur \in Nat /\ fetched \in Nat
        /\ Len(inner) \in Nat
    BY <1>4, Numbers DEF Standing, OffsetInv
  <1>6. /\ cur \in {0, c, c + 1}
        /\ pc \in {"down", "fetch"} => cur = 0
        /\ pc \notin {"down", "fetch"} => cur # 0
        /\ pc = "fetch" => fetched <= c
        /\ pc \in InHand => cur = c + 1
    BY <1>4, <1>5, Numbers DEF Standing, OffsetInv
  <1>7. pc \in {"align", "finish", "commit"} => latest = Tip(Msg.tail)
    <2> SUFFICES ASSUME pc \in {"align", "finish", "commit"} PROVE latest = Tip(Msg.tail)
      OBVIOUS
    <2>1. CASE cur = c
      <3>1. Resting(c, p, h, n) /\ cur # 0
        BY <1>4, <1>6, <2>1 DEF Standing, FlowInv
      <3>2. latest = h
        BY <3>1 DEF Resting, Waiting, Place
      <3> QED BY <1>4, <2>1, <3>1, <3>2 DEF Facing
    <2>2. CASE cur = c + 1
      <3>1. Msg = n /\ n \in Notice /\ WellFormed(n)
        BY <1>4, <2>2 DEF Facing
      <3>2. latest = OuterItem(n, OuterCount(n))
        BY <1>4, <2>2 DEF Standing, FlowInv, Complete
      <3> QED BY <3>1, <3>2, ItemsFollow DEF Tip
    <2> QED BY <1>6, <2>1, <2>2
  <1>8. pc = "process" /\ AlreadySeen => cur = c
    <2>1. lastOffset \in {0, c - 1} /\ lastOffset \in Nat
      BY <1>4, Numbers DEF Standing, OffsetInv
    <2> QED BY <1>5, <1>6, <2>1 DEF AlreadySeen, Offset
  <1>9. cur # 0 => cur \in 1 .. Len(inner)
    BY <1>5 DEF MainPart, PipelineTypeOK
  <1> QED BY <1>5, <1>6, <1>7, <1>8, <1>9

\* A step that keeps the cursor and what it is about.
LEMMA CheckpointKept ==
    ASSUME CheckpointInv, UNCHANGED <<inner, committed, forkState>>,
           Behind(committed)' => Behind(committed),
           pc' = "commit" /\ cur' = committed + 1 => pc = "commit" /\ cur = committed + 1
    PROVE  CheckpointInv'
  <1>1. PositionInv(committed)'
    BY DEF CheckpointInv, PositionInv, HasState
  <1>2. BehindInv(committed)'
    BY DEF CheckpointInv, BehindInv
  <1>3. FinishedInv(committed)'
    BY DEF CheckpointInv, FinishedInv, HasState
  <1> QED BY <1>1, <1>2, <1>3 DEF CheckpointInv

\* The worker moves next and nothing else of the cursor.
LEMMA WorkerKeepsPosition ==
    ASSUME CursorTypeOK, BatchInv,
           LockedWorker(Observe(FALSE)) \/ WorkerStep \/ WorkerFailure
    PROVE  /\ forkState'.pos = forkState.pos
           /\ forkState'.published = forkState.published
           /\ HasState' <=> HasState
  <1>1. \/ \E elapsed \in BOOLEAN : Observe(elapsed)
        \/ BeginStale \/ BeginBatch
        \/ ReadCanonical \/ EndScan \/ EmptyPlan \/ PutVerified \/ GiveUpHeight
        \/ FinishBatch \/ AbandonBatch
    BY DEF WorkerStep, WorkerFailure, LockedWorker, Worker, FailingWorker, PutStale
  <1>2. forkState' = forkState \/ FinishBatch
    BY <1>1 DEF Observe, BeginStale, BeginBatch, ReadCanonical, EndScan, EmptyPlan,
       PutVerified, GiveUpHeight, AbandonBatch, NextHeight, CursorFrame
  <1>3. CASE forkState' = forkState
    BY <1>3 DEF HasState
  <1>4. CASE FinishBatch
    <2>1. HasState
      BY <1>4 DEF FinishBatch, BatchInv, Scanning
    <2>2. forkState \in ForkScanState
      BY <2>1 DEF CursorTypeOK, HasState, NilState
    <2>3. forkState' = forkState \/ \E k : forkState' = [forkState EXCEPT !.next = k]
      BY <1>4 DEF FinishBatch
    <2> QED BY <2>2, <2>3 DEF ForkScanState, HasState
  <1> QED BY <1>2, <1>3, <1>4

\* prepareForkScan moves the saved head at most to the message in hand, and never
\* resets a position that is not behind.
LEMMA PrepareKeepsPosition ==
    ASSUME CursorTypeOK, NEW n \in Notice, NEW off \in Nat, NEW processed \in BOOLEAN,
           PrepareForkScan(n, off, processed), HasState, off <= forkState.pos + 1
    PROVE  /\ HasState' /\ forkState'.pos = forkState.pos
           /\ forkState'.published \in {forkState.published, n.tail}
  <1>0. forkState \in ForkScanState /\ forkState.pos \in Int /\ forkState.gen \in Nat \ {0}
    <2>1. forkState \in ForkScanState
      BY DEF CursorTypeOK, HasState, NilState
    <2> QED BY <2>1, PipelineAssumption DEF ForkScanState, NoPosition
  <1>1. ~NeedsReset(off)
    BY <1>0 DEF NeedsReset
  <1>2. CASE ProvenReplay(n, processed)
    <2>1. /\ n.tail = recoveryAnchor
          /\ \E g \in {forkState.gen, forkState.gen + 1},
                k \in {forkState.next, MinOf(forkState.next, n.first)} :
                forkState' = [forkState EXCEPT !.gen = g, !.next = k,
                                  !.published = recoveryAnchor, !.pending = NoBlock]
      BY <1>2 DEF PrepareForkScan, ReconcileForkScanReplay, ReplayMatches, SaveForkScan
    <2>2. PICK g \in {forkState.gen, forkState.gen + 1},
                k \in {forkState.next, MinOf(forkState.next, n.first)} :
             forkState' = [forkState EXCEPT !.gen = g, !.next = k,
                               !.published = recoveryAnchor, !.pending = NoBlock]
      BY <2>1
    <2>3. g # 0
      BY <1>0, <2>2
    <2>4. /\ forkState'.gen = g /\ forkState'.pos = forkState.pos
          /\ forkState'.published = recoveryAnchor
      BY <1>0, <2>2 DEF ForkScanState
    <2> QED BY <2>1, <2>3, <2>4 DEF HasState
  <1>3. CASE ~ProvenReplay(n, processed)
    <2>1. KeepForkScan
      BY <1>1, <1>3 DEF PrepareForkScan
    <2> QED BY <2>1 DEF KeepForkScan, HasState
  <1> QED BY <1>2, <1>3

\* finishForkScan saves the head and the position of the message in hand.
LEMMA FinishSavesPosition ==
    ASSUME CursorTypeOK, NEW b \in Block, NEW off \in Nat, Continuous,
           FinishForkScan(Tip(b), off)
    PROVE  HasState' /\ forkState'.pos = off /\ forkState'.published = b
  <1>0. Tip(b).isFork = FALSE /\ Tip(b).hash = b
    BY DEF Tip
  <1>1. forkState.gen \in Nat
    BY DEF CursorTypeOK, ForkScanState, NilState
  <1>2. CASE ~HasState
    <2>1. InitializeForkScan(b, off)
      BY <1>0, <1>2 DEF FinishForkScan
    <2>2. /\ forkState'.gen = forkState.gen + 1 /\ forkState'.pos = off
          /\ forkState'.published = b
      BY <2>1 DEF InitializeForkScan, SaveForkScan
    <2> QED BY <1>1, <2>2 DEF HasState
  <1>3. CASE HasState
    <2>1. forkState \in ForkScanState
      BY <1>3 DEF CursorTypeOK, HasState, NilState
    <2>2. \E k : forkState' = [forkState EXCEPT !.published = b, !.pending = k, !.pos = off]
      BY <1>0, <1>3 DEF FinishForkScan, SaveForkScan
    <2> QED BY <1>3, <2>1, <2>2 DEF ForkScanState, HasState
  <1> QED BY <1>2, <1>3

\* The write moves next, the generation and the pending head.
LEMMA WriteKeepsPosition ==
    ASSUME CursorTypeOK, NEW n, WriteBlockInfos(n)
    PROVE  /\ forkState'.pos = forkState.pos /\ forkState'.published = forkState.published
           /\ HasState => HasState'
  <1>1. CASE ~(Continuous /\ HasState)
    BY <1>1 DEF WriteBlockInfos, KeepForkScan, HasState
  <1>2. CASE Continuous /\ HasState
    <2>1. forkState \in ForkScanState
      BY <1>2 DEF CursorTypeOK, HasState, NilState
    <2>2. PICK g : g = IF Affected(n) = {} THEN forkState.gen ELSE forkState.gen + 1
      OBVIOUS
    <2>3. PICK k \in Affected(n) \cup {forkState.next} :
             forkState' = [forkState EXCEPT !.next = k, !.gen = g, !.pending = n.tail]
      BY <1>2, <2>2 DEF WriteBlockInfos, SaveForkScan
    <2>4. forkState.gen \in Nat \ {0}
      BY <2>1 DEF ForkScanState
    <2>5. g # 0
      BY <2>2, <2>4
    <2>6. /\ forkState'.gen = g /\ forkState'.pos = forkState.pos
          /\ forkState'.published = forkState.published
      BY <2>1, <2>3 DEF ForkScanState
    <2> QED BY <2>5, <2>6 DEF HasState
  <1> QED BY <1>1, <1>2
\* The steps that leave the durable cursor and the commit alone: no message gets
\* behind by them, and none reaches the commit.
LEMMA CheckpointIdle ==
    ASSUME ~AsyncCommit, MainPart, ChainInv, StreamInv, CheckpointInv,
           \/ Rebalance \/ Start \/ Crash \/ Fetch \/ SkipSeen \/ ReplicasReady
           \/ MarkForks \/ AlignOuterSingleton \/ PublishOne \/ PublishFail \/ StepFail
           \/ UNCHANGED <<inner, committed, fetched, cur, pc, forkState>>
    PROVE  CheckpointInv'
  <1>0. /\ committed \in Nat /\ fetched \in Nat /\ cur \in Nat
        /\ pc \in {"down", "fetch"} => cur = 0
        /\ pc = "process" /\ AlreadySeen => cur = committed
    BY SyncFacts, Numbers
  <1>1. CASE \/ ReplicasReady \/ MarkForks \/ AlignOuterSingleton \/ PublishOne
             \/ PublishFail \/ StepFail
    <2>1. UNCHANGED <<inner, committed, fetched, cur, forkState>>
      BY <1>1 DEF ReplicasReady, MarkForks, AlignOuterSingleton, PublishOne, PublishFail,
         StepFail, Advance, PublishUnchanged, kafkaVars, cursorVars
    <2>2. pc' \notin {"fetch", "commit"}
      BY <1>1 DEF ReplicasReady, MarkForks, AlignOuterSingleton, PublishOne, PublishFail,
         StepFail, Advance
    <2> QED BY <2>1, <2>2, CheckpointKept DEF Behind
  <1>2. CASE Rebalance \/ Start \/ Crash
    <2>1. UNCHANGED <<inner, committed, forkState>>
      BY <1>2 DEF Rebalance, Start, Crash, CrashPipeline, cursorVars
    <2>2. CASE Rebalance
      <3>1. UNCHANGED <<cur, pc>> /\ fetched' = committed
        BY <2>2 DEF Rebalance, runVars
      <3> QED BY <1>0, <2>1, <3>1, CheckpointKept DEF Behind
    <2>3. CASE Start
      <3>1. cur' = 0 /\ fetched' = committed /\ pc' = "fetch"
        BY <1>0, <2>3 DEF Start
      <3> QED BY <1>0, <2>1, <3>1, CheckpointKept DEF Behind
    <2>4. CASE Crash
      <3>1. cur' = 0 /\ pc' = "down"
        BY <2>4 DEF Crash, CrashPipeline
      <3> QED BY <2>1, <3>1, CheckpointKept DEF Behind
    <2> QED BY <1>2, <2>2, <2>3, <2>4
  <1>3. CASE Fetch
    <2>1. /\ UNCHANGED <<inner, committed, forkState>>
          /\ pc = "fetch" /\ pc' = "process" /\ cur' = fetched + 1
      BY <1>3 DEF Fetch, cursorVars
    <2>2. Behind(committed)' => Behind(committed)
      BY <1>0, <2>1 DEF Behind
    <2> QED BY <2>1, <2>2, CheckpointKept
  <1>4. CASE SkipSeen
    <2>1. /\ UNCHANGED <<inner, committed, fetched, cur, forkState>>
          /\ pc' = "commit" /\ cur = committed
      BY <1>0, <1>4 DEF SkipSeen, kafkaVars, cursorVars
    <2> QED BY <1>0, <2>1, CheckpointKept DEF Behind
  <1>5. CASE UNCHANGED <<inner, committed, fetched, cur, pc, forkState>>
    BY <1>5, CheckpointKept DEF Behind
  <1> QED BY <1>1, <1>2, <1>3, <1>4, <1>5

\* A step that keeps the position; the saved head may move to the message in hand.
LEMMA CheckpointHead ==
    ASSUME ~AsyncCommit, MainPart, ChainInv, StreamInv, CheckpointInv,
           UNCHANGED <<inner, committed, fetched, cur>>,
           pc \notin {"down", "fetch"}, pc' \notin {"fetch", "commit"},
           committed > 0 =>
              /\ HasState => HasState'
              /\ forkState'.pos = forkState.pos
              /\ forkState'.published \in {forkState.published, Msg.tail}
    PROVE  CheckpointInv'
  <1>0. /\ committed \in Nat /\ Len(inner) \in Nat
        /\ cur # 0 /\ cur \in {committed, committed + 1} /\ cur \in 1 .. Len(inner)
    BY SyncFacts, Numbers
  <1>1. PositionInv(committed)'
    <2> SUFFICES ASSUME committed > 0 PROVE PositionInv(committed)'
      BY DEF PositionInv
    <2>1. /\ HasState' /\ forkState'.pos = forkState.pos
          /\ forkState'.published \in {forkState.published, Msg.tail}
      BY DEF CheckpointInv, PositionInv
    <2>2. CASE forkState'.published = forkState.published
      BY <2>1, <2>2 DEF CheckpointInv, PositionInv
    <2>3. CASE forkState'.published = inner[cur].tail /\ cur = committed
      <3>1. forkState.pos = committed - 1
        BY <1>0, <2>3 DEF CheckpointInv, BehindInv, Behind
      <3> QED BY <2>1, <2>3, <3>1 DEF PositionInv
    <2>4. CASE forkState'.published = inner[cur].tail /\ cur = committed + 1
      <3>1. committed < Len(inner)
        BY <1>0, <2>4
      <3>2. forkState.pos \in {committed - 1, committed}
        BY DEF CheckpointInv, PositionInv
      <3> QED BY <2>1, <2>4, <3>1, <3>2 DEF PositionInv
    <2> QED BY <1>0, <2>1, <2>2, <2>3, <2>4 DEF Msg
  <1>2. BehindInv(committed)'
    BY <1>0 DEF CheckpointInv, BehindInv, Behind
  <1>3. FinishedInv(committed)'
    BY DEF FinishedInv
  <1> QED BY <1>1, <1>2, <1>3 DEF CheckpointInv

\* prepareForkScan: a message that is fetched is never a gap behind the position, so
\* the cursor is not reset.
LEMMA CheckpointBegin ==
    ASSUME ~AsyncCommit, MainPart, CursorTypeOK, ChainInv, StreamInv, CheckpointInv,
           BeginProcessed \/ BeginNew
    PROVE  CheckpointInv'
  <1>0. /\ committed \in Nat /\ Len(inner) \in Nat
        /\ pc \notin {"down", "fetch"} =>
              cur \in {committed, committed + 1} /\ cur \in 1 .. Len(inner)
    BY SyncFacts, Numbers
  <1>1. /\ UNCHANGED <<inner, committed, fetched, cur>>
        /\ pc \notin {"down", "fetch"} /\ pc' \notin {"fetch", "commit"}
    BY DEF BeginProcessed, BeginNew, kafkaVars
  <1>2. Msg \in Notice /\ Offset \in Nat /\ Offset <= committed
    <2>1. inner \in Seq(Notice)
      BY Numbers
    <2> QED BY <1>0, <1>1, <2>1 DEF Msg, Offset
  <1>3. committed > 0 =>
              /\ HasState => HasState'
              /\ forkState'.pos = forkState.pos
              /\ forkState'.published \in {forkState.published, Msg.tail}
    <2> SUFFICES ASSUME committed > 0
                 PROVE  /\ HasState' /\ forkState'.pos = forkState.pos
                        /\ forkState'.published \in {forkState.published, Msg.tail}
      OBVIOUS
    <2>1. HasState /\ Offset <= forkState.pos + 1
      BY <1>0, <1>2 DEF CheckpointInv, PositionInv
    <2>2. PICK processed \in BOOLEAN : PrepareForkScan(Msg, Offset, processed)
      BY DEF BeginProcessed, BeginNew
    <2>3. PICK n, off : n = Msg /\ off = Offset
      OBVIOUS
    <2>4. n \in Notice /\ off \in Nat /\ off <= forkState.pos + 1
      BY <1>2, <2>1, <2>3
    <2>5. PrepareForkScan(n, off, processed)
      BY <2>2, <2>3
    <2> QED BY <2>1, <2>3, <2>4, <2>5, PrepareKeepsPosition
  <1> QED BY <1>1, <1>3, CheckpointHead

\* writeBlockInfoToDB leaves position and saved head alone.
LEMMA CheckpointWrite ==
    ASSUME ~AsyncCommit, MainPart, CursorTypeOK, ChainInv, StreamInv, CheckpointInv, WriteDB
    PROVE  CheckpointInv'
  <1>1. /\ UNCHANGED <<inner, committed, fetched, cur>>
        /\ pc \notin {"down", "fetch"} /\ pc' \notin {"fetch", "commit"}
    BY DEF WriteDB, Advance, kafkaVars
  <1>2. /\ forkState'.pos = forkState.pos /\ forkState'.published = forkState.published
        /\ HasState => HasState'
    BY WriteKeepsPosition DEF WriteDB
  <1> QED BY <1>1, <1>2, CheckpointHead

\* finishForkScan saves the message in hand before it can be committed.
LEMMA CheckpointFinish ==
    ASSUME ~AsyncCommit, Continuous, MainPart, CursorTypeOK, ChainInv, StreamInv,
           CheckpointInv, Finish
    PROVE  CheckpointInv'
  <1>0. /\ committed \in Nat /\ Len(inner) \in Nat /\ pc = "finish" /\ pc' = "commit"
        /\ UNCHANGED <<inner, committed, fetched, cur>>
        /\ FinishForkScan(latest, Offset)
    BY Numbers, SyncFacts DEF Finish, Advance, kafkaVars
  <1>1. /\ cur \in {committed, committed + 1} /\ cur \in 1 .. Len(inner)
        /\ latest = Tip(Msg.tail)
    BY <1>0, SyncFacts
  <1>2. Msg \in Notice /\ Msg.tail \in Block /\ Offset \in Nat
    <2>1. inner \in Seq(Notice)
      BY Numbers
    <2>2. Msg \in Notice
      BY <1>1, <2>1 DEF Msg
    <2> QED BY <1>1, <2>2 DEF Offset, Notice
  <1>3. PICK b, off : b = Msg.tail /\ off = Offset
    OBVIOUS
  <1>4. b \in Block /\ off \in Nat /\ FinishForkScan(Tip(b), off)
    BY <1>0, <1>1, <1>2, <1>3
  <1>5. HasState' /\ forkState'.pos = cur - 1 /\ forkState'.published = inner[cur].tail
    BY <1>3, <1>4, FinishSavesPosition DEF Offset, Msg
  <1>6. PositionInv(committed)'
    <2>1. CASE cur = committed
      BY <1>0, <1>5, <2>1 DEF PositionInv
    <2>2. CASE cur = committed + 1
      <3>1. committed < Len(inner) /\ forkState'.pos = committed
        BY <1>0, <1>1, <1>5, <2>2
      <3> QED BY <1>0, <1>5, <2>2, <3>1 DEF PositionInv
    <2> QED BY <1>1, <2>1, <2>2
  <1>7. BehindInv(committed)'
    BY <1>0, <1>5 DEF BehindInv, Behind
  <1>8. FinishedInv(committed)'
    BY <1>0, <1>5 DEF FinishedInv
  <1> QED BY <1>6, <1>7, <1>8 DEF CheckpointInv

\* CommitMessages: the message is the next one, saved by finishForkScan, or the last
\* one again.
LEMMA CheckpointCommit ==
    ASSUME ~AsyncCommit, MainPart, ChainInv, StreamInv, CheckpointInv, Commit
    PROVE  CheckpointInv'
  <1>0. /\ committed \in Nat /\ Len(inner) \in Nat /\ cur \in Nat /\ fetched \in Nat
        /\ pc = "commit" /\ cur # 0 /\ cur \in {committed, committed + 1}
        /\ UNCHANGED <<inner, fetched, forkState>>
        /\ committed' = cur /\ cur' = 0 /\ pc' = "fetch"
    BY SyncFacts, Numbers DEF Commit, cursorVars
  <1>1. CASE cur = committed
    <2>1. committed' = committed
      BY <1>0, <1>1
    <2>2. Behind(committed)' => Behind(committed)
      BY <1>0, <1>1 DEF Behind
    <2> QED BY <1>0, <2>1, <2>2, CheckpointKept
  <1>2. CASE cur = committed + 1
    <2>1. HasState /\ forkState.pos = cur - 1 /\ forkState.published = inner[cur].tail
      BY <1>0, <1>2 DEF CheckpointInv, FinishedInv
    <2>2. HasState'
      BY <1>0, <2>1 DEF HasState
    <2>3. PositionInv(committed)'
      BY <1>0, <2>1, <2>2 DEF PositionInv
    <2>4. BehindInv(committed)'
      BY <1>0, <2>1 DEF BehindInv
    <2>5. FinishedInv(committed)'
      BY <1>0 DEF FinishedInv
    <2> QED BY <2>3, <2>4, <2>5 DEF CheckpointInv
  <1> QED BY <1>0, <1>1, <1>2

\* A new inner message leaves those before it where they are.
LEMMA CheckpointProduce ==
    ASSUME ~AsyncCommit, MainPart, ChainInv, StreamInv, CheckpointInv, Produce
    PROVE  CheckpointInv'
  <1>0. /\ committed \in 0 .. Len(inner) /\ cur \in 0 .. Len(inner) /\ Len(inner) \in Nat
        /\ inner \in Seq(Notice)
    BY Numbers DEF MainPart, PipelineTypeOK
  <1>1. UNCHANGED <<committed, fetched, cur, pc, forkState>>
    BY DEF Produce, runVars, cursorVars
  <1>2. \E n : inner' = Append(inner, n)
    BY DEF Produce
  <1>3. /\ Len(inner') = Len(inner) + 1
        /\ \A k \in 1 .. Len(inner) : inner'[k] = inner[k]
    BY <1>0, <1>2
  <1>4. PositionInv(committed)'
    <2> SUFFICES ASSUME committed > 0 PROVE PositionInv(committed)'
      BY <1>1 DEF PositionInv
    <2>1. inner'[committed] = inner[committed]
      BY <1>0, <1>3
    <2>2. committed < Len(inner) => /\ inner'[committed + 1] = inner[committed + 1]
                                    /\ committed < Len(inner')
      BY <1>0, <1>3
    <2> QED BY <1>1, <2>1, <2>2 DEF CheckpointInv, PositionInv, HasState
  <1>5. BehindInv(committed)'
    BY <1>1 DEF CheckpointInv, BehindInv, Behind
  <1>6. FinishedInv(committed)'
    <2> SUFFICES ASSUME pc = "commit", cur = committed + 1 PROVE FinishedInv(committed)'
      BY <1>1 DEF FinishedInv
    <2>1. inner'[committed + 1] = inner[committed + 1]
      BY <1>0, <1>3
    <2> QED BY <1>1, <2>1 DEF CheckpointInv, FinishedInv, HasState
  <1> QED BY <1>4, <1>5, <1>6 DEF CheckpointInv

\* The worker moves the cursor's next and nothing the position depends on.
LEMMA CheckpointWorker ==
    ASSUME CursorTypeOK, BatchInv, CheckpointInv,
           LockedWorker(Observe(FALSE)) \/ WorkerStep \/ WorkerFailure
    PROVE  CheckpointInv'
  <1>1. UNCHANGED <<inner, committed, fetched, cur, pc>>
    BY WorkerFrames DEF kafkaVars, runVars
  <1>2. /\ forkState'.pos = forkState.pos
        /\ forkState'.published = forkState.published
        /\ HasState' <=> HasState
    BY WorkerKeepsPosition
  <1>3. PositionInv(committed)'
    BY <1>1, <1>2 DEF CheckpointInv, PositionInv
  <1>4. BehindInv(committed)'
    BY <1>1, <1>2 DEF CheckpointInv, BehindInv, Behind
  <1>5. FinishedInv(committed)'
    BY <1>1, <1>2 DEF CheckpointInv, FinishedInv
  <1> QED BY <1>3, <1>4, <1>5 DEF CheckpointInv

\* Every step of a continuous checker that commits synchronously keeps the position.
LEMMA CheckpointNext ==
    ASSUME ~AsyncCommit, MaxRebuilds = 0, Modes \subseteq {"continuous"},
           IndInv, ChainInv, StreamInv, CheckpointInv, [Next]_vars
    PROVE  CheckpointInv'
  <1>0. MainPart /\ CursorTypeOK /\ BatchInv
    BY DEF IndInv, TypeOK, MainPart
  <1>1. pc # "down" => Continuous
    BY <1>0 DEF BatchInv, Continuous
  <1>2. ~FlushCommit /\ ~RebuildDB
    <2>1. ~FlushCommit
      BY <1>0, SyncFacts DEF FlushCommit
    <2>2. ~RebuildDB
      <3>1. budget["rebuilds"] \in Nat
        BY <1>0 DEF MainPart, PipelineTypeOK
      <3> QED BY <3>1 DEF RebuildDB, Spend
    <2> QED BY <2>1, <2>2
  <1>3. CASE \/ Rebalance \/ Start \/ Crash \/ Fetch \/ SkipSeen \/ ReplicasReady
             \/ MarkForks \/ AlignOuterSingleton \/ PublishOne \/ PublishFail \/ StepFail
    BY <1>0, <1>3, CheckpointIdle
  <1>4. CASE FetchTimeout \/ Reject \/ RejectReplay \/ UNCHANGED vars
    <2>1. UNCHANGED <<inner, committed, fetched, cur, pc, forkState>>
      BY <1>4 DEF FetchTimeout, Reject, RejectReplay, vars, pipelineVars, kafkaVars,
         runVars, cursorVars
    <2> QED BY <1>0, <2>1, CheckpointIdle
  <1>5. CASE BeginProcessed \/ BeginNew
    BY <1>0, <1>5, CheckpointBegin
  <1>6. CASE WriteDB
    BY <1>0, <1>6, CheckpointWrite
  <1>7. CASE Finish
    <2>1. Continuous
      BY <1>1, <1>7 DEF Finish, Advance
    <2> QED BY <1>0, <1>7, <2>1, CheckpointFinish
  <1>8. CASE Commit
    BY <1>0, <1>8, CheckpointCommit
  <1>9. CASE Produce
    BY <1>0, <1>9, CheckpointProduce
  <1>10. CASE LockedWorker(Observe(FALSE)) \/ WorkerStep \/ WorkerFailure
    BY <1>0, <1>10, CheckpointWorker
  <1>11. CASE Environment \/ MainStep \/ Main(FlushCommit) \/ MainFailure \/ Crash
    BY <1>2, <1>3, <1>4, <1>5, <1>6, <1>7, <1>8, <1>9, <1>11
       DEF Environment, MainStep, MainFailure, Main
  <1> QED BY <1>4, <1>10, <1>11 DEF Next

\* finishForkScan runs before CommitMessages: whatever fails, crashes or is replayed,
\* no committed message is missing from the durable position of a checker that is
\* always continuous and keeps its DB.
THEOREM PositionBeforeCommit ==
    ASSUME ~AsyncCommit, MaxRebuilds = 0, Modes \subseteq {"continuous"}
    PROVE  Spec => []CheckpointBeforeCommit
  <1>1. Init => CheckpointInv
    BY DEF Init, PipelineInit, CheckpointInv, PositionInv, BehindInv, Behind, FinishedInv
  <1>2. IndInv /\ ChainInv /\ StreamInv /\ CheckpointInv /\ [Next]_vars => CheckpointInv'
    BY CheckpointNext
  <1>3. Spec => [](ChainInv /\ StreamInv)
    BY StreamInductive DEF CommitsHold
  <1>4. IndInv /\ CheckpointInv => CheckpointBeforeCommit
    <2> SUFFICES ASSUME IndInv, CheckpointInv, committed > 0
                 PROVE  /\ HasState
                        /\ forkState.pos >= committed - 1
                        /\ \E k \in {forkState.pos + 1, forkState.pos + 2} :
                              k <= Len(inner) /\ forkState.published = inner[k].tail
      BY DEF CheckpointBeforeCommit
    <2>1. committed \in Nat /\ Len(inner) \in Nat /\ committed <= Len(inner)
      BY DEF IndInv, TypeOK, PipelineTypeOK
    <2>2. CASE forkState.pos = committed - 1
      BY <2>1, <2>2 DEF CheckpointInv, PositionInv
    <2>3. CASE forkState.pos = committed
      BY <2>1, <2>3 DEF CheckpointInv, PositionInv
    <2> QED BY <2>2, <2>3 DEF CheckpointInv, PositionInv
  <1> QED BY <1>1, <1>2, <1>3, <1>4, Inductive, PTL DEF Spec
=============================================================================
