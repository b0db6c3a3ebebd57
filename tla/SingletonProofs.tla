-------------------------- MODULE SingletonProofs --------------------------
(***************************************************************************)
(* The singleton topic of a chain, for every tree of blocks, any number of *)
(* versions, notices and terms of leadership.                              *)
(***************************************************************************)
EXTENDS Singleton, BlockTreeProofs, SequenceTheorems, WellFoundedInduction

-----------------------------------------------------------------------------
(***************************************************************************)
(* What the topic last said of a block.                                    *)
(***************************************************************************)

\* A set of numbers with a bound has a greatest one.
LEMMA Highest ==
    ASSUME NEW m \in Nat, NEW S, S \subseteq 0 .. m, S # {}
    PROVE  \E x \in S : \A y \in S : y <= x
  <1> DEFINE T == {m - x : x \in S}
  <1>1. T \subseteq Nat /\ T # {}
    <2>1. PICK x : x \in S
      OBVIOUS
    <2>2. m - x \in T
      BY <2>1
    <2>3. \A t \in T : t \in Nat
      OBVIOUS
    <2> QED BY <2>2, <2>3
  <1>2. PICK t \in T : \A u \in T : ~(<<u, t>> \in OpToRel(<, Nat))
    <2> HIDE DEF T
    <2> QED BY <1>1, WFMin, NatLessThanWellFounded
  <1>3. \A u \in T : ~(u < t)
    BY <1>1, <1>2 DEF OpToRel
  <1>4. PICK x \in S : t = m - x
    OBVIOUS
  <1>5. \A y \in S : m - y \in T
    OBVIOUS
  <1> HIDE DEF T
  <1>6. \A y \in S : ~(m - y < m - x)
    BY <1>3, <1>4, <1>5
  <1> QED BY <1>6

Says(b) == {i \in 1 .. Len(single) : single[i].hash = b}

\* The last word on a block is the entry with the greatest index.
LEMMA LastWordAt ==
    ASSUME single \in Seq(OuterNotice), NEW b, NEW i \in Says(b),
           \A j \in Says(b) : j <= i
    PROVE  LastWord(b) = single[i]
  <1>1. Says(b) # {} /\ \A j \in Says(b) : j \in Int
    BY DEF Says
  <1>2. \A k \in Says(b) : (\A j \in Says(b) : j <= k) => k = i
    BY <1>1
  <1>3. (CHOOSE k \in Says(b) : \A j \in Says(b) : j <= k) = i
    BY <1>2
  <1> QED BY <1>1, <1>3 DEF LastWord, Says

\* An entry is the last word on its block and no word on another.
LEMMA WordAfter ==
    ASSUME single \in Seq(OuterNotice), NEW o \in OuterNotice, o.hash \in Block,
           single' = Append(single, o)
    PROVE  /\ single' # <<>> /\ SingletonTail' = o
           /\ \A b \in Block : LastWord(b)' = IF b = o.hash THEN o ELSE LastWord(b)
  <1>1. /\ Len(single) \in Nat /\ Len(single') = Len(single) + 1
        /\ \A i \in 1 .. Len(single) : single'[i] = single[i]
        /\ single'[Len(single) + 1] = o /\ single' # <<>>
        /\ single' \in Seq(OuterNotice)
    BY AppendProperties
  <1>2. SingletonTail' = o
    BY <1>1 DEF SingletonTail
  <1>3. ASSUME NEW b \in Block PROVE LastWord(b)' = IF b = o.hash THEN o ELSE LastWord(b)
    <2>1. CASE b = o.hash
      <3>1. /\ Len(single) + 1 \in Says(b)'
            /\ \A j \in Says(b)' : j <= Len(single) + 1
        BY <1>1, <2>1 DEF Says
      <3>2. LastWord(b)' = single'[Len(single) + 1]
        BY <1>1, <3>1, LastWordAt DEF LastWord, Says
      <3> QED BY <1>1, <2>1, <3>2
    <2>2. CASE b # o.hash
      <3>1. Says(b)' = Says(b)
        BY <1>1, <2>2 DEF Says
      <3>2. CASE Says(b) = {}
        BY <2>2, <3>1, <3>2 DEF LastWord, Says
      <3>3. CASE Says(b) # {}
        <4>1. Says(b) \subseteq 0 .. Len(single)
          BY <1>1 DEF Says
        <4>2. PICK i \in Says(b) : \A j \in Says(b) : j <= i
          BY <1>1, <3>3, <4>1, Highest
        <4>3. LastWord(b) = single[i]
          BY <4>2, LastWordAt
        <4>4. i \in Says(b)' /\ \A j \in Says(b)' : j <= i
          BY <3>1, <4>2
        <4>5. LastWord(b)' = single'[i]
          <5>1. Says(b)' # {} /\ \A j \in Says(b)' : j \in Int
            BY <1>1, <3>1, <4>1, <4>2
          <5>2. \A k \in Says(b)' : (\A j \in Says(b)' : j <= k) => k = i
            BY <4>4, <5>1
          <5>3. (CHOOSE k \in Says(b)' : \A j \in Says(b)' : j <= k) = i
            BY <4>4, <5>2
          <5> QED BY <5>1, <5>3 DEF LastWord, Says
        <4> QED BY <1>1, <2>2, <4>1, <4>2, <4>3, <4>5 DEF Says
      <3> QED BY <3>2, <3>3
    <2> QED BY <2>1, <2>2
  <1> QED BY <1>1, <1>2, <1>3
-----------------------------------------------------------------------------
(***************************************************************************)
(* What a consumer holds.                                                  *)
(***************************************************************************)

\* The topic shows no block off the chain that ends in b, and withdrew none on it.
Upto(b) ==
    \A x \in Block : IF Anc[b][Height[x]] = x THEN ~Withdrew(x) ELSE ~Shows(x)

\* The head a consumer is at after an entry.
Base(o) == IF o.isFork THEN Parent(o.hash) ELSE o.hash

\* A block and the ancestors of its parent make up its chain.
LEMMA ChainStep ==
    ASSUME NEW y \in Block, NEW x \in Block
    PROVE  /\ Parent(y) \in MaybeBlock
           /\ Anc[y][Height[x]] = x <=> x = y \/ Anc[Parent(y)][Height[x]] = x
           /\ Anc[Parent(y)][Height[y]] # y
  <1>1. /\ Height[x] \in 1 .. MaxHeight /\ Height[y] \in 1 .. MaxHeight /\ MaxHeight \in Nat
        /\ x # NoBlock /\ y # NoBlock
    BY HeightAssumption, NoBlockAssumption DEF Heights
  <1>2. y \in MaybeBlock /\ Anc[y][Height[y]] = y /\ x \in MaybeBlock
    BY AncAssumption DEF MaybeBlock
  <1>3. Parent(y) = Anc[y][Height[y] - 1] /\ Height[y] - 1 \in 0 .. MaxHeight
    BY <1>1 DEF Parent
  <1>4. Parent(y) \in MaybeBlock
    <2>1. Anc[y] \in [0 .. MaxHeight -> MaybeBlock]
      BY <1>2, AncAssumption
    <2> QED BY <1>3, <2>1
  <1>5. Height[Parent(y)] = Height[y] - 1
    <2>1. CASE Height[y] = 1
      <3>1. Parent(y) = NoBlock
        BY <1>1, <1>2, <1>3, <2>1, AncAssumption
      <3> QED BY <2>1, <3>1, HeightAssumption
    <2>2. CASE Height[y] # 1
      <3>1. Height[y] - 1 \in 1 .. Height[y]
        BY <1>1, <2>2
      <3> QED BY <1>2, <1>3, <3>1, AncAssumption
    <2> QED BY <2>1, <2>2
  <1>6. \A h \in 1 .. MaxHeight : h > Height[y] - 1 => Anc[Parent(y)][h] = NoBlock
    <2>1. \A h \in 0 .. MaxHeight : Anc[Parent(y)][h] # NoBlock <=> h \in 1 .. Height[Parent(y)]
      BY <1>4, AncAssumption
    <2>2. \A h \in 1 .. MaxHeight : h \in 0 .. MaxHeight
      BY <1>1
    <2> QED BY <1>1, <1>5, <2>1, <2>2
  <1>7. \A h \in 1 .. Height[y] - 1 : Anc[Parent(y)][h] = Anc[y][h]
    <2> SUFFICES ASSUME NEW h \in 1 .. Height[y] - 1 PROVE Anc[Parent(y)][h] = Anc[y][h]
      OBVIOUS
    <2>1. Height[y] - 1 \in 1 .. Height[y] /\ h \in 0 .. Height[y] - 1
      BY <1>1
    <2> QED BY <1>3, <2>1, AncAssumption
  <1>8. Height[x] > Height[y] => Anc[y][Height[x]] = NoBlock
    <2>1. \A h \in 0 .. MaxHeight : Anc[y][h] # NoBlock <=> h \in 1 .. Height[y]
      BY <1>2, AncAssumption
    <2>2. Height[x] \in 0 .. MaxHeight
      BY <1>1
    <2> QED BY <1>1, <2>1, <2>2
  <1>9. Height[x] = Height[y] => (Anc[y][Height[x]] = x <=> x = y)
    BY <1>2
  <1> QED BY <1>1, <1>4, <1>6, <1>7, <1>8, <1>9

\* A consumer that applies an entry that follows is at the head of that entry.
LEMMA FollowKeeps ==
    ASSUME single \in Seq(OuterNotice), NEW o \in OuterNotice, NEW q \in OuterNotice,
           o.hash \in Block, q.hash \in Block,
           Follows(o, q), Upto(Base(o)), single' = Append(single, q)
    PROVE  Upto(Base(q))'
  <1>1. \A x \in Block : LastWord(x)' = IF x = q.hash THEN q ELSE LastWord(x)
    BY WordAfter
  <1>2. q # NoNotice /\ q.isFork \in BOOLEAN /\ o.isFork \in BOOLEAN
    BY NoBlockAssumption DEF NoNotice, OuterNotice
  <1>3. \A x \in Block : /\ Shows(x)' <=> IF x = q.hash THEN ~q.isFork ELSE Shows(x)
                         /\ Withdrew(x)' <=> IF x = q.hash THEN q.isFork ELSE Withdrew(x)
    BY <1>1, <1>2 DEF Shows, Withdrew
  <1>4. \A x \in Block : /\ Anc[q.hash][Height[x]] = x <=>
                               x = q.hash \/ Anc[Parent(q.hash)][Height[x]] = x
                         /\ Anc[Parent(q.hash)][Height[q.hash]] # q.hash
    BY ChainStep
  <1>5. Upto(q.hash) \/ Upto(Parent(q.hash))
    <2>1. CASE q = o
      BY <2>1, <1>2 DEF Base
    <2>2. CASE q # o
      BY <1>2, <2>2 DEF Follows, Base
    <2> QED BY <2>1, <2>2
  <1>6. \A x \in Block : x # q.hash =>
           IF Anc[Parent(q.hash)][Height[x]] = x THEN ~Withdrew(x) ELSE ~Shows(x)
    BY <1>4, <1>5 DEF Upto
  <1>7. CASE q.isFork
    <2>1. \A x \in Block :
             IF Anc[Parent(q.hash)][Height[x]] = x THEN ~Withdrew(x)' ELSE ~Shows(x)'
      BY <1>3, <1>4, <1>6, <1>7
    <2> QED BY <1>7, <2>1 DEF Upto, Base
  <1>8. CASE ~q.isFork
    <2>1. \A x \in Block :
             IF Anc[q.hash][Height[x]] = x THEN ~Withdrew(x)' ELSE ~Shows(x)'
      BY <1>3, <1>4, <1>6, <1>8
    <2> QED BY <1>8, <2>1 DEF Upto, Base
  <1> QED BY <1>7, <1>8

\* An empty topic shows nothing and withdrew nothing.
LEMMA NothingSaid ==
    ASSUME single = <<>>, NEW b PROVE Upto(b)
  <1>1. \A x \in Block : LastWord(x) = NoNotice
    BY DEF LastWord
  <1> QED BY <1>1 DEF Upto, Shows, Withdrew

\* The tail of the topic is the last word on its block.
LEMMA TailIsLast ==
    ASSUME single \in Seq(OuterNotice), single # <<>>
    PROVE  SingletonTail \in OuterNotice /\ LastWord(SingletonTail.hash) = SingletonTail
  <1>1. Len(single) \in Nat /\ Len(single) >= 1 /\ SingletonTail = single[Len(single)]
    BY LenProperties, EmptySeq DEF SingletonTail
  <1>2. /\ Len(single) \in Says(SingletonTail.hash)
        /\ \A j \in Says(SingletonTail.hash) : j <= Len(single)
    BY <1>1 DEF Says
  <1>3. LastWord(SingletonTail.hash) = single[Len(single)]
    BY <1>2, LastWordAt
  <1> QED BY <1>1, <1>3

-----------------------------------------------------------------------------
(***************************************************************************)
(* What align writes.                                                      *)
(***************************************************************************)

\* The blocks of the chain of b above height j.
NewsPlan(s, b, j) ==
    /\ s \in Seq(OuterNotice)
    /\ Len(s) = Height[b] - j
    /\ \A m \in 1 .. Height[b] - j : s[m] = Tip(Anc[b][j + m])

\* The drops of the chain of t above height i, then the chain of b above height c.
DropsPlan(s, t, i, b, c) ==
    /\ s \in Seq(OuterNotice)
    /\ Len(s) = (Height[t] - i) + (Height[b] - c)
    /\ \A m \in 1 .. Len(s) :
          s[m] = IF m <= Height[t] - i THEN [hash |-> Anc[t][i + m], isFork |-> TRUE]
                 ELSE Tip(Anc[b][c + (m - (Height[t] - i))])

\* GetBlockInfoByNum from one height to the next.
LEMMA AscendingFacts ==
    ASSUME NEW b \in Block, NEW j \in 0 .. Height[b], NEW fork \in BOOLEAN
    PROVE  /\ Ascending(b, j + 1, fork) \in Seq(OuterNotice)
           /\ Len(Ascending(b, j + 1, fork)) = Height[b] - j
           /\ \A m \in 1 .. Height[b] - j :
                 Ascending(b, j + 1, fork)[m] = [hash |-> Anc[b][j + m], isFork |-> fork]
  <1>1. Height[b] \in 1 .. MaxHeight /\ MaxHeight \in Nat /\ b \in MaybeBlock
    BY HeightAssumption DEF Heights, MaybeBlock
  <1>2. PICK n \in Nat : n = Height[b] - j
    BY <1>1
  <1>3. PICK s : s = Ascending(b, j + 1, fork)
    OBVIOUS
  <1>4. s = [m \in 1 .. n |-> [hash |-> Anc[b][j + m], isFork |-> fork]]
    <2>1. Height[b] - (j + 1) + 1 = n /\ \A m \in 1 .. n : j + 1 + m - 1 = j + m
      BY <1>1, <1>2
    <2>2. s = [m \in 1 .. Height[b] - (j + 1) + 1 |->
                 [hash |-> Anc[b][j + 1 + m - 1], isFork |-> fork]]
      BY <1>3 DEF Ascending
    <2> QED BY <2>1, <2>2
  <1>5. \A m \in 1 .. n : [hash |-> Anc[b][j + m], isFork |-> fork] \in OuterNotice
    <2> SUFFICES ASSUME NEW m \in 1 .. n
                 PROVE  [hash |-> Anc[b][j + m], isFork |-> fork] \in OuterNotice
      OBVIOUS
    <2>1. j + m \in 0 .. MaxHeight
      BY <1>1, <1>2
    <2>2. Anc[b][j + m] \in MaybeBlock
      BY <1>1, <2>1, AncAssumption
    <2> QED BY <2>2 DEF OuterNotice
  <1>6. s \in [1 .. n -> OuterNotice]
    BY <1>4, <1>5
  <1>7. s \in Seq(OuterNotice)
    BY <1>6, SeqDef
  <1>8. DOMAIN s = 1 .. n /\ DOMAIN s = 1 .. Len(s) /\ Len(s) \in Nat
    BY <1>6, <1>7, LenProperties
  <1>9. Len(s) = n
    BY <1>8
  <1> QED BY <1>2, <1>3, <1>4, <1>7, <1>9
-----------------------------------------------------------------------------
(***************************************************************************)
(* Types, and where each process is.                                       *)
(***************************************************************************)
IndexOf(b) == [h \in Heights |-> Anc[b][h]]

\* The message in hand and publishOuter's place in it, wherever crashes fell.
Flow(p) ==
    /\ pc[p] = "idle" => pub[p] = 1 /\ delivered[p] = {}
    /\ pc[p] # "idle" => /\ todo[p] \in Notice /\ WellFormed(todo[p])
                         /\ todo[p].old \in Block /\ read[p] > 0
    /\ pc[p] = "process" => pub[p] = 1
    /\ pc[p] = "publish" => pub[p] \in 1 .. OuterCount(todo[p])
    /\ pc[p] \in {"align", "catchup"} => latest[p].hash = todo[p].tail
    /\ pc[p] = "catchup" => p \in leads \ aligned
    /\ latest[p].hash \in Block /\ version[p].hash \in Block
    /\ \A i \in 1 .. Len(inner[p]) : WellFormed(inner[p][i]) /\ inner[p][i].old \in Block
    /\ cached[p] # NoNotice => single # <<>>

FlowInv == \A p \in Proc : Flow(p)

\* What a process does between the ends of its terms.
Work(p) ==
    \/ Receive(p) \/ Redeliver(p) \/ BeginProcessed(p) \/ BeginNew(p)
    \/ PublishOuter(p) \/ PublishFails(p) \/ AlignOuterSingleton(p) \/ AlignFails(p)
    \/ CommitMessages(p) \/ Crash(p)

\* What a step of another process leaves of a process.
Kept(q) ==
    /\ pc'[q] = pc[q] /\ pub'[q] = pub[q] /\ delivered'[q] = delivered[q]
    /\ canon'[q] = canon[q] /\ latest'[q] = latest[q] /\ todo'[q] = todo[q]
    /\ cached'[q] = cached[q] /\ plan'[q] = plan[q]
    /\ version'[q] = version[q] /\ inner'[q] = inner[q] /\ read'[q] = read[q]

\* Such a step keeps the place of the process, as long as it does not end its term.
LEMMA FlowKept ==
    ASSUME NEW q, Flow(q), Kept(q), single # <<>> => single' # <<>>,
           pc[q] = "catchup" /\ q \in leads \ aligned => q \in leads' \ aligned'
    PROVE  Flow(q)'
  BY DEF Flow, Kept

\* Every step is a step of one process, and leaves the others where they are.
LEMMA OthersKept ==
    ASSUME TypeOK, NEW p \in Proc, NEW q \in Proc, q # p, Work(p)
    PROVE  Kept(q)
  <1>1. CASE Receive(p) \/ Redeliver(p)
    BY <1>1 DEF TypeOK, Receive, Redeliver, Goto, Kept
  <1>2. CASE BeginProcessed(p) \/ BeginNew(p)
    BY <1>2 DEF TypeOK, BeginProcessed, BeginNew, Goto, Kept, logVars
  <1>3. CASE PublishOuter(p)
    BY <1>3 DEF TypeOK, PublishOuter, Write, MarkDelivered, Goto, Kept
  <1>4. CASE PublishFails(p)
    BY <1>4 DEF TypeOK, PublishFails, Write, MarkDelivered, TryAgain, Goto, Kept
  <1>5. CASE AlignFails(p)
    BY <1>5 DEF TypeOK, AlignFails, TryAgain, Goto, Kept, logVars
  <1>6. CASE AlignNotNeeded(p) \/ AlignEmpty(p) \/ AlignLater(p) \/ AlignDone(p)
    BY <1>6 DEF TypeOK, AlignNotNeeded, AlignEmpty, AlignLater, AlignDone, Handled, Rest,
       Goto, Kept, logVars
  <1>7. CASE FetchSingletonTail(p) \/ AlignWrite(p)
    BY <1>7 DEF TypeOK, FetchSingletonTail, AlignWrite, Kept, logVars
  <1>8. CASE AlignStart(p)
    BY <1>8 DEF TypeOK, AlignStart, TryAgain, Goto, Kept, logVars
  <1>9. CASE CommitMessages(p)
    BY <1>9 DEF TypeOK, CommitMessages, Kept, flowVars
  <1>10. CASE Crash(p)
    <2>1. version'[q] = version[q]
      BY <1>10 DEF TypeOK, Crash, WritesUnderWay, Write
    <2>2. latest'[q] = latest[q]
      BY <1>10 DEF TypeOK, Crash
    <2> QED BY <1>10, <2>1, <2>2 DEF TypeOK, Crash, Rest, Goto, Kept
  <1> QED BY <1>1, <1>2, <1>3, <1>4, <1>5, <1>6, <1>7, <1>8, <1>9, <1>10
          DEF Work, AlignOuterSingleton

\* A step adds one entry to the topic, or none.
LEMMA WorkTopic ==
    ASSUME NEW p \in Proc, Work(p)
    PROVE  single' = single \/ \E o : single' = Append(single, o)
  <1>1. CASE Receive(p) \/ Redeliver(p) \/ BeginProcessed(p) \/ BeginNew(p) \/ CommitMessages(p)
    BY <1>1 DEF Receive, Redeliver, BeginProcessed, BeginNew, CommitMessages
  <1>2. CASE PublishOuter(p) \/ PublishFails(p)
    BY <1>2 DEF PublishOuter, PublishFails, Write
  <1>3. CASE AlignFails(p)
    BY <1>3 DEF AlignFails, UnansweredAlignWrite
  <1>4. CASE AlignOuterSingleton(p)
    BY <1>4 DEF AlignOuterSingleton, AlignNotNeeded, AlignEmpty, FetchSingletonTail,
       AlignLater, AlignStart, AlignWrite, AlignDone, Handled
  <1>5. CASE Crash(p)
    BY <1>5 DEF Crash, WritesUnderWay, Write, UnansweredAlignWrite
  <1> QED BY <1>1, <1>2, <1>3, <1>4, <1>5 DEF Work

\* A topic with an entry is not empty.
LEMMA NeverEmpty ==
    ASSUME NEW S, NEW s \in Seq(S), NEW o PROVE Append(s, o) # <<>>
  <1>1. PICK T : T = S \cup {o}
    OBVIOUS
  <1>2. s \in Seq(T) /\ o \in T
    <2>1. s \in [1 .. Len(s) -> S] /\ Len(s) \in Nat
      BY LenProperties
    <2>2. s \in [1 .. Len(s) -> T]
      BY <1>1, <2>1
    <2> QED BY <1>1, <2>1, <2>2, SeqDef
  <1> QED BY <1>2, AppendProperties

\* A step of p keeps the place of every other process.
LEMMA FlowOthers ==
    ASSUME TypeOK, FlowInv, NEW p \in Proc, Work(p)
    PROVE  \A q \in Proc : q # p => Flow(q)'
  <1> SUFFICES ASSUME NEW q \in Proc, q # p PROVE Flow(q)'
    OBVIOUS
  <1>1. Kept(q)
    BY OthersKept
  <1>2. \A r \in Proc : r # p /\ r \in leads \ aligned => r \in leads' \ aligned'
    <2>1. CASE Crash(p)
      BY <2>1 DEF Crash, StepDown, termVars
    <2>2. CASE AlignOuterSingleton(p)
      BY <2>2 DEF AlignOuterSingleton, AlignNotNeeded, AlignEmpty, FetchSingletonTail,
         AlignLater, AlignStart, AlignWrite, AlignDone, BecomeAligned, termVars
    <2>3. CASE PublishOuter(p) \/ PublishFails(p) \/ AlignFails(p) \/ CommitMessages(p)
      BY <2>3 DEF PublishOuter, PublishFails, AlignFails, CommitMessages, termVars
    <2>4. CASE Receive(p) \/ Redeliver(p) \/ BeginProcessed(p) \/ BeginNew(p)
      BY <2>4 DEF Receive, Redeliver, BeginProcessed, BeginNew, termVars
    <2> QED BY <2>1, <2>2, <2>3, <2>4 DEF Work
  <1>3. single # <<>> => single' # <<>>
    <2>1. single \in Seq(OuterNotice)
      BY DEF TypeOK
    <2>2. \A o : Append(single, o) # <<>>
      BY <2>1, NeverEmpty
    <2> QED BY <2>2, WorkTopic
  <1> QED BY <1>1, <1>2, <1>3, FlowKept DEF FlowInv

\* The item publishOuter is at is about a block of the notice.
LEMMA ItemTyped ==
    ASSUME TypeOK, NEW p \in Proc, Flow(p), pc[p] = "publish"
    PROVE  /\ Item(p) \in OuterNotice /\ Item(p).hash \in Block
           /\ Item(p).hash = todo[p].tail <=> pub[p] = OuterCount(todo[p])
           /\ pub[p] \in 1 .. OuterCount(todo[p]) /\ OuterCount(todo[p]) \in Nat \ {0}
           /\ pub[p] = OuterCount(todo[p]) => Item(p) = Tip(todo[p].tail)
           /\ todo[p] \in Notice /\ WellFormed(todo[p])
  <1>1. /\ todo[p] \in Notice /\ WellFormed(todo[p])
        /\ pub[p] \in 1 .. OuterCount(todo[p])
    BY DEF Flow
  <1>2. PICK n, i : n = todo[p] /\ i = pub[p]
    OBVIOUS
  <1>3. n \in Notice /\ WellFormed(n) /\ i \in 1 .. OuterCount(n) /\ n.first <= Height[n.tail]
    BY <1>1, <1>2 DEF WellFormed
  <1>4. OuterItem(n, i) \in OuterNotice /\ OuterItem(n, i).hash \in Block
    BY <1>3, ItemFacts
  <1>5. OuterItem(n, OuterCount(n)) = [hash |-> n.tail, isFork |-> FALSE]
    BY <1>3, ItemsFollow
  <1>6. OuterItem(n, i).hash = n.tail <=> i = OuterCount(n)
    <2>1. OuterItem(n, i).hash = n.tail => i = OuterCount(n)
      BY <1>3, ItemsDiffer
    <2> QED BY <1>5, <2>1
  <1>7. OuterCount(n) \in Nat \ {0}
    BY <1>3, Shape
  <1> QED BY <1>1, <1>2, <1>4, <1>5, <1>6, <1>7 DEF Item, Tip

\* The index of a chain is an index.
LEMMA IndexTyped ==
    ASSUME NEW b \in Block PROVE IndexOf(b) \in [Heights -> MaybeBlock]
  <1>1. b \in MaybeBlock /\ MaxHeight \in Nat
    BY HeightAssumption DEF MaybeBlock
  <1>2. Anc[b] \in [0 .. MaxHeight -> MaybeBlock]
    BY <1>1, AncAssumption
  <1>3. \A h \in Heights : h \in 0 .. MaxHeight
    BY <1>1 DEF Heights
  <1> QED BY <1>2, <1>3 DEF IndexOf

\* The states the model starts in.
LEMMA FlowInit == Init => TypeOK /\ FlowInv
  <1> SUFFICES ASSUME Init PROVE TypeOK /\ FlowInv
    OBVIOUS
  <1>1. /\ Root \in Block /\ NoNotice \in OuterNotice /\ Tip(Root) \in OuterNotice
        /\ Tip(Root).hash = Root
    BY SingletonAssumption DEF NoNotice, OuterNotice, MaybeBlock, Tip
  <1>2. IndexOf(Root) \in [Heights -> MaybeBlock]
    BY <1>1, IndexTyped
  <1>3. TypeOK
    <2>1. /\ owner \in Proc \cup {NoProc} /\ aligned \subseteq leads /\ leads \subseteq Proc
      BY DEF Init, TermInit
    <2>2. canon \in [Proc -> [Heights -> MaybeBlock]]
      BY <1>2 DEF Init, IndexOf
    <2>3. /\ single \in Seq(OuterNotice) /\ plan \in [Proc -> Seq(OuterNotice)]
          /\ inner \in [Proc -> Seq(Notice)]
      BY EmptySeq DEF Init
    <2>4. read \in [Proc -> Nat] /\ \A p \in Proc : read[p] <= Len(inner[p])
      BY DEF Init
    <2>5. /\ todo \in [Proc -> Notice \cup {NoWork}]
          /\ version \in [Proc -> OuterNotice] /\ latest \in [Proc -> OuterNotice]
          /\ pc \in [Proc -> {"idle", "process", "publish", "align", "catchup"}]
          /\ pub \in [Proc -> Nat \ {0}]
          /\ delivered \in [Proc -> SUBSET ({"version", "singleton"} \X OuterNotice)]
          /\ cached \in [Proc -> OuterNotice]
      BY <1>1 DEF Init
    <2>6. /\ overlap \in BOOLEAN /\ torn \in BOOLEAN /\ replayed \in BOOLEAN
          /\ budget \in [Kinds -> Nat]
      BY DEF Init
    <2> QED BY <2>1, <2>2, <2>3, <2>4, <2>5, <2>6 DEF TypeOK
  <1>4. FlowInv
    BY <1>1 DEF Init, FlowInv, Flow
  <1> QED BY <1>3, <1>4

\* Spending a budget keeps it a table of counters.
LEMMA SpendTyped ==
    ASSUME budget \in [Kinds -> Nat], NEW kind \in Kinds, NEW max, Spend(kind, max)
    PROVE  budget' \in [Kinds -> Nat]
  BY DEF Spend

\* Terms begin and end while no notice is being published or aligned.
LEMMA FlowTerm ==
    ASSUME TypeOK, FlowInv,
           \/ LeaseRunsOut
           \/ \E p \in Proc : ChangeToChainLeader(p) \/ RevokeChainLeader(p)
    PROVE  TypeOK' /\ FlowInv'
  <1>1. CASE LeaseRunsOut
    <2>1. budget' \in [Kinds -> Nat]
      BY <1>1, SpendTyped DEF LeaseRunsOut, TypeOK, Kinds
    <2>2. TypeOK'
      BY <1>1, <2>1 DEF TypeOK, LeaseRunsOut, LoseLease, flowVars, histVars, logVars
    <2>3. FlowInv'
      BY <1>1 DEF FlowInv, Flow, LeaseRunsOut, LoseLease, flowVars, logVars
    <2> QED BY <2>2, <2>3
  <1>2. ASSUME NEW p \in Proc, ChangeToChainLeader(p) PROVE TypeOK' /\ FlowInv'
    <2>1. budget' \in [Kinds -> Nat]
      BY <1>2, SpendTyped DEF ChangeToChainLeader, TypeOK, Kinds
    <2>2. overlap' \in BOOLEAN
      BY <1>2 DEF ChangeToChainLeader, TypeOK
    <2>3. /\ UNCHANGED <<single, latest, canon, todo, pc, pub, delivered, cached, plan,
                         version, inner, read, torn, replayed>>
          /\ owner' = p /\ leads' = leads \cup {p} /\ aligned' = aligned
      BY <1>2 DEF ChangeToChainLeader, TakeOver, flowVars, logVars
    <2>4. TypeOK'
      BY <1>2, <2>1, <2>2, <2>3 DEF TypeOK
    <2>5. FlowInv'
      BY <2>3 DEF FlowInv, Flow
    <2> QED BY <2>4, <2>5
  <1>3. ASSUME NEW p \in Proc, RevokeChainLeader(p) PROVE TypeOK' /\ FlowInv'
    <2>1. /\ UNCHANGED <<single, latest, canon, todo, pc, pub, delivered, cached, plan,
                         version, inner, read, overlap, torn, replayed, budget>>
          /\ owner' \in {owner, NoProc} /\ leads' = leads \ {p} /\ aligned' = aligned \ {p}
          /\ pc[p] # "catchup"
      BY <1>3 DEF RevokeChainLeader, StepDown, flowVars, histVars, logVars, Locked
    <2>2. TypeOK'
      BY <2>1 DEF TypeOK
    <2>3. FlowInv'
      BY <2>1 DEF FlowInv, Flow
    <2> QED BY <2>2, <2>3
  <1> QED BY <1>1, <1>2, <1>3
\* WriteBlockInfos leaves an index.
LEMMA WrittenTyped ==
    ASSUME NEW index \in [Heights -> MaybeBlock], NEW n \in Notice
    PROVE  Written(index, n) \in [Heights -> MaybeBlock]
  <1>1. IndexOf(n.tail) \in [Heights -> MaybeBlock]
    BY IndexTyped DEF Notice
  <1>2. ASSUME NEW h \in Heights PROVE Written(index, n)[h] \in MaybeBlock
    <2>1. Written(index, n)[h] \in {Anc[n.tail][h], NoBlock, index[h]}
      BY DEF Written
    <2>2. Anc[n.tail][h] \in MaybeBlock
      BY <1>1 DEF IndexOf
    <2> QED BY <2>1, <2>2 DEF MaybeBlock
  <1> QED BY <1>2 DEF Written

\* A message comes in, new or again.
LEMMA FlowReceive ==
    ASSUME TypeOK, FlowInv, NEW p \in Proc, Receive(p) \/ Redeliver(p)
    PROVE  TypeOK' /\ FlowInv'
  <1>1. /\ pc[p] = "idle" /\ pc' = [pc EXCEPT ![p] = "process"]
        /\ read' = [read EXCEPT ![p] = @ + 1]
        /\ UNCHANGED <<owner, leads, aligned, single, version, latest, canon, pub, delivered,
                       cached, plan, overlap, torn, replayed>>
    BY DEF Receive, Redeliver, Goto, termVars, histVars
  <1>2. /\ inner[p] \in Seq(Notice) /\ Len(inner[p]) \in Nat /\ read[p] \in Nat
        /\ read[p] <= Len(inner[p])
        /\ latest[p].hash \in Block
        /\ \A i \in 1 .. Len(inner[p]) : WellFormed(inner[p][i]) /\ inner[p][i].old \in Block
    BY LenProperties DEF TypeOK, FlowInv, Flow
  <1>3. budget' \in [Kinds -> Nat]
    BY SpendTyped DEF Receive, Redeliver, TypeOK, Kinds
  <1>4. PICK n \in Notice :
           /\ WellFormed(n) /\ n.old \in Block /\ todo' = [todo EXCEPT ![p] = n]
           /\ inner'[p] \in Seq(Notice) /\ read[p] + 1 <= Len(inner'[p])
           /\ \A i \in 1 .. Len(inner'[p]) : WellFormed(inner'[p][i]) /\ inner'[p][i].old \in Block
           /\ inner' = [inner EXCEPT ![p] = inner'[p]]
    <2>1. CASE Receive(p)
      <3>1. PICK t \in Stored[p], f \in Heights :
               /\ WellFormed([old |-> latest[p].hash, tail |-> t, first |-> f])
               /\ inner' = [inner EXCEPT ![p] =
                              Append(@, [old |-> latest[p].hash, tail |-> t, first |-> f])]
               /\ todo' = [todo EXCEPT ![p] =
                              [old |-> latest[p].hash, tail |-> t, first |-> f]]
        BY <2>1 DEF Receive
      <3>2. PICK n : n = [old |-> latest[p].hash, tail |-> t, first |-> f]
        OBVIOUS
      <3>3. t \in Block
        BY SingletonAssumption
      <3>4. n \in Notice /\ WellFormed(n) /\ n.old \in Block
        BY <1>2, <3>1, <3>2, <3>3 DEF Notice, MaybeBlock
      <3>5. inner'[p] = Append(inner[p], n)
        BY <3>1, <3>2 DEF TypeOK
      <3>6. /\ inner'[p] \in Seq(Notice) /\ Len(inner'[p]) = Len(inner[p]) + 1
            /\ \A i \in 1 .. Len(inner[p]) : inner'[p][i] = inner[p][i]
            /\ inner'[p][Len(inner[p]) + 1] = n
        BY <1>2, <3>4, <3>5, AppendProperties
      <3>7. ASSUME NEW i \in 1 .. Len(inner'[p])
            PROVE  WellFormed(inner'[p][i]) /\ inner'[p][i].old \in Block
        <4>1. CASE i \in 1 .. Len(inner[p])
          BY <1>2, <3>6, <4>1
        <4>2. CASE i = Len(inner[p]) + 1
          BY <3>4, <3>6, <4>2
        <4> QED BY <1>2, <3>6, <4>1, <4>2
      <3>8. inner' = [inner EXCEPT ![p] = inner'[p]]
        BY <3>1, <3>2, <3>5 DEF TypeOK
      <3>9. read[p] + 1 <= Len(inner'[p])
        BY <1>2, <3>6
      <3>10. todo' = [todo EXCEPT ![p] = n]
        BY <3>1, <3>2
      <3> QED BY <3>4, <3>6, <3>7, <3>8, <3>9, <3>10
    <2>2. CASE Redeliver(p)
      <3>1. /\ read[p] < Len(inner[p]) /\ inner' = inner
            /\ todo' = [todo EXCEPT ![p] = inner[p][read[p] + 1]]
        BY <2>2 DEF Redeliver
      <3>2. read[p] + 1 \in 1 .. Len(inner[p])
        BY <1>2, <3>1
      <3>3. inner[p][read[p] + 1] \in Notice
        BY <1>2, <3>2, ElementOfSeq
      <3>4. PICK n : n = inner[p][read[p] + 1]
        OBVIOUS
      <3>5. n \in Notice /\ WellFormed(n) /\ n.old \in Block /\ todo' = [todo EXCEPT ![p] = n]
        BY <1>2, <3>1, <3>2, <3>3, <3>4
      <3>6. read[p] + 1 <= Len(inner'[p]) /\ inner'[p] = inner[p]
        BY <1>2, <3>1
      <3>7. inner' = [inner EXCEPT ![p] = inner'[p]]
        BY <3>1 DEF TypeOK
      <3> QED BY <1>2, <3>5, <3>6, <3>7
    <2> QED BY <2>1, <2>2
  <1>5. TypeOK'
    <2>1. todo' \in [Proc -> Notice \cup {NoWork}]
      BY <1>4 DEF TypeOK
    <2>2. pc' \in [Proc -> {"idle", "process", "publish", "align", "catchup"}]
      BY <1>1 DEF TypeOK
    <2>3. inner' \in [Proc -> Seq(Notice)]
      BY <1>4 DEF TypeOK
    <2>4. read' \in [Proc -> Nat] /\ \A q \in Proc : read'[q] <= Len(inner'[q])
      BY <1>1, <1>4 DEF TypeOK
    <2> QED BY <1>1, <1>3, <2>1, <2>2, <2>3, <2>4 DEF TypeOK
  <1>6. Flow(p)'
    <2>1. /\ pc'[p] = "process" /\ todo'[p] = n /\ pub'[p] = 1 /\ read'[p] = read[p] + 1
          /\ read'[p] > 0
      BY <1>1, <1>2, <1>4 DEF TypeOK, FlowInv, Flow
    <2> QED BY <1>1, <1>4, <2>1 DEF FlowInv, Flow
  <1>7. \A q \in Proc : q # p => Flow(q)'
    BY FlowOthers DEF Work
  <1> QED BY <1>5, <1>6, <1>7 DEF FlowInv

\* processNotice begins.
LEMMA FlowBegin ==
    ASSUME TypeOK, FlowInv, NEW p \in Proc, BeginProcessed(p) \/ BeginNew(p)
    PROVE  TypeOK' /\ FlowInv'
  <1>1. /\ pc[p] = "process" /\ Flow(p)
        /\ UNCHANGED <<owner, leads, aligned, single, version, inner, read, latest, todo, pub,
                       delivered, cached, plan, overlap, torn, replayed, budget>>
    BY DEF BeginProcessed, BeginNew, termVars, histVars, logVars, FlowInv
  <1>2. todo[p] \in Notice /\ WellFormed(todo[p])
    BY <1>1 DEF Flow
  <1>3. canon' \in [Proc -> [Heights -> MaybeBlock]]
    <2>1. Written(canon[p], todo[p]) \in [Heights -> MaybeBlock]
      BY <1>2, WrittenTyped DEF TypeOK
    <2> QED BY <2>1 DEF BeginProcessed, BeginNew, TypeOK
  <1>4. \/ pc' = [pc EXCEPT ![p] = "align"] /\ latest[p].hash = todo[p].tail
        \/ pc' = [pc EXCEPT ![p] = "publish"]
    BY DEF BeginProcessed, BeginNew, Goto, IsAlreadyProcessed
  <1>5. TypeOK'
    <2>1. pc' \in [Proc -> {"idle", "process", "publish", "align", "catchup"}]
      BY <1>4 DEF TypeOK
    <2> QED BY <1>1, <1>3, <2>1 DEF TypeOK
  <1>6. Flow(p)'
    <2>1. 1 \in 1 .. OuterCount(todo[p])
      BY <1>2, Shape
    <2>2. pub[p] = 1
      BY <1>1 DEF Flow
    <2>3. (pc'[p] = "align" /\ latest[p].hash = todo[p].tail) \/ pc'[p] = "publish"
      BY <1>4 DEF TypeOK
    <2> QED BY <1>1, <2>1, <2>2, <2>3 DEF Flow
  <1>7. \A q \in Proc : q # p => Flow(q)'
    BY FlowOthers DEF Work
  <1> QED BY <1>5, <1>6, <1>7 DEF FlowInv

\* publishOuter writes an entry, or fails to reach a destination.
LEMMA PublishWrites ==
    ASSUME TypeOK, NEW p \in Proc, Flow(p), PublishOuter(p) \/ PublishFails(p)
    PROVE  \E wrote \in SUBSET {"version", "singleton"} : \E ok \in SUBSET wrote :
              /\ wrote \subseteq Due(p)
              /\ PublishOuter(p) => wrote = Due(p) /\ ok = Due(p)
              /\ single' = IF "singleton" \in wrote THEN Append(single, Item(p)) ELSE single
              /\ version'[p] = IF "version" \in wrote THEN Item(p) ELSE version[p]
              /\ delivered'[p] = delivered[p] \cup (ok \X {Item(p)})
  <1>1. Due(p) \in SUBSET {"version", "singleton"}
    BY DEF Due, Targets
  <1>2. CASE PublishOuter(p)
    BY <1>1, <1>2 DEF PublishOuter, Write, MarkDelivered, TypeOK
  <1>3. CASE ~PublishOuter(p)
    <2>1. PICK wrote \in SUBSET Due(p) : \E ok \in SUBSET wrote :
             ok # Due(p) /\ Write(p, wrote) /\ MarkDelivered(p, ok)
      BY <1>3 DEF PublishFails
    <2>2. PICK ok \in SUBSET wrote : Write(p, wrote) /\ MarkDelivered(p, ok)
      BY <2>1
    <2> QED BY <1>1, <1>3, <2>1, <2>2 DEF Write, MarkDelivered, TypeOK
  <1> QED BY <1>2, <1>3

LEMMA FlowPublish ==
    ASSUME TypeOK, FlowInv, NEW p \in Proc, PublishOuter(p) \/ PublishFails(p)
    PROVE  TypeOK' /\ FlowInv'
  <1>1. pc[p] = "publish" /\ Flow(p)
    BY DEF PublishOuter, PublishFails, FlowInv
  <1>2. PICK o, n : o = Item(p) /\ n = todo[p]
    OBVIOUS
  <1>3. /\ o \in OuterNotice /\ o.hash \in Block
        /\ o.hash = n.tail <=> pub[p] = OuterCount(n)
        /\ pub[p] = OuterCount(n) => o = Tip(n.tail)
        /\ pub[p] \in 1 .. OuterCount(n) /\ OuterCount(n) \in Nat \ {0}
        /\ n \in Notice /\ WellFormed(n)
    BY <1>1, <1>2, ItemTyped
  <1>4. PICK wrote \in SUBSET {"version", "singleton"}, ok \in SUBSET {"version", "singleton"} :
           /\ single' = IF "singleton" \in wrote THEN Append(single, o) ELSE single
           /\ version'[p] = IF "version" \in wrote THEN o ELSE version[p]
           /\ delivered'[p] = delivered[p] \cup (ok \X {o})
    BY <1>1, <1>2, PublishWrites
  <1>5. single' \in Seq(OuterNotice)
    BY <1>3, <1>4, AppendProperties DEF TypeOK
  <1>6. delivered' \in [Proc -> SUBSET ({"version", "singleton"} \X OuterNotice)]
    <2>1. delivered'[p] \in SUBSET ({"version", "singleton"} \X OuterNotice)
      BY <1>3, <1>4 DEF TypeOK
    <2>2. delivered' = [delivered EXCEPT ![p] = delivered'[p]]
      BY DEF PublishOuter, PublishFails, MarkDelivered, TypeOK
    <2> QED BY <2>1, <2>2 DEF TypeOK
  <1>7. /\ version' \in [Proc -> OuterNotice] /\ version'[p].hash \in Block
    <2>1. version'[p] \in OuterNotice /\ version'[p].hash \in Block
      BY <1>1, <1>3, <1>4 DEF TypeOK, Flow
    <2>2. version' = [version EXCEPT ![p] = version'[p]]
      BY DEF PublishOuter, PublishFails, Write, TypeOK
    <2> QED BY <2>1, <2>2 DEF TypeOK
  <1>8. UNCHANGED <<owner, leads, aligned, inner, read, canon, todo, cached, plan,
                    overlap, torn, replayed>>
    BY DEF PublishOuter, PublishFails, termVars, histVars
  <1>9. budget' \in [Kinds -> Nat]
    BY SpendTyped DEF PublishOuter, PublishFails, TypeOK, Kinds
  <1>10. single # <<>> => single' # <<>>
    BY <1>4, NeverEmpty DEF TypeOK
  <1>11. /\ latest' \in [Proc -> OuterNotice] /\ pub' \in [Proc -> Nat \ {0}]
         /\ latest'[p].hash \in Block
         /\ pc' \in [Proc -> {"idle", "process", "publish", "align", "catchup"}]
         /\ \/ /\ pub[p] = OuterCount(n) /\ pc'[p] = "align" /\ latest'[p] = o
            \/ /\ pub[p] # OuterCount(n) /\ pc'[p] = "publish" /\ pub'[p] = pub[p] + 1
            \/ pc'[p] = "process" /\ pub'[p] = 1
    <2>1. CASE PublishOuter(p)
      <3>1. /\ latest' = [latest EXCEPT ![p] = IF o.isFork THEN @ ELSE o]
            /\ pub' = [pub EXCEPT ![p] = @ + 1]
            /\ pc' = [pc EXCEPT ![p] = IF pub[p] = OuterCount(n) THEN "align" ELSE "publish"]
        BY <1>2, <2>1 DEF PublishOuter, Goto
      <3>2. latest' \in [Proc -> OuterNotice] /\ latest'[p].hash \in Block
        BY <1>1, <1>3, <3>1 DEF TypeOK, Flow
      <3>3. pub' \in [Proc -> Nat \ {0}] /\ pub'[p] = pub[p] + 1
        BY <3>1 DEF TypeOK
      <3>4. /\ pc' \in [Proc -> {"idle", "process", "publish", "align", "catchup"}]
            /\ pc'[p] = IF pub[p] = OuterCount(n) THEN "align" ELSE "publish"
        BY <3>1 DEF TypeOK
      <3>5. pub[p] = OuterCount(n) => latest'[p] = o
        BY <1>3, <3>1 DEF TypeOK, Tip
      <3> QED BY <3>2, <3>3, <3>4, <3>5
    <2>2. CASE PublishFails(p)
      <3>1. /\ pub' = [pub EXCEPT ![p] = 1] /\ latest' = latest
            /\ pc' = [pc EXCEPT ![p] = "process"]
        BY <2>2 DEF PublishFails, TryAgain, Goto
      <3>2. pub' \in [Proc -> Nat \ {0}] /\ pub'[p] = 1
        BY <3>1 DEF TypeOK
      <3>3. /\ pc' \in [Proc -> {"idle", "process", "publish", "align", "catchup"}]
            /\ pc'[p] = "process"
        BY <3>1 DEF TypeOK
      <3> QED BY <1>1, <3>1, <3>2, <3>3 DEF TypeOK, Flow
    <2> QED BY <2>1, <2>2
  <1>12. TypeOK'
    BY <1>5, <1>6, <1>7, <1>8, <1>9, <1>11 DEF TypeOK
  <1>13. Flow(p)'
    <2>1. /\ todo'[p] = n /\ read'[p] = read[p] /\ cached'[p] = cached[p] /\ inner'[p] = inner[p]
      BY <1>2, <1>8
    <2>2. /\ n.old \in Block /\ read[p] > 0
          /\ cached[p] # NoNotice => single # <<>>
          /\ \A i \in 1 .. Len(inner[p]) : WellFormed(inner[p][i]) /\ inner[p][i].old \in Block
      BY <1>1, <1>2 DEF Flow
    <2>3. pc'[p] = "publish" => pub'[p] \in 1 .. OuterCount(n)
      BY <1>3, <1>11
    <2>4. pc'[p] \in {"process", "publish", "align"}
      BY <1>11
    <2>5. pc'[p] = "process" => pub'[p] = 1
      BY <1>11
    <2>6. pc'[p] = "align" => latest'[p].hash = n.tail
      BY <1>3, <1>11
    <2>7. latest'[p].hash \in Block /\ version'[p].hash \in Block
      BY <1>7, <1>11
    <2>8. cached'[p] # NoNotice => single' # <<>>
      BY <1>10, <2>1, <2>2
    <2>9. /\ todo'[p] \in Notice /\ WellFormed(todo'[p]) /\ todo'[p].old \in Block
          /\ read'[p] > 0 /\ pc'[p] \notin {"idle", "catchup"}
          /\ pc'[p] = "publish" => pub'[p] \in 1 .. OuterCount(todo'[p])
          /\ pc'[p] = "align" => latest'[p].hash = todo'[p].tail
      BY <1>3, <2>1, <2>2, <2>3, <2>4, <2>6
    <2>10. \A i \in 1 .. Len(inner'[p]) : WellFormed(inner'[p][i]) /\ inner'[p][i].old \in Block
      BY <2>1, <2>2
    <2> QED BY <2>5, <2>7, <2>8, <2>9, <2>10 DEF Flow
  <1>14. \A q \in Proc : q # p => Flow(q)'
    BY FlowOthers DEF Work
  <1> QED BY <1>12, <1>13, <1>14 DEF FlowInv-----------------------------------------------------------------------------
(***************************************************************************)
(* AlignOuterSingleton, offsets and crashes.                               *)
(***************************************************************************)

\* Where two chains part, when they have a block in common.
LEMMA CommonFacts ==
    ASSUME NEW a \in MaybeBlock, NEW b \in MaybeBlock, CommonHeight(a, b) > 0
    PROVE  /\ CommonHeight(a, b) \in 1 .. Height[a] /\ CommonHeight(a, b) \in 1 .. Height[b]
           /\ Anc[a][CommonHeight(a, b)] = Anc[b][CommonHeight(a, b)]
           /\ \A h \in 1 .. MinOf(Height[a], Height[b]) :
                 h > CommonHeight(a, b) => Anc[a][h] # Anc[b][h]
  <1>1. PICK S : S = {h \in 1 .. MinOf(Height[a], Height[b]) : Anc[a][h] = Anc[b][h]}
    OBVIOUS
  <1>2. CommonHeight(a, b) = IF S = {} THEN 0 ELSE CHOOSE h \in S : \A k \in S : k <= h
    BY <1>1 DEF CommonHeight
  <1>3. S # {}
    BY <1>2
  <1>4. Height[a] \in Nat /\ Height[b] \in Nat
    BY HeightAssumption
  <1>5. /\ MinOf(Height[a], Height[b]) \in Nat
        /\ MinOf(Height[a], Height[b]) <= Height[a]
        /\ MinOf(Height[a], Height[b]) <= Height[b]
    BY <1>4 DEF MinOf
  <1>6. S \subseteq 0 .. MinOf(Height[a], Height[b])
    BY <1>1, <1>5
  <1>7. \E h \in S : \A k \in S : k <= h
    BY <1>3, <1>5, <1>6, Highest
  <1>8. PICK c : c = CHOOSE h \in S : \A k \in S : k <= h
    OBVIOUS
  <1>9. c \in S /\ \A k \in S : k <= c
    BY <1>7, <1>8
  <1>10. c = CommonHeight(a, b)
    BY <1>2, <1>3, <1>8
  <1>11. /\ c \in 1 .. Height[a] /\ c \in 1 .. Height[b] /\ Anc[a][c] = Anc[b][c]
         /\ \A h \in 1 .. MinOf(Height[a], Height[b]) : h > c => Anc[a][h] # Anc[b][h]
    BY <1>1, <1>4, <1>5, <1>9
  <1> QED BY <1>10, <1>11

\* What align writes for a fork.
LEMMA SwitchFacts ==
    ASSUME NEW t \in Block, NEW b \in Block, CommonHeight(t, b) > 0
    PROVE  DropsPlan(SwitchChain(t, b), t, CommonHeight(t, b), b, CommonHeight(t, b))
  <1>1. PICK c : c = CommonHeight(t, b)
    OBVIOUS
  <1>2. c \in 1 .. Height[t] /\ c \in 1 .. Height[b] /\ Height[t] \in Nat /\ Height[b] \in Nat
    BY <1>1, CommonFacts, HeightAssumption DEF MaybeBlock
  <1>3. PICK d, e : d = Ascending(t, c + 1, TRUE) /\ e = Ascending(b, c + 1, FALSE)
    OBVIOUS
  <1>4. c \in 0 .. Height[t] /\ c \in 0 .. Height[b]
    BY <1>2
  <1>5. /\ d \in Seq(OuterNotice) /\ Len(d) = Height[t] - c
        /\ \A m \in 1 .. Height[t] - c : d[m] = [hash |-> Anc[t][c + m], isFork |-> TRUE]
    BY <1>3, <1>4, AscendingFacts
  <1>6. /\ e \in Seq(OuterNotice) /\ Len(e) = Height[b] - c
        /\ \A m \in 1 .. Height[b] - c : e[m] = [hash |-> Anc[b][c + m], isFork |-> FALSE]
    BY <1>3, <1>4, AscendingFacts
  <1>7. PICK s : s = d \o e
    OBVIOUS
  <1>8. /\ s \in Seq(OuterNotice) /\ Len(s) = Len(d) + Len(e)
        /\ \A m \in 1 .. Len(d) + Len(e) : s[m] = IF m <= Len(d) THEN d[m] ELSE e[m - Len(d)]
    BY <1>5, <1>6, <1>7, ConcatProperties
  <1>9. ASSUME NEW m \in 1 .. Len(s)
        PROVE  s[m] = IF m <= Height[t] - c THEN [hash |-> Anc[t][c + m], isFork |-> TRUE]
                      ELSE [hash |-> Anc[b][c + (m - (Height[t] - c))], isFork |-> FALSE]
    <2>1. CASE m <= Height[t] - c
      <3>1. m \in 1 .. Height[t] - c /\ m \in 1 .. Len(d) + Len(e) /\ m <= Len(d)
        BY <1>2, <1>5, <1>6, <1>8, <2>1
      <3> QED BY <1>5, <1>8, <2>1, <3>1
    <2>2. CASE ~(m <= Height[t] - c)
      <3>1. /\ m - (Height[t] - c) \in 1 .. Height[b] - c
            /\ m \in 1 .. Len(d) + Len(e) /\ ~(m <= Len(d))
        <4>1. PICK x \in Nat, y \in Nat : x = Height[t] - c /\ y = Height[b] - c
          BY <1>2
        <4>2. Len(d) = x /\ Len(e) = y /\ Len(s) = x + y /\ ~(m <= x)
          BY <1>5, <1>6, <1>8, <2>2, <4>1
        <4>3. m - x \in 1 .. y /\ m \in 1 .. x + y
          BY <4>2
        <4> QED BY <4>1, <4>2, <4>3
      <3>2. PICK k : k = m - (Height[t] - c)
        OBVIOUS
      <3>3. s[m] = e[k]
        BY <1>5, <1>8, <3>1, <3>2
      <3>4. e[k] = [hash |-> Anc[b][c + k], isFork |-> FALSE]
        BY <1>6, <3>1, <3>2
      <3> QED BY <2>2, <3>2, <3>3, <3>4
    <2> QED BY <2>1, <2>2
  <1>10. DropsPlan(s, t, c, b, c)
    BY <1>5, <1>6, <1>8, <1>9 DEF DropsPlan, Tip
  <1> QED BY <1>1, <1>3, <1>7, <1>10 DEF SwitchChain

\* Whatever the index holds, align plans a list of notices.
LEMMA PlanTyped ==
    ASSUME TypeOK, NEW p \in Proc, latest[p].hash \in Block, NEW tail \in MaybeBlock,
           CanAlign(p, tail)
    PROVE  AlignPlan(p, tail) \in Seq(OuterNotice)
  <1>1. PICK head : head = latest[p].hash
    OBVIOUS
  <1>2. /\ head \in Block /\ head \in MaybeBlock /\ Height[head] \in 1 .. MaxHeight
        /\ Height[tail] \in 0 .. MaxHeight /\ MaxHeight \in Nat /\ Height[NoBlock] = 0
    BY <1>1, HeightAssumption DEF MaybeBlock, Heights
  <1>3. CASE tail = head
    BY <1>1, <1>3, EmptySeq DEF AlignPlan
  <1>4. CASE tail # head /\ OnLocalChain(p, tail)
    <2>1. PICK s : s = FastForward(p, tail)
      OBVIOUS
    <2>2. PICK x \in Nat, y \in Nat : x = Height[head] /\ y = Height[tail]
      BY <1>2
    <2>3. s = [i \in 1 .. x - y |-> Tip(canon[p][y + i])]
      BY <1>1, <2>1, <2>2 DEF FastForward
    <2>4. ASSUME NEW i \in 1 .. x - y PROVE Tip(canon[p][y + i]) \in OuterNotice
      <3>1. y + i \in Heights
        BY <1>2, <2>2 DEF Heights
      <3>2. canon[p][y + i] \in MaybeBlock
        BY <3>1 DEF TypeOK
      <3> QED BY <3>2 DEF Tip, OuterNotice
    <2>5. PICK m \in Nat : 1 .. x - y = 1 .. m
      <3>1. CASE x >= y
        <4>1. x - y \in Nat
          BY <3>1
        <4> QED BY <4>1
      <3>2. CASE x < y
        <4>1. 1 .. x - y = 1 .. 0
          BY <3>2
        <4> QED BY <4>1
      <3> QED BY <3>1, <3>2
    <2>6. s \in [1 .. m -> OuterNotice]
      BY <2>3, <2>4, <2>5
    <2>7. s \in Seq(OuterNotice)
      BY <2>6, SeqDef
    <2> QED BY <1>1, <1>4, <2>1, <2>7 DEF AlignPlan
  <1>5. CASE tail # head /\ ~OnLocalChain(p, tail)
    <2>1. CommonHeight(tail, head) > 0
      BY <1>1, <1>5 DEF CanAlign, FindsAncestor
    <2>2. CommonHeight(tail, head) \in 1 .. Height[tail]
      BY <1>2, <2>1, CommonFacts
    <2>3. tail \in Block
      BY <1>2, <2>2 DEF MaybeBlock
    <2>4. SwitchChain(tail, head) \in Seq(OuterNotice)
      BY <1>2, <2>1, <2>3, SwitchFacts DEF DropsPlan
    <2> QED BY <1>1, <1>5, <2>4 DEF AlignPlan
  <1> QED BY <1>3, <1>4, <1>5

\* The message is handled: nothing to align, or aligned, or not this time.
LEMMA FlowHandled ==
    ASSUME TypeOK, FlowInv, NEW p \in Proc,
           AlignNotNeeded(p) \/ AlignEmpty(p) \/ AlignLater(p) \/ AlignDone(p)
    PROVE  TypeOK' /\ FlowInv'
  <1>1. /\ pc[p] \in {"align", "catchup"} /\ pc' = [pc EXCEPT ![p] = "idle"]
        /\ todo' = [todo EXCEPT ![p] = NoWork] /\ pub' = [pub EXCEPT ![p] = 1]
        /\ delivered' = [delivered EXCEPT ![p] = {}]
        /\ UNCHANGED <<single, version, inner, read, latest, canon, plan, overlap, torn,
                       replayed, budget, owner, leads>>
    BY DEF AlignNotNeeded, AlignEmpty, AlignLater, AlignDone, Aligning, Handled, Rest, Goto,
       histVars, logVars, termVars, BecomeAligned
  <1>2. aligned' \subseteq leads'
    BY <1>1 DEF AlignNotNeeded, AlignEmpty, AlignLater, AlignDone, termVars, BecomeAligned,
       TypeOK
  <1>3. cached' = cached \/ cached' = [cached EXCEPT ![p] = NoNotice]
    BY DEF AlignNotNeeded, AlignEmpty, AlignLater, AlignDone
  <1>4. NoNotice \in OuterNotice
    BY DEF NoNotice, OuterNotice, MaybeBlock
  <1>5. TypeOK'
    <2>1. cached' \in [Proc -> OuterNotice]
      BY <1>3, <1>4 DEF TypeOK
    <2>2. pc' \in [Proc -> {"idle", "process", "publish", "align", "catchup"}]
      BY <1>1 DEF TypeOK
    <2>3. /\ todo' \in [Proc -> Notice \cup {NoWork}] /\ pub' \in [Proc -> Nat \ {0}]
          /\ delivered' \in [Proc -> SUBSET ({"version", "singleton"} \X OuterNotice)]
      BY <1>1 DEF TypeOK
    <2> QED BY <1>1, <1>2, <2>1, <2>2, <2>3 DEF TypeOK
  <1>6. Flow(p)'
    <2>1. pc'[p] = "idle" /\ pub'[p] = 1 /\ delivered'[p] = {}
      BY <1>1 DEF TypeOK
    <2>2. cached'[p] # NoNotice => single' # <<>>
      BY <1>1, <1>3 DEF TypeOK, FlowInv, Flow
    <2> QED BY <1>1, <2>1, <2>2 DEF FlowInv, Flow
  <1>7. \A q \in Proc : q # p => Flow(q)'
    BY FlowOthers DEF Work, AlignOuterSingleton
  <1> QED BY <1>5, <1>6, <1>7 DEF FlowInv

\* The tail is fetched.
LEMMA FlowFetch ==
    ASSUME TypeOK, FlowInv, NEW p \in Proc, FetchSingletonTail(p)
    PROVE  TypeOK' /\ FlowInv'
  <1>1. /\ single # <<>> /\ cached' = [cached EXCEPT ![p] = SingletonTail]
        /\ UNCHANGED <<owner, leads, aligned, single, version, inner, read, latest, canon,
                       todo, pc, pub, delivered, plan, overlap, torn, replayed, budget>>
    BY DEF FetchSingletonTail, termVars, histVars, logVars
  <1>2. SingletonTail \in OuterNotice
    BY <1>1, TailIsLast DEF TypeOK
  <1>3. TypeOK'
    BY <1>1, <1>2 DEF TypeOK
  <1>4. Flow(p)'
    BY <1>1 DEF FlowInv, Flow
  <1>5. \A q \in Proc : q # p => Flow(q)'
    BY FlowOthers DEF Work, AlignOuterSingleton
  <1> QED BY <1>3, <1>4, <1>5 DEF FlowInv

\* Alignment fails, after a write that nobody answered or without one.
LEMMA FlowAlignFails ==
    ASSUME TypeOK, FlowInv, NEW p \in Proc, AlignFails(p)
    PROVE  TypeOK' /\ FlowInv'
  <1>1. /\ pc[p] \in {"align", "catchup"} /\ plan' = [plan EXCEPT ![p] = <<>>]
        /\ pc' = [pc EXCEPT ![p] = "process"] /\ pub' = [pub EXCEPT ![p] = 1]
        /\ UNCHANGED <<owner, leads, aligned, version, inner, read, latest, canon, todo,
                       delivered, cached, overlap, torn, replayed>>
    BY DEF AlignFails, Aligning, TryAgain, Goto, termVars, histVars, logVars
  <1>2. budget' \in [Kinds -> Nat]
    BY SpendTyped DEF AlignFails, TypeOK, Kinds
  <1>3. single' \in Seq(OuterNotice) /\ (single # <<>> => single' # <<>>)
    <2>1. CASE single' = single
      BY <2>1 DEF TypeOK
    <2>2. CASE UnansweredAlignWrite(p)
      <3>1. plan[p] # <<>> /\ single' = Append(single, Head(plan[p]))
        BY <2>2 DEF UnansweredAlignWrite
      <3>2. Head(plan[p]) \in OuterNotice /\ single \in Seq(OuterNotice)
        BY <3>1, HeadTailProperties DEF TypeOK
      <3> QED BY <3>1, <3>2, AppendProperties
    <2> QED BY <2>1, <2>2 DEF AlignFails
  <1>4. TypeOK'
    <2>1. pc' \in [Proc -> {"idle", "process", "publish", "align", "catchup"}]
      BY <1>1 DEF TypeOK
    <2>2. plan' \in [Proc -> Seq(OuterNotice)]
      BY <1>1, EmptySeq DEF TypeOK
    <2>3. pub' \in [Proc -> Nat \ {0}]
      BY <1>1 DEF TypeOK
    <2> QED BY <1>1, <1>2, <1>3, <2>1, <2>2, <2>3 DEF TypeOK
  <1>5. Flow(p)'
    <2>1. pc'[p] = "process" /\ pub'[p] = 1
      BY <1>1 DEF TypeOK
    <2> QED BY <1>1, <1>3, <2>1 DEF FlowInv, Flow
  <1>6. \A q \in Proc : q # p => Flow(q)'
    BY FlowOthers DEF Work
  <1> QED BY <1>4, <1>5, <1>6 DEF FlowInv

\* Alignment starts with what align is going to write.
LEMMA FlowStart ==
    ASSUME TypeOK, FlowInv, NEW p \in Proc, AlignStart(p)
    PROVE  TypeOK' /\ FlowInv'
  <1>1. PICK tail : tail = SingletonTail
    OBVIOUS
  <1>2. /\ pc[p] = "align" /\ p \in leads \ aligned /\ cached[p] # NoNotice
        /\ cached' = [cached EXCEPT ![p] = tail]
        /\ \/ /\ CanAlign(p, tail.hash)
              /\ plan' = [plan EXCEPT ![p] = AlignPlan(p, tail.hash)]
              /\ pc' = [pc EXCEPT ![p] = "catchup"] /\ pub' = pub
           \/ /\ plan' = plan
              /\ pc' = [pc EXCEPT ![p] = "process"] /\ pub' = [pub EXCEPT ![p] = 1]
        /\ UNCHANGED <<owner, leads, aligned, single, version, inner, read, latest, canon,
                       todo, delivered, overlap, replayed, budget>>
    BY <1>1 DEF AlignStart, Aligning, TryAgain, Goto, termVars, logVars
  <1>3. single # <<>> /\ latest[p].hash \in Block /\ Flow(p)
    BY <1>2 DEF FlowInv, Flow
  <1>4. tail \in OuterNotice /\ tail.hash \in MaybeBlock /\ tail.isFork \in BOOLEAN
    <2>1. SingletonTail \in OuterNotice
      BY <1>3, TailIsLast DEF TypeOK
    <2> QED BY <1>1, <2>1 DEF OuterNotice
  <1>5. torn' \in BOOLEAN
    <2>1. torn' = (torn \/ tail.isFork)
      BY <1>1 DEF AlignStart
    <2> QED BY <2>1, <1>4 DEF TypeOK
  <1>6. plan' \in [Proc -> Seq(OuterNotice)]
    <2>1. CASE CanAlign(p, tail.hash)
      <3>1. AlignPlan(p, tail.hash) \in Seq(OuterNotice)
        BY <1>3, <1>4, <2>1, PlanTyped
      <3> QED BY <1>2, <3>1 DEF TypeOK
    <2>2. CASE ~CanAlign(p, tail.hash)
      BY <1>2, <2>2 DEF TypeOK
    <2> QED BY <2>1, <2>2
  <1>7. TypeOK'
    <2>1. pc' \in [Proc -> {"idle", "process", "publish", "align", "catchup"}]
      BY <1>2 DEF TypeOK
    <2>2. cached' \in [Proc -> OuterNotice]
      BY <1>2, <1>4 DEF TypeOK
    <2>3. pub' \in [Proc -> Nat \ {0}]
      <3>1. pub' = pub \/ pub' = [pub EXCEPT ![p] = 1]
        BY <1>2
      <3> QED BY <3>1 DEF TypeOK
    <2> QED BY <1>2, <1>5, <1>6, <2>1, <2>2, <2>3 DEF TypeOK
  <1>8. Flow(p)'
    <2>1. pc'[p] = "catchup" \/ (pc'[p] = "process" /\ pub'[p] = 1)
      BY <1>2 DEF TypeOK
    <2> QED BY <1>2, <1>3, <2>1 DEF Flow
  <1>9. \A q \in Proc : q # p => Flow(q)'
    BY FlowOthers DEF Work, AlignOuterSingleton
  <1> QED BY <1>7, <1>8, <1>9 DEF FlowInv

\* align writes.
LEMMA FlowWrite ==
    ASSUME TypeOK, FlowInv, NEW p \in Proc, AlignWrite(p)
    PROVE  TypeOK' /\ FlowInv'
  <1>1. /\ plan[p] # <<>> /\ plan' = [plan EXCEPT ![p] = Tail(@)]
        /\ single' = Append(single, Head(plan[p]))
        /\ UNCHANGED <<owner, leads, aligned, version, inner, read, latest, canon, todo, pc,
                       pub, delivered, cached, overlap, torn, replayed, budget>>
    BY DEF AlignWrite, termVars, histVars, logVars
  <1>2. plan[p] \in Seq(OuterNotice) /\ single \in Seq(OuterNotice)
    BY DEF TypeOK
  <1>3. Head(plan[p]) \in OuterNotice /\ Tail(plan[p]) \in Seq(OuterNotice)
    BY <1>1, <1>2, HeadTailProperties
  <1>4. single' \in Seq(OuterNotice) /\ single' # <<>>
    BY <1>1, <1>2, <1>3, AppendProperties
  <1>5. TypeOK'
    BY <1>1, <1>3, <1>4 DEF TypeOK
  <1>6. Flow(p)'
    BY <1>1, <1>4 DEF FlowInv, Flow
  <1>7. \A q \in Proc : q # p => Flow(q)'
    BY FlowOthers DEF Work, AlignOuterSingleton
  <1> QED BY <1>5, <1>6, <1>7 DEF FlowInv

\* What is left of a block stream after a commit.
LEMMA RestOfStream ==
    ASSUME NEW s \in Seq(Notice), NEW k \in 1 .. Len(s)
    PROVE  /\ SubSeq(s, k + 1, Len(s)) \in Seq(Notice)
           /\ Len(SubSeq(s, k + 1, Len(s))) = Len(s) - k
           /\ \A i \in 1 .. Len(s) - k : SubSeq(s, k + 1, Len(s))[i] = s[k + i]
  <1>1. Len(s) \in Nat
    BY LenProperties
  <1>2. PICK n \in Nat : n = Len(s) - k
    BY <1>1
  <1>3. PICK t : t = SubSeq(s, k + 1, Len(s))
    OBVIOUS
  <1>4. t = [i \in 1 .. n |-> s[k + i]]
    <2>1. t = [i \in 1 .. (1 + Len(s) - (k + 1)) |-> s[k + 1 + i - 1]]
      BY <1>3 DEF SubSeq
    <2>2. 1 + Len(s) - (k + 1) = n /\ \A i \in 1 .. n : k + 1 + i - 1 = k + i
      BY <1>1, <1>2
    <2> QED BY <2>1, <2>2
  <1>5. \A i \in 1 .. n : s[k + i] \in Notice
    <2> SUFFICES ASSUME NEW i \in 1 .. n PROVE s[k + i] \in Notice
      OBVIOUS
    <2>1. k + i \in 1 .. Len(s)
      BY <1>1, <1>2
    <2> QED BY <2>1, ElementOfSeq
  <1>6. t \in [1 .. n -> Notice]
    BY <1>4, <1>5
  <1>7. t \in Seq(Notice)
    BY <1>6, SeqDef
  <1>8. DOMAIN t = 1 .. n /\ DOMAIN t = 1 .. Len(t) /\ Len(t) \in Nat
    BY <1>6, <1>7, LenProperties
  <1>9. Len(t) = n
    BY <1>8
  <1> QED BY <1>2, <1>4, <1>7, <1>9, <1>3
\* A commit leaves the message in hand.
LEMMA CommitKeeps ==
    ASSUME TypeOK, NEW p \in Proc, Flow(p), CommitMessages(p)
    PROVE  \E k \in 1 .. Len(inner[p]) :
              /\ k <= read[p] /\ read'[p] = read[p] - k
              /\ k = read[p] - (IF pc[p] = "idle" THEN 0 ELSE 1)
              /\ inner'[p] \in Seq(Notice) /\ Len(inner'[p]) = Len(inner[p]) - k
              /\ \A i \in 1 .. Len(inner[p]) - k : inner'[p][i] = inner[p][k + i]
  <1>1. /\ inner[p] \in Seq(Notice) /\ Len(inner[p]) \in Nat /\ read[p] \in Nat
        /\ read[p] <= Len(inner[p])
    BY LenProperties DEF TypeOK
  <1>2. PICK k : k = Stashed(p)
    OBVIOUS
  <1>3. /\ k > 0 /\ inner'[p] = SubSeq(inner[p], k + 1, Len(inner[p]))
        /\ read'[p] = read[p] - k
    BY <1>2 DEF CommitMessages, TypeOK
  <1>4. k = IF pc[p] = "idle" THEN read[p] ELSE read[p] - 1
    BY <1>2 DEF Stashed
  <1>5. /\ k \in 1 .. Len(inner[p]) /\ k <= read[p]
        /\ k = read[p] - (IF pc[p] = "idle" THEN 0 ELSE 1)
    BY <1>1, <1>3, <1>4
  <1> QED BY <1>1, <1>3, <1>5, RestOfStream

LEMMA FlowCommit ==
    ASSUME TypeOK, FlowInv, NEW p \in Proc, CommitMessages(p)
    PROVE  TypeOK' /\ FlowInv'
  <1>1. /\ UNCHANGED <<owner, leads, aligned, single, version, latest, canon, todo, pc, pub,
                       delivered, cached, plan, overlap, torn, replayed, budget>>
        /\ inner' = [inner EXCEPT ![p] = inner'[p]] /\ read' = [read EXCEPT ![p] = read'[p]]
    BY DEF CommitMessages, termVars, flowVars, histVars, TypeOK
  <1>2. Flow(p)
    BY DEF FlowInv
  <1>3. PICK k \in 1 .. Len(inner[p]) :
           /\ k <= read[p] /\ read'[p] = read[p] - k
           /\ k = read[p] - (IF pc[p] = "idle" THEN 0 ELSE 1)
           /\ inner'[p] \in Seq(Notice) /\ Len(inner'[p]) = Len(inner[p]) - k
           /\ \A i \in 1 .. Len(inner[p]) - k : inner'[p][i] = inner[p][k + i]
    BY <1>2, CommitKeeps
  <1>4. Len(inner[p]) \in Nat /\ read[p] \in Nat /\ read[p] <= Len(inner[p])
    BY LenProperties DEF TypeOK
  <1>5. /\ read'[p] \in Nat /\ read'[p] <= Len(inner'[p])
        /\ pc[p] # "idle" => read'[p] > 0
    BY <1>3, <1>4
  <1>6. ASSUME NEW i \in 1 .. Len(inner'[p])
        PROVE  WellFormed(inner'[p][i]) /\ inner'[p][i].old \in Block
    <2>1. k + i \in 1 .. Len(inner[p]) /\ i \in 1 .. Len(inner[p]) - k
      BY <1>3, <1>4
    <2> QED BY <1>2, <1>3, <2>1 DEF Flow
  <1>7. TypeOK'
    <2>1. inner' \in [Proc -> Seq(Notice)] /\ read' \in [Proc -> Nat]
      BY <1>1, <1>3, <1>5 DEF TypeOK
    <2>2. \A q \in Proc : read'[q] <= Len(inner'[q])
      BY <1>1, <1>5 DEF TypeOK
    <2> QED BY <1>1, <2>1, <2>2 DEF TypeOK
  <1>8. Flow(p)'
    BY <1>1, <1>2, <1>5, <1>6 DEF Flow
  <1>9. \A q \in Proc : q # p => Flow(q)'
    BY FlowOthers DEF Work
  <1> QED BY <1>7, <1>8, <1>9 DEF FlowInv

\* What a dying process leaves in the topics: nothing more, the item publishOuter is
\* at in some of its destinations, or an entry of the plan.
LEMMA CrashWrites ==
    ASSUME TypeOK, NEW p \in Proc, Flow(p), Crash(p)
    PROVE  \/ single' = single /\ version'[p] = version[p]
           \/ /\ pc[p] = "publish"
              /\ \E wrote \in SUBSET Due(p) :
                    /\ single' = IF "singleton" \in wrote THEN Append(single, Item(p)) ELSE single
                    /\ version'[p] = IF "version" \in wrote THEN Item(p) ELSE version[p]
           \/ /\ pc[p] = "catchup" /\ plan[p] # <<>> /\ version'[p] = version[p]
              /\ single' = Append(single, Head(plan[p]))
  <1>1. CASE UNCHANGED <<single, version>>
    BY <1>1
  <1>2. ASSUME pc[p] = "publish", NEW wrote \in SUBSET Due(p), Write(p, wrote)
        PROVE  /\ single' = IF "singleton" \in wrote THEN Append(single, Item(p)) ELSE single
               /\ version'[p] = IF "version" \in wrote THEN Item(p) ELSE version[p]
    BY <1>2 DEF Write, TypeOK
  <1>3. CASE UnansweredAlignWrite(p) /\ UNCHANGED version
    BY <1>3 DEF UnansweredAlignWrite
  <1> QED BY <1>1, <1>2, <1>3 DEF Crash, WritesUnderWay

LEMMA FlowCrash ==
    ASSUME TypeOK, FlowInv, NEW p \in Proc, Crash(p)
    PROVE  TypeOK' /\ FlowInv'
  <1>1. /\ latest' = [latest EXCEPT ![p] = version'[p]] /\ read' = [read EXCEPT ![p] = 0]
        /\ cached' = [cached EXCEPT ![p] = NoNotice] /\ plan' = [plan EXCEPT ![p] = <<>>]
        /\ pc' = [pc EXCEPT ![p] = "idle"] /\ todo' = [todo EXCEPT ![p] = NoWork]
        /\ pub' = [pub EXCEPT ![p] = 1] /\ delivered' = [delivered EXCEPT ![p] = {}]
        /\ UNCHANGED <<inner, canon, overlap, torn>>
    BY DEF Crash, Rest, Goto
  <1>2. Flow(p)
    BY DEF FlowInv
  <1>3. /\ single' \in Seq(OuterNotice)
        /\ version'[p] \in OuterNotice /\ version'[p].hash \in Block
    <2>1. /\ single \in Seq(OuterNotice)
          /\ version[p] \in OuterNotice /\ version[p].hash \in Block
      BY <1>2 DEF TypeOK, Flow
    <2>2. ASSUME pc[p] = "publish" PROVE Item(p) \in OuterNotice /\ Item(p).hash \in Block
      BY <1>2, <2>2, ItemTyped
    <2>3. ASSUME plan[p] # <<>> PROVE Head(plan[p]) \in OuterNotice
      BY <2>3, HeadTailProperties DEF TypeOK
    <2>4. \A o \in OuterNotice : Append(single, o) \in Seq(OuterNotice)
      BY <2>1, AppendProperties
    <2> QED BY <1>2, <2>1, <2>2, <2>3, <2>4, CrashWrites
  <1>4. version' = [version EXCEPT ![p] = version'[p]]
    BY DEF Crash, WritesUnderWay, Write, TypeOK
  <1>5. /\ owner' \in Proc \cup {NoProc} /\ aligned' \subseteq leads' /\ leads' \subseteq Proc
    BY DEF Crash, StepDown, termVars, TypeOK
  <1>6. budget' \in [Kinds -> Nat]
    BY SpendTyped DEF Crash, TypeOK, Kinds
  <1>7. replayed' \in BOOLEAN
    BY DEF Crash, TypeOK
  <1>8. TypeOK'
    <2>1. version' \in [Proc -> OuterNotice] /\ latest' \in [Proc -> OuterNotice]
      BY <1>1, <1>3, <1>4 DEF TypeOK
    <2>2. NoNotice \in OuterNotice /\ <<>> \in Seq(OuterNotice)
      BY EmptySeq DEF NoNotice, OuterNotice, MaybeBlock
    <2>3. cached' \in [Proc -> OuterNotice] /\ plan' \in [Proc -> Seq(OuterNotice)]
      BY <1>1, <2>2 DEF TypeOK
    <2>4. pc' \in [Proc -> {"idle", "process", "publish", "align", "catchup"}]
      BY <1>1 DEF TypeOK
    <2>5. /\ todo' \in [Proc -> Notice \cup {NoWork}] /\ pub' \in [Proc -> Nat \ {0}]
          /\ delivered' \in [Proc -> SUBSET ({"version", "singleton"} \X OuterNotice)]
      BY <1>1 DEF TypeOK
    <2>6. read' \in [Proc -> Nat] /\ \A q \in Proc : read'[q] <= Len(inner'[q])
      <3>1. Len(inner[p]) \in Nat
        BY LenProperties DEF TypeOK
      <3> QED BY <1>1, <3>1 DEF TypeOK
    <2> QED BY <1>1, <1>3, <1>5, <1>6, <1>7, <2>1, <2>3, <2>4, <2>5, <2>6 DEF TypeOK
  <1>9. Flow(p)'
    <2>1. /\ pc'[p] = "idle" /\ pub'[p] = 1 /\ delivered'[p] = {} /\ cached'[p] = NoNotice
          /\ latest'[p] = version'[p]
      BY <1>1 DEF TypeOK
    <2> QED BY <1>1, <1>2, <1>3, <2>1 DEF Flow
  <1>10. \A q \in Proc : q # p => Flow(q)'
    BY FlowOthers DEF Work
  <1> QED BY <1>8, <1>9, <1>10 DEF FlowInv

\* Every step is the beginning or the end of a term, work of a process, or nothing.
LEMMA StepKinds ==
    ASSUME [Next]_vars
    PROVE  \/ UNCHANGED vars
           \/ LeaseRunsOut
           \/ \E p \in Proc : ChangeToChainLeader(p) \/ RevokeChainLeader(p)
           \/ \E p \in Proc : Work(p)
  BY DEF Next, Step, Work, FetchTimeout, Reject

\* Types and places are kept by every step.
LEMMA FlowNext ==
    ASSUME TypeOK, FlowInv, [Next]_vars PROVE TypeOK' /\ FlowInv'
  <1>1. CASE UNCHANGED vars
    <2>1. TypeOK'
      BY <1>1 DEF TypeOK, vars, termVars, flowVars, histVars, logVars
    <2>2. FlowInv'
      BY <1>1 DEF FlowInv, Flow, vars, termVars, flowVars, logVars
    <2> QED BY <2>1, <2>2
  <1>2. ASSUME NEW p \in Proc, Work(p) PROVE TypeOK' /\ FlowInv'
    <2>1. CASE Receive(p) \/ Redeliver(p)
      BY <2>1, FlowReceive
    <2>2. CASE BeginProcessed(p) \/ BeginNew(p)
      BY <2>2, FlowBegin
    <2>3. CASE PublishOuter(p) \/ PublishFails(p)
      BY <2>3, FlowPublish
    <2>4. CASE AlignOuterSingleton(p)
      BY <2>4, FlowHandled, FlowFetch, FlowStart, FlowWrite DEF AlignOuterSingleton
    <2>5. CASE AlignFails(p)
      BY <2>5, FlowAlignFails
    <2>6. CASE CommitMessages(p)
      BY <2>6, FlowCommit
    <2>7. CASE Crash(p)
      BY <2>7, FlowCrash
    <2> QED BY <1>2, <2>1, <2>2, <2>3, <2>4, <2>5, <2>6, <2>7 DEF Work
  <1> QED BY <1>1, <1>2, StepKinds, FlowTerm

\* Every variable of the processes and of the topics holds a value of its kind, and only a
\* leader is aligned: for every tree, every number of versions, messages, terms, failures
\* and crashes, wherever these fall, with synchronous and with background commits.
THEOREM SingletonTypes == Spec => []TypeOK
  <1>1. Init => TypeOK /\ FlowInv
    BY FlowInit
  <1>2. TypeOK /\ FlowInv /\ [Next]_vars => (TypeOK /\ FlowInv)'
    BY FlowNext
  <1> QED BY <1>1, <1>2, PTL DEF Spec

-----------------------------------------------------------------------------
(***************************************************************************)
(* A process and its stream.                                               *)
(*                                                                         *)
(* As long as no crash brought back more than the last message, a process  *)
(* is at the head of its stream or at the last message of it, and the      *)
(* index and the version topic belong to that message.  This is what an    *)
(* alignment after a restart relies on: "already processed" then means     *)
(* that the version topic ends in the new tip and not in its drop.         *)
(***************************************************************************)
Took(p, i) == <<"version", OuterItem(todo[p], i)>> \in delivered[p]

\* The version topic takes the entries of a message from the first one on.
Sent(p) ==
    /\ \A i, j \in 1 .. OuterCount(todo[p]) : Took(p, i) /\ j <= i => Took(p, j)
    /\ pc[p] = "publish" => \A j \in 1 .. OuterCount(todo[p]) : j < pub[p] => Took(p, j)
    /\ Took(p, OuterCount(todo[p])) => version[p] = Tip(todo[p].tail)

\* The head before a message, and the entries published for it.
Words(n) == {Tip(n.old)} \cup {OuterItem(n, i) : i \in 1 .. OuterCount(n)}

InHand(p, n) ==
    /\ latest[p] \in Words(n) /\ version[p] \in Words(n)
    /\ \/ canon[p] = IndexOf(n.tail)
       \/ /\ canon[p] = IndexOf(n.old) /\ pc[p] \in {"idle", "process"}
          /\ latest[p] = Tip(n.old) /\ version[p] = Tip(n.old)
    /\ latest[p].hash = n.tail => version[p] = Tip(n.tail)
    /\ pc[p] = "publish" => latest[p].hash # n.tail

Last(p) == inner[p][Len(inner[p])]

Stream(p) ==
    /\ CaughtUp(p) => /\ latest[p] = Tip(latest[p].hash) /\ version[p] = latest[p]
                      /\ canon[p] = IndexOf(latest[p].hash)
                      /\ inner[p] # <<>> => Last(p).tail = latest[p].hash
    /\ read[p] = Len(inner[p]) \/ (pc[p] = "idle" /\ read[p] = 0 /\ Len(inner[p]) = 1)
    /\ ~CaughtUp(p) => InHand(p, Last(p))
    /\ pc[p] # "idle" => todo[p] = Last(p) /\ Sent(p)

StreamInv == ~replayed => \A p \in Proc : Stream(p)

\* WriteBlockInfos leaves the index of the new chain.
LEMMA IndexWritten ==
    ASSUME NEW n \in Notice, WellFormed(n)
    PROVE  Written(IndexOf(n.old), n) = IndexOf(n.tail)
  <1>1. /\ n.old \in MaybeBlock /\ n.tail \in Block /\ n.tail \in MaybeBlock
        /\ n.first \in Nat \ {0} /\ n.first <= Height[n.tail]
        /\ Height[n.tail] \in Nat /\ Height[n.old] \in Nat
        /\ Anc[n.old][n.first - 1] = Anc[n.tail][n.first - 1]
    BY Shape
  <1>2. Height[n.tail] \in 0 .. MaxHeight /\ MaxHeight \in Nat
    BY <1>1, HeightAssumption
  <1> SUFFICES ASSUME NEW h \in Heights
               PROVE  Written(IndexOf(n.old), n)[h] = Anc[n.tail][h]
    BY DEF Written, IndexOf
  <1>3. h \in 0 .. MaxHeight /\ h \in Nat /\ h >= 1
    BY <1>2 DEF Heights
  <1>4. CASE h \in n.first .. Height[n.tail]
    <2>1. PICK t, f, old : t = n.tail /\ f = n.first /\ old = n.old
      OBVIOUS
    <2>2. /\ h \in f .. Height[t] /\ Height[t] \in Nat /\ f \in Nat
          /\ ~(h > Height[t])
      BY <1>1, <1>3, <1>4, <2>1
    <2>3. Written(IndexOf(old), n)[h] = Anc[t][h]
      BY <1>4, <2>1, <2>2 DEF Written
    <2> QED BY <2>1, <2>3
  <1>5. CASE h > Height[n.tail]
    <2>1. Anc[n.tail][h] = NoBlock
      <3>1. Anc[n.tail][h] # NoBlock <=> h \in 1 .. Height[n.tail]
        BY <1>1, <1>3, AncAssumption
      <3> QED BY <1>1, <1>5, <3>1
    <2>2. h \notin n.first .. Height[n.tail]
      BY <1>1, <1>5
    <2> QED BY <1>5, <2>1, <2>2 DEF Written
  <1>6. CASE h < n.first
    <2>1. h \notin n.first .. Height[n.tail] /\ ~(h > Height[n.tail])
      BY <1>1, <1>3, <1>6
    <2>2. Written(IndexOf(n.old), n)[h] = Anc[n.old][h]
      BY <2>1 DEF Written, IndexOf
    <2>3. n.first - 1 \in 1 .. Height[n.tail] /\ h \in 0 .. n.first - 1
          /\ n.first - 1 \in 0 .. MaxHeight
      BY <1>1, <1>2, <1>3, <1>6
    <2>4. Anc[n.tail][n.first - 1] # NoBlock
      BY <1>1, <2>3, AncAssumption
    <2>5. n.first - 1 \in 1 .. Height[n.old]
      BY <1>1, <2>3, <2>4, AncAssumption
    <2>6. Anc[Anc[n.tail][n.first - 1]][h] = Anc[n.tail][h]
      BY <1>1, <2>3, Ancestors
    <2>7. Anc[Anc[n.old][n.first - 1]][h] = Anc[n.old][h]
      BY <1>1, <2>3, <2>5, Ancestors
    <2> QED BY <1>1, <2>2, <2>6, <2>7
  <1> QED BY <1>1, <1>3, <1>4, <1>5, <1>6

\* It does so as well when the message is processed again.
LEMMA IndexRewritten ==
    ASSUME NEW n \in Notice, WellFormed(n)
    PROVE  Written(IndexOf(n.tail), n) = IndexOf(n.tail)
  <1>1. /\ n.tail \in MaybeBlock /\ Height[n.tail] \in Nat /\ MaxHeight \in Nat
    BY Shape, HeightAssumption
  <1> SUFFICES ASSUME NEW h \in Heights
               PROVE  Written(IndexOf(n.tail), n)[h] = Anc[n.tail][h]
    BY DEF Written, IndexOf
  <1>2. h \in 0 .. MaxHeight /\ h \in Nat
    BY <1>1 DEF Heights
  <1>3. h > Height[n.tail] => Anc[n.tail][h] = NoBlock
    <2>1. Anc[n.tail][h] # NoBlock <=> h \in 1 .. Height[n.tail]
      BY <1>1, <1>2, AncAssumption
    <2> QED BY <1>1, <1>2, <2>1
  <1>4. Written(IndexOf(n.tail), n)[h] \in {Anc[n.tail][h], IndexOf(n.tail)[h]}
    <2>1. CASE h > Height[n.tail]
      <3>1. h \notin n.first .. Height[n.tail]
        BY <1>1, <1>2, <2>1
      <3> QED BY <1>3, <2>1, <3>1 DEF Written
    <2>2. CASE ~(h > Height[n.tail])
      BY <2>2 DEF Written
    <2> QED BY <2>1, <2>2
  <1> QED BY <1>4 DEF IndexOf

\* Of the words of a message only the last one is about its tail.
LEMMA WordFacts ==
    ASSUME NEW n \in Notice, WellFormed(n)
    PROVE  /\ n.old # n.tail /\ Tip(n.old) \in Words(n) /\ Tip(n.tail) \in Words(n)
           /\ \A i \in 1 .. OuterCount(n) : OuterItem(n, i) \in Words(n)
           /\ \A o \in Words(n) : o.hash = n.tail => o = Tip(n.tail)
  <1>1. n.old # n.tail /\ OuterCount(n) \in Nat \ {0}
    BY Shape
  <1>2. OuterItem(n, OuterCount(n)) = Tip(n.tail)
    BY ItemsFollow DEF Tip
  <1>3. \A i \in 1 .. OuterCount(n) : OuterItem(n, i).hash = n.tail => i = OuterCount(n)
    BY ItemsDiffer
  <1>4. Tip(n.old).hash = n.old
    BY DEF Tip
  <1>5. \A i \in 1 .. OuterCount(n) : OuterItem(n, i) \in Words(n)
    BY DEF Words
  <1>6. OuterCount(n) \in 1 .. OuterCount(n)
    BY <1>1
  <1>7. Tip(n.tail) \in Words(n)
    BY <1>2, <1>5, <1>6
  <1>8. \A o \in Words(n) : o.hash = n.tail => o = Tip(n.tail)
    BY <1>1, <1>2, <1>3, <1>4 DEF Words
  <1> QED BY <1>1, <1>5, <1>7, <1>8 DEF Words

\* What a stream looks like depends on the process alone.
LEMMA StreamKept ==
    ASSUME NEW q, Stream(q),
           pc'[q] = pc[q], pub'[q] = pub[q], delivered'[q] = delivered[q],
           canon'[q] = canon[q], latest'[q] = latest[q], todo'[q] = todo[q],
           version'[q] = version[q], inner'[q] = inner[q], read'[q] = read[q]
    PROVE  Stream(q)'
  <1>1. CaughtUp(q)' <=> CaughtUp(q)
    BY DEF CaughtUp
  <1>2. Last(q)' = Last(q)
    BY DEF Last
  <1>3. PICK n, m : n = Last(q) /\ m = todo[q]
    OBVIOUS
  <1>4. InHand(q, n) => InHand(q, n)'
    BY DEF InHand
  <1>5. Sent(q) => Sent(q)'
    BY DEF Sent, Took
  <1> QED BY <1>1, <1>2, <1>3, <1>4, <1>5 DEF Stream

\* A message of which nothing is published yet.
LEMMA StreamReceive ==
    ASSUME TypeOK, NEW p \in Proc, Flow(p), Stream(p), Receive(p) \/ Redeliver(p)
    PROVE  Stream(p)'
  <1>1. /\ pc[p] = "idle" /\ pc'[p] = "process" /\ delivered'[p] = {}
        /\ latest'[p] = latest[p] /\ version'[p] = version[p] /\ canon'[p] = canon[p]
        /\ read'[p] = read[p] + 1
    BY DEF Receive, Redeliver, Goto, Flow, TypeOK
  <1>2. /\ inner[p] \in Seq(Notice) /\ Len(inner[p]) \in Nat /\ latest[p].hash \in Block
        /\ \A i \in 1 .. Len(inner[p]) : WellFormed(inner[p][i])
    BY LenProperties DEF TypeOK, Flow
  <1>3. ASSUME NEW n, todo'[p] = n, Last(p)' = n, InHand(p, n)', read'[p] = Len(inner'[p])
        PROVE  Stream(p)'
    <2>1. \A i : ~Took(p, i)'
      BY <1>1 DEF Took
    <2>2. Sent(p)'
      BY <1>1, <2>1 DEF Sent
    <2>3. ~CaughtUp(p)'
      BY <1>1 DEF CaughtUp
    <2> QED BY <1>1, <1>3, <2>2, <2>3 DEF Stream
  <1>4. CASE Receive(p)
    <2>1. PICK t \in Stored[p], f \in Heights :
             /\ WellFormed([old |-> latest[p].hash, tail |-> t, first |-> f])
             /\ inner' = [inner EXCEPT ![p] =
                            Append(@, [old |-> latest[p].hash, tail |-> t, first |-> f])]
             /\ todo' = [todo EXCEPT ![p] =
                            [old |-> latest[p].hash, tail |-> t, first |-> f]]
      BY <1>4 DEF Receive
    <2>2. PICK n : n = [old |-> latest[p].hash, tail |-> t, first |-> f]
      OBVIOUS
    <2>3. t \in Block
      BY SingletonAssumption
    <2>4. n \in Notice /\ WellFormed(n) /\ n.old = latest[p].hash
      BY <1>2, <2>1, <2>2, <2>3 DEF Notice, MaybeBlock
    <2>5. inner'[p] = Append(inner[p], n) /\ todo'[p] = n
      BY <2>1, <2>2 DEF TypeOK
    <2>6. Len(inner'[p]) = Len(inner[p]) + 1 /\ inner'[p][Len(inner[p]) + 1] = n
      BY <1>2, <2>4, <2>5, AppendProperties
    <2>7. read[p] = Len(inner[p])
      BY <1>4 DEF Receive
    <2>8. /\ latest[p] = Tip(n.old) /\ version[p] = Tip(n.old) /\ canon[p] = IndexOf(n.old)
      BY <1>1, <2>4, <2>7 DEF Stream, CaughtUp
    <2>9. n.old # n.tail /\ Tip(n.old) \in Words(n) /\ Tip(n.old).hash = n.old
      BY <2>4, WordFacts DEF Tip
    <2>10. InHand(p, n)'
      BY <1>1, <2>8, <2>9 DEF InHand
    <2>11. Last(p)' = n /\ read'[p] = Len(inner'[p])
      BY <1>1, <2>6, <2>7 DEF Last
    <2> QED BY <1>3, <2>5, <2>10, <2>11
  <1>5. CASE Redeliver(p)
    <2>1. /\ read[p] < Len(inner[p]) /\ inner'[p] = inner[p]
          /\ todo'[p] = inner[p][read[p] + 1]
      BY <1>5 DEF Redeliver, TypeOK
    <2>2. read[p] = 0 /\ Len(inner[p]) = 1 /\ ~CaughtUp(p)
      BY <1>2, <2>1 DEF Stream, CaughtUp, TypeOK
    <2>3. PICK n : n = inner[p][1]
      OBVIOUS
    <2>4. Last(p) = n /\ Last(p)' = n /\ todo'[p] = n /\ read'[p] = Len(inner'[p])
      BY <1>1, <2>1, <2>2, <2>3 DEF Last
    <2>5. InHand(p, n)
      BY <2>2, <2>4 DEF Stream
    <2>6. InHand(p, n)'
      BY <1>1, <2>5 DEF InHand
    <2> QED BY <1>3, <2>4, <2>6
  <1> QED BY <1>4, <1>5

\* The index is written, for the first time or again.
LEMMA StreamBegin ==
    ASSUME TypeOK, NEW p \in Proc, Flow(p), Stream(p), BeginProcessed(p) \/ BeginNew(p)
    PROVE  Stream(p)'
  <1>1. PICK n : n = todo[p]
    OBVIOUS
  <1>2. /\ pc[p] = "process" /\ pub[p] = 1 /\ pc'[p] \in {"align", "publish"}
        /\ UNCHANGED <<version, inner, read, latest, todo, pub, delivered>>
    BY DEF BeginProcessed, BeginNew, logVars, Flow, Goto, TypeOK
  <1>3. /\ n \in Notice /\ WellFormed(n) /\ ~CaughtUp(p) /\ Last(p) = n /\ InHand(p, n)
        /\ Sent(p) /\ read[p] = Len(inner[p])
    BY <1>1, <1>2 DEF Flow, Stream, CaughtUp
  <1>4. ~CaughtUp(p)' /\ Last(p)' = n /\ todo'[p] = n
    BY <1>1, <1>2, <1>3 DEF CaughtUp, Last
  <1>5. Sent(p)'
    <2>1. \A j \in 1 .. OuterCount(n) : ~(j < pub'[p])
      BY <1>2
    <2> QED BY <1>1, <1>2, <1>3, <2>1 DEF Sent, Took
  <1>6. InHand(p, n)'
    <2>1. CASE BeginProcessed(p)
      <3>1. /\ latest[p].hash = n.tail /\ canon'[p] = canon[p] /\ pc'[p] = "align"
        BY <1>1, <2>1 DEF BeginProcessed, IsAlreadyProcessed, Goto, TypeOK
      <3>2. n.old # n.tail /\ Tip(n.old).hash = n.old
        BY <1>3, WordFacts DEF Tip
      <3> QED BY <1>2, <1>3, <3>1, <3>2 DEF InHand
    <2>2. CASE BeginNew(p)
      <3>1. /\ latest[p].hash # n.tail /\ canon'[p] = Written(canon[p], n)
            /\ pc'[p] = "publish"
        BY <1>1, <2>2 DEF BeginNew, IsAlreadyProcessed, Goto, TypeOK
      <3>2. canon[p] = IndexOf(n.tail) \/ canon[p] = IndexOf(n.old)
        BY <1>3 DEF InHand
      <3>3. canon'[p] = IndexOf(n.tail)
        BY <1>3, <3>1, <3>2, IndexWritten, IndexRewritten
      <3> QED BY <1>2, <1>3, <3>1, <3>3 DEF InHand
    <2> QED BY <2>1, <2>2
  <1> QED BY <1>2, <1>3, <1>4, <1>5, <1>6 DEF Stream
\* publishOuter goes from one entry to the next, whichever destinations fail.
LEMMA StreamPublish ==
    ASSUME TypeOK, NEW p \in Proc, Flow(p), Stream(p), PublishOuter(p) \/ PublishFails(p)
    PROVE  Stream(p)'
  <1>1. pc[p] = "publish" /\ UNCHANGED <<inner, read, canon, todo>>
    BY DEF PublishOuter, PublishFails
  <1>2. PICK o, n, i : o = Item(p) /\ n = todo[p] /\ i = pub[p]
    OBVIOUS
  <1>3. /\ o = OuterItem(n, i)
        /\ o.hash = n.tail <=> i = OuterCount(n)
        /\ i = OuterCount(n) => o = Tip(n.tail)
        /\ i \in 1 .. OuterCount(n) /\ OuterCount(n) \in Nat \ {0}
        /\ n \in Notice /\ WellFormed(n)
    BY <1>1, <1>2, ItemTyped DEF Item
  <1>4. PICK wrote \in SUBSET {"version", "singleton"} : \E ok \in SUBSET wrote :
           /\ wrote \subseteq Due(p)
           /\ PublishOuter(p) => wrote = Due(p) /\ ok = Due(p)
           /\ version'[p] = IF "version" \in wrote THEN o ELSE version[p]
           /\ delivered'[p] = delivered[p] \cup (ok \X {o})
    BY <1>2, PublishWrites
  <1>5. PICK ok \in SUBSET wrote :
           /\ wrote \subseteq Due(p)
           /\ PublishOuter(p) => wrote = Due(p) /\ ok = Due(p)
           /\ version'[p] = IF "version" \in wrote THEN o ELSE version[p]
           /\ delivered'[p] = delivered[p] \cup (ok \X {o})
    BY <1>4
  <1>6. /\ ~CaughtUp(p) /\ Last(p) = n /\ InHand(p, n) /\ read[p] = Len(inner[p])
        /\ Sent(p) /\ latest[p].hash # n.tail /\ canon[p] = IndexOf(n.tail)
    BY <1>1, <1>2 DEF Stream, CaughtUp, InHand
  <1>7. /\ \A a, b \in 1 .. OuterCount(n) : Took(p, a) /\ b <= a => Took(p, b)
        /\ \A b \in 1 .. OuterCount(n) : b < i => Took(p, b)
        /\ Took(p, OuterCount(n)) => version[p] = Tip(n.tail)
    BY <1>1, <1>2, <1>6 DEF Sent
  <1>8. "version" \in Due(p) <=> ~Took(p, i)
    BY <1>2, <1>3 DEF Due, Targets, Took
  <1>9. ASSUME NEW m \in 1 .. OuterCount(n)
        PROVE  Took(p, m)' <=> Took(p, m) \/ ("version" \in ok /\ m = i)
    <2>1. OuterItem(n, i) = OuterItem(n, m) <=> i = m
      BY <1>3, ItemsDiffer
    <2>2. <<"version", OuterItem(n, m)>> \in ok \X {o}
             <=> "version" \in ok /\ OuterItem(n, m) = OuterItem(n, i)
      BY <1>3
    <2>3. Took(p, m)' <=> <<"version", OuterItem(n, m)>> \in delivered'[p]
      BY <1>1, <1>2 DEF Took
    <2>4. Took(p, m) <=> <<"version", OuterItem(n, m)>> \in delivered[p]
      BY <1>2 DEF Took
    <2> QED BY <1>5, <2>1, <2>2, <2>3, <2>4
  <1>10. \/ /\ PublishOuter(p) /\ i = OuterCount(n) /\ pc'[p] = "align" /\ latest'[p] = o
         \/ /\ PublishOuter(p) /\ i # OuterCount(n) /\ pc'[p] = "publish" /\ pub'[p] = i + 1
            /\ latest'[p] \in {latest[p], o}
         \/ pc'[p] = "process" /\ latest'[p] = latest[p]
    <2>1. CASE PublishOuter(p)
      <3>1. /\ latest'[p] = IF o.isFork THEN latest[p] ELSE o
            /\ pub'[p] = i + 1
            /\ pc'[p] = IF i = OuterCount(n) THEN "align" ELSE "publish"
        BY <1>2, <2>1 DEF PublishOuter, Goto, TypeOK
      <3>2. i = OuterCount(n) => ~o.isFork
        BY <1>3 DEF Tip
      <3> QED BY <2>1, <3>1, <3>2
    <2>2. CASE PublishFails(p)
      BY <2>2 DEF PublishFails, TryAgain, Goto, TypeOK
    <2> QED BY <2>1, <2>2
  <1>11. o \in Words(n) /\ Tip(n.tail).hash = n.tail
    BY <1>3, WordFacts DEF Tip
  <1>12. ~CaughtUp(p)' /\ Last(p)' = n /\ todo'[p] = n /\ read'[p] = Len(inner'[p])
    BY <1>1, <1>2, <1>6, <1>10 DEF CaughtUp, Last
  <1>13. version'[p] \in Words(n) /\ latest'[p] \in Words(n)
    BY <1>5, <1>6, <1>10, <1>11 DEF InHand
  <1>14. Took(p, OuterCount(n))' => version'[p] = Tip(n.tail)
    <2>1. OuterCount(n) \in 1 .. OuterCount(n) /\ i <= OuterCount(n)
      BY <1>3
    <2>2. CASE Took(p, OuterCount(n))
      <3>1. Took(p, i)
        BY <1>3, <1>7, <2>1, <2>2
      <3>2. "version" \notin wrote
        BY <1>5, <1>8, <3>1
      <3> QED BY <1>5, <1>7, <2>2, <3>2
    <2>3. CASE ~Took(p, OuterCount(n))
      BY <1>3, <1>5, <1>9, <2>1, <2>3
    <2> QED BY <2>2, <2>3
  <1>15. Sent(p)'
    <2>1. ASSUME NEW a \in 1 .. OuterCount(n), NEW b \in 1 .. OuterCount(n),
                 Took(p, a)', b <= a
          PROVE  Took(p, b)'
      <3>1. CASE Took(p, a)
        BY <1>7, <1>9, <2>1, <3>1
      <3>2. CASE ~Took(p, a)
        <4>1. "version" \in ok /\ a = i /\ (b < i \/ b = i)
          BY <1>9, <2>1, <3>2
        <4> QED BY <1>7, <1>9, <4>1
      <3> QED BY <3>1, <3>2
    <2>2. ASSUME pc'[p] = "publish", NEW b \in 1 .. OuterCount(n), b < pub'[p]
          PROVE  Took(p, b)'
      <3>1. PublishOuter(p) /\ (b < i \/ b = i)
        BY <1>3, <1>10, <2>2
      <3>2. b = i /\ ~Took(p, i) => "version" \in ok
        BY <1>5, <1>8, <3>1
      <3> QED BY <1>7, <1>9, <3>1, <3>2
    <2> QED BY <1>12, <1>14, <2>1, <2>2 DEF Sent
  <1>16. InHand(p, n)'
    <2>1. canon'[p] = IndexOf(n.tail)
      BY <1>1, <1>6
    <2>2. latest'[p].hash = n.tail => version'[p] = Tip(n.tail)
      <3>1. CASE i = OuterCount(n) /\ PublishOuter(p)
        <4>1. "version" \in wrote \/ Took(p, i)
          BY <1>5, <1>8, <3>1
        <4>2. Took(p, i) => "version" \notin wrote
          BY <1>5, <1>8
        <4> QED BY <1>3, <1>5, <1>7, <3>1, <4>1, <4>2
      <3>2. CASE ~(i = OuterCount(n) /\ PublishOuter(p))
        BY <1>3, <1>6, <1>10, <3>2
      <3> QED BY <3>1, <3>2
    <2>3. pc'[p] = "publish" => latest'[p].hash # n.tail
      BY <1>3, <1>6, <1>10
    <2> QED BY <1>13, <2>1, <2>2, <2>3 DEF InHand
  <1> QED BY <1>10, <1>12, <1>15, <1>16 DEF Stream

\* A message whose tip is the latest block is published to the end.
LEMMA TipReached ==
    ASSUME NEW p \in Proc, Flow(p), Stream(p), pc[p] \in {"align", "catchup"}
    PROVE  /\ latest[p] = Tip(latest[p].hash) /\ version[p] = latest[p]
           /\ canon[p] = IndexOf(latest[p].hash) /\ Last(p).tail = latest[p].hash
           /\ todo[p] = Last(p) /\ read[p] = Len(inner[p])
  <1>1. PICK n : n = todo[p]
    OBVIOUS
  <1>2. /\ n \in Notice /\ WellFormed(n) /\ latest[p].hash = n.tail
        /\ Last(p) = n /\ InHand(p, n) /\ read[p] = Len(inner[p])
    BY <1>1 DEF Flow, Stream, CaughtUp
  <1>3. latest[p] = Tip(n.tail)
    BY <1>2, WordFacts DEF InHand
  <1> QED BY <1>1, <1>2, <1>3 DEF InHand

\* The message is handled.
LEMMA StreamHandled ==
    ASSUME TypeOK, NEW p \in Proc, Flow(p), Stream(p),
           AlignNotNeeded(p) \/ AlignEmpty(p) \/ AlignLater(p) \/ AlignDone(p)
    PROVE  Stream(p)' /\ CaughtUp(p)'
  <1>1. /\ pc[p] \in {"align", "catchup"} /\ pc'[p] = "idle"
        /\ UNCHANGED <<version, inner, read, latest, canon>>
    BY DEF AlignNotNeeded, AlignEmpty, AlignLater, AlignDone, Aligning, Handled, Rest, Goto,
       logVars, TypeOK
  <1>2. /\ latest[p] = Tip(latest[p].hash) /\ version[p] = latest[p]
        /\ canon[p] = IndexOf(latest[p].hash) /\ Last(p).tail = latest[p].hash
        /\ read[p] = Len(inner[p])
    BY <1>1, TipReached
  <1>3. CaughtUp(p)' /\ Last(p)' = Last(p)
    BY <1>1, <1>2 DEF CaughtUp, Last
  <1> QED BY <1>1, <1>2, <1>3 DEF Stream, CaughtUp

\* An alignment goes on or has to be tried again.
LEMMA StreamAlign ==
    ASSUME NEW p \in Proc, Flow(p), Stream(p),
           pc[p] \in {"align", "catchup"}, pc'[p] \in {"process", "align", "catchup"},
           UNCHANGED <<version, inner, read, latest, canon, todo, delivered>>
    PROVE  Stream(p)'
  <1>1. PICK n : n = Last(p)
    OBVIOUS
  <1>2. /\ ~CaughtUp(p) /\ todo[p] = n /\ InHand(p, n) /\ Sent(p) /\ read[p] = Len(inner[p])
    BY <1>1 DEF Stream, CaughtUp
  <1>3. ~CaughtUp(p)' /\ Last(p)' = n /\ todo'[p] = n
    BY <1>1, <1>2 DEF CaughtUp, Last
  <1>4. InHand(p, n)'
    BY <1>2 DEF InHand
  <1>5. Sent(p)'
    BY <1>2 DEF Sent, Took
  <1> QED BY <1>2, <1>3, <1>4, <1>5 DEF Stream

\* A commit takes nothing that is not handled.
LEMMA StreamCommit ==
    ASSUME TypeOK, NEW p \in Proc, Flow(p), Stream(p), CommitMessages(p)
    PROVE  Stream(p)'
  <1>1. UNCHANGED <<version, latest, canon, todo, pc, pub, delivered>>
    BY DEF CommitMessages, flowVars
  <1>2. PICK k \in 1 .. Len(inner[p]) :
           /\ k <= read[p] /\ read'[p] = read[p] - k
           /\ k = read[p] - (IF pc[p] = "idle" THEN 0 ELSE 1)
           /\ inner'[p] \in Seq(Notice) /\ Len(inner'[p]) = Len(inner[p]) - k
           /\ \A i \in 1 .. Len(inner[p]) - k : inner'[p][i] = inner[p][k + i]
    BY CommitKeeps
  <1>3. Len(inner[p]) \in Nat /\ read[p] \in Nat /\ read[p] = Len(inner[p])
    BY <1>2, LenProperties DEF TypeOK, Stream
  <1>4. CASE pc[p] = "idle"
    <2>1. CaughtUp(p) /\ CaughtUp(p)' /\ read'[p] = Len(inner'[p]) /\ Len(inner'[p]) = 0
      BY <1>1, <1>2, <1>3, <1>4 DEF CaughtUp
    <2>2. inner'[p] = <<>>
      BY <1>2, <2>1, EmptySeq
    <2> QED BY <1>1, <1>4, <2>1, <2>2 DEF Stream
  <1>5. CASE pc[p] # "idle"
    <2>1. PICK n : n = Last(p)
      OBVIOUS
    <2>2. k = Len(inner[p]) - 1 /\ Len(inner'[p]) = 1 /\ read'[p] = 1
      BY <1>2, <1>3, <1>5
    <2>3. inner'[p][1] = n
      <3>1. 1 \in 1 .. Len(inner[p]) - k /\ k + 1 = Len(inner[p])
        BY <1>3, <2>2
      <3> QED BY <1>2, <2>1, <3>1 DEF Last
    <2>4. Last(p)' = n
      BY <2>2, <2>3 DEF Last
    <2>5. ~CaughtUp(p) /\ ~CaughtUp(p)' /\ InHand(p, n) /\ todo[p] = n /\ Sent(p)
      BY <1>1, <1>5, <2>1 DEF CaughtUp, Stream
    <2>6. InHand(p, n)'
      BY <1>1, <2>5 DEF InHand
    <2>7. Sent(p)'
      BY <1>1, <2>5 DEF Sent, Took
    <2> QED BY <1>1, <2>2, <2>4, <2>5, <2>6, <2>7 DEF Stream
  <1> QED BY <1>4, <1>5

\* A process that dies with at most one message uncommitted gets that one again.
LEMMA StreamCrash ==
    ASSUME TypeOK, NEW p \in Proc, Flow(p), Stream(p), Crash(p), ~replayed'
    PROVE  Stream(p)'
  <1>1. /\ latest'[p] = version'[p] /\ read'[p] = 0 /\ pc'[p] = "idle"
        /\ inner' = inner /\ canon' = canon
    BY DEF Crash, Rest, Goto, TypeOK
  <1>2. inner[p] \in Seq(Notice) /\ Len(inner[p]) \in Nat /\ read[p] \in Nat
    BY LenProperties DEF TypeOK
  <1>3. Len(inner[p]) = 0 \/ Len(inner[p]) = 1
    <2>1. PICK len \in Nat : len = Len(inner[p])
      BY <1>2
    <2>2. replayed' = (replayed \/ len > 1)
      BY <2>1 DEF Crash
    <2>3. ~(len > 1)
      BY <2>2
    <2>4. len = 0 \/ len = 1
      BY <2>3
    <2> QED BY <2>1, <2>4
  <1>4. pc[p] # "publish" => version'[p] = version[p]
    BY CrashWrites
  <1>5. CASE Len(inner[p]) = 0
    <2>1. read[p] = 0 /\ pc[p] = "idle" /\ CaughtUp(p)
      BY <1>2, <1>5 DEF TypeOK, Flow, CaughtUp
    <2>2. inner[p] = <<>>
      BY <1>2, <1>5, EmptySeq
    <2>3. version'[p] = version[p] /\ latest'[p] = latest[p]
      BY <1>1, <1>4, <2>1 DEF Stream
    <2>4. CaughtUp(p)' /\ inner'[p] = <<>>
      BY <1>1, <1>5, <2>2 DEF CaughtUp
    <2> QED BY <1>1, <1>5, <2>1, <2>3, <2>4 DEF Stream, CaughtUp
  <1>6. CASE Len(inner[p]) = 1
    <2>1. PICK n : n = Last(p)
      OBVIOUS
    <2>2. n \in Notice /\ WellFormed(n)
      BY <1>2, <1>6, <2>1, ElementOfSeq DEF Last, Flow
    <2>3. ~CaughtUp(p)' /\ Last(p)' = n
      BY <1>1, <1>6, <2>1 DEF CaughtUp, Last
    <2>4. /\ Tip(n.tail) \in Words(n)
          /\ \A i \in 1 .. OuterCount(n) : OuterItem(n, i) \in Words(n)
          /\ \A o \in Words(n) : o.hash = n.tail => o = Tip(n.tail)
      BY <2>2, WordFacts
    <2>5. version'[p] \in Words(n)
      <3>1. CASE CaughtUp(p)
        <4>1. inner[p] # <<>>
          BY <1>6
        <4>2. version[p] = Tip(n.tail) /\ pc[p] = "idle"
          BY <2>1, <3>1, <4>1 DEF Stream, CaughtUp
        <4> QED BY <1>4, <2>4, <4>2
      <3>2. CASE ~CaughtUp(p)
        <4>1. version[p] \in Words(n)
          BY <2>1, <3>2 DEF Stream, InHand
        <4>2. pc[p] = "publish" => Item(p) \in Words(n)
          BY <2>1, <2>4 DEF Stream, Item, Flow
        <4> QED BY <1>4, <4>1, <4>2, CrashWrites
      <3> QED BY <3>1, <3>2
    <2>6. \/ canon'[p] = IndexOf(n.tail)
          \/ canon'[p] = IndexOf(n.old) /\ version'[p] = Tip(n.old)
      <3>1. CASE CaughtUp(p)
        <4>1. inner[p] # <<>>
          BY <1>6
        <4> QED BY <1>1, <2>1, <3>1, <4>1 DEF Stream
      <3>2. CASE ~CaughtUp(p)
        <4>1. InHand(p, n)
          BY <2>1, <3>2 DEF Stream
        <4> QED BY <1>1, <1>4, <4>1 DEF InHand
      <3> QED BY <3>1, <3>2
    <2>7. InHand(p, n)'
      BY <1>1, <2>4, <2>5, <2>6 DEF InHand
    <2> QED BY <1>1, <1>6, <2>3, <2>7 DEF Stream
  <1> QED BY <1>3, <1>5, <1>6

\* A replay is never forgotten.
LEMMA ReplayStays ==
    ASSUME TypeOK, [Next]_vars, ~replayed' PROVE ~replayed
  <1>1. replayed \in BOOLEAN
    BY DEF TypeOK
  <1>2. replayed' = replayed \/ \E p \in Proc : replayed' = (replayed \/ Len(inner[p]) > 1)
    BY DEF Next, Step, AlignOuterSingleton, vars, histVars, LeaseRunsOut, ChangeToChainLeader,
       RevokeChainLeader, Crash, Receive, Redeliver, BeginProcessed, BeginNew, Reject,
       CommitMessages, FetchTimeout, PublishOuter, PublishFails,
       AlignNotNeeded, AlignEmpty, FetchSingletonTail, AlignLater, AlignStart, AlignWrite,
       AlignDone, AlignFails, Handled
  <1> QED BY <1>1, <1>2, Zenon

\* The relation of every process to its stream is kept by every step.
LEMMA StreamNext ==
    ASSUME TypeOK, FlowInv, StreamInv, [Next]_vars PROVE StreamInv'
  <1> SUFFICES ASSUME ~replayed', NEW q \in Proc PROVE Stream(q)'
    BY DEF StreamInv
  <1>1. Stream(q) /\ Flow(q)
    BY ReplayStays DEF StreamInv, FlowInv
  <1>2. ASSUME Kept(q) PROVE Stream(q)'
    BY <1>1, <1>2, StreamKept DEF Kept
  <1>3. CASE UNCHANGED vars
    BY <1>2, <1>3 DEF vars, flowVars, logVars, Kept
  <1>4. CASE LeaseRunsOut \/ \E p \in Proc : ChangeToChainLeader(p) \/ RevokeChainLeader(p)
    BY <1>2, <1>4 DEF LeaseRunsOut, ChangeToChainLeader, RevokeChainLeader, flowVars, logVars,
       Kept
  <1>5. ASSUME NEW p \in Proc, Work(p), p # q PROVE Stream(q)'
    BY <1>2, <1>5, OthersKept
  <1>6. ASSUME Work(q) PROVE Stream(q)'
    <2>1. CASE Receive(q) \/ Redeliver(q)
      BY <1>1, <2>1, StreamReceive
    <2>2. CASE BeginProcessed(q) \/ BeginNew(q)
      BY <1>1, <2>2, StreamBegin
    <2>3. CASE PublishOuter(q) \/ PublishFails(q)
      BY <1>1, <2>3, StreamPublish
    <2>4. CASE AlignNotNeeded(q) \/ AlignEmpty(q) \/ AlignLater(q) \/ AlignDone(q)
      BY <1>1, <2>4, StreamHandled
    <2>5. CASE FetchSingletonTail(q) \/ AlignWrite(q) \/ AlignStart(q) \/ AlignFails(q)
      <3>1. /\ pc[q] \in {"align", "catchup"} /\ pc'[q] \in {"process", "align", "catchup"}
        BY <2>5 DEF FetchSingletonTail, AlignWrite, AlignStart, AlignFails, Aligning, TryAgain,
           Goto, TypeOK
      <3>2. UNCHANGED <<version, inner, read, latest, canon, todo, delivered>>
        BY <2>5 DEF FetchSingletonTail, AlignWrite, AlignStart, AlignFails, logVars
      <3> QED BY <1>1, <3>1, <3>2, StreamAlign
    <2>6. CASE CommitMessages(q)
      BY <1>1, <2>6, StreamCommit
    <2>7. CASE Crash(q)
      BY <1>1, <2>7, StreamCrash
    <2> QED BY <1>6, <2>1, <2>2, <2>3, <2>4, <2>5, <2>6, <2>7 DEF Work, AlignOuterSingleton
  <1> QED BY <1>3, <1>4, <1>5, <1>6, StepKinds

LEMMA StreamInit == Init => StreamInv
  <1> SUFFICES ASSUME Init, NEW p \in Proc PROVE Stream(p)
    BY DEF StreamInv
  <1>1. /\ pc[p] = "idle" /\ read[p] = 0 /\ inner[p] = <<>> /\ latest[p] = Tip(Root)
        /\ version[p] = Tip(Root) /\ canon[p] = IndexOf(Root)
    BY DEF Init, IndexOf
  <1>2. CaughtUp(p) /\ read[p] = Len(inner[p]) /\ Tip(Root).hash = Root
    BY <1>1 DEF CaughtUp, Tip
  <1> QED BY <1>1, <1>2 DEF Stream

-----------------------------------------------------------------------------
(***************************************************************************)
(* The order of the topic.                                                 *)
(*                                                                         *)
(* As long as terms did not overlap, at most one process writes.  A leader *)
(* that is aligned has written a prefix of its notice, without a gap,      *)
(* whatever failed; a leader that catches up has a part of its plan ahead  *)
(* of it.  The drops of a switch of chains are written from the lowest up, *)
(* so that a consumer is at no head while they last: a term that ends      *)
(* there leaves a drop at the tail, and the next alignment is torn.        *)
(***************************************************************************)
OneLeader == \A p, q \in leads : p = q

TopicInv ==
    \/ single = <<>>
    \/ /\ SingletonTail.hash \in Block
       /\ Upto(Base(SingletonTail)) \/ (SingletonTail.isFork /\ aligned = {})

\* The first k entries of the message count as delivered, and its first w are in the
\* topic: one more when the answer to the last write was lost.
Prefix(p, k, w) ==
    /\ w \in k .. k + 1 /\ w <= OuterCount(todo[p])
    /\ \A i \in 1 .. OuterCount(todo[p]) :
          <<"singleton", OuterItem(todo[p], i)>> \in delivered[p] <=> i <= k
    /\ pc[p] = "publish" => pub[p] <= k + 1
    /\ pc[p] = "align" => k = OuterCount(todo[p])
    /\ w = 0 => single = <<>> \/ SingletonTail = Tip(todo[p].old)
    /\ w > 0 => single # <<>> /\ SingletonTail = OuterItem(todo[p], w)

AlignedInv(p) ==
    /\ pc[p] = "idle" => CaughtUp(p) /\ (single = <<>> \/ SingletonTail = latest[p])
    /\ pc[p] = "process" => latest[p].hash # todo[p].tail
    /\ pc[p] # "idle" => \E k, w \in 0 .. OuterCount(todo[p]) : Prefix(p, k, w)

\* The drops of the chain of t above height i are still to be written.
Dropped(t, c, i) ==
    \A x \in Block : IF Anc[t][Height[x]] = x /\ ~(c < Height[x] /\ Height[x] <= i)
                     THEN ~Withdrew(x) ELSE ~Shows(x)

NewsAhead(s, b, j) ==
    /\ NewsPlan(s, b, j)
    /\ Upto(Anc[b][j])
    /\ SingletonTail = Tip(Anc[b][j]) \/ j < Height[b]

DropsAhead(s, b, t, c, i) ==
    /\ c \in 1 .. Height[t] /\ c < Height[b] /\ c <= i /\ i < Height[t]
    /\ Anc[t][c] = Anc[b][c]
    /\ DropsPlan(s, t, i, b, c)
    /\ Dropped(t, c, i)

CatchInv(p) ==
    /\ single # <<>>
    /\ \/ \E j \in 1 .. Height[latest[p].hash] : NewsAhead(plan[p], latest[p].hash, j)
       \/ \E t \in Block, c \in Heights, i \in Heights :
             DropsAhead(plan[p], latest[p].hash, t, c, i)

Ordered ==
    /\ OneLeader
    /\ TopicInv
    /\ \A p \in Proc : /\ p \in aligned => AlignedInv(p)
                       /\ pc[p] = "catchup" => CatchInv(p)

OrderInv == Orderly => Ordered

\* The order, once lost, stays lost.
LEMMA OrderlyBefore == ASSUME TypeOK, [Next]_vars, Orderly' PROVE Orderly
  <1>1. overlap \in BOOLEAN /\ torn \in BOOLEAN
    BY DEF TypeOK
  <1>2. ~overlap' /\ ~torn' /\ ~replayed'
    BY DEF Orderly
  <1>3. (overlap' = overlap \/ overlap' = (overlap \/ leads # {}))
    BY DEF Next, Step, AlignOuterSingleton, vars, histVars, LeaseRunsOut, ChangeToChainLeader,
       RevokeChainLeader, Crash, Receive, Redeliver, BeginProcessed, BeginNew, Reject, FetchTimeout,
       PublishOuter, PublishFails, CommitMessages,
       AlignNotNeeded, AlignEmpty, FetchSingletonTail, AlignLater, AlignStart, AlignWrite,
       AlignDone, AlignFails, Handled
  <1>4. (torn' = torn \/ torn' = (torn \/ SingletonTail.isFork))
    BY DEF Next, Step, AlignOuterSingleton, vars, histVars, LeaseRunsOut, ChangeToChainLeader,
       RevokeChainLeader, Crash, Receive, Redeliver, BeginProcessed, BeginNew, Reject, FetchTimeout,
       PublishOuter, PublishFails, CommitMessages,
       AlignNotNeeded, AlignEmpty, FetchSingletonTail, AlignLater, AlignStart, AlignWrite,
       AlignDone, AlignFails, Handled
  <1>5. ~overlap
    BY <1>1, <1>2, <1>3, Zenon
  <1>6. ~torn
    BY <1>1, <1>2, <1>4, Zenon
  <1>7. ~replayed
    BY <1>2, ReplayStays
  <1> QED BY <1>5, <1>6, <1>7 DEF Orderly

\* A topic that stays as it is says the same of every block.
LEMMA TopicSame ==
    ASSUME single' = single
    PROVE  /\ SingletonTail' = SingletonTail
           /\ \A x : (Shows(x)' <=> Shows(x)) /\ (Withdrew(x)' <=> Withdrew(x))
  <1>1. SingletonTail' = SingletonTail
    BY DEF SingletonTail
  <1>2. \A x : LastWord(x)' = LastWord(x)
    BY DEF LastWord
  <1> QED BY <1>1, <1>2 DEF Shows, Withdrew

\* So a process that stays where it is keeps its relation to the topic.
LEMMA OrderKept ==
    ASSUME NEW q, Kept(q), single' = single
    PROVE  /\ AlignedInv(q) => AlignedInv(q)'
           /\ CatchInv(q) => CatchInv(q)'
  <1>1. /\ SingletonTail' = SingletonTail
        /\ \A x : (Shows(x)' <=> Shows(x)) /\ (Withdrew(x)' <=> Withdrew(x))
    BY TopicSame
  <1>2. AlignedInv(q) => AlignedInv(q)'
    BY <1>1 DEF AlignedInv, Prefix, Kept, Tip, CaughtUp
  <1>3. \A b : Upto(b) => Upto(b)'
    BY <1>1 DEF Upto
  <1>4. \A t, c, i : Dropped(t, c, i) => Dropped(t, c, i)'
    BY <1>1 DEF Dropped
  <1>5. \A s, b, j : NewsAhead(s, b, j) => NewsAhead(s, b, j)'
    BY <1>1, <1>3 DEF NewsAhead, NewsPlan, Tip
  <1>6. \A s, b, t, c, i : DropsAhead(s, b, t, c, i) => DropsAhead(s, b, t, c, i)'
    BY <1>4 DEF DropsAhead, DropsPlan, Tip
  <1>7. PICK s, b : s = plan[q] /\ b = latest[q].hash
    OBVIOUS
  <1>8. s = plan'[q] /\ b = latest'[q].hash
    BY <1>7 DEF Kept
  <1>9. CatchInv(q) => CatchInv(q)'
    BY <1>5, <1>6, <1>7, <1>8 DEF CatchInv
  <1> QED BY <1>2, <1>9

\* A step that writes nothing to the topic and begins no term.
LEMMA OrderQuiet ==
    ASSUME Ordered, single' = single, leads' \subseteq leads, aligned' \subseteq aligned,
           \A q \in Proc : \/ Kept(q)
                           \/ /\ q \in aligned' => AlignedInv(q)'
                              /\ pc'[q] = "catchup" => CatchInv(q)'
    PROVE  Ordered'
  <1>1. OneLeader'
    BY DEF Ordered, OneLeader
  <1>2. TopicInv'
    <2>1. /\ SingletonTail' = SingletonTail
          /\ \A x : (Shows(x)' <=> Shows(x)) /\ (Withdrew(x)' <=> Withdrew(x))
      BY TopicSame
    <2>2. Upto(Base(SingletonTail)) => Upto(Base(SingletonTail))'
      BY <2>1 DEF Upto, Base
    <2> QED BY <2>1, <2>2 DEF Ordered, TopicInv
  <1>3. ASSUME NEW q \in Proc
        PROVE  /\ q \in aligned' => AlignedInv(q)'
               /\ pc'[q] = "catchup" => CatchInv(q)'
    <2>1. CASE Kept(q)
      <3>1. pc'[q] = pc[q]
        BY <2>1 DEF Kept
      <3>2. /\ AlignedInv(q) => AlignedInv(q)'
            /\ CatchInv(q) => CatchInv(q)'
        BY <2>1, OrderKept
      <3> QED BY <3>1, <3>2 DEF Ordered
    <2> QED BY <2>1
  <1> QED BY <1>1, <1>2, <1>3 DEF Ordered

\* While p leads, no other process is aligned or catches up.
LEMMA SoleLeader ==
    ASSUME TypeOK, FlowInv, OneLeader, NEW p \in leads, NEW q \in Proc, q # p
    PROVE  q \notin leads /\ q \notin aligned /\ pc[q] # "catchup"
  BY DEF TypeOK, FlowInv, Flow, OneLeader

\* Terms begin and end without a change to the topic.
LEMMA OrderTerm ==
    ASSUME TypeOK, FlowInv, Ordered, Orderly',
           \/ LeaseRunsOut
           \/ \E p \in Proc : ChangeToChainLeader(p) \/ RevokeChainLeader(p)
    PROVE  Ordered'
  <1>1. CASE LeaseRunsOut
    <2>1. /\ single' = single /\ leads' = leads /\ aligned' = aligned
          /\ \A q \in Proc : Kept(q)
      BY <1>1 DEF LeaseRunsOut, LoseLease, flowVars, logVars, Kept
    <2> QED BY <2>1, OrderQuiet
  <1>2. ASSUME NEW p \in Proc, ChangeToChainLeader(p) PROVE Ordered'
    <2>1. /\ UNCHANGED <<single, latest, canon, todo, pc, pub, delivered, cached, plan>>
          /\ leads' = leads \cup {p} /\ aligned' = aligned
          /\ overlap' = (overlap \/ leads # {}) /\ ~Locked(p)
      BY <1>2 DEF ChangeToChainLeader, TakeOver, flowVars
    <2>2. leads = {}
      BY <2>1 DEF Orderly
    <2>3. aligned = {} /\ \A q \in Proc : pc[q] # "catchup"
      BY <2>2 DEF TypeOK, FlowInv, Flow
    <2>4. OneLeader'
      BY <2>1, <2>2 DEF OneLeader
    <2>5. TopicInv'
      <3>1. /\ SingletonTail' = SingletonTail
            /\ \A x : (Shows(x)' <=> Shows(x)) /\ (Withdrew(x)' <=> Withdrew(x))
        BY <2>1, TopicSame
      <3>2. Upto(Base(SingletonTail)) => Upto(Base(SingletonTail))'
        BY <3>1 DEF Upto, Base
      <3> QED BY <2>1, <3>1, <3>2 DEF Ordered, TopicInv
    <2> QED BY <2>1, <2>3, <2>4, <2>5 DEF Ordered
  <1>3. ASSUME NEW p \in Proc, RevokeChainLeader(p) PROVE Ordered'
    <2>1. /\ single' = single /\ leads' \subseteq leads /\ aligned' \subseteq aligned
          /\ \A q \in Proc : Kept(q)
      BY <1>3 DEF RevokeChainLeader, StepDown, flowVars, logVars, Kept
    <2> QED BY <2>1, OrderQuiet
  <1> QED BY <1>1, <1>2, <1>3

\* A message starts with no entry of it in the topic.
LEMMA OrderReceive ==
    ASSUME TypeOK, FlowInv, Ordered, NEW p \in Proc, Stream(p), Receive(p) \/ Redeliver(p)
    PROVE  Ordered'
  <1>1. \A q \in Proc : q # p => Kept(q)
    BY OthersKept DEF Work
  <1>2. single' = single /\ leads' = leads /\ aligned' = aligned
    BY DEF Receive, Redeliver, termVars
  <1>3. SingletonTail' = SingletonTail
    BY <1>2, TopicSame
  <1>4. pc'[p] # "catchup"
    BY DEF Receive, Redeliver, Goto, TypeOK
  <1>5. CASE Receive(p)
    <2>1. PICK t \in Stored[p], f \in Heights :
             /\ WellFormed([old |-> latest[p].hash, tail |-> t, first |-> f])
             /\ todo' = [todo EXCEPT ![p] =
                            [old |-> latest[p].hash, tail |-> t, first |-> f]]
      BY <1>5 DEF Receive
    <2>2. PICK n : n = [old |-> latest[p].hash, tail |-> t, first |-> f]
      OBVIOUS
    <2>3. t \in Block /\ latest[p].hash \in Block
      BY SingletonAssumption DEF FlowInv, Flow
    <2>4. n \in Notice /\ WellFormed(n) /\ n.old = latest[p].hash
      BY <2>1, <2>2, <2>3 DEF Notice, MaybeBlock
    <2>5. /\ pc[p] = "idle" /\ pc'[p] = "process" /\ todo'[p] = n /\ pub'[p] = 1
          /\ delivered'[p] = {} /\ latest'[p] = latest[p] /\ CaughtUp(p)
      BY <1>5, <2>1, <2>2 DEF Receive, Goto, FlowInv, Flow, TypeOK, CaughtUp
    <2>6. latest[p] = Tip(n.old)
      BY <2>4, <2>5 DEF Stream
    <2>7. OuterCount(n) \in Nat /\ n.old # n.tail
      BY <2>4, Shape
    <2>8. p \in aligned' => AlignedInv(p)'
      <3> SUFFICES ASSUME p \in aligned' PROVE AlignedInv(p)'
        OBVIOUS
      <3>1. single = <<>> \/ SingletonTail = Tip(n.old)
        BY <1>2, <2>5, <2>6 DEF Ordered, AlignedInv
      <3>2. 0 \in 0 .. 0 + 1 /\ 0 <= OuterCount(n) /\ \A i \in 1 .. OuterCount(n) : ~(i <= 0)
        BY <2>7
      <3>3. Prefix(p, 0, 0)'
        BY <1>2, <1>3, <2>5, <3>1, <3>2 DEF Prefix, Tip
      <3>4. 0 \in 0 .. OuterCount(todo'[p])
        BY <2>5, <2>7
      <3> QED BY <2>4, <2>5, <2>7, <3>3, <3>4 DEF AlignedInv
    <2> QED BY <1>1, <1>2, <1>4, <2>8, OrderQuiet
  <1>6. CASE Redeliver(p)
    <2>1. pc[p] = "idle" /\ ~CaughtUp(p)
      BY <1>6 DEF Redeliver, CaughtUp, TypeOK
    <2>2. p \notin aligned'
      BY <1>2, <2>1 DEF Ordered, AlignedInv
    <2> QED BY <1>1, <1>2, <1>4, <2>2, OrderQuiet
  <1> QED BY <1>5, <1>6

\* processNotice starts from the first entry; an aligned leader has not published the
\* tip before.
LEMMA OrderBegin ==
    ASSUME TypeOK, FlowInv, Ordered, NEW p \in Proc, BeginProcessed(p) \/ BeginNew(p)
    PROVE  Ordered'
  <1>1. \A q \in Proc : q # p => Kept(q)
    BY OthersKept DEF Work
  <1>2. single' = single /\ leads' = leads /\ aligned' = aligned
    BY DEF BeginProcessed, BeginNew, termVars
  <1>3. SingletonTail' = SingletonTail
    BY <1>2, TopicSame
  <1>4. /\ pc[p] = "process" /\ pub'[p] = 1 /\ todo'[p] = todo[p] /\ latest'[p] = latest[p]
        /\ pc'[p] = IF latest[p].hash = todo[p].tail THEN "align" ELSE "publish"
        /\ delivered'[p] = delivered[p]
    BY DEF BeginProcessed, BeginNew, IsAlreadyProcessed, Goto, TypeOK, FlowInv, Flow
  <1>5. p \in aligned' => AlignedInv(p)'
    <2> SUFFICES ASSUME p \in aligned' PROVE AlignedInv(p)'
      OBVIOUS
    <2>1. AlignedInv(p)
      BY <1>2 DEF Ordered
    <2>2. PICK n : n = todo[p]
      OBVIOUS
    <2>3. n.tail # latest[p].hash /\ OuterCount(n) \in Nat
      BY <1>4, <2>1, <2>2, Shape DEF AlignedInv, FlowInv, Flow
    <2>4. PICK k \in 0 .. OuterCount(n), w \in 0 .. OuterCount(n) : Prefix(p, k, w)
      BY <1>4, <2>1, <2>2 DEF AlignedInv
    <2>5. pub'[p] <= k + 1 /\ pc'[p] = "publish"
      BY <1>4, <2>2, <2>3
    <2>6. Prefix(p, k, w)'
      BY <1>2, <1>3, <1>4, <2>2, <2>4, <2>5 DEF Prefix, Tip
    <2> QED BY <1>4, <2>2, <2>5, <2>6 DEF AlignedInv
  <1>6. pc'[p] # "catchup"
    BY <1>4
  <1> QED BY <1>1, <1>2, <1>5, <1>6, OrderQuiet

\* A message that is handled, or an alignment that did not get to write.
LEMMA OrderHandled ==
    ASSUME TypeOK, FlowInv, Ordered, NEW p \in Proc, Stream(p),
           \/ AlignNotNeeded(p) \/ AlignLater(p) \/ FetchSingletonTail(p)
           \/ AlignFails(p) /\ single' = single
    PROVE  Ordered'
  <1>1. \A q \in Proc : q # p => Kept(q)
    BY OthersKept DEF Work, AlignOuterSingleton
  <1>2. single' = single /\ leads' = leads /\ aligned' = aligned
    BY DEF AlignNotNeeded, AlignLater, FetchSingletonTail, AlignFails, Handled, termVars
  <1>3. pc'[p] # "catchup"
    BY DEF AlignNotNeeded, AlignLater, FetchSingletonTail, AlignFails, Handled, Rest, TryAgain,
       Goto, Aligning, TypeOK
  <1>4. p \in aligned' => AlignedInv(p)'
    <2> SUFFICES ASSUME p \in aligned' PROVE AlignedInv(p)'
      OBVIOUS
    <2>1. AlignNotNeeded(p)
      BY <1>2 DEF AlignLater, FetchSingletonTail, AlignFails, Aligning, FlowInv, Flow
    <2>2. /\ pc[p] = "align" /\ pc'[p] = "idle" /\ latest'[p] = latest[p] /\ Flow(p)
      BY <2>1 DEF AlignNotNeeded, Handled, Rest, Goto, TypeOK, FlowInv
    <2>3. AlignedInv(p)
      BY <1>2 DEF Ordered
    <2>4. PICK n : n = todo[p]
      OBVIOUS
    <2>5. n \in Notice /\ WellFormed(n) /\ latest[p] = Tip(n.tail)
      BY <2>2, <2>4, TipReached DEF Flow
    <2>6. OuterCount(n) \in Nat \ {0}
      BY <2>5, Shape
    <2>7. OuterItem(n, OuterCount(n)) = Tip(n.tail)
      BY <2>5, ItemsFollow DEF Tip
    <2>8. PICK k \in 0 .. OuterCount(n), w \in 0 .. OuterCount(n) : Prefix(p, k, w)
      BY <2>2, <2>3, <2>4 DEF AlignedInv
    <2>9. w = OuterCount(n) /\ w > 0
      BY <2>2, <2>4, <2>6, <2>8 DEF Prefix
    <2>10. SingletonTail = Tip(n.tail)
      BY <2>4, <2>7, <2>8, <2>9 DEF Prefix
    <2>11. SingletonTail' = latest'[p]
      BY <1>2, <2>2, <2>5, <2>10, TopicSame
    <2>12. CaughtUp(p)'
      BY <2>1, <2>2, StreamHandled
    <2> QED BY <2>2, <2>11, <2>12 DEF AlignedInv
  <1> QED BY <1>1, <1>2, <1>3, <1>4, OrderQuiet

\* A commit changes nothing between a process and the topic.
LEMMA OrderCommit ==
    ASSUME TypeOK, FlowInv, Ordered, NEW p \in Proc, CommitMessages(p)
    PROVE  Ordered'
  <1>1. \A q \in Proc : q # p => Kept(q)
    BY OthersKept DEF Work
  <1>2. UNCHANGED <<single, leads, aligned, latest, todo, pc, pub, delivered, plan>>
    BY DEF CommitMessages, termVars, flowVars
  <1>3. CaughtUp(p) => CaughtUp(p)'
    <2>1. PICK k \in 1 .. Len(inner[p]) :
             read'[p] = read[p] - k /\ Len(inner'[p]) = Len(inner[p]) - k
      BY CommitKeeps DEF FlowInv
    <2> QED BY <1>2, <2>1 DEF CaughtUp
  <1>4. SingletonTail' = SingletonTail
    BY <1>2, TopicSame
  <1>5. AlignedInv(p) => AlignedInv(p)'
    BY <1>2, <1>3, <1>4 DEF AlignedInv, Prefix, Tip
  <1>6. CatchInv(p) => CatchInv(p)'
    <2>1. /\ \A x : (Shows(x)' <=> Shows(x)) /\ (Withdrew(x)' <=> Withdrew(x))
      BY <1>2, TopicSame
    <2>2. \A b : Upto(b) => Upto(b)'
      BY <2>1 DEF Upto
    <2>3. \A t, c, i : Dropped(t, c, i) => Dropped(t, c, i)'
      BY <2>1 DEF Dropped
    <2>4. \A s, b, j : NewsAhead(s, b, j) => NewsAhead(s, b, j)'
      BY <1>4, <2>2 DEF NewsAhead, NewsPlan, Tip
    <2>5. \A s, b, t, c, i : DropsAhead(s, b, t, c, i) => DropsAhead(s, b, t, c, i)'
      BY <2>3 DEF DropsAhead, DropsPlan, Tip
    <2>6. PICK s, b : s = plan[p] /\ b = latest[p].hash
      OBVIOUS
    <2>7. s = plan'[p] /\ b = latest'[p].hash
      BY <1>2, <2>6
    <2> QED BY <1>2, <2>4, <2>5, <2>6, <2>7 DEF CatchInv
  <1>7. /\ p \in aligned' => AlignedInv(p)'
        /\ pc'[p] = "catchup" => CatchInv(p)'
    BY <1>2, <1>5, <1>6 DEF Ordered
  <1> QED BY <1>1, <1>2, <1>7, OrderQuiet

\* An aligned leader owes the topic the entry after the last one it knows delivered: it
\* follows the tail, which is that last one or, after a lost answer, the entry itself.
LEMMA NextEntry ==
    ASSUME TypeOK, FlowInv, Ordered, NEW p \in aligned, pc[p] = "publish",
           NEW k \in 0 .. OuterCount(todo[p]), NEW w \in 0 .. OuterCount(todo[p]),
           Prefix(p, k, w)
    PROVE  /\ "singleton" \in Due(p) => pub[p] = k + 1
           /\ "singleton" \notin Due(p) => pub[p] <= k
           /\ "singleton" \in Due(p) =>
                 \E o \in OuterNotice : /\ o.hash \in Block /\ Upto(Base(o))
                                        /\ Follows(o, Item(p))
                                        /\ single # <<>> => o = SingletonTail
  <1>1. p \in Proc /\ p \in leads /\ aligned # {}
    BY DEF TypeOK
  <1>2. PICK n, i : n = todo[p] /\ i = pub[p]
    OBVIOUS
  <1>3. /\ n \in Notice /\ WellFormed(n) /\ OuterCount(n) \in Nat \ {0}
        /\ i \in 1 .. OuterCount(n) /\ Item(p) = OuterItem(n, i) /\ n.old \in Block
    BY <1>1, <1>2, ItemTyped DEF FlowInv, Item, Flow
  <1>4. "singleton" \in Due(p) <=> ~(i <= k)
    <2>1. "singleton" \in Targets(p)
      BY <1>1 DEF Targets
    <2>2. <<"singleton", OuterItem(n, i)>> \in delivered[p] <=> i <= k
      BY <1>2, <1>3 DEF Prefix
    <2> QED BY <1>3, <2>1, <2>2 DEF Due
  <1>5. i <= k + 1 /\ w \in k .. k + 1
    BY <1>2 DEF Prefix
  <1>6. k \in Nat /\ ("singleton" \in Due(p) => i = k + 1) /\ k <= OuterCount(n)
    BY <1>2, <1>3, <1>4, <1>5
  <1>7. ASSUME "singleton" \in Due(p)
        PROVE  \E o \in OuterNotice : /\ o.hash \in Block /\ Upto(Base(o))
                                      /\ Follows(o, Item(p))
                                      /\ single # <<>> => o = SingletonTail
    <2>1. single # <<>> => Upto(Base(SingletonTail))
      BY <1>1 DEF Ordered, TopicInv
    <2>2. CASE w = 0
      <3>1. single # <<>> => SingletonTail = Tip(n.old)
        BY <1>2, <2>2 DEF Prefix
      <3>2. Base(Tip(n.old)) = n.old /\ Tip(n.old) \in OuterNotice /\ Tip(n.old).hash = n.old
        BY <1>3 DEF Base, Tip, OuterNotice, MaybeBlock
      <3>3. Upto(Base(Tip(n.old)))
        BY <2>1, <3>1, NothingSaid
      <3>4. n.old # NoBlock
        BY <1>3, NoBlockAssumption
      <3>5. Follows(Tip(n.old), OuterItem(n, 1))
        BY <1>3, <3>4, ItemsFollow DEF Tip
      <3>6. i = 1
        BY <1>5, <1>6, <1>7, <2>2
      <3> QED BY <1>3, <3>1, <3>2, <3>3, <3>5, <3>6
    <2>3. CASE w > 0
      <3>1. single # <<>> /\ SingletonTail = OuterItem(n, w)
        BY <1>2, <2>3 DEF Prefix
      <3>2. w \in 1 .. OuterCount(n) /\ (w = i \/ w = i - 1)
        BY <1>2, <1>3, <1>5, <1>6, <1>7, <2>3
      <3>3. Follows(OuterItem(n, w), OuterItem(n, i))
        <4>1. CASE w = i
          BY <4>1 DEF Follows
        <4>2. CASE w = i - 1
          <5>1. w \in 1 .. OuterCount(n) - 1 /\ w + 1 = i
            BY <1>3, <3>2, <4>2
          <5> QED BY <1>3, <5>1, ItemsFollow
        <4> QED BY <3>2, <4>1, <4>2
      <3>4. OuterItem(n, w) \in OuterNotice /\ OuterItem(n, w).hash \in Block
        BY <1>3, <3>2, ItemFacts DEF WellFormed
      <3> QED BY <1>3, <2>1, <3>1, <3>3, <3>4
    <2> QED BY <2>2, <2>3
  <1> QED BY <1>2, <1>3, <1>4, <1>6, <1>7

\* publishOuter keeps the prefix and the order of the topic, whichever destinations fail
\* and whichever answers are lost.
LEMMA OrderPublish ==
    ASSUME TypeOK, FlowInv, Ordered, NEW p \in Proc, Stream(p),
           PublishOuter(p) \/ PublishFails(p)
    PROVE  Ordered'
  <1>1. pc[p] = "publish" /\ Flow(p)
    BY DEF PublishOuter, PublishFails, FlowInv
  <1>2. PICK o, n, i : o = Item(p) /\ n = todo[p] /\ i = pub[p]
    OBVIOUS
  <1>3. /\ o \in OuterNotice /\ o.hash \in Block /\ o = OuterItem(n, i)
        /\ i \in 1 .. OuterCount(n) /\ OuterCount(n) \in Nat \ {0}
        /\ n \in Notice /\ WellFormed(n)
    BY <1>1, <1>2, ItemTyped DEF Item
  <1>4. PICK wrote \in SUBSET {"version", "singleton"} : \E ok \in SUBSET wrote :
           /\ wrote \subseteq Due(p)
           /\ PublishOuter(p) => wrote = Due(p) /\ ok = Due(p)
           /\ single' = IF "singleton" \in wrote THEN Append(single, o) ELSE single
           /\ delivered'[p] = delivered[p] \cup (ok \X {o})
    BY <1>1, <1>2, PublishWrites
  <1>5. PICK ok \in SUBSET wrote :
           /\ wrote \subseteq Due(p)
           /\ PublishOuter(p) => wrote = Due(p) /\ ok = Due(p)
           /\ single' = IF "singleton" \in wrote THEN Append(single, o) ELSE single
           /\ delivered'[p] = delivered[p] \cup (ok \X {o})
    BY <1>4
  <1>6. \A q \in Proc : q # p => Kept(q)
    BY OthersKept DEF Work
  <1>7. leads' = leads /\ aligned' = aligned /\ todo' = todo /\ pc'[p] # "catchup"
        /\ pc'[p] # "idle"
    BY DEF PublishOuter, PublishFails, TryAgain, termVars, Goto, TypeOK
  <1>8. CASE p \notin aligned
    <2>1. "singleton" \notin Due(p)
      BY <1>8 DEF Due, Targets
    <2>2. single' = single
      BY <1>5, <2>1
    <2> QED BY <1>6, <1>7, <1>8, <2>2, OrderQuiet
  <1>9. CASE p \in aligned
    <2>1. PICK k \in 0 .. OuterCount(n), w \in 0 .. OuterCount(n) : Prefix(p, k, w)
      BY <1>1, <1>2, <1>9 DEF Ordered, AlignedInv
    <2>2. /\ "singleton" \in Due(p) => i = k + 1
          /\ "singleton" \notin Due(p) => i <= k
      BY <1>1, <1>2, <1>9, <2>1, NextEntry
    <2>3. latest[p].hash # n.tail
      BY <1>1, <1>2 DEF Stream, CaughtUp, InHand
    <2>4. ASSUME NEW m \in 1 .. OuterCount(n)
          PROVE  <<"singleton", OuterItem(n, m)>> \in delivered'[p]
                    <=> m <= k \/ ("singleton" \in ok /\ m = i)
      <3>1. <<"singleton", OuterItem(n, m)>> \in delivered[p] <=> m <= k
        BY <1>2, <2>1 DEF Prefix
      <3>2. OuterItem(n, i) = OuterItem(n, m) <=> i = m
        BY <1>3, ItemsDiffer
      <3>3. <<"singleton", OuterItem(n, m)>> \in ok \X {o}
               <=> "singleton" \in ok /\ OuterItem(n, m) = OuterItem(n, i)
        BY <1>3
      <3> QED BY <1>5, <3>1, <3>2, <3>3
    <2>5. \/ /\ PublishOuter(p) /\ pub'[p] = i + 1
             /\ pc'[p] = IF i = OuterCount(n) THEN "align" ELSE "publish"
          \/ /\ pc'[p] = "process" /\ latest'[p] = latest[p]
      <3>1. CASE PublishOuter(p)
        BY <1>2, <3>1 DEF PublishOuter, Goto, TypeOK
      <3>2. CASE PublishFails(p)
        BY <3>2 DEF PublishFails, TryAgain, Goto, TypeOK
      <3> QED BY <3>1, <3>2
    <2>6. pc'[p] = "process" => latest'[p].hash # todo'[p].tail
      BY <1>2, <1>7, <2>3, <2>5
    <2>7. CASE "singleton" \notin wrote
      <3>1. single' = single /\ "singleton" \notin ok
        BY <1>5, <2>7
      <3>2. SingletonTail' = SingletonTail
        BY <3>1, TopicSame
      <3>3. PublishOuter(p) => i <= k
        BY <1>5, <2>2, <2>7
      <3>4. /\ pc'[p] = "publish" => pub'[p] <= k + 1
            /\ pc'[p] = "align" => k = OuterCount(n)
        BY <1>3, <2>5, <3>3
      <3>5. Prefix(p, k, w)'
        BY <1>2, <1>7, <2>1, <2>4, <3>1, <3>2, <3>4 DEF Prefix, Tip
      <3>6. AlignedInv(p)'
        BY <1>2, <1>7, <2>6, <3>5 DEF AlignedInv
      <3> QED BY <1>6, <1>7, <3>1, <3>6, OrderQuiet
    <2>8. CASE "singleton" \in wrote
      <3>1. i = k + 1 /\ "singleton" \in Due(p) /\ single' = Append(single, o)
        BY <1>5, <2>2, <2>8
      <3>2. PICK e \in OuterNotice : /\ e.hash \in Block /\ Upto(Base(e)) /\ Follows(e, o)
        BY <1>1, <1>2, <1>9, <2>1, <3>1, NextEntry
      <3>3. single \in Seq(OuterNotice)
        BY DEF TypeOK
      <3>4. single' # <<>> /\ SingletonTail' = o
        BY <1>3, <3>1, <3>3, WordAfter
      <3>5. Upto(Base(o))'
        BY <1>3, <3>1, <3>2, <3>3, FollowKeeps
      <3>6. TopicInv'
        BY <1>3, <3>4, <3>5 DEF TopicInv, Base
      <3>7. i > 0 /\ i # 0 /\ i \in 0 .. OuterCount(n) /\ i \in i .. i + 1 /\ i \in k .. k + 1
        BY <1>3, <3>1
      <3>8. i <= OuterCount(n)
        BY <1>3
      <3>9. \E x, y \in 0 .. OuterCount(n) : Prefix(p, x, y)'
        <4>1. CASE "singleton" \in ok
          <5>1. /\ pc'[p] = "publish" => pub'[p] <= i + 1
                /\ pc'[p] = "align" => i = OuterCount(n)
            BY <1>3, <2>5
          <5>2. \A m \in 1 .. OuterCount(n) : m <= k \/ m = i <=> m <= i
            BY <1>3, <3>1
          <5>3. Prefix(p, i, i)'
            BY <1>2, <1>3, <1>7, <2>4, <3>4, <3>7, <3>8, <4>1, <5>1, <5>2 DEF Prefix
          <5> QED BY <3>7, <5>3
        <4>2. CASE "singleton" \notin ok
          <5>1. pc'[p] = "process"
            BY <1>5, <2>5, <3>1, <4>2
          <5>2. Prefix(p, k, i)'
            BY <1>2, <1>3, <1>7, <2>4, <3>4, <3>7, <3>8, <4>2, <5>1 DEF Prefix
          <5> QED BY <3>7, <5>2
        <4> QED BY <4>1, <4>2
      <3>10. AlignedInv(p)'
        BY <1>2, <1>7, <2>6, <3>9 DEF AlignedInv
      <3>11. \A q \in Proc : q # p => q \notin aligned' /\ pc'[q] # "catchup"
        BY <1>6, <1>7, <1>9, SoleLeader DEF Kept, Ordered, TypeOK
      <3>12. OneLeader'
        BY <1>7 DEF Ordered, OneLeader
      <3> QED BY <1>7, <3>6, <3>10, <3>11, <3>12 DEF Ordered
    <2> QED BY <2>7, <2>8
  <1> QED BY <1>8, <1>9

\* What align writes: the blocks the topic does not have yet, or a switch of chains.
LEMMA PlanShape ==
    ASSUME NEW p, NEW tail \in Block, NEW head \in Block, latest[p].hash = head,
           canon[p] = IndexOf(head), CanAlign(p, tail)
    PROVE  \/ /\ Height[tail] \in 1 .. Height[head]
              /\ Anc[head][Height[tail]] = tail
              /\ NewsPlan(AlignPlan(p, tail), head, Height[tail])
           \/ /\ CommonHeight(tail, head) > 0
              /\ CommonHeight(tail, head) < Height[tail]
              /\ CommonHeight(tail, head) < Height[head]
              /\ DropsPlan(AlignPlan(p, tail), tail, CommonHeight(tail, head),
                           head, CommonHeight(tail, head))
  <1>1. /\ head \in MaybeBlock /\ Height[head] \in 1 .. MaxHeight
        /\ Height[tail] \in 1 .. MaxHeight /\ MaxHeight \in Nat
        /\ Height[tail] \in Heights /\ Height[tail] \in 0 .. MaxHeight
        /\ Anc[head][Height[head]] = head /\ Anc[tail][Height[tail]] = tail
    BY HeightAssumption, AncAssumption DEF MaybeBlock, Heights
  <1>2. \A h \in Heights : canon[p][h] = Anc[head][h]
    BY DEF IndexOf
  <1>3. CASE tail = head
    <2>1. AlignPlan(p, tail) = <<>>
      BY <1>3 DEF AlignPlan
    <2>2. NewsPlan(<<>>, head, Height[head])
      BY <1>1 DEF NewsPlan
    <2> QED BY <1>1, <1>3, <2>1, <2>2
  <1>4. CASE tail # head /\ OnLocalChain(p, tail)
    <2>1. AlignPlan(p, tail) = FastForward(p, tail)
      BY <1>4 DEF AlignPlan
    <2>2. Anc[head][Height[tail]] = tail
      BY <1>1, <1>2, <1>4 DEF OnLocalChain
    <2>3. Height[tail] \in 1 .. Height[head]
      <3>1. Anc[head][Height[tail]] # NoBlock
        BY <2>2, NoBlockAssumption
      <3> QED BY <1>1, <3>1, AncAssumption
    <2>4. FastForward(p, tail) = Ascending(head, Height[tail] + 1, FALSE)
      <3>1. PICK x \in Nat, y \in Nat : x = Height[head] /\ y = Height[tail]
        BY <1>1
      <3>2. x - (y + 1) + 1 = x - y /\ \A i \in 1 .. x - y : (y + 1) + i - 1 = y + i
        OBVIOUS
      <3>3. ASSUME NEW i \in 1 .. x - y PROVE canon[p][y + i] = Anc[head][y + i]
        <4>1. y + i \in Heights
          BY <1>1, <3>1 DEF Heights
        <4> QED BY <1>2, <4>1
      <3>4. FastForward(p, tail) = [i \in 1 .. x - y |-> Tip(canon[p][y + i])]
        BY <3>1 DEF FastForward
      <3>5. Ascending(head, y + 1, FALSE) =
               [i \in 1 .. x - y |-> [hash |-> Anc[head][y + i], isFork |-> FALSE]]
        BY <3>1, <3>2 DEF Ascending
      <3>6. \A i \in 1 .. x - y :
               Tip(canon[p][y + i]) = [hash |-> Anc[head][y + i], isFork |-> FALSE]
        BY <3>3 DEF Tip
      <3>7. FastForward(p, tail) = Ascending(head, y + 1, FALSE)
        BY <3>4, <3>5, <3>6
      <3> QED BY <3>1, <3>7
    <2>5. NewsPlan(Ascending(head, Height[tail] + 1, FALSE), head, Height[tail])
      <3>1. Height[tail] \in 0 .. Height[head]
        BY <1>1, <2>3
      <3> QED BY <3>1, AscendingFacts DEF NewsPlan, Tip
    <2> QED BY <2>1, <2>2, <2>3, <2>4, <2>5
  <1>5. CASE tail # head /\ ~OnLocalChain(p, tail)
    <2>1. CommonHeight(tail, head) > 0 /\ Height[head] >= Height[tail]
      BY <1>5 DEF CanAlign, FindsAncestor
    <2>2. PICK c : c = CommonHeight(tail, head)
      OBVIOUS
    <2>3. c \in 1 .. Height[tail] /\ c \in 1 .. Height[head] /\ Anc[tail][c] = Anc[head][c]
      BY <1>1, <2>1, <2>2, CommonFacts DEF MaybeBlock
    <2>5. Anc[head][Height[tail]] # tail
      BY <1>1, <1>2, <1>5 DEF OnLocalChain
    <2>6. c # Height[tail]
      BY <1>1, <2>3, <2>5
    <2>7. c < Height[tail] /\ c < Height[head]
      BY <1>1, <2>1, <2>3, <2>6
    <2>8. AlignPlan(p, tail) = SwitchChain(tail, head)
      BY <1>5 DEF AlignPlan
    <2>9. DropsPlan(SwitchChain(tail, head), tail, c, head, c)
      BY <2>1, <2>2, SwitchFacts
    <2> QED BY <2>1, <2>2, <2>7, <2>8, <2>9
  <1> QED BY <1>3, <1>4, <1>5

\* align writes the next block of its chain.
LEMMA NewsWritten ==
    ASSUME single \in Seq(OuterNotice), NEW b \in Block, NEW j \in 1 .. Height[b],
           NEW s, s # <<>>, NewsAhead(s, b, j), single' = Append(single, Head(s))
    PROVE  /\ j + 1 \in 1 .. Height[b] /\ Anc[b][j + 1] \in Block
           /\ single' # <<>> /\ SingletonTail' = Tip(Anc[b][j + 1])
           /\ Upto(Anc[b][j + 1])' /\ NewsAhead(Tail(s), b, j + 1)'
  <1>1. /\ s \in Seq(OuterNotice) /\ Len(s) = Height[b] - j
        /\ \A m \in 1 .. Height[b] - j : s[m] = Tip(Anc[b][j + m])
        /\ Upto(Anc[b][j])
    BY DEF NewsAhead, NewsPlan
  <1>2. Height[b] \in Nat /\ b \in MaybeBlock
    BY HeightAssumption DEF MaybeBlock
  <1>3. Len(s) \in Nat /\ Len(s) >= 1
    BY <1>1, LenProperties, EmptySeq
  <1>4. j + 1 \in 1 .. Height[b] /\ 1 \in 1 .. Height[b] - j
    BY <1>1, <1>2, <1>3
  <1>5. PICK x, y : x = Anc[b][j] /\ y = Anc[b][j + 1]
    OBVIOUS
  <1>6. y \in Block /\ x \in Block /\ Parent(y) = x
    <2>1. y \in Block /\ Parent(y) = Anc[b][j + 1 - 1]
      <3>1. PICK h \in 1 .. Height[b] : h = j + 1
        BY <1>4
      <3>2. Anc[b][h] \in Block /\ Parent(Anc[b][h]) = Anc[b][h - 1]
        BY <1>2, Ancestors
      <3> QED BY <1>5, <3>1, <3>2
    <2>2. x \in Block
      BY <1>2, <1>5, Ancestors
    <2>3. j + 1 - 1 = j
      BY <1>2
    <2> QED BY <1>5, <2>1, <2>2, <2>3
  <1>7. Head(s) = Tip(y)
    <2>1. Head(s) = s[1]
      BY <1>1
    <2> QED BY <1>1, <1>4, <1>5, <2>1
  <1>8. /\ Tip(x) \in OuterNotice /\ Tip(y) \in OuterNotice
        /\ Tip(x).hash = x /\ Tip(y).hash = y
        /\ Base(Tip(x)) = x /\ Base(Tip(y)) = y /\ Follows(Tip(x), Tip(y))
    BY <1>6 DEF Tip, Base, OuterNotice, MaybeBlock, Follows
  <1>9. single' # <<>> /\ SingletonTail' = Tip(y)
    BY <1>6, <1>7, <1>8, WordAfter
  <1>10. Upto(y)'
    <2>1. PICK o, q : o = Tip(x) /\ q = Tip(y)
      OBVIOUS
    <2>2. Upto(Base(q))'
      BY <1>1, <1>5, <1>6, <1>7, <1>8, <2>1, FollowKeeps
    <2>3. Base(q) = y
      BY <1>8, <2>1
    <2> QED BY <2>2, <2>3 DEF Base
  <1>11. NewsPlan(Tail(s), b, j + 1)
    <2>1. /\ Tail(s) \in Seq(OuterNotice) /\ Len(Tail(s)) = Len(s) - 1
          /\ \A m \in 1 .. Len(Tail(s)) : Tail(s)[m] = s[m + 1]
      BY <1>1, HeadTailProperties
    <2>2. Len(Tail(s)) = Height[b] - (j + 1)
      BY <1>1, <1>2, <2>1
    <2>3. ASSUME NEW m \in 1 .. Height[b] - (j + 1) PROVE Tail(s)[m] = Tip(Anc[b][j + 1 + m])
      <3>1. m + 1 \in 1 .. Height[b] - j /\ j + (m + 1) = j + 1 + m
        BY <1>2
      <3> QED BY <1>1, <2>1, <2>2, <3>1
    <2> QED BY <2>1, <2>2, <2>3 DEF NewsPlan
  <1>12. NewsAhead(Tail(s), b, j + 1)'
    BY <1>5, <1>9, <1>10, <1>11 DEF NewsAhead, NewsPlan, Tip
  <1> QED BY <1>4, <1>5, <1>6, <1>9, <1>10, <1>12

\* The chain of t up to c is the chain of b up to c.
LEMMA CommonChain ==
    ASSUME NEW t \in Block, NEW b \in Block, NEW c \in 1 .. Height[t], c <= Height[b],
           Anc[t][c] = Anc[b][c], NEW x \in Block
    PROVE  /\ Anc[Anc[b][c]][Height[x]] = x
                 <=> Anc[t][Height[x]] = x /\ ~(c < Height[x] /\ Height[x] <= Height[t])
           /\ Anc[b][c] \in Block
  <1>1. /\ Height[t] \in 1 .. MaxHeight /\ Height[b] \in 1 .. MaxHeight /\ MaxHeight \in Nat
        /\ Height[x] \in 1 .. MaxHeight /\ t \in MaybeBlock /\ b \in MaybeBlock
        /\ Height[x] \in 0 .. MaxHeight /\ x # NoBlock
    BY HeightAssumption, NoBlockAssumption DEF MaybeBlock, Heights
  <1>2. c \in 1 .. Height[b]
    BY <1>1
  <1>3. PICK y : y = Anc[b][c]
    OBVIOUS
  <1>4. /\ y \in Block /\ y \in MaybeBlock /\ Height[y] = c
        /\ \A k \in 0 .. c : Anc[y][k] = Anc[t][k]
    <2>1. Anc[t][c] \in Block /\ Height[Anc[t][c]] = c /\ \A k \in 0 .. c : Anc[Anc[t][c]][k] = Anc[t][k]
      BY <1>1, Ancestors
    <2> QED BY <1>3, <2>1 DEF MaybeBlock
  <1>5. Anc[y][Height[x]] # NoBlock <=> Height[x] \in 1 .. c
    BY <1>1, <1>4, AncAssumption
  <1>6. Anc[t][Height[x]] # NoBlock <=> Height[x] \in 1 .. Height[t]
    BY <1>1, AncAssumption
  <1>7. CASE Height[x] <= c
    <2>1. Height[x] \in 0 .. c
      BY <1>1, <1>7
    <2>2. Anc[y][Height[x]] = Anc[t][Height[x]]
      BY <1>4, <2>1
    <2>3. ~(c < Height[x])
      BY <1>1, <1>7
    <2> QED BY <1>3, <1>4, <2>2, <2>3
  <1>8. CASE ~(Height[x] <= c)
    <2>1. Anc[y][Height[x]] # x
      BY <1>1, <1>5, <1>8
    <2>2. c < Height[x]
      BY <1>1, <1>8
    <2>3. Anc[t][Height[x]] = x => Height[x] <= Height[t]
      BY <1>1, <1>6
    <2> QED BY <1>3, <1>4, <2>1, <2>2, <2>3
  <1> QED BY <1>7, <1>8

\* align drops the next block of the other chain.
LEMMA DropsWritten ==
    ASSUME single \in Seq(OuterNotice), NEW b \in Block, NEW t \in Block,
           NEW c \in Heights, NEW i \in Heights,
           NEW s, DropsAhead(s, b, t, c, i), single' = Append(single, Head(s))
    PROVE  /\ single' # <<>> /\ SingletonTail'.isFork /\ SingletonTail'.hash \in Block
           /\ \/ i + 1 \in Heights /\ DropsAhead(Tail(s), b, t, c, i + 1)'
              \/ c \in 1 .. Height[b] /\ NewsAhead(Tail(s), b, c)'
  <1>1. /\ c \in 1 .. Height[t] /\ c < Height[b] /\ c <= i /\ i < Height[t]
        /\ Anc[t][c] = Anc[b][c] /\ Dropped(t, c, i)
        /\ s \in Seq(OuterNotice) /\ Len(s) = (Height[t] - i) + (Height[b] - c)
        /\ \A m \in 1 .. Len(s) :
              s[m] = IF m <= Height[t] - i THEN [hash |-> Anc[t][i + m], isFork |-> TRUE]
                     ELSE Tip(Anc[b][c + (m - (Height[t] - i))])
    BY DEF DropsAhead, DropsPlan
  <1>2. /\ Height[t] \in 1 .. MaxHeight /\ Height[b] \in 1 .. MaxHeight /\ MaxHeight \in Nat
        /\ t \in MaybeBlock /\ b \in MaybeBlock /\ c \in Nat /\ i \in Nat
    BY HeightAssumption DEF MaybeBlock, Heights
  <1>3. PICK u, v : u = Height[t] - i /\ v = Height[b] - c
    OBVIOUS
  <1>4. /\ u \in Nat /\ v \in Nat /\ u >= 1 /\ v >= 1 /\ Len(s) = u + v
        /\ i + 1 \in 1 .. Height[t] /\ 1 \in 1 .. Len(s)
    <2>1. /\ c < Height[b] /\ i < Height[t] /\ Len(s) = (Height[t] - i) + (Height[b] - c)
      BY <1>1
    <2>2. u \in Nat /\ v \in Nat /\ u >= 1 /\ v >= 1 /\ i + 1 \in 1 .. Height[t]
      <3>1. PICK x \in Nat, y \in Nat : x = Height[t] /\ y = Height[b]
        BY <1>2
      <3>2. c \in Nat /\ i \in Nat /\ c < y /\ i < x /\ u = x - i /\ v = y - c
        BY <1>2, <1>3, <2>1, <3>1
      <3>3. u \in Nat /\ v \in Nat /\ u >= 1 /\ v >= 1 /\ i + 1 \in 1 .. x
        BY <3>2
      <3> QED BY <3>1, <3>3
    <2>3. Len(s) = u + v
      BY <1>3, <2>1
    <2> QED BY <2>2, <2>3
  <1>5. PICK y : y = Anc[t][i + 1]
    OBVIOUS
  <1>6. y \in Block /\ Height[y] = i + 1
    BY <1>2, <1>4, <1>5, Ancestors
  <1>7. PICK o : o = [hash |-> y, isFork |-> TRUE]
    OBVIOUS
  <1>8. s # <<>> /\ Head(s) = o
    <2>1. s # <<>> /\ Head(s) = s[1]
      BY <1>1, <1>4
    <2>2. s[1] = [hash |-> Anc[t][i + 1], isFork |-> TRUE]
      BY <1>1, <1>3, <1>4
    <2> QED BY <1>5, <1>7, <2>1, <2>2
  <1>9. o \in OuterNotice /\ o.hash = y /\ o.isFork
    BY <1>6, <1>7 DEF OuterNotice, MaybeBlock
  <1>10. /\ single' # <<>> /\ SingletonTail' = o
         /\ \A x \in Block : LastWord(x)' = IF x = y THEN o ELSE LastWord(x)
    BY <1>6, <1>8, <1>9, WordAfter
  <1>11. o # NoNotice
    BY <1>9 DEF NoNotice
  <1>12. \A x \in Block : /\ Shows(x)' <=> x # y /\ Shows(x)
                          /\ Withdrew(x)' <=> x = y \/ Withdrew(x)
    BY <1>9, <1>10, <1>11 DEF Shows, Withdrew
  <1>13. ASSUME NEW x \in Block
         PROVE  IF Anc[t][Height[x]] = x /\ ~(c < Height[x] /\ Height[x] <= i + 1)
                THEN ~Withdrew(x)' ELSE ~Shows(x)'
    <2>1. IF Anc[t][Height[x]] = x /\ ~(c < Height[x] /\ Height[x] <= i)
          THEN ~Withdrew(x) ELSE ~Shows(x)
      BY <1>1 DEF Dropped
    <2>2. CASE x = y
      <3>1. c < Height[x] /\ Height[x] <= i + 1
        BY <1>1, <1>2, <1>6, <2>2
      <3> QED BY <1>12, <2>2, <3>1
    <2>3. CASE x # y
      <3>1. Height[x] \in Nat
        BY HeightAssumption DEF Heights
      <3>2. Anc[t][Height[x]] = x => Height[x] # i + 1
        BY <1>5, <2>3
      <3>3. Anc[t][Height[x]] = x => (Height[x] <= i + 1 <=> Height[x] <= i)
        BY <1>2, <3>1, <3>2
      <3> QED BY <1>12, <2>1, <2>3, <3>3
    <2> QED BY <2>2, <2>3
  <1>14. /\ Tail(s) \in Seq(OuterNotice) /\ Len(Tail(s)) = u + v - 1
         /\ \A m \in 1 .. u + v - 1 : Tail(s)[m] = s[m + 1] /\ m + 1 \in 1 .. Len(s)
    <2>1. /\ Tail(s) \in Seq(OuterNotice) /\ Len(Tail(s)) = Len(s) - 1
          /\ \A m \in 1 .. Len(Tail(s)) : Tail(s)[m] = s[m + 1]
      BY <1>1, <1>8, HeadTailProperties
    <2> QED BY <1>4, <2>1
  <1>15. CASE u = 1
    <2>1. i + 1 = Height[t]
      BY <1>2, <1>3, <1>15
    <2>2. c \in 1 .. Height[b]
      BY <1>1, <1>2
    <2>3. \A x \in Block :
             /\ Anc[Anc[b][c]][Height[x]] = x
                   <=> Anc[t][Height[x]] = x /\ ~(c < Height[x] /\ Height[x] <= Height[t])
      BY <1>1, <2>2, CommonChain
    <2>4. \A x \in Block :
             IF Anc[Anc[b][c]][Height[x]] = x THEN ~Withdrew(x)' ELSE ~Shows(x)'
      BY <1>13, <2>1, <2>3
    <2>5. ASSUME NEW m \in 1 .. v PROVE Tail(s)[m] = Tip(Anc[b][c + m])
      <3>1. m \in 1 .. u + v - 1 /\ m + 1 \in 1 .. Len(s) /\ ~(m + 1 <= u) /\ m + 1 - u = m
        BY <1>4, <1>15
      <3>2. s[m + 1] = Tip(Anc[b][c + (m + 1 - u)])
        BY <1>1, <1>3, <3>1
      <3> QED BY <1>14, <3>1, <3>2
    <2>6. Len(Tail(s)) = v
      BY <1>4, <1>14, <1>15
    <2>7. NewsPlan(Tail(s), b, c)
      BY <1>3, <1>14, <2>5, <2>6 DEF NewsPlan
    <2>8. NewsAhead(Tail(s), b, c)'
      BY <1>1, <2>4, <2>7 DEF NewsAhead, NewsPlan, Upto, Tip
    <2> QED BY <1>6, <1>9, <1>10, <2>2, <2>8
  <1>16. CASE u # 1
    <2>1. i + 1 < Height[t] /\ c <= i + 1 /\ i + 1 \in Heights /\ Height[t] - (i + 1) = u - 1
      BY <1>1, <1>2, <1>3, <1>4, <1>16 DEF Heights
    <2>2. ASSUME NEW m \in 1 .. u + v - 1
          PROVE  Tail(s)[m] = IF m <= u - 1 THEN [hash |-> Anc[t][i + 1 + m], isFork |-> TRUE]
                              ELSE Tip(Anc[b][c + (m - (u - 1))])
      <3>1. PICK k, e, f : k = m + 1 /\ e = i + 1 + m /\ f = m - (u - 1)
        OBVIOUS
      <3>2. k \in 1 .. Len(s) /\ Tail(s)[m] = s[k]
        BY <1>14, <3>1
      <3>3. k \in Nat /\ i + k = e /\ k - u = f /\ (k <= u <=> m <= u - 1)
        BY <1>2, <1>4, <3>1
      <3>4. s[k] = IF k <= u THEN [hash |-> Anc[t][i + k], isFork |-> TRUE]
                   ELSE Tip(Anc[b][c + (k - u)])
        BY <1>1, <1>3, <3>2
      <3>5. s[k] = IF k <= u THEN [hash |-> Anc[t][e], isFork |-> TRUE]
                   ELSE Tip(Anc[b][c + f])
        BY <3>3, <3>4
      <3>6. CASE m <= u - 1
        BY <3>1, <3>2, <3>3, <3>5, <3>6
      <3>7. CASE ~(m <= u - 1)
        BY <3>1, <3>2, <3>3, <3>5, <3>7
      <3> QED BY <3>6, <3>7
    <2>3. Len(Tail(s)) = (Height[t] - (i + 1)) + (Height[b] - c)
      BY <1>3, <1>4, <1>14, <2>1
    <2>4. DropsPlan(Tail(s), t, i + 1, b, c)
      BY <1>14, <2>1, <2>2, <2>3 DEF DropsPlan
    <2>5. Dropped(t, c, i + 1)'
      BY <1>13 DEF Dropped
    <2>6. DropsAhead(Tail(s), b, t, c, i + 1)'
      BY <1>1, <2>1, <2>4, <2>5 DEF DropsAhead, DropsPlan, Tip
    <2> QED BY <1>6, <1>9, <1>10, <2>1, <2>6
  <1> QED BY <1>15, <1>16

\* An alignment that does not start from a drop has all of its plan ahead of it.
LEMMA OrderStart ==
    ASSUME TypeOK, FlowInv, Ordered, Orderly', NEW p \in Proc, Stream(p),
           AlignStart(p)
    PROVE  Ordered'
  <1>1. \A q \in Proc : q # p => Kept(q)
    BY OthersKept DEF Work, AlignOuterSingleton
  <1>2. PICK tail, b, x : tail = SingletonTail /\ b = latest[p].hash /\ x = tail.hash
    OBVIOUS
  <1>3. /\ pc[p] = "align" /\ p \in leads \ aligned /\ cached[p] # NoNotice
        /\ torn' = (torn \/ tail.isFork)
        /\ \/ /\ CanAlign(p, x)
              /\ plan'[p] = AlignPlan(p, x)
              /\ pc'[p] = "catchup"
           \/ pc'[p] = "process"
        /\ UNCHANGED <<leads, aligned, single, latest>>
    BY <1>2 DEF AlignStart, Aligning, TryAgain, Goto, termVars, TypeOK
  <1>4. b \in Block /\ canon[p] = IndexOf(b) /\ single # <<>> /\ single \in Seq(OuterNotice)
    BY <1>2, <1>3, TipReached DEF FlowInv, Flow, TypeOK
  <1>5. tail \in OuterNotice /\ tail.isFork \in BOOLEAN
    <2>1. SingletonTail \in OuterNotice
      BY <1>4, TailIsLast
    <2> QED BY <1>2, <2>1 DEF OuterNotice
  <1>6. ~tail.isFork
    BY <1>3, <1>5 DEF Orderly, TypeOK
  <1>7. x \in Block /\ Upto(x) /\ tail = Tip(x)
    <2>1. x \in Block /\ Upto(Base(tail))
      BY <1>2, <1>4, <1>6 DEF Ordered, TopicInv
    <2>2. Base(tail) = x
      BY <1>2, <1>6 DEF Base
    <2>3. tail = Tip(x)
      BY <1>2, <1>5, <1>6 DEF Tip, OuterNotice
    <2> QED BY <2>1, <2>2, <2>3
  <1>8. /\ SingletonTail' = tail
        /\ \A y : (Shows(y)' <=> Shows(y)) /\ (Withdrew(y)' <=> Withdrew(y))
    BY <1>2, <1>3, TopicSame
  <1>9. ASSUME pc'[p] = "catchup" PROVE CatchInv(p)'
    <2>1. PICK s : s = AlignPlan(p, x)
      OBVIOUS
    <2>2. CanAlign(p, x) /\ plan'[p] = s /\ latest'[p].hash = b
      BY <1>2, <1>3, <1>9, <2>1
    <2>3. PICK c : c = CommonHeight(x, b)
      OBVIOUS
    <2>4. \/ /\ Height[x] \in 1 .. Height[b] /\ Anc[b][Height[x]] = x
             /\ NewsPlan(s, b, Height[x])
          \/ /\ c > 0 /\ c < Height[x] /\ c < Height[b]
             /\ DropsPlan(s, x, c, b, c)
      BY <1>2, <1>4, <1>7, <2>1, <2>2, <2>3, PlanShape
    <2>5. Height[x] \in Heights /\ Height[b] \in Heights /\ MaxHeight \in Nat
      BY <1>4, <1>7, HeightAssumption
    <2>6. CASE Anc[b][Height[x]] = x /\ NewsPlan(s, b, Height[x]) /\ Height[x] \in 1 .. Height[b]
      <3>1. PICK j \in 1 .. Height[b] : j = Height[x]
        BY <2>5, <2>6 DEF Heights
      <3>2. Anc[b][j] = x /\ NewsPlan(s, b, j)
        BY <2>6, <3>1
      <3>3. Upto(x)'
        BY <1>7, <1>8 DEF Upto
      <3>4. NewsAhead(s, b, j)'
        BY <1>7, <1>8, <3>2, <3>3 DEF NewsAhead, NewsPlan, Tip
      <3> QED BY <1>3, <1>4, <2>2, <3>4 DEF CatchInv
    <2>7. CASE c > 0 /\ c < Height[x] /\ c < Height[b] /\ DropsPlan(s, x, c, b, c)
      <3>1. c \in 1 .. Height[x] /\ c \in 1 .. Height[b] /\ Anc[x][c] = Anc[b][c]
        BY <1>4, <1>7, <2>3, <2>7, CommonFacts DEF MaybeBlock
      <3>2. c \in Heights /\ c <= c
        BY <2>5, <3>1 DEF Heights
      <3>3. Dropped(x, c, c)'
        <4>1. \A y \in Block : ~(c < Height[y] /\ Height[y] <= c)
          BY <3>2, HeightAssumption DEF Heights
        <4>2. \A y \in Block : IF Anc[x][Height[y]] = y THEN ~Withdrew(y)' ELSE ~Shows(y)'
          BY <1>7, <1>8 DEF Upto
        <4> QED BY <4>1, <4>2 DEF Dropped
      <3>4. DropsAhead(s, b, x, c, c)'
        BY <2>7, <3>1, <3>2, <3>3 DEF DropsAhead, DropsPlan, Tip
      <3> QED BY <1>3, <1>4, <1>7, <2>2, <3>2, <3>4 DEF CatchInv
    <2> QED BY <2>4, <2>6, <2>7
  <1> QED BY <1>1, <1>3, <1>9, OrderQuiet

\* align writes the next entry of its plan.
LEMMA OrderWrite ==
    ASSUME TypeOK, FlowInv, Ordered, NEW p \in Proc, AlignWrite(p)
    PROVE  Ordered'
  <1>1. \A q \in Proc : q # p => Kept(q)
    BY OthersKept DEF Work, AlignOuterSingleton
  <1>2. PICK s, b : s = plan[p] /\ b = latest[p].hash
    OBVIOUS
  <1>3. /\ pc[p] = "catchup" /\ s # <<>> /\ single' = Append(single, Head(s))
        /\ plan'[p] = Tail(s) /\ latest'[p].hash = b
        /\ UNCHANGED <<leads, aligned, pc>>
    BY <1>2 DEF AlignWrite, termVars, TypeOK
  <1>4. p \in leads /\ p \notin aligned /\ b \in Block /\ single \in Seq(OuterNotice)
    BY <1>2, <1>3 DEF FlowInv, Flow, TypeOK
  <1>5. \A q \in Proc : q # p => q \notin aligned' /\ pc'[q] # "catchup"
    BY <1>3, <1>4, SoleLeader DEF Ordered
  <1>6. aligned = {}
    BY <1>4 DEF TypeOK, Ordered, OneLeader
  <1>7. OneLeader'
    BY <1>3 DEF Ordered, OneLeader
  <1>8. \/ \E j \in 1 .. Height[b] : NewsAhead(s, b, j)
        \/ \E t \in Block, c \in Heights, i \in Heights : DropsAhead(s, b, t, c, i)
    BY <1>2, <1>3 DEF Ordered, CatchInv
  <1>9. TopicInv' /\ CatchInv(p)'
    <2>1. ASSUME NEW j \in 1 .. Height[b], NewsAhead(s, b, j) PROVE TopicInv' /\ CatchInv(p)'
      <3>1. /\ j + 1 \in 1 .. Height[b] /\ Anc[b][j + 1] \in Block
            /\ single' # <<>> /\ SingletonTail' = Tip(Anc[b][j + 1])
            /\ Upto(Anc[b][j + 1])' /\ NewsAhead(Tail(s), b, j + 1)'
        BY <1>3, <1>4, <2>1, NewsWritten
      <3>2. PICK y : y = Anc[b][j + 1]
        OBVIOUS
      <3>3. SingletonTail' = Tip(y) /\ y \in Block /\ Upto(y)'
        BY <3>1, <3>2
      <3>4. SingletonTail'.hash = y /\ ~SingletonTail'.isFork
        BY <3>3 DEF Tip
      <3>5. TopicInv'
        BY <3>3, <3>4 DEF TopicInv, Base
      <3>6. CatchInv(p)'
        BY <1>3, <3>1 DEF CatchInv
      <3> QED BY <3>5, <3>6
    <2>2. ASSUME NEW t \in Block, NEW c \in Heights, NEW i \in Heights,
                 DropsAhead(s, b, t, c, i)
          PROVE  TopicInv' /\ CatchInv(p)'
      <3>1. /\ single' # <<>> /\ SingletonTail'.isFork /\ SingletonTail'.hash \in Block
            /\ \/ i + 1 \in Heights /\ DropsAhead(Tail(s), b, t, c, i + 1)'
               \/ c \in 1 .. Height[b] /\ NewsAhead(Tail(s), b, c)'
        BY <1>3, <1>4, <2>2, DropsWritten
      <3>2. TopicInv'
        BY <1>3, <1>6, <3>1 DEF TopicInv
      <3>3. CatchInv(p)'
        BY <1>3, <3>1 DEF CatchInv
      <3> QED BY <3>2, <3>3
    <2> QED BY <1>8, <2>1, <2>2
  <1> QED BY <1>3, <1>4, <1>5, <1>7, <1>9 DEF Ordered

\* A process that becomes aligned is at the tail of the topic.
LEMMA OrderAligned ==
    ASSUME TypeOK, FlowInv, Ordered, NEW p \in Proc, Stream(p),
           AlignEmpty(p) \/ AlignDone(p)
    PROVE  Ordered'
  <1>1. \A q \in Proc : q # p => Kept(q)
    BY OthersKept DEF Work, AlignOuterSingleton
  <1>2. PICK b : b = latest[p].hash
    OBVIOUS
  <1>3. /\ p \in leads \ aligned /\ aligned' = aligned \cup {p} /\ leads' = leads
        /\ single' = single /\ pc'[p] = "idle" /\ latest'[p] = latest[p] /\ b \in Block
        /\ pc[p] \in {"align", "catchup"}
    BY <1>2 DEF AlignEmpty, AlignDone, BecomeAligned, Aligning, Handled, Rest, Goto, TypeOK,
       FlowInv, Flow
  <1>4. \A q \in Proc : q # p => q \notin aligned' /\ pc'[q] # "catchup"
    BY <1>1, <1>3, SoleLeader DEF Ordered, Kept
  <1>5. OneLeader'
    BY <1>3 DEF Ordered, OneLeader
  <1>6. /\ SingletonTail' = SingletonTail
        /\ \A y : (Shows(y)' <=> Shows(y)) /\ (Withdrew(y)' <=> Withdrew(y))
    BY <1>3, TopicSame
  <1>7. single = <<>> \/ (SingletonTail = Tip(b) /\ Upto(b))
    <2>1. CASE AlignEmpty(p)
      BY <2>1 DEF AlignEmpty
    <2>2. CASE AlignDone(p)
      <3>1. pc[p] = "catchup" /\ plan[p] = <<>>
        BY <2>2 DEF AlignDone
      <3>2. PICK s : s = plan[p]
        OBVIOUS
      <3>3. Len(s) = 0
        BY <3>1, <3>2
      <3>4. Height[b] \in Nat /\ Anc[b][Height[b]] = b
        <4>1. Height[b] \in Heights /\ MaxHeight \in Nat
          BY <1>3, HeightAssumption
        <4>2. Anc[b][Height[b]] = b
          BY <1>3, AncAssumption
        <4> QED BY <4>1, <4>2 DEF Heights
      <3>5. CatchInv(p)
        BY <3>1 DEF Ordered
      <3>6. ASSUME NEW j \in 1 .. Height[b], NewsAhead(s, b, j)
            PROVE  SingletonTail = Tip(b) /\ Upto(b)
        <4>1. Height[b] - j = 0
          BY <3>3, <3>6 DEF NewsAhead, NewsPlan
        <4>2. j = Height[b]
          BY <3>4, <4>1
        <4> QED BY <3>4, <3>6, <4>2 DEF NewsAhead
      <3>7. ASSUME NEW t \in Block, NEW c \in Heights, NEW i \in Heights,
                   DropsAhead(s, b, t, c, i)
            PROVE  FALSE
        <4>1. /\ c < Height[b] /\ i < Height[t]
              /\ (Height[t] - i) + (Height[b] - c) = 0
          BY <3>3, <3>7 DEF DropsAhead, DropsPlan
        <4>2. Height[t] \in Nat /\ c \in Nat /\ i \in Nat
          BY HeightAssumption DEF Heights
        <4> QED BY <3>4, <4>1, <4>2
      <3> QED BY <1>2, <3>2, <3>5, <3>6, <3>7 DEF CatchInv
    <2> QED BY <2>1, <2>2
  <1>8. TopicInv'
    <2>1. Upto(b) => Upto(b)'
      BY <1>6 DEF Upto
    <2>2. SingletonTail = Tip(b) => SingletonTail'.hash = b /\ ~SingletonTail'.isFork
      BY <1>6 DEF Tip
    <2> QED BY <1>3, <1>7, <2>1, <2>2 DEF TopicInv, Base
  <1>9. AlignedInv(p)'
    <2>1. Flow(p) /\ latest[p] = Tip(b)
      BY <1>2, <1>3, TipReached DEF FlowInv
    <2>2. CaughtUp(p)'
      BY <2>1, StreamHandled
    <2>3. single' = <<>> \/ SingletonTail' = latest'[p]
      BY <1>3, <1>6, <1>7, <2>1
    <2> QED BY <1>3, <2>2, <2>3 DEF AlignedInv
  <1>10. pc'[p] # "catchup"
    BY <1>3
  <1> QED BY <1>3, <1>4, <1>5, <1>8, <1>9, <1>10 DEF Ordered

\* Whatever becomes of the rest of a plan, the topic ends in a chain or in a drop.
LEMMA AlignEntry ==
    ASSUME TypeOK, NEW p \in Proc, latest[p].hash \in Block, CatchInv(p),
           plan[p] # <<>>, single' = Append(single, Head(plan[p])), aligned' = {}
    PROVE  TopicInv'
  <1>1. PICK s, b : s = plan[p] /\ b = latest[p].hash
    OBVIOUS
  <1>2. /\ b \in Block /\ single \in Seq(OuterNotice) /\ s # <<>>
        /\ single' = Append(single, Head(s))
    BY <1>1 DEF TypeOK
  <1>3. \/ \E j \in 1 .. Height[b] : NewsAhead(s, b, j)
        \/ \E t \in Block, c \in Heights, i \in Heights : DropsAhead(s, b, t, c, i)
    BY <1>1 DEF CatchInv
  <1>4. ASSUME NEW j \in 1 .. Height[b], NewsAhead(s, b, j) PROVE TopicInv'
    <2>1. PICK y : y = Anc[b][j + 1]
      OBVIOUS
    <2>2. y \in Block /\ single' # <<>> /\ SingletonTail' = Tip(y) /\ Upto(y)'
      BY <1>2, <1>4, <2>1, NewsWritten
    <2>3. SingletonTail'.hash = y /\ ~SingletonTail'.isFork
      BY <2>2 DEF Tip
    <2> QED BY <2>2, <2>3 DEF TopicInv, Base
  <1>5. ASSUME NEW t \in Block, NEW c \in Heights, NEW i \in Heights,
               DropsAhead(s, b, t, c, i)
        PROVE  TopicInv'
    <2>1. single' # <<>> /\ SingletonTail'.isFork /\ SingletonTail'.hash \in Block
      BY <1>2, <1>5, DropsWritten
    <2> QED BY <2>1 DEF TopicInv
  <1> QED BY <1>3, <1>4, <1>5

\* An alignment gives up after a write that nobody answered.
LEMMA OrderAlignFails ==
    ASSUME TypeOK, FlowInv, Ordered, NEW p \in Proc, AlignFails(p), UnansweredAlignWrite(p)
    PROVE  Ordered'
  <1>1. \A q \in Proc : q # p => Kept(q)
    BY OthersKept DEF Work
  <1>2. /\ pc[p] = "catchup" /\ pc'[p] = "process" /\ leads' = leads /\ aligned' = aligned
        /\ plan[p] # <<>> /\ single' = Append(single, Head(plan[p]))
    BY DEF UnansweredAlignWrite, AlignFails, TryAgain, Goto, termVars, TypeOK
  <1>3. p \in leads /\ p \notin aligned /\ latest[p].hash \in Block
    BY <1>2 DEF FlowInv, Flow
  <1>4. aligned = {}
    BY <1>3 DEF TypeOK, Ordered, OneLeader
  <1>5. TopicInv'
    BY <1>2, <1>3, <1>4, AlignEntry DEF Ordered
  <1>6. \A q \in Proc : pc'[q] # "catchup"
    <2>1. \A q \in Proc : q # p => pc[q] # "catchup"
      BY <1>3, SoleLeader DEF Ordered
    <2> QED BY <1>1, <1>2, <2>1 DEF Kept
  <1>7. OneLeader'
    BY <1>2 DEF Ordered, OneLeader
  <1> QED BY <1>2, <1>4, <1>5, <1>6, <1>7 DEF Ordered

\* A crash ends the term of the process; a write under way is one more entry of its
\* message or of its plan.
LEMMA OrderCrash ==
    ASSUME TypeOK, FlowInv, Ordered, NEW p \in Proc, Crash(p)
    PROVE  Ordered'
  <1>1. \A q \in Proc : q # p => Kept(q)
    BY OthersKept DEF Work
  <1>2. pc'[p] = "idle"
    BY DEF Crash, Rest, Goto, TypeOK
  <1>3. p \in leads => leads' = leads \ {p} /\ aligned' = aligned \ {p}
    BY DEF Crash, StepDown
  <1>4. p \notin leads => leads' = leads /\ aligned' = aligned /\ p \notin aligned
    BY DEF Crash, termVars, TypeOK
  <1>5. leads' \subseteq leads /\ aligned' = aligned \ {p}
    BY <1>3, <1>4
  <1>6. CASE single' = single
    BY <1>1, <1>2, <1>5, <1>6, OrderQuiet
  <1>7. ASSUME p \in leads, TopicInv' PROVE Ordered'
    <2>1. \A q \in Proc : q # p => q \notin aligned /\ pc[q] # "catchup"
      BY <1>7, SoleLeader DEF Ordered
    <2>2. \A q \in Proc : q \notin aligned' /\ pc'[q] # "catchup"
      BY <1>1, <1>2, <1>5, <2>1 DEF Kept
    <2>3. OneLeader'
      BY <1>5 DEF Ordered, OneLeader
    <2> QED BY <1>7, <2>2, <2>3 DEF Ordered
  <1>8. ASSUME pc[p] = "publish", "singleton" \in Due(p), single' = Append(single, Item(p))
        PROVE  Ordered'
    <2>1. p \in aligned /\ p \in leads
      BY <1>8 DEF Due, Targets
    <2>2. PICK k \in 0 .. OuterCount(todo[p]), w \in 0 .. OuterCount(todo[p]) : Prefix(p, k, w)
      BY <1>8, <2>1 DEF Ordered, AlignedInv
    <2>3. PICK o : o = Item(p)
      OBVIOUS
    <2>4. PICK e \in OuterNotice : e.hash \in Block /\ Upto(Base(e)) /\ Follows(e, o)
      BY <1>8, <2>1, <2>2, <2>3, NextEntry
    <2>5. o \in OuterNotice /\ o.hash \in Block /\ single \in Seq(OuterNotice)
      BY <1>8, <2>3, ItemTyped DEF FlowInv, TypeOK
    <2>6. single' # <<>> /\ SingletonTail' = o
      BY <1>8, <2>3, <2>5, WordAfter
    <2>7. Upto(Base(o))'
      BY <1>8, <2>3, <2>4, <2>5, FollowKeeps
    <2>8. TopicInv'
      BY <2>5, <2>6, <2>7 DEF TopicInv, Base
    <2> QED BY <1>7, <2>1, <2>8
  <1>9. ASSUME pc[p] = "catchup", plan[p] # <<>>, single' = Append(single, Head(plan[p]))
        PROVE  Ordered'
    <2>1. p \in leads /\ latest[p].hash \in Block
      BY <1>9 DEF FlowInv, Flow
    <2>2. aligned' = {}
      BY <1>5, <2>1 DEF TypeOK, Ordered, OneLeader
    <2>3. TopicInv'
      BY <1>9, <2>1, <2>2, AlignEntry DEF Ordered
    <2> QED BY <1>7, <2>1, <2>3
  <1>10. \/ single' = single
         \/ /\ pc[p] = "publish" /\ "singleton" \in Due(p)
            /\ single' = Append(single, Item(p))
         \/ /\ pc[p] = "catchup" /\ plan[p] # <<>>
            /\ single' = Append(single, Head(plan[p]))
    BY CrashWrites DEF FlowInv
  <1> QED BY <1>6, <1>8, <1>9, <1>10
\* The order of the topic is kept by every step.
LEMMA OrderNext ==
    ASSUME TypeOK, FlowInv, StreamInv, OrderInv, [Next]_vars PROVE OrderInv'
  <1> SUFFICES ASSUME Orderly' PROVE Ordered'
    BY DEF OrderInv
  <1>0. Ordered /\ \A p \in Proc : Stream(p)
    BY OrderlyBefore DEF OrderInv, StreamInv, Orderly
  <1>1. CASE UNCHANGED vars
    <2>1. /\ single' = single /\ leads' = leads /\ aligned' = aligned
          /\ \A q \in Proc : Kept(q)
      BY <1>1 DEF vars, termVars, flowVars, logVars, Kept
    <2> QED BY <1>0, <2>1, OrderQuiet
  <1>2. CASE LeaseRunsOut \/ \E p \in Proc : ChangeToChainLeader(p) \/ RevokeChainLeader(p)
    BY <1>0, <1>2, OrderTerm
  <1>3. ASSUME NEW p \in Proc, Work(p) PROVE Ordered'
    <2>1. CASE Receive(p) \/ Redeliver(p)
      BY <1>0, <2>1, OrderReceive
    <2>2. CASE BeginProcessed(p) \/ BeginNew(p)
      BY <1>0, <2>2, OrderBegin
    <2>3. CASE PublishOuter(p) \/ PublishFails(p)
      BY <1>0, <2>3, OrderPublish
    <2>4. CASE AlignNotNeeded(p) \/ AlignLater(p) \/ FetchSingletonTail(p)
      BY <1>0, <2>4, OrderHandled
    <2>5. CASE AlignEmpty(p) \/ AlignDone(p)
      BY <1>0, <2>5, OrderAligned
    <2>6. CASE AlignStart(p)
      BY <1>0, <2>6, OrderStart
    <2>7. CASE AlignWrite(p)
      BY <1>0, <2>7, OrderWrite
    <2>8. CASE AlignFails(p)
      <3>1. single' = single \/ UnansweredAlignWrite(p)
        BY <2>8 DEF AlignFails
      <3> QED BY <1>0, <2>8, <3>1, OrderHandled, OrderAlignFails
    <2>9. CASE CommitMessages(p)
      BY <1>0, <2>9, OrderCommit
    <2>10. CASE Crash(p)
      BY <1>0, <2>10, OrderCrash
    <2> QED BY <1>3, <2>1, <2>2, <2>3, <2>4, <2>5, <2>6, <2>7, <2>8, <2>9, <2>10
            DEF Work, AlignOuterSingleton
  <1> QED BY <1>1, <1>2, <1>3, StepKinds

-----------------------------------------------------------------------------
\* The inductive invariant: types, the place of each process in its message, its
\* relation to its stream as long as no crash replayed older messages, and the order of
\* the topic as long as terms do not overlap and no alignment starts from a drop.
THEOREM SingletonInductive == Spec => [](TypeOK /\ FlowInv /\ StreamInv /\ OrderInv)
  <1> DEFINE Inv == TypeOK /\ FlowInv /\ StreamInv /\ OrderInv
  <1>1. Init => Inv
    <2> SUFFICES ASSUME Init PROVE Inv
      OBVIOUS
    <2>1. leads = {} /\ aligned = {} /\ single = <<>> /\ \A p \in Proc : pc[p] # "catchup"
      BY DEF Init, TermInit
    <2>2. OrderInv
      BY <2>1 DEF OrderInv, Ordered, OneLeader, TopicInv
    <2> QED BY <2>2, FlowInit, StreamInit
  <1>2. Inv /\ [Next]_vars => Inv'
    BY FlowNext, StreamNext, OrderNext
  <1> QED BY <1>1, <1>2, PTL DEF Spec

\* With one leader at a time, no alignment that starts from a drop and no crash with two
\* messages uncommitted, the singleton topic shows exactly the chain of an aligned leader
\* whenever that leader is between two messages.
THEOREM TopicShowsChain == Spec => []OrderlyShowsChain
  <1>1. ASSUME TypeOK, FlowInv, StreamInv, OrderInv PROVE OrderlyShowsChain
    <2> SUFFICES ASSUME Orderly, NEW p \in aligned, pc[p] = "idle", single # <<>>
                 PROVE  Shows(latest[p].hash) /\ Upto(latest[p].hash)
      BY DEF OrderlyShowsChain, AlignedShowsChain, ShowsChainOf, Upto
    <2>1. PICK b : b = latest[p].hash
      OBVIOUS
    <2>2. p \in Proc /\ b \in Block /\ single \in Seq(OuterNotice) /\ aligned # {}
      BY <1>1, <2>1 DEF TypeOK, FlowInv, Flow
    <2>3. Ordered /\ Stream(p)
      BY <1>1, <2>2 DEF OrderInv, StreamInv, Orderly
    <2>4. CaughtUp(p) /\ SingletonTail = latest[p]
      BY <2>2, <2>3 DEF Ordered, AlignedInv
    <2>5. SingletonTail.hash = b /\ ~SingletonTail.isFork
      <3>1. latest[p] = Tip(b)
        BY <2>1, <2>3, <2>4 DEF Stream
      <3> QED BY <2>4, <3>1 DEF Tip
    <2>6. LastWord(b) = SingletonTail
      BY <2>2, <2>5, TailIsLast
    <2>7. SingletonTail # NoNotice
      BY <2>2, <2>5, NoBlockAssumption DEF NoNotice
    <2>8. Shows(b)
      BY <2>5, <2>6, <2>7 DEF Shows
    <2>9. Upto(b)
      BY <2>2, <2>3, <2>5 DEF Ordered, TopicInv, Base
    <2> QED BY <2>1, <2>8, <2>9
  <1> QED BY <1>1, SingletonInductive, PTL

\* Only publishOuter, or a process that dies in it, writes to the singleton topic without
\* taking from a plan of align.
LEMMA Publisher ==
    ASSUME TypeOK, FlowInv, [Next]_vars, single' # single, plan' = plan
    PROVE  \E p \in Proc : /\ pc[p] = "publish" /\ "singleton" \in Due(p)
                           /\ single' = Append(single, Item(p))
  <1>1. ~(UNCHANGED vars) /\ ~LeaseRunsOut
    BY DEF LeaseRunsOut, vars
  <1>2. \A p \in Proc : ~ChangeToChainLeader(p) /\ ~RevokeChainLeader(p)
    BY DEF ChangeToChainLeader, RevokeChainLeader
  <1>3. PICK p \in Proc : Work(p)
    BY <1>1, <1>2, StepKinds
  <1>4. Flow(p) /\ plan[p] \in Seq(OuterNotice)
    BY DEF FlowInv, TypeOK
  <1>5. CASE PublishOuter(p) \/ PublishFails(p)
    <2>1. pc[p] = "publish"
      BY <1>5 DEF PublishOuter, PublishFails
    <2>2. PICK wrote \in SUBSET {"version", "singleton"} :
             /\ wrote \subseteq Due(p)
             /\ single' = IF "singleton" \in wrote THEN Append(single, Item(p)) ELSE single
      BY <1>4, <1>5, PublishWrites
    <2> QED BY <2>1, <2>2
  <1>6. CASE Crash(p)
    <2>1. plan'[p] = <<>>
      BY <1>6 DEF Crash, TypeOK
    <2> QED BY <1>4, <1>6, <2>1, CrashWrites
  <1>7. CASE AlignWrite(p)
    <2>1. plan[p] # <<>> /\ plan'[p] = Tail(plan[p])
      BY <1>7 DEF AlignWrite, TypeOK
    <2>2. Len(Tail(plan[p])) = Len(plan[p]) - 1 /\ Len(plan[p]) \in Nat
      BY <1>4, <2>1, HeadTailProperties, LenProperties
    <2>3. plan'[p] = plan[p]
      OBVIOUS
    <2>4. Len(plan[p]) = Len(plan[p]) - 1
      BY <2>1, <2>2, <2>3
    <2> QED BY <2>2, <2>4
  <1>8. CASE AlignFails(p)
    <2>1. plan'[p] = <<>> /\ plan[p] # <<>>
      BY <1>8 DEF AlignFails, UnansweredAlignWrite, TypeOK
    <2> QED BY <2>1
  <1>9. CASE \/ Receive(p) \/ Redeliver(p) \/ BeginProcessed(p) \/ BeginNew(p)
             \/ CommitMessages(p) \/ AlignNotNeeded(p) \/ AlignEmpty(p)
             \/ FetchSingletonTail(p) \/ AlignLater(p) \/ AlignStart(p) \/ AlignDone(p)
    BY <1>9 DEF Receive, Redeliver, BeginProcessed, BeginNew, CommitMessages, AlignNotNeeded,
       AlignEmpty, FetchSingletonTail, AlignLater, AlignStart, AlignDone, Handled
  <1> QED BY <1>3, <1>5, <1>6, <1>7, <1>8, <1>9 DEF Work, AlignOuterSingleton

\* Under the same conditions each entry publishOuter adds to the singleton topic follows
\* the one before it, across failures, lost answers, retries, crashes between the two
\* destinations and handovers between versions.
THEOREM TopicFollows == Spec => PublishFollows
  <1> DEFINE Adds == single' # single /\ plan' = plan /\ single # <<>> /\ Orderly
                     => Follows(SingletonTail, single'[Len(single')])
  <1>1. ASSUME TypeOK, FlowInv, OrderInv, [Next]_vars PROVE Adds
    <2> SUFFICES ASSUME single' # single, plan' = plan, single # <<>>, Orderly
                 PROVE  Follows(SingletonTail, single'[Len(single')])
      OBVIOUS
    <2>1. PICK p \in Proc : /\ pc[p] = "publish" /\ "singleton" \in Due(p)
                            /\ single' = Append(single, Item(p))
      BY <1>1, Publisher
    <2>2. PICK o : o = Item(p)
      OBVIOUS
    <2>3. p \in aligned
      BY <2>1 DEF Due, Targets
    <2>4. Ordered
      BY <1>1 DEF OrderInv
    <2>5. PICK k \in 0 .. OuterCount(todo[p]), w \in 0 .. OuterCount(todo[p]) : Prefix(p, k, w)
      BY <2>1, <2>3, <2>4 DEF Ordered, AlignedInv
    <2>6. Follows(SingletonTail, o)
      BY <1>1, <2>1, <2>2, <2>3, <2>4, <2>5, NextEntry
    <2>7. o \in OuterNotice /\ single \in Seq(OuterNotice)
      BY <1>1, <2>1, <2>2, ItemTyped DEF FlowInv, TypeOK
    <2>8. single'[Len(single')] = o
      BY <2>1, <2>2, <2>7, AppendProperties
    <2> QED BY <2>6, <2>8
  <1>2. TypeOK /\ FlowInv /\ OrderInv /\ [Next]_vars => [Adds]_vars
    BY <1>1
  <1> QED BY <1>2, SingletonInductive, PTL DEF Spec, PublishFollows

-----------------------------------------------------------------------------
(***************************************************************************)
(* Synchronous commits.                                                    *)
(***************************************************************************)
OneUncommitted == \A p \in Proc : Len(inner[p]) <= 1

\* With commit_interval unset a message is committed before the next one is fetched, so
\* no crash, wherever it falls, replays more than the last message: the two theorems above
\* then rest on one leader at a time and on no alignment from a drop alone.
THEOREM SyncNeverReplays ==
    ASSUME ~AsyncCommit PROVE Spec => []~replayed
  <1> DEFINE Inv == OneUncommitted /\ ~replayed
  <1>1. Init => Inv
    BY DEF Init, OneUncommitted
  <1>2. ASSUME TypeOK, FlowInv, Inv, [Next]_vars PROVE Inv'
    <2>1. \A q \in Proc : Len(inner[q]) <= 1
      BY <1>2 DEF OneUncommitted
    <2>2. CASE UNCHANGED vars \/ LeaseRunsOut
               \/ \E p \in Proc : ChangeToChainLeader(p) \/ RevokeChainLeader(p)
      BY <1>2, <2>2 DEF vars, logVars, histVars, LeaseRunsOut, ChangeToChainLeader,
         RevokeChainLeader, OneUncommitted
    <2>3. ASSUME NEW p \in Proc, Work(p) PROVE Inv'
      <3>1. \A q \in Proc : q # p => inner'[q] = inner[q]
        BY <1>2, <2>3, OthersKept DEF Kept
      <3>2. Len(inner'[p]) <= 1
        <4>1. CASE Receive(p)
          <5>1. PICK n : inner' = [inner EXCEPT ![p] = Append(@, n)]
            BY <4>1 DEF Receive
          <5>2. inner[p] = <<>> /\ inner'[p] = Append(<<>>, n)
            BY <1>2, <4>1, <5>1 DEF Receive, TypeOK
          <5> QED BY <5>2
        <4>2. CASE CommitMessages(p)
          <5>1. PICK k \in 1 .. Len(inner[p]) : Len(inner'[p]) = Len(inner[p]) - k
            BY <1>2, <4>2, CommitKeeps DEF FlowInv
          <5> QED BY <2>1, <5>1
        <4>3. CASE ~Receive(p) /\ ~CommitMessages(p)
          <5>1. inner' = inner
            BY <2>3, <4>3 DEF Work, Redeliver, BeginProcessed, BeginNew, PublishOuter,
               PublishFails, AlignOuterSingleton, AlignNotNeeded, AlignEmpty,
               FetchSingletonTail, AlignLater, AlignStart, AlignWrite, AlignDone, AlignFails,
               Crash, Handled, logVars
          <5> QED BY <2>1, <5>1
        <4> QED BY <4>1, <4>2, <4>3
      <3>3. replayed' = replayed \/ replayed' = (replayed \/ Len(inner[p]) > 1)
        BY <2>3 DEF Work, Receive, Redeliver, BeginProcessed, BeginNew, PublishOuter,
           PublishFails, CommitMessages, AlignOuterSingleton, AlignNotNeeded, AlignEmpty,
           FetchSingletonTail, AlignLater, AlignStart, AlignWrite, AlignDone, AlignFails,
           Crash, Handled, histVars
      <3>4. ~(Len(inner[p]) > 1)
        <4>1. Len(inner[p]) \in Nat /\ Len(inner[p]) <= 1
          BY <1>2, <2>1 DEF TypeOK
        <4> QED BY <4>1
      <3>5. ~replayed'
        BY <1>2, <3>3, <3>4, Zenon
      <3>6. OneUncommitted'
        BY <2>1, <3>1, <3>2 DEF OneUncommitted
      <3> QED BY <3>5, <3>6
    <2> QED BY <1>2, <2>2, <2>3, StepKinds
  <1>3. TypeOK /\ FlowInv /\ Inv /\ [Next]_vars => Inv'
    BY <1>2
  <1> QED BY <1>1, <1>3, SingletonInductive, PTL DEF Spec
=============================================================================
