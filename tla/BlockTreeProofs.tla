-------------------------- MODULE BlockTreeProofs --------------------------
(***************************************************************************)
(* Facts about blocks, notices and the outer notices of a notice, for      *)
(* every tree that BlockTree admits.                                       *)
(***************************************************************************)
EXTENDS BlockTree, TLAPS

\* The runs of blocks a notice names lie within the instance's heights.
LEMMA NoticeFacts ==
    ASSUME NEW n \in Notice, n.first <= Height[n.tail]
    PROVE  /\ Height[n.old] \in 0 .. MaxHeight
           /\ Height[n.tail] \in Heights
           /\ n.first \in Heights
           /\ DropCount(n) \in Nat
           /\ NewCount(n) \in Nat \ {0}
           /\ OuterCount(n) \in Nat \ {0}
    BY HeightAssumption, NoBlockAssumption
       DEF Notice, MaybeBlock, Heights, DropCount, NewCount, OuterCount

\* Every outer notice WriteDropBlockNotice and WriteNewBlockNotice publish for a
\* notice is about a real block.
LEMMA ItemFacts ==
    ASSUME NEW n \in Notice, n.first <= Height[n.tail],
           NEW i \in 1 .. OuterCount(n)
    PROVE  /\ OuterItem(n, i) \in OuterNotice
           /\ OuterItem(n, i).hash \in Block
           /\ Height[OuterItem(n, i).hash] \in Heights
<1>1. /\ n.old \in MaybeBlock /\ n.tail \in MaybeBlock
      /\ n.first \in Heights
      /\ Height[n.old] \in 0 .. MaxHeight /\ Height[n.tail] \in 0 .. MaxHeight
      /\ MaxHeight \in Nat
      BY HeightAssumption, NoticeFacts DEF Notice, MaybeBlock
<1>2. \A b \in MaybeBlock, h \in 0 .. MaxHeight : Anc[b][h] \in MaybeBlock
      BY AncAssumption
<1>3. \A b \in MaybeBlock, h \in 0 .. MaxHeight :
          h \in 1 .. Height[b] => Anc[b][h] \in Block
      BY <1>2, AncAssumption DEF MaybeBlock
<1>4. CASE i <= DropCount(n)
  <2>1. Height[n.old] - i + 1 \in 1 .. Height[n.old]
        BY <1>1, <1>4 DEF DropCount, Heights
  <2>2. Anc[n.old][Height[n.old] - i + 1] \in Block
        BY <1>1, <1>3, <2>1
  <2>. QED BY <1>4, <2>2, HeightAssumption DEF OuterItem, OuterNotice, MaybeBlock
<1>5. CASE ~(i <= DropCount(n))
  <2>1. n.first + i - DropCount(n) - 1 \in 1 .. Height[n.tail]
        BY <1>1, <1>5, NoticeFacts DEF OuterCount, NewCount, Heights
  <2>2. Anc[n.tail][n.first + i - DropCount(n) - 1] \in Block
        BY <1>1, <1>3, <2>1
  <2>. QED BY <1>5, <2>2, HeightAssumption DEF OuterItem, OuterNotice, MaybeBlock
<1>. QED BY <1>4, <1>5

\* Ancestors within the instance.
LEMMA Ancestors ==
    ASSUME NEW b \in MaybeBlock, NEW h \in 1 .. Height[b]
    PROVE  /\ h \in Heights /\ b \in Block
           /\ Anc[b][h] \in Block /\ Height[Anc[b][h]] = h
           /\ \A k \in 0 .. h : Anc[Anc[b][h]][k] = Anc[b][k]
           /\ Parent(Anc[b][h]) = Anc[b][h - 1]
  <1>1. Height[b] \in 0 .. MaxHeight /\ MaxHeight \in Nat
    BY HeightAssumption
  <1>2. h \in Heights /\ h \in 0 .. MaxHeight /\ h - 1 \in 0 .. h
    BY <1>1 DEF Heights
  <1>3. b \in Block
    <2>1. b # NoBlock
      BY HeightAssumption
    <2> QED BY <2>1 DEF MaybeBlock
  <1>4. Anc[b][h] \in MaybeBlock /\ Anc[b][h] # NoBlock /\ Height[Anc[b][h]] = h
    BY <1>2, AncAssumption
  <1>5. \A k \in 0 .. h : Anc[Anc[b][h]][k] = Anc[b][k]
    BY <1>3, AncAssumption
  <1>6. Parent(Anc[b][h]) = Anc[b][h - 1]
    BY <1>2, <1>4, <1>5 DEF Parent
  <1> QED BY <1>2, <1>3, <1>4, <1>5, <1>6 DEF MaybeBlock

\* A well-formed notice in numbers.
LEMMA Shape ==
    ASSUME NEW n \in Notice, WellFormed(n)
    PROVE  /\ n.old \in MaybeBlock /\ n.tail \in Block /\ n.tail \in MaybeBlock
           /\ n.first \in Nat \ {0} /\ n.first <= Height[n.tail]
           /\ Height[n.tail] \in Nat /\ Height[n.old] \in Nat
           /\ DropCount(n) \in Nat /\ OuterCount(n) \in Nat \ {0}
           /\ DropCount(n) + 1 <= OuterCount(n)
           /\ OuterCount(n) = DropCount(n) + (Height[n.tail] - n.first + 1)
           /\ DropCount(n) > 0 => DropCount(n) = Height[n.old] - n.first + 1
           /\ DropCount(n) = 0 => Height[n.old] < n.first
           /\ Height[n.old] + 1 >= n.first
           /\ Anc[n.old][n.first - 1] = Anc[n.tail][n.first - 1]
           /\ n.tail # n.old
  <1>1. /\ n.old \in MaybeBlock /\ n.tail \in Block /\ n.tail \in MaybeBlock
        /\ n.first \in Heights /\ n.first <= Height[n.tail]
        /\ Anc[n.old][n.first - 1] = Anc[n.tail][n.first - 1]
        /\ Anc[n.old][n.first] # Anc[n.tail][n.first]
    BY DEF Notice, WellFormed, MaybeBlock
  <1>2. /\ n.first \in Nat \ {0} /\ MaxHeight \in Nat
        /\ Height[n.tail] \in 0 .. MaxHeight /\ Height[n.old] \in 0 .. MaxHeight
    BY <1>1, HeightAssumption DEF Heights
  <1>3. Height[n.old] + 1 >= n.first
    <2>1. CASE n.first = 1
      BY <1>2, <2>1
    <2>2. CASE n.first # 1
      <3>1. n.first - 1 \in 1 .. Height[n.tail] /\ n.first - 1 \in 0 .. MaxHeight
        BY <1>1, <1>2, <2>2
      <3>2. Anc[n.old][n.first - 1] # NoBlock
        BY <1>1, <3>1, AncAssumption
      <3>3. n.first - 1 \in 1 .. Height[n.old]
        BY <1>1, <3>1, <3>2, AncAssumption
      <3> QED BY <1>2, <3>3
    <2> QED BY <2>1, <2>2
  <1>4. n.tail # n.old
    BY <1>1
  <1> QED BY <1>1, <1>2, <1>3, <1>4 DEF DropCount, NewCount, OuterCount

\* The drops of a notice, from the tip down.
LEMMA DropItem ==
    ASSUME NEW n \in Notice, WellFormed(n), NEW i \in 1 .. DropCount(n)
    PROVE  /\ OuterItem(n, i).isFork = TRUE
           /\ OuterItem(n, i).hash = Anc[n.old][Height[n.old] - i + 1]
           /\ OuterItem(n, i) = [hash |-> Anc[n.old][Height[n.old] - i + 1], isFork |-> TRUE]
           /\ OuterItem(n, i).hash \in Block
           /\ Height[OuterItem(n, i).hash] = Height[n.old] - i + 1
           /\ Height[n.old] - i + 1 \in n.first .. Height[n.old]
           /\ Parent(OuterItem(n, i).hash) = Anc[n.old][Height[n.old] - i]
           /\ Anc[OuterItem(n, i).hash][n.first] = Anc[n.old][n.first]
  <1> DEFINE h == Height[n.old] - i + 1
  <1>1. /\ h \in 1 .. Height[n.old] /\ h \in n.first .. Height[n.old]
        /\ n.first \in 0 .. h /\ h - 1 = Height[n.old] - i
        /\ n.old \in MaybeBlock /\ i <= DropCount(n)
    <2>1. /\ n.old \in MaybeBlock /\ n.first \in Nat \ {0} /\ Height[n.old] \in Nat
          /\ DropCount(n) \in Nat
          /\ DropCount(n) > 0 => DropCount(n) = Height[n.old] - n.first + 1
      BY Shape
    <2>2. i \in Nat /\ i >= 1 /\ i <= Height[n.old] - n.first + 1 /\ i <= DropCount(n)
      BY <2>1
    <2> QED BY <2>1, <2>2
  <1>2. OuterItem(n, i) = [hash |-> Anc[n.old][h], isFork |-> TRUE]
    BY <1>1 DEF OuterItem
  <1> HIDE DEF h
  <1>3. /\ Anc[n.old][h] \in Block /\ Height[Anc[n.old][h]] = h
        /\ Parent(Anc[n.old][h]) = Anc[n.old][h - 1]
        /\ Anc[Anc[n.old][h]][n.first] = Anc[n.old][n.first]
    BY <1>1, Ancestors
  <1>4. h = Height[n.old] - i + 1
    BY DEF h
  <1> QED BY <1>1, <1>2, <1>3, <1>4

\* The new blocks of a notice, from the lowest up.
LEMMA NewItem ==
    ASSUME NEW n \in Notice, WellFormed(n), NEW i \in DropCount(n) + 1 .. OuterCount(n)
    PROVE  /\ OuterItem(n, i).isFork = FALSE
           /\ OuterItem(n, i).hash = Anc[n.tail][n.first + i - DropCount(n) - 1]
           /\ OuterItem(n, i) = [hash |-> Anc[n.tail][n.first + i - DropCount(n) - 1], isFork |-> FALSE]
           /\ OuterItem(n, i).hash \in Block
           /\ Height[OuterItem(n, i).hash] = n.first + i - DropCount(n) - 1
           /\ n.first + i - DropCount(n) - 1 \in n.first .. Height[n.tail]
           /\ Parent(OuterItem(n, i).hash) = Anc[n.tail][n.first + i - DropCount(n) - 2]
           /\ Anc[OuterItem(n, i).hash][n.first] = Anc[n.tail][n.first]
  <1> DEFINE h == n.first + i - DropCount(n) - 1
  <1>1. /\ h \in 1 .. Height[n.tail] /\ h \in n.first .. Height[n.tail]
        /\ n.first \in 0 .. h /\ h - 1 = n.first + i - DropCount(n) - 2
        /\ n.tail \in MaybeBlock /\ ~(i <= DropCount(n))
    BY Shape
  <1>2. OuterItem(n, i) = [hash |-> Anc[n.tail][h], isFork |-> FALSE]
    BY <1>1 DEF OuterItem
  <1> HIDE DEF h
  <1>3. /\ Anc[n.tail][h] \in Block /\ Height[Anc[n.tail][h]] = h
        /\ Parent(Anc[n.tail][h]) = Anc[n.tail][h - 1]
        /\ Anc[Anc[n.tail][h]][n.first] = Anc[n.tail][n.first]
    BY <1>1, Ancestors
  <1>4. h = n.first + i - DropCount(n) - 1
    BY DEF h
  <1> QED BY <1>1, <1>2, <1>3, <1>4

\* Each outer notice of a message follows the one before it, the last one is the
\* tail, and the head the message moves is followed by the first.
LEMMA ItemsFollow ==
    ASSUME NEW n \in Notice, WellFormed(n)
    PROVE  /\ \A i \in 1 .. OuterCount(n) : Follows(OuterItem(n, i), OuterItem(n, i))
           /\ \A i \in 1 .. OuterCount(n) - 1 : Follows(OuterItem(n, i), OuterItem(n, i + 1))
           /\ OuterItem(n, OuterCount(n)) = [hash |-> n.tail, isFork |-> FALSE]
           /\ n.old # NoBlock =>
                 Follows([hash |-> n.old, isFork |-> FALSE], OuterItem(n, 1))
  <1>0. /\ n.old \in MaybeBlock /\ n.tail \in Block
        /\ n.first \in Nat \ {0} /\ n.first <= Height[n.tail]
        /\ Height[n.tail] \in Nat /\ Height[n.old] \in Nat
        /\ DropCount(n) \in Nat /\ OuterCount(n) \in Nat \ {0}
        /\ DropCount(n) + 1 <= OuterCount(n)
        /\ OuterCount(n) = DropCount(n) + (Height[n.tail] - n.first + 1)
        /\ DropCount(n) > 0 => DropCount(n) = Height[n.old] - n.first + 1
        /\ DropCount(n) = 0 => Height[n.old] < n.first
        /\ Height[n.old] + 1 >= n.first
        /\ Anc[n.old][n.first - 1] = Anc[n.tail][n.first - 1]
    BY Shape
  <1>1. ASSUME NEW i \in 1 .. OuterCount(n) - 1
        PROVE  Follows(OuterItem(n, i), OuterItem(n, i + 1))
    <2>1. CASE i + 1 <= DropCount(n)
      <3>1. i \in 1 .. DropCount(n) /\ i + 1 \in 1 .. DropCount(n)
        BY <1>0, <2>1
      <3>2. Parent(OuterItem(n, i).hash) = Anc[n.old][Height[n.old] - i]
            /\ OuterItem(n, i).isFork = TRUE
        BY <3>1, DropItem
      <3>3. OuterItem(n, i + 1).hash = Anc[n.old][Height[n.old] - (i + 1) + 1]
            /\ OuterItem(n, i + 1).isFork = TRUE
        BY <3>1, DropItem
      <3>4. Height[n.old] - (i + 1) + 1 = Height[n.old] - i
        BY <1>0
      <3> QED BY <3>2, <3>3, <3>4 DEF Follows
    <2>2. CASE i = DropCount(n)
      <3>1. i \in 1 .. DropCount(n) /\ i + 1 \in DropCount(n) + 1 .. OuterCount(n)
        BY <1>0, <2>2
      <3>2. Parent(OuterItem(n, i).hash) = Anc[n.old][Height[n.old] - i]
            /\ OuterItem(n, i).isFork = TRUE
        BY <3>1, DropItem
      <3>3. Parent(OuterItem(n, i + 1).hash)
               = Anc[n.tail][n.first + (i + 1) - DropCount(n) - 2]
            /\ OuterItem(n, i + 1).isFork = FALSE
        BY <3>1, NewItem
      <3>4. /\ Height[n.old] - i = n.first - 1
            /\ n.first + (i + 1) - DropCount(n) - 2 = n.first - 1
        BY <1>0, <2>2
      <3> QED BY <1>0, <3>2, <3>3, <3>4 DEF Follows
    <2>3. CASE i > DropCount(n)
      <3>1. /\ i \in DropCount(n) + 1 .. OuterCount(n)
            /\ i + 1 \in DropCount(n) + 1 .. OuterCount(n)
        BY <1>0, <2>3
      <3>2. OuterItem(n, i).hash = Anc[n.tail][n.first + i - DropCount(n) - 1]
            /\ OuterItem(n, i).isFork = FALSE
        BY <3>1, NewItem
      <3>3. Parent(OuterItem(n, i + 1).hash)
               = Anc[n.tail][n.first + (i + 1) - DropCount(n) - 2]
            /\ OuterItem(n, i + 1).isFork = FALSE
        BY <3>1, NewItem
      <3>4. n.first + (i + 1) - DropCount(n) - 2 = n.first + i - DropCount(n) - 1
        BY <1>0
      <3> QED BY <3>2, <3>3, <3>4 DEF Follows
    <2> QED BY <1>0, <2>1, <2>2, <2>3
  <1>2. OuterItem(n, OuterCount(n)) = [hash |-> n.tail, isFork |-> FALSE]
    <2>1. OuterCount(n) \in DropCount(n) + 1 .. OuterCount(n)
      BY <1>0
    <2>2. n.first + OuterCount(n) - DropCount(n) - 1 = Height[n.tail]
      BY <1>0
    <2>3. OuterItem(n, OuterCount(n)) = [hash |-> Anc[n.tail][Height[n.tail]], isFork |-> FALSE]
      BY <2>1, <2>2, NewItem
    <2> QED BY <1>0, <2>3, AncAssumption
  <1>3. ASSUME n.old # NoBlock
        PROVE  Follows([hash |-> n.old, isFork |-> FALSE], OuterItem(n, 1))
    <2>0. n.old \in Block /\ Height[n.old] >= 1 /\ Anc[n.old][Height[n.old]] = n.old
      BY <1>0, <1>3, AncAssumption, HeightAssumption DEF MaybeBlock, Heights
    <2>1. CASE DropCount(n) > 0
      <3>1. 1 \in 1 .. DropCount(n) /\ Height[n.old] - 1 + 1 = Height[n.old]
        BY <1>0, <2>1
      <3>2. OuterItem(n, 1).hash = n.old /\ OuterItem(n, 1).isFork = TRUE
        BY <2>0, <3>1, DropItem
      <3> QED BY <3>2 DEF Follows
    <2>2. CASE DropCount(n) = 0
      <3>1. /\ 1 \in DropCount(n) + 1 .. OuterCount(n)
            /\ n.first + 1 - DropCount(n) - 2 = n.first - 1
            /\ n.first - 1 = Height[n.old]
        BY <1>0, <2>2
      <3>2. /\ Parent(OuterItem(n, 1).hash) = Anc[n.tail][n.first - 1]
            /\ OuterItem(n, 1).isFork = FALSE
        BY <3>1, NewItem
      <3> QED BY <1>0, <2>0, <3>1, <3>2 DEF Follows
    <2> QED BY <1>0, <2>1, <2>2
  <1> QED BY <1>1, <1>2, <1>3 DEF Follows

\* No outer notice comes twice in a message, only the last one is about the tail,
\* and msgCheck takes none of them for the head the message moves, but for the
\* drop of that very head.
LEMMA ItemsDiffer ==
    ASSUME NEW n \in Notice, WellFormed(n), NEW i \in 1 .. OuterCount(n)
    PROVE  /\ \A j \in 1 .. OuterCount(n) : OuterItem(n, i) = OuterItem(n, j) => i = j
           /\ OuterItem(n, i).hash = n.tail => i = OuterCount(n)
           /\ OuterItem(n, i).hash = n.old => HasDrops(n) /\ i = 1
           /\ ~HasDrops(n) => OuterItem(n, i).hash # Anc[n.tail][n.first - 1]
           /\ OuterItem(n, i) # NoNotice
           /\ OuterItem(n, i) \in OuterNotice
           /\ OuterItem(n, i).isFork <=> i <= DropCount(n)
  <1>0. /\ n.old \in MaybeBlock /\ n.tail \in Block /\ n.tail \in MaybeBlock
        /\ n.first \in Nat \ {0} /\ n.first <= Height[n.tail]
        /\ Height[n.tail] \in Nat /\ Height[n.old] \in Nat
        /\ DropCount(n) \in Nat /\ OuterCount(n) \in Nat \ {0}
        /\ DropCount(n) + 1 <= OuterCount(n)
        /\ OuterCount(n) = DropCount(n) + (Height[n.tail] - n.first + 1)
        /\ DropCount(n) > 0 => DropCount(n) = Height[n.old] - n.first + 1
        /\ DropCount(n) = 0 => Height[n.old] < n.first
        /\ Height[n.old] + 1 >= n.first
        /\ Anc[n.old][n.first - 1] = Anc[n.tail][n.first - 1]
    BY Shape
  <1>1. Anc[n.old][n.first] # Anc[n.tail][n.first]
    BY DEF WellFormed
  <1> DEFINE Drop(j) == /\ j \in 1 .. DropCount(n)
                        /\ OuterItem(n, j).isFork = TRUE
                        /\ Height[OuterItem(n, j).hash] = Height[n.old] - j + 1
                        /\ Anc[OuterItem(n, j).hash][n.first] = Anc[n.old][n.first]
             New(j) == /\ j \in DropCount(n) + 1 .. OuterCount(n)
                       /\ OuterItem(n, j).isFork = FALSE
                       /\ Height[OuterItem(n, j).hash] = n.first + j - DropCount(n) - 1
                       /\ Anc[OuterItem(n, j).hash][n.first] = Anc[n.tail][n.first]
  <1>2. \A j \in 1 .. OuterCount(n) : OuterItem(n, j).hash \in Block /\ (Drop(j) \/ New(j))
    <2> SUFFICES ASSUME NEW j \in 1 .. OuterCount(n)
                 PROVE  OuterItem(n, j).hash \in Block /\ (Drop(j) \/ New(j))
      OBVIOUS
    <2>0. j \in 1 .. DropCount(n) \/ j \in DropCount(n) + 1 .. OuterCount(n)
      BY <1>0
    <2>1. CASE j \in 1 .. DropCount(n)
      BY <2>1, DropItem
    <2>2. CASE j \in DropCount(n) + 1 .. OuterCount(n)
      BY <2>2, NewItem
    <2> QED BY <2>0, <2>1, <2>2
  <1>3. ASSUME NEW j \in 1 .. OuterCount(n), OuterItem(n, i) = OuterItem(n, j)
        PROVE  i = j
    <2>1. CASE Drop(i) /\ Drop(j)
      BY <1>0, <1>3, <2>1
    <2>2. CASE New(i) /\ New(j)
      BY <1>0, <1>3, <2>2
    <2>3. Drop(i) <=> Drop(j)
      <3>1. (Drop(i) => ~New(j)) /\ (Drop(j) => ~New(i))
        BY <1>3
      <3> QED BY <1>2, <3>1
    <2> QED BY <1>2, <2>1, <2>2, <2>3
  <1>4. ASSUME OuterItem(n, i).hash = n.tail PROVE i = OuterCount(n)
    <2>1. ~Drop(i)
      BY <1>1, <1>4
    <2>2. New(i)
      BY <1>2, <2>1
    <2> QED BY <1>0, <1>4, <2>2
  <1>5. ASSUME OuterItem(n, i).hash = n.old PROVE HasDrops(n) /\ i = 1
    <2>1. ~New(i)
      BY <1>1, <1>5
    <2>2. Drop(i)
      BY <1>2, <2>1
    <2> QED BY <1>0, <1>5, <2>2 DEF HasDrops
  <1>6. ASSUME ~HasDrops(n) PROVE OuterItem(n, i).hash # Anc[n.tail][n.first - 1]
    <2>1. DropCount(n) = 0 /\ Height[OuterItem(n, i).hash] >= n.first
      BY <1>0, <1>2, <1>6 DEF HasDrops
    <2>2. CASE n.first = 1
      <3>1. Anc[n.tail][n.first - 1] = NoBlock
        <4>1. 0 \in 0 .. MaxHeight /\ 0 \notin 1 .. Height[n.tail] /\ n.first - 1 = 0
          BY <2>2, HeightAssumption
        <4> QED BY <1>0, <4>1, AncAssumption
      <3> QED BY <1>2, <3>1, NoBlockAssumption
    <2>3. CASE n.first # 1
      <3>1. n.first - 1 \in 1 .. Height[n.tail]
        BY <1>0, <2>3
      <3>2. Height[Anc[n.tail][n.first - 1]] = n.first - 1
        BY <1>0, <3>1, Ancestors
      <3> QED BY <1>0, <2>1, <3>2
    <2> QED BY <2>2, <2>3
  <1>7. OuterItem(n, i) # NoNotice
    BY <1>2, NoBlockAssumption DEF NoNotice
  <1>8. OuterItem(n, i) \in OuterNotice
    BY <1>0, ItemFacts
  <1>9. OuterItem(n, i).isFork <=> i <= DropCount(n)
    BY <1>0, <1>2
  <1> QED BY <1>3, <1>4, <1>5, <1>6, <1>7, <1>8, <1>9
=============================================================================
