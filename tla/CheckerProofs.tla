--------------------------- MODULE CheckerProofs ---------------------------
(***************************************************************************)
(* Proofs about Checker for every block tree, every bound and every number *)
(* of failures.                                                            *)
(***************************************************************************)
EXTENDS Checker, BlockTreeProofs, TLAPS

-----------------------------------------------------------------------------
(***************************************************************************)
(* The cursor's operators keep its types.                                  *)
(***************************************************************************)

\* The variables saveForkScan and rewindForkScan write.
StateTyped == /\ forkState \in ForkScanState \cup {NilState}
              /\ scanned \in [Heights -> MaybeBlock]
              /\ forkSchedule \in Schedule
              /\ forkBatch \in Batch

\* saveForkScan installs the record it is given.
LEMMA SaveTyped ==
    ASSUME CursorTypeOK, NEW st \in ForkScanState, SaveForkScan(st)
    PROVE  /\ forkState' = st
           /\ scanned' \in [Heights -> MaybeBlock]
    BY DEF CursorTypeOK, SaveForkScan, MaybeBlock

\* rewindForkScan keeps the schedule and the batch well formed.
LEMMA RewindTyped ==
    ASSUME CursorTypeOK, NEW h \in 0 .. MaxHeight, NEW gen \in Nat,
           RewindForkScan(h, gen)
    PROVE  forkSchedule' \in Schedule /\ forkBatch' \in Batch
<1>. USE HeightAssumption
<1>1. forkSchedule' \in Schedule
  <2>1. CASE h = 0
    <3>1. forkSchedule' = NewSchedule(gen)
          BY <2>1 DEF RewindForkScan, RewoundSchedule
    <3>. QED BY <3>1 DEF NewSchedule, Schedule
  <2>2. CASE h # 0
    <3> DEFINE s == forkSchedule
    <3>1. s \in Schedule
          BY DEF CursorTypeOK
    <3>2. forkSchedule' = [s EXCEPT !.gen = gen,
                                    !.observed = MinOf(s.observed, h - 1),
                                    !.matureHeight = MinOf(s.matureHeight, h - 1)]
          BY <2>2 DEF RewindForkScan, RewoundSchedule
    <3>3. /\ MinOf(s.observed, h - 1) \in 0 .. MaxHeight
          /\ MinOf(s.matureHeight, h - 1) \in 0 .. MaxHeight
          BY <2>2, <3>1 DEF Schedule, MinOf
    <3> HIDE DEF s
    <3>. QED BY <3>1, <3>2, <3>3 DEF Schedule
  <2>. QED BY <2>1, <2>2
<1>2. forkBatch' \in Batch
      BY DEF CursorTypeOK, RewindForkScan, Batch, MinOf, NoRewind
<1>. QED BY <1>1, <1>2

\* A cursor that is left alone stays well formed.
LEMMA KeepTyped ==
    ASSUME CursorTypeOK, KeepForkScan
    PROVE  StateTyped'
    BY DEF CursorTypeOK, KeepForkScan, StateTyped

\* initializeForkScan: a well-formed cursor of the next generation that claims nothing.
LEMMA InitializeTyped ==
    ASSUME CursorTypeOK, NEW anchor \in Block, NEW pos \in NoPosition .. MaxMsgs,
           InitializeForkScan(anchor, pos)
    PROVE  StateTyped' /\ forkState'.gen = forkState.gen + 1 /\ HasState'
           /\ forkState'.baseline = anchor /\ forkState'.next = Height[anchor] + 1
<1> DEFINE st == [baseline |-> anchor, next |-> Height[anchor] + 1,
                  gen |-> forkState.gen + 1, published |-> anchor, pos |-> pos,
                  pending |-> NoBlock]
<1>1. forkState.gen \in Nat
      BY DEF CursorTypeOK, ForkScanState, NilState
<1>2. st \in ForkScanState
      BY <1>1, HeightAssumption DEF ForkScanState, MaybeBlock, Heights
<1>3. SaveForkScan(st) /\ RewindForkScan(0, forkState.gen + 1)
      BY DEF InitializeForkScan
<1>4. 0 \in 0 .. MaxHeight
      BY HeightAssumption
<1>. QED BY <1>1, <1>2, <1>3, <1>4, SaveTyped, RewindTyped DEF StateTyped, HasState

\* A Continuous prepareForkScan returns with typed state.  A cursor, once there,
\* stays; its next height never grows within a generation.
LEMMA PrepareFacts ==
    ASSUME CursorTypeOK, NEW n \in Notice, n.first <= Height[n.tail],
           NEW off \in 0 .. MaxMsgs, NEW processed \in BOOLEAN,
           PrepareForkScan(n, off, processed)
    PROVE  /\ StateTyped'
           /\ HasState => HasState'
           /\ HasState /\ forkState'.gen = forkState.gen
                 => forkState'.next <= forkState.next
           /\ \/ forkBatch' = forkBatch
              \/ /\ HasBatch
                 /\ \E h \in 0 .. MaxHeight :
                       forkBatch' = [forkBatch EXCEPT !.rewind = MinOf(@, h)]
<1>0. forkState \in ForkScanState \cup {NilState}
      BY DEF CursorTypeOK
<1>1. CASE ProvenReplay(n, processed)
  <2> DEFINE gen == IF HasDrops(n) THEN forkState.gen + 1 ELSE forkState.gen
             next == IF HasDrops(n) THEN MinOf(forkState.next, n.first)
                                    ELSE forkState.next
             st == [forkState EXCEPT !.gen = gen, !.next = next,
                                     !.published = recoveryAnchor, !.pending = NoBlock]
  <2>1. /\ SaveForkScan(st)
        /\ IF HasDrops(n) THEN RewindForkScan(n.first, gen)
                          ELSE UNCHANGED <<forkSchedule, forkBatch>>
        BY <1>1 DEF PrepareForkScan, ReconcileForkScanReplay
  <2>2. /\ forkState \in ForkScanState /\ recoveryAnchor \in Block
        BY <1>0, <1>1 DEF CursorTypeOK, ProvenReplay, AwaitsAlignment, HasState,
                          NilState, MaybeBlock
  <2>3. n.first \in 1 .. MaxHeight
        BY NoticeFacts DEF Heights
  <2>4. /\ gen \in Nat \ {0} /\ next \in 1 .. MaxHeight + 1 /\ next <= forkState.next
        BY <2>2, <2>3, HeightAssumption DEF ForkScanState, MinOf
  <2> HIDE DEF gen, next
  <2>5. st \in ForkScanState
        BY <2>2, <2>4 DEF ForkScanState, MaybeBlock
  <2>6. forkState' = st /\ scanned' \in [Heights -> MaybeBlock]
        BY <2>1, <2>5, SaveTyped
  <2>7. forkSchedule' \in Schedule /\ forkBatch' \in Batch
    <3>1. CASE HasDrops(n)
          BY <2>1, <2>3, <2>4, <3>1, RewindTyped, HeightAssumption
    <3>2. CASE ~HasDrops(n)
          BY <2>1, <3>2 DEF CursorTypeOK
    <3>. QED BY <3>1, <3>2
  <2>8. forkBatch' = forkBatch \/ (HasBatch /\
            forkBatch' = [forkBatch EXCEPT !.rewind = MinOf(@, n.first)])
        BY <2>1 DEF RewindForkScan
  <2>9. HasState' /\ forkState'.next <= forkState.next
        BY <2>2, <2>4, <2>6 DEF HasState, ForkScanState
  <2>10. StateTyped'
        BY <2>5, <2>6, <2>7 DEF StateTyped
  <2>11. n.first \in 0 .. MaxHeight
        BY <2>3
  <2> HIDE DEF st
  <2>. QED BY <2>8, <2>9, <2>10, <2>11
<1>2. CASE /\ ~ProvenReplay(n, processed)
           /\ AwaitsAlignment /\ NeedsReset(off)
  <2>1. InitializeForkScan(recoveryAnchor, NoPosition)
        BY <1>2 DEF PrepareForkScan
  <2>2. recoveryAnchor \in Block /\ NoPosition \in NoPosition .. MaxMsgs
        BY <1>2, PipelineAssumption DEF CursorTypeOK, AwaitsAlignment, MaybeBlock, NoPosition
  <2>3. forkState.gen \in Nat
        BY <1>0 DEF ForkScanState, NilState
  <2>4. forkBatch' = forkBatch \/ (HasBatch /\
            forkBatch' = [forkBatch EXCEPT !.rewind = MinOf(@, 0)])
        BY <2>1 DEF InitializeForkScan, RewindForkScan
  <2>. QED BY <2>1, <2>2, <2>3, <2>4, InitializeTyped, HeightAssumption
<1>3. CASE /\ ~ProvenReplay(n, processed)
           /\ ~(AwaitsAlignment /\ NeedsReset(off))
  <2>1. KeepForkScan
        BY <1>3 DEF PrepareForkScan
  <2>2. forkState' = forkState /\ forkBatch' = forkBatch
        BY <2>1 DEF KeepForkScan
  <2>3. HasState => forkState.next \in Int
        BY <1>0 DEF HasState, ForkScanState, NilState
  <2>. QED BY <2>1, <2>2, <2>3, KeepTyped DEF HasState
<1>. QED BY <1>1, <1>2, <1>3

\* finishForkScan: same shape, and the cursor never moves within a generation.
LEMMA FinishFacts ==
    ASSUME CursorTypeOK, NEW l \in OuterNotice, NEW off \in 0 .. MaxMsgs,
           FinishForkScan(l, off)
    PROVE  /\ StateTyped'
           /\ forkAligned' \in BOOLEAN /\ recoveryDrop' \in BOOLEAN
           /\ HasState => HasState'
           /\ HasState /\ forkState'.gen = forkState.gen
                 => forkState'.next <= forkState.next
           /\ \/ forkBatch' = forkBatch
              \/ /\ HasBatch
                 /\ \E h \in 0 .. MaxHeight :
                       forkBatch' = [forkBatch EXCEPT !.rewind = MinOf(@, h)]
<1>0. /\ forkState \in ForkScanState \cup {NilState}
      /\ HasState => forkState.next \in Int
      BY DEF CursorTypeOK, HasState, ForkScanState, NilState
<1>1. CASE ~Continuous \/ l.isFork
  <2>1. KeepForkScan /\ UNCHANGED <<forkAligned, recoveryDrop>>
        BY <1>1 DEF FinishForkScan
  <2>2. forkState' = forkState /\ forkBatch' = forkBatch
        BY <2>1 DEF KeepForkScan
  <2>. QED BY <1>0, <2>1, <2>2, KeepTyped DEF HasState, CursorTypeOK
<1>2. CASE Continuous /\ ~l.isFork
  <2>1. /\ l.hash \in Block
        /\ forkAligned' = TRUE /\ recoveryDrop' = FALSE
        BY <1>2 DEF FinishForkScan, OuterNotice, MaybeBlock
  <2>2. off \in NoPosition .. MaxMsgs
        BY PipelineAssumption DEF NoPosition
  <2>5. forkAligned' \in BOOLEAN /\ recoveryDrop' \in BOOLEAN
        BY <2>1
  <2>3. CASE ~HasState
    <3>1. InitializeForkScan(l.hash, off)
          BY <1>2, <2>3 DEF FinishForkScan
    <3>2. forkBatch' = forkBatch \/ (HasBatch /\
              forkBatch' = [forkBatch EXCEPT !.rewind = MinOf(@, 0)])
          BY <3>1 DEF InitializeForkScan, RewindForkScan
    <3>3. StateTyped' /\ HasState'
          BY <2>1, <2>2, <3>1, InitializeTyped
    <3>4. 0 \in 0 .. MaxHeight
          BY HeightAssumption
    <3>. QED BY <2>3, <2>5, <3>2, <3>3, <3>4
  <2>4. CASE HasState
    <3> DEFINE pend == IF forkState.pending = l.hash THEN NoBlock ELSE forkState.pending
               st == [forkState EXCEPT !.published = l.hash, !.pending = pend, !.pos = off]
    <3>1. SaveForkScan(st) /\ UNCHANGED <<forkSchedule, forkBatch>>
          BY <1>2, <2>4 DEF FinishForkScan
    <3>2. forkState \in ForkScanState
          BY <1>0, <2>4 DEF HasState, NilState
    <3>3. pend \in MaybeBlock
          BY <3>2 DEF ForkScanState, MaybeBlock
    <3> HIDE DEF pend
    <3>4. /\ st \in ForkScanState
          /\ st.next = forkState.next /\ st.gen = forkState.gen
          BY <2>1, <2>2, <3>2, <3>3 DEF ForkScanState
    <3>5. forkState' = st /\ scanned' \in [Heights -> MaybeBlock]
          BY <3>1, <3>4, SaveTyped
    <3> HIDE DEF st
    <3>6. StateTyped' /\ HasState'
          BY <2>4, <3>1, <3>4, <3>5 DEF StateTyped, CursorTypeOK, HasState
    <3>7. forkBatch' = forkBatch /\ forkState'.next <= forkState.next
          BY <1>0, <2>4, <3>1, <3>4, <3>5
    <3>. QED BY <2>5, <3>6, <3>7
  <2>. QED BY <2>3, <2>4
<1>. QED BY <1>1, <1>2

\* writeBlockInfoToDB.  The last conjunct is the fence: an index entry can only
\* change under a new generation, which rewinds the active batch to it or below.
LEMMA WriteFacts ==
    ASSUME CursorTypeOK, NEW n \in Notice, n.first <= Height[n.tail],
           WriteBlockInfos(n)
    PROVE  /\ canon' \in [Heights -> MaybeBlock]
           /\ fresh' \subseteq fresh
           /\ StateTyped'
           /\ HasState => HasState'
           /\ HasState /\ forkState'.gen = forkState.gen
                 => forkState'.next <= forkState.next
           /\ \/ forkBatch' = forkBatch
              \/ /\ HasBatch
                 /\ \E h \in 0 .. MaxHeight :
                       forkBatch' = [forkBatch EXCEPT !.rewind = MinOf(@, h)]
           /\ \A h \in Heights :
                 /\ Continuous /\ HasState /\ HasBatch
                 /\ canon[h] # NoBlock /\ canon'[h] # canon[h]
                 => forkBatch'.rewind <= h
<1>0. /\ forkState \in ForkScanState \cup {NilState}
      /\ HasState => forkState.next \in Int
      BY DEF CursorTypeOK, HasState, ForkScanState, NilState
<1>1. /\ n.first \in 1 .. MaxHeight /\ Height[n.tail] \in 1 .. MaxHeight
      /\ n.tail \in Block
      /\ MaxHeight \in Nat
      BY NoticeFacts, HeightAssumption DEF Heights, Notice
<1>2. \A h \in Heights : Anc[n.tail][h] \in MaybeBlock
      BY <1>1, AncAssumption DEF Heights, MaybeBlock
<1>3. canon' \in [Heights -> MaybeBlock]
      BY <1>2 DEF WriteBlockInfos, WrittenIndex, CursorTypeOK, MaybeBlock
<1>4. fresh' \subseteq fresh
      BY DEF WriteBlockInfos
<1>5. \A h \in Heights : canon[h] # NoBlock /\ canon'[h] # canon[h]
          => h \in ReplacedHeights(n) /\ h >= n.first
  <2> SUFFICES ASSUME NEW h \in Heights, canon[h] # NoBlock, canon'[h] # canon[h]
               PROVE  h \in ReplacedHeights(n) /\ h >= n.first
      OBVIOUS
  <2>1. canon'[h] = IF h \in n.first .. Height[n.tail] THEN Anc[n.tail][h]
                    ELSE IF h \in StaleAbove(n.tail) THEN NoBlock ELSE canon[h]
        BY DEF WriteBlockInfos, WrittenIndex
  <2>2. CASE h \in n.first .. Height[n.tail]
        BY <1>1, <2>1, <2>2 DEF ReplacedHeights, Heights
  <2>3. CASE h \notin n.first .. Height[n.tail] /\ h \in StaleAbove(n.tail)
        BY <1>1, <2>3 DEF ReplacedHeights, StaleAbove, Heights
  <2>. QED BY <2>1, <2>2, <2>3
<1>6. CASE ~(Continuous /\ HasState)
  <2>1. KeepForkScan
        BY <1>6 DEF WriteBlockInfos
  <2>2. forkState' = forkState /\ forkBatch' = forkBatch
        BY <2>1 DEF KeepForkScan
  <2>3. StateTyped'
        BY <2>1, KeepTyped
  <2>. QED BY <1>0, <1>3, <1>4, <1>6, <2>2, <2>3 DEF HasState
<1>7. CASE Continuous /\ HasState
  <2> DEFINE gen == IF Affected(n) = {} THEN forkState.gen ELSE forkState.gen + 1
             candidates == Affected(n) \cup {forkState.next}
  <2>1. PICK low \in candidates :
            /\ \A h \in candidates : low <= h
            /\ SaveForkScan([forkState EXCEPT !.next = low, !.gen = gen,
                                              !.pending = n.tail])
        BY <1>7 DEF WriteBlockInfos
  <2>2. IF gen # forkState.gen THEN RewindForkScan(n.first, gen)
                               ELSE UNCHANGED <<forkSchedule, forkBatch>>
        BY <1>7 DEF WriteBlockInfos
  <2>3. forkState \in ForkScanState
        BY <1>0, <1>7 DEF HasState, NilState
  <2>4. low \in 1 .. MaxHeight + 1 /\ low <= forkState.next
        BY <1>1, <2>1, <2>3 DEF Affected, ReplacedHeights, StaleAbove, ForkScanState
  <2>5. gen \in Nat \ {0}
        BY <2>3 DEF ForkScanState
  <2>6. Affected(n) # {} => gen # forkState.gen
        BY <2>3 DEF ForkScanState
  <2> HIDE DEF gen, candidates
  <2> DEFINE st == [forkState EXCEPT !.next = low, !.gen = gen, !.pending = n.tail]
  <2>7. st \in ForkScanState /\ st.next = low /\ st.gen = gen
        BY <1>1, <2>3, <2>4, <2>5 DEF ForkScanState, MaybeBlock
  <2>8. forkState' = st /\ scanned' \in [Heights -> MaybeBlock]
        BY <2>1, <2>7, SaveTyped
  <2> HIDE DEF st
  <2>9. n.first \in 0 .. MaxHeight /\ gen \in Nat
        BY <1>1, <2>5
  <2>10. forkSchedule' \in Schedule /\ forkBatch' \in Batch
    <3>1. CASE gen # forkState.gen
          BY <2>2, <2>9, <3>1, RewindTyped
    <3>2. CASE gen = forkState.gen
          BY <2>2, <3>2 DEF CursorTypeOK
    <3>. QED BY <3>1, <3>2
  <2>11. StateTyped' /\ HasState'
        BY <2>5, <2>7, <2>8, <2>10 DEF StateTyped, HasState
  <2>12. forkBatch' = forkBatch \/ (HasBatch /\
            forkBatch' = [forkBatch EXCEPT !.rewind = MinOf(@, n.first)])
        BY <2>2 DEF RewindForkScan
  <2>13. ASSUME NEW h \in Heights, HasBatch,
                canon[h] # NoBlock, canon'[h] # canon[h]
         PROVE  forkBatch'.rewind <= h
    <3>1. h \in Affected(n) /\ h >= n.first
          BY <1>5, <2>13 DEF Affected
    <3>2. RewindForkScan(n.first, gen)
          BY <2>2, <2>6, <3>1
    <3>3. forkBatch' = [forkBatch EXCEPT !.rewind = MinOf(@, n.first)]
          BY <2>13, <3>2 DEF RewindForkScan
    <3>4. forkBatch \in Batch
          BY DEF CursorTypeOK
    <3>5. forkBatch'.rewind = MinOf(forkBatch.rewind, n.first)
          BY <3>3, <3>4 DEF Batch
    <3>6. forkBatch.rewind \in Int /\ h \in Int
          BY <1>1, <3>4 DEF Batch, NoRewind, Heights
    <3>. QED BY <1>1, <3>1, <3>5, <3>6 DEF MinOf
  <2>. QED BY <1>3, <1>4, <2>4, <2>7, <2>8, <2>9, <2>11, <2>12, <2>13
<1>. QED BY <1>6, <1>7

-----------------------------------------------------------------------------
(***************************************************************************)
(* The main flow's own state.                                              *)
(***************************************************************************)

MainPart == PipelineTypeOK /\ MainInv

\* The message in hand is a notice with at least one new block.
LEMMA MsgFacts ==
    ASSUME PipelineTypeOK, MainInv, pc \notin {"down", "fetch"}
    PROVE  /\ Msg \in Notice /\ Msg.first <= Height[Msg.tail]
           /\ cur \in 1 .. Len(inner)
           /\ Offset \in 0 .. MaxMsgs
    BY PipelineAssumption DEF PipelineTypeOK, MainInv, Msg, Offset

\* Spending a budget keeps it a table of counters.
LEMMA SpendTyped ==
    ASSUME PipelineTypeOK,
           NEW kind \in {"fails", "crashes", "rebalances", "rebuilds"},
           NEW max \in Nat, Spend(kind, max)
    PROVE  budget' \in [{"fails", "crashes", "rebalances", "rebuilds"} -> Nat]
    BY DEF PipelineTypeOK, Spend

\* The main flow starts well formed.
LEMMA MainInit == Init => MainPart
<1>. SUFFICES ASSUME Init PROVE MainPart
     OBVIOUS
<1>1. NoNotice \in OuterNotice /\ NoID \in NoticeID
      BY DEF NoNotice, OuterNotice, NoID, NoticeID, MaybeBlock
<1>2. PipelineTypeOK
      BY <1>1, PipelineAssumption DEF Init, PipelineInit, PipelineTypeOK
<1>3. MainInv
      BY PipelineAssumption DEF Init, PipelineInit, MainInv
<1>. QED BY <1>2, <1>3 DEF MainPart

\* A step that leaves the main flow alone, but for the failure budget.
LEMMA MainIdle ==
    ASSUME MainPart, UNCHANGED <<kafkaVars, runVars, outVars>>,
           budget' \in [{"fails", "crashes", "rebalances", "rebuilds"} -> Nat]
    PROVE  MainPart'
    BY DEF MainPart, PipelineTypeOK, MainInv, Msg, kafkaVars, runVars, outVars

\* A new inner notice: the messages already there, and the one in hand, stay.
LEMMA MainProduce == ASSUME MainPart, Produce PROVE MainPart'
<1>1. PICK t \in Block, f \in Heights :
          LET n == [old |-> IF Len(inner) = 0 THEN NoBlock ELSE inner[Len(inner)].tail,
                    tail |-> t, first |-> f]
          IN  WellFormed(n) /\ inner' = Append(inner, n)
      BY DEF Produce
<1> DEFINE n == [old |-> IF Len(inner) = 0 THEN NoBlock ELSE inner[Len(inner)].tail,
                 tail |-> t, first |-> f]
<1>2. inner \in Seq(Notice)
      BY DEF MainPart, PipelineTypeOK
<1>3. n \in Notice /\ n.first <= Height[n.tail] /\ inner' = Append(inner, n)
  <2>1. CASE Len(inner) = 0
        BY <2>1, <1>1 DEF Notice, MaybeBlock, WellFormed
  <2>2. CASE Len(inner) # 0
    <3>1. Len(inner) \in 1 .. Len(inner)
          BY <1>2, <2>2
    <3>2. inner[Len(inner)] \in Notice
          BY <1>2, <3>1
    <3>. QED BY <1>1, <2>2, <3>2 DEF Notice, MaybeBlock, WellFormed
  <2>. QED BY <2>1, <2>2
<1> HIDE DEF n
<1>4. /\ inner' \in Seq(Notice) /\ Len(inner') = Len(inner) + 1
      /\ \A k \in 1 .. Len(inner) : inner'[k] = inner[k]
      /\ inner'[Len(inner) + 1] = n
      BY <1>2, <1>3
<1>5. PipelineTypeOK'
      BY <1>4 DEF MainPart, PipelineTypeOK, Produce, runVars, outVars
<1>6. MainInv'
  <2>1. Len(inner') <= MaxMsgs
        BY <1>2, <1>4, PipelineAssumption DEF Produce
  <2>2. \A k \in 1 .. Len(inner') : inner'[k].first <= Height[inner'[k].tail]
        BY <1>2, <1>3, <1>4 DEF MainPart, MainInv
  <2>3. pc' = pc /\ cur' = cur /\ pub' = pub
        BY DEF Produce, runVars
  <2>4. pc \notin {"down", "fetch"} => Msg' = Msg
        BY <1>4, <2>3, MsgFacts DEF MainPart, Msg
  <2>. QED BY <2>1, <2>2, <2>3, <2>4 DEF MainPart, MainInv
<1>. QED BY <1>5, <1>6 DEF MainPart

\* Group rebalances, background commits and a rebuilt DB leave the message in hand alone.
LEMMA MainKafka ==
    ASSUME MainPart, Rebalance \/ FlushCommit \/ RebuildDB
    PROVE  MainPart'
<1>1. CASE Rebalance
  <2>1. budget' \in [{"fails", "crashes", "rebalances", "rebuilds"} -> Nat]
        BY <1>1, SpendTyped, PipelineAssumption DEF Rebalance, MainPart
  <2>2. fetched' \in 0 .. Len(inner') /\ stash' \in 0 .. Len(inner')
        BY <1>1 DEF Rebalance, MainPart, PipelineTypeOK
  <2>3. /\ UNCHANGED <<inner, committed, cur, lastOffset, pc, pub>>
        /\ UNCHANGED <<outer, latest, notice, delivered>>
        BY <1>1 DEF Rebalance, runVars, outVars
  <2>. QED BY <2>1, <2>2, <2>3 DEF MainPart, PipelineTypeOK, MainInv, Msg
<1>2. CASE FlushCommit
  <2>1. committed' \in 0 .. Len(inner') /\ stash' \in 0 .. Len(inner')
        BY <1>2 DEF FlushCommit, MainPart, PipelineTypeOK
  <2>2. /\ UNCHANGED <<inner, fetched, cur, lastOffset, pc, pub>>
        /\ UNCHANGED <<outer, latest, notice, delivered, budget>>
        BY <1>2 DEF FlushCommit, runVars, outVars
  <2>. QED BY <2>1, <2>2 DEF MainPart, PipelineTypeOK, MainInv, Msg
<1>3. CASE RebuildDB
      BY <1>3, SpendTyped, MainIdle, PipelineAssumption DEF RebuildDB, MainPart
<1>. QED BY <1>1, <1>2, <1>3

\* NewChecker reads the outer tail and forgets everything else.
LEMMA MainStart == ASSUME MainPart, Start PROVE MainPart'
<1>1. OuterTail \in OuterNotice
  <2>1. outer \in Seq(OuterNotice)
        BY DEF MainPart, PipelineTypeOK
  <2>2. CASE Len(outer) = 0
        BY <2>2 DEF OuterTail, NoNotice, OuterNotice, MaybeBlock
  <2>3. CASE Len(outer) # 0
    <3>1. Len(outer) \in 1 .. Len(outer)
          BY <2>1, <2>3
    <3>. QED BY <2>1, <2>3, <3>1 DEF OuterTail
  <2>. QED BY <2>2, <2>3
<1>. QED BY <1>1 DEF Start, MainPart, PipelineTypeOK, MainInv, Msg

\* A crash leaves no message in hand.
LEMMA MainCrash == ASSUME MainPart, CrashPipeline PROVE MainPart'
<1>1. NoNotice \in OuterNotice /\ NoID \in NoticeID
      BY DEF NoNotice, OuterNotice, NoID, NoticeID, MaybeBlock
<1>2. budget' \in [{"fails", "crashes", "rebalances", "rebuilds"} -> Nat]
      BY SpendTyped, PipelineAssumption DEF CrashPipeline, MainPart
<1>3. PipelineTypeOK'
      BY <1>1, <1>2, PipelineAssumption DEF CrashPipeline, MainPart, PipelineTypeOK
<1>4. MainInv'
      BY DEF CrashPipeline, MainPart, MainInv
<1>. QED BY <1>3, <1>4 DEF MainPart

\* Fetching, skipping and rejecting a message.
LEMMA MainFetch ==
    ASSUME MainPart, Fetch \/ FetchTimeout \/ SkipSeen \/ Reject \/ RejectReplay
    PROVE  MainPart'
<1>1. CASE Fetch
      BY <1>1 DEF Fetch, MainPart, PipelineTypeOK, MainInv, Msg, outVars
<1>2. CASE SkipSeen
      BY <1>2 DEF SkipSeen, MainPart, PipelineTypeOK, MainInv, Msg, kafkaVars, outVars
<1>3. CASE FetchTimeout \/ Reject \/ RejectReplay
      BY <1>3, MainIdle DEF FetchTimeout, Reject, RejectReplay, MainPart,
            PipelineTypeOK, pipelineVars
<1>. QED BY <1>1, <1>2, <1>3

\* The two ways into processNotice.
LEMMA MainBegin ==
    ASSUME MainPart, BeginProcessed \/ BeginNew
    PROVE  MainPart'
<1>1. CASE BeginProcessed
      BY <1>1 DEF BeginProcessed, MainPart, PipelineTypeOK, MainInv, Msg, kafkaVars,
                  outVars
<1>2. CASE BeginNew
  <2>1. Msg \in Notice /\ Msg.first <= Height[Msg.tail]
        BY <1>2, MsgFacts DEF BeginNew, MainPart
  <2>2. notice' \in NoticeID
        BY <1>2, <2>1, NoticeFacts DEF BeginNew, BeginNotice, NoticeID, Notice, MaybeBlock
  <2>3. delivered' \subseteq OuterNotice
        BY <1>2 DEF BeginNew, BeginNotice, MainPart, PipelineTypeOK
  <2>4. PipelineTypeOK'
        BY <1>2, <2>2, <2>3 DEF BeginNew, MainPart, PipelineTypeOK, kafkaVars
  <2>5. MainInv'
        BY <1>2 DEF BeginNew, MainPart, MainInv, PipelineTypeOK, kafkaVars
  <2>. QED BY <2>4, <2>5 DEF MainPart
<1>. QED BY <1>1, <1>2

\* The steps of processNotice that go on to the next one.
LEMMA MainAdvance ==
    ASSUME MainPart,
           ReplicasReady \/ WriteDB \/ MarkForks \/ AlignOuterSingleton \/ Finish
    PROVE  MainPart'
<1>1. UNCHANGED <<kafkaVars, cur, lastOffset, pub, budget, outVars>>
      BY DEF ReplicasReady, WriteDB, MarkForks, AlignOuterSingleton, Finish, Advance
<1>2. \/ pc = "replicas" /\ pc' = "write"
      \/ pc = "write" /\ pc' = "mark"
      \/ pc = "mark" /\ pc' = "publish"
      \/ pc = "align" /\ pc' = "finish"
      \/ pc = "finish" /\ pc' = "commit"
      BY DEF ReplicasReady, WriteDB, MarkForks, AlignOuterSingleton, Finish, Advance
<1>3. PipelineTypeOK'
      BY <1>1, <1>2 DEF MainPart, PipelineTypeOK, kafkaVars, outVars
<1>4. /\ inner' = inner /\ cur' = cur /\ pub' = pub /\ Msg' = Msg
      BY <1>1 DEF kafkaVars, Msg
<1>5. pc = "mark" => pub <= OuterCount(Msg)
  <2> SUFFICES ASSUME pc = "mark" PROVE pub <= OuterCount(Msg)
      OBVIOUS
  <2>1. Msg \in Notice /\ Msg.first <= Height[Msg.tail]
        BY MsgFacts DEF MainPart
  <2>2. OuterCount(Msg) \in Nat \ {0} /\ pub = 1
        BY <2>1, NoticeFacts DEF MainPart, MainInv
  <2>. QED BY <2>2
<1>6. MainInv'
      BY <1>2, <1>4, <1>5 DEF MainPart, MainInv
<1>. QED BY <1>3, <1>6 DEF MainPart

\* What publishOuter is about to publish names a real block.
LEMMA PublishItem ==
    ASSUME MainPart, pc = "publish"
    PROVE  /\ Item \in OuterNotice
           /\ Height[Item.hash] \in Heights
           /\ pub \in 1 .. OuterCount(Msg)
           /\ OuterCount(Msg) \in Nat
<1>1. Msg \in Notice /\ Msg.first <= Height[Msg.tail]
      BY MsgFacts DEF MainPart
<1>2. pub \in 1 .. OuterCount(Msg) /\ OuterCount(Msg) \in Nat
      BY <1>1, NoticeFacts DEF MainPart, MainInv, PipelineTypeOK
<1>. QED BY <1>1, <1>2, ItemFacts DEF Item

\* publishOuter stays within the outer notices of the message in hand.
LEMMA MainPublish ==
    ASSUME MainPart, PublishOne \/ PublishFail
    PROVE  MainPart'
<1>0. pc = "publish" /\ outer \in Seq(OuterNotice)
      BY DEF PublishOne, PublishFail, MainPart, PipelineTypeOK
<1>1. /\ Item \in OuterNotice
      /\ pub \in 1 .. OuterCount(Msg)
      /\ OuterCount(Msg) \in Nat
      BY <1>0, PublishItem
<1>2. outer' = outer \/ outer' = Append(outer, Item)
      BY DEF PublishOne, PublishFail
<1>3. outer' \in Seq(OuterNotice)
      BY <1>0, <1>1, <1>2
<1>4. delivered' \subseteq OuterNotice
  <2>1. delivered' = delivered \/ delivered' = delivered \cup {Item}
        BY DEF PublishOne, PublishFail
  <2>. QED BY <1>1, <2>1 DEF MainPart, PipelineTypeOK
<1>5. latest' \in OuterNotice
  <2>1. latest' = latest \/ latest' = Item
        BY DEF PublishOne, PublishFail
  <2>. QED BY <1>1, <2>1 DEF MainPart, PipelineTypeOK
<1>6. /\ inner' = inner /\ committed' = committed /\ stash' = stash
      /\ fetched' = fetched /\ cur' = cur /\ lastOffset' = lastOffset
      /\ notice' = notice /\ Msg' = Msg
      BY DEF PublishOne, PublishFail, PublishUnchanged, kafkaVars, Msg
<1>7. budget' \in [{"fails", "crashes", "rebalances", "rebuilds"} -> Nat]
  <2>1. CASE PublishOne
        BY <2>1 DEF PublishOne, MainPart, PipelineTypeOK
  <2>2. CASE PublishFail
        BY <2>2, SpendTyped, PipelineAssumption DEF PublishFail, MainPart
  <2>. QED BY <2>1, <2>2
<1>8. \/ pub' = pub + 1 /\ pc' = IF pub = OuterCount(Msg) THEN "align" ELSE "publish"
      \/ pub' = 1 /\ pc' = "process"
      BY DEF PublishOne, PublishFail
<1>9. PipelineTypeOK'
  <2>1. pub' \in Nat \ {0} /\ pc' \in {"align", "publish", "process"}
        BY <1>1, <1>8
  <2>. QED BY <1>3, <1>4, <1>5, <1>6, <1>7, <2>1 DEF MainPart, PipelineTypeOK
<1>10. MainInv'
      BY <1>0, <1>1, <1>6, <1>8 DEF MainPart, MainInv
<1>. QED BY <1>9, <1>10 DEF MainPart

\* A failed step returns to Run with the same message.
LEMMA MainStepFail == ASSUME MainPart, StepFail PROVE MainPart'
<1>1. budget' \in [{"fails", "crashes", "rebalances", "rebuilds"} -> Nat]
      BY SpendTyped, PipelineAssumption DEF StepFail, MainPart, PipelineTypeOK
<1>2. PipelineTypeOK'
      BY <1>1 DEF StepFail, MainPart, PipelineTypeOK, kafkaVars, outVars
<1>3. MainInv'
      BY DEF StepFail, Locked, MainPart, MainInv, kafkaVars
<1>. QED BY <1>2, <1>3 DEF MainPart

\* CommitMessages lets go of the message in hand.
LEMMA MainCommit == ASSUME MainPart, Commit PROVE MainPart'
<1>1. cur \in 1 .. Len(inner) /\ Offset \in 0 .. MaxMsgs
      BY MsgFacts DEF Commit, MainPart
<1>2. committed' \in 0 .. Len(inner) /\ stash' \in 0 .. Len(inner)
      BY <1>1 DEF Commit, MainPart, PipelineTypeOK
<1>3. PipelineTypeOK'
  <2>1. lastOffset' \in 0 .. MaxMsgs /\ cur' = 0 /\ pc' = "fetch"
        BY <1>1 DEF Commit
  <2>2. /\ UNCHANGED <<inner, fetched, pub, budget>>
        /\ UNCHANGED <<outer, latest, notice, delivered>>
        BY DEF Commit, outVars
  <2>3. 0 \in 0 .. Len(inner)
        BY <1>1
  <2>. QED BY <1>2, <2>1, <2>2, <2>3 DEF MainPart, PipelineTypeOK
<1>4. MainInv'
      BY DEF Commit, MainPart, MainInv
<1>. QED BY <1>3, <1>4 DEF MainPart

-----------------------------------------------------------------------------
(***************************************************************************)
(* The cursor, the worker and the fence between them.                      *)
(***************************************************************************)

ScanPart == CursorTypeOK /\ WorkerTypeOK /\ BatchInv /\ FenceInv

\* Cursor and worker start well formed, without a batch.
LEMMA ScanInit == Init => ScanPart
<1>. SUFFICES ASSUME Init PROVE ScanPart
     OBVIOUS
<1>0. MaxHeight \in Nat
      BY HeightAssumption
<1>1. /\ EmptyIndex \in [Heights -> MaybeBlock]
      /\ NewSchedule(0) \in Schedule
      /\ NilBatch \in Batch
      BY <1>0 DEF EmptyIndex, MaybeBlock, NewSchedule, Schedule, NilBatch, Batch, NoRewind
<1>2. NoBlock \in MaybeBlock
      BY DEF MaybeBlock
<1>3. CursorTypeOK
      BY <1>1, <1>2 DEF Init, CursorInit, CursorTypeOK
<1>4. WorkerTypeOK
      BY <1>0, <1>1 DEF Init, WorkerInit, WorkerTypeOK
<1>5. BatchInv
      BY DEF Init, PipelineInit, CursorInit, WorkerInit, BatchInv, HasBatch, NilBatch,
             Scanning
<1>6. FenceInv
      BY DEF Init, CursorInit, WorkerInit, FenceInv, Scanning
<1>. QED BY <1>3, <1>4, <1>5, <1>6 DEF ScanPart

\* A step of the main flow that touches neither cursor nor worker.
LEMMA ScanIdle ==
    ASSUME ScanPart, UNCHANGED <<cursorVars, workerVars>>, pc' = "down" <=> pc = "down"
    PROVE  ScanPart'
    BY DEF ScanPart, CursorTypeOK, WorkerTypeOK, BatchInv, FenceInv, Scanning, HasBatch,
           Continuous, HasState, ReadHeights, Stale, cursorVars, workerVars

\* A step of the main flow that writes the cursor with the mutex held: the
\* fence survives if every index entry that changes under a batch is fenced.
LEMMA ScanLocked ==
    ASSUME ScanPart, CursorTypeOK', UNCHANGED workerVars, mode' = mode,
           pc # "down", pc' # "down",
           HasState => HasState',
           \/ forkBatch' = forkBatch
           \/ /\ HasBatch
              /\ \E h \in 0 .. MaxHeight :
                    forkBatch' = [forkBatch EXCEPT !.rewind = MinOf(@, h)],
           fresh' = {h \in fresh : canon'[h] = canon[h]},
           \A h \in Heights :
                 /\ Continuous /\ HasState /\ HasBatch
                 /\ canon[h] # NoBlock /\ canon'[h] # canon[h]
                 => forkBatch'.rewind <= h
    PROVE  ScanPart'
<1>0. /\ forkBatch \in Batch /\ MaxHeight \in Nat /\ fresh \subseteq Heights
      /\ scanAt \in 0 .. MaxHeight + 1
      BY HeightAssumption DEF ScanPart, CursorTypeOK, WorkerTypeOK
<1>1. /\ forkBatch'.start = forkBatch.start
      /\ forkBatch'.upper = forkBatch.upper
      /\ forkBatch'.gen = forkBatch.gen
      /\ forkBatch'.rewind <= forkBatch.rewind
  <2>1. CASE forkBatch' = forkBatch
        BY <1>0, <2>1 DEF Batch, NoRewind
  <2>2. CASE \E h \in 0 .. MaxHeight :
                forkBatch' = [forkBatch EXCEPT !.rewind = MinOf(@, h)]
        BY <1>0, <2>2 DEF Batch, NoRewind, MinOf
  <2>. QED BY <2>1, <2>2
<1>2. UNCHANGED <<wpc, upper, seenGen, scanAt, checked>>
      BY DEF workerVars
<1>3. WorkerTypeOK'
      BY <1>2 DEF ScanPart, WorkerTypeOK
<1>4. Scanning' = Scanning /\ HasBatch' = HasBatch /\ ReadHeights' = ReadHeights
      BY <1>1, <1>2 DEF Scanning, HasBatch, ReadHeights
<1>5. BatchInv'
      BY <1>1, <1>2, <1>4 DEF ScanPart, BatchInv, Continuous
<1>6. FenceInv'
  <2>1. \A h \in fresh' : canon'[h] # NoBlock
        BY DEF ScanPart, FenceInv
  <2>2. ASSUME Scanning, NEW h \in ReadHeights
        PROVE  h \in fresh' \/ Stale(h)'
    <3>0. /\ Continuous /\ HasState /\ HasBatch
          /\ h \in fresh \/ Stale(h)
          /\ h \in Int
          BY <1>0, <2>2 DEF ScanPart, BatchInv, FenceInv, ReadHeights, Batch, Scanning
    <3>1. CASE Stale(h)
      <4>1. forkBatch.rewind \in Int /\ forkBatch'.rewind \in Int
            BY <1>0 DEF CursorTypeOK, Batch, NoRewind
      <4>. QED BY <1>1, <3>0, <3>1, <4>1 DEF Stale
    <3>2. CASE h \in fresh /\ canon'[h] = canon[h]
          BY <3>2
    <3>3. CASE h \in fresh /\ canon'[h] # canon[h]
      <4>1. canon[h] # NoBlock /\ h \in Heights
            BY <1>0, <3>3 DEF ScanPart, FenceInv
      <4>. QED BY <3>0, <3>3, <4>1 DEF Stale
    <3>. QED BY <3>0, <3>1, <3>2, <3>3
  <2>. QED BY <1>4, <2>1, <2>2 DEF FenceInv
<1>. QED BY <1>3, <1>5, <1>6 DEF ScanPart

\* prepareForkScan and finishForkScan change no index entry.
LEMMA ScanBegin ==
    ASSUME ScanPart, MainPart, Main(BeginProcessed) \/ Main(BeginNew)
    PROVE  ScanPart'
<1>1. /\ pc = "process" /\ pc' # "down" /\ UNCHANGED workerVars
      /\ UNCHANGED <<canon, mode, forkAligned, recoveryAnchor, recoveryDrop,
                     fresh, recent, unripe>>
      /\ \E processed \in BOOLEAN : PrepareForkScan(Msg, Offset, processed)
      BY DEF Main, BeginProcessed, BeginNew
<1>2. /\ Msg \in Notice /\ Msg.first <= Height[Msg.tail]
      /\ Offset \in 0 .. MaxMsgs
      BY <1>1, MsgFacts DEF MainPart
<1>3. CursorTypeOK
      BY DEF ScanPart
<1>4. /\ StateTyped'
      /\ HasState => HasState'
      /\ \/ forkBatch' = forkBatch
         \/ /\ HasBatch
            /\ \E h \in 0 .. MaxHeight :
                  forkBatch' = [forkBatch EXCEPT !.rewind = MinOf(@, h)]
      BY <1>1, <1>2, <1>3, PrepareFacts
<1>5. CursorTypeOK'
      BY <1>1, <1>3, <1>4 DEF CursorTypeOK, StateTyped
<1>6. /\ fresh' = {h \in fresh : canon'[h] = canon[h]}
      /\ canon' = canon /\ mode' = mode
      BY <1>1
<1>. QED BY <1>1, <1>4, <1>5, <1>6, ScanLocked

\* finishForkScan changes no index entry.
LEMMA ScanFinish ==
    ASSUME ScanPart, MainPart, Main(Finish)
    PROVE  ScanPart'
<1>1. /\ pc = "finish" /\ pc' # "down" /\ UNCHANGED workerVars
      /\ UNCHANGED <<canon, mode, recoveryAnchor, fresh, recent, unripe>>
      /\ FinishForkScan(latest, Offset)
      BY DEF Main, Finish, Advance
<1>2. latest \in OuterNotice /\ Offset \in 0 .. MaxMsgs
      BY <1>1, MsgFacts DEF MainPart, PipelineTypeOK
<1>3. CursorTypeOK
      BY DEF ScanPart
<1>4. /\ StateTyped'
      /\ forkAligned' \in BOOLEAN /\ recoveryDrop' \in BOOLEAN
      /\ HasState => HasState'
      /\ \/ forkBatch' = forkBatch
         \/ /\ HasBatch
            /\ \E h \in 0 .. MaxHeight :
                  forkBatch' = [forkBatch EXCEPT !.rewind = MinOf(@, h)]
      BY <1>1, <1>2, <1>3, FinishFacts
<1>5. CursorTypeOK'
      BY <1>1, <1>3, <1>4 DEF CursorTypeOK, StateTyped
<1>6. /\ fresh' = {h \in fresh : canon'[h] = canon[h]}
      /\ canon' = canon /\ mode' = mode
      BY <1>1
<1>. QED BY <1>1, <1>4, <1>5, <1>6, ScanLocked

\* writeBlockInfoToDB fences every index entry it changes.
LEMMA ScanWrite ==
    ASSUME ScanPart, MainPart, Main(WriteDB)
    PROVE  ScanPart'
<1>1. /\ pc = "write" /\ pc' # "down" /\ UNCHANGED workerVars
      /\ UNCHANGED <<mode, forkAligned, recoveryAnchor, recoveryDrop, recent, unripe>>
      /\ WriteBlockInfos(Msg)
      BY DEF Main, WriteDB, Advance
<1>2. Msg \in Notice /\ Msg.first <= Height[Msg.tail]
      BY <1>1, MsgFacts DEF MainPart
<1>3. CursorTypeOK
      BY DEF ScanPart
<1>4. /\ canon' \in [Heights -> MaybeBlock]
      /\ fresh' \subseteq fresh
      /\ StateTyped'
      /\ HasState => HasState'
      /\ \/ forkBatch' = forkBatch
         \/ /\ HasBatch
            /\ \E h \in 0 .. MaxHeight :
                  forkBatch' = [forkBatch EXCEPT !.rewind = MinOf(@, h)]
      /\ \A h \in Heights :
            /\ Continuous /\ HasState /\ HasBatch
            /\ canon[h] # NoBlock /\ canon'[h] # canon[h]
            => forkBatch'.rewind <= h
      BY <1>1, <1>2, <1>3, WriteFacts
<1>5. CursorTypeOK'
      BY <1>1, <1>3, <1>4 DEF CursorTypeOK, StateTyped
<1>6. fresh' = {h \in fresh : canon'[h] = canon[h]} /\ mode' = mode
      BY <1>1 DEF WriteBlockInfos
<1>. QED BY <1>1, <1>4, <1>5, <1>6, ScanLocked

\* Publication changes neither index nor cursor.
LEMMA ScanPublish ==
    ASSUME ScanPart, MainPart, Main(PublishOne) \/ Main(PublishFail)
    PROVE  ScanPart'
<1>1. /\ pc = "publish" /\ pc' # "down" /\ UNCHANGED workerVars
      /\ UNCHANGED <<canon, forkState, mode, forkAligned, recoveryAnchor, recoveryDrop,
                     forkSchedule, forkBatch, scanned, fresh>>
      BY DEF Main, PublishOne, PublishFail, PublishUnchanged
<1>2. \/ UNCHANGED <<recent, unripe>>
      \/ /\ recent' = recent \cup {Height[Item.hash]}
         /\ unripe' = unripe \cup {Height[Item.hash]}
      BY DEF Main, PublishOne, PublishFail, NotePublished
<1>3. Height[Item.hash] \in Heights
      BY <1>1, PublishItem
<1>4. CursorTypeOK'
      BY <1>1, <1>2, <1>3 DEF ScanPart, CursorTypeOK
<1>5. UNCHANGED <<wpc, upper, seenGen, scanAt, checked>>
      BY <1>1 DEF workerVars
<1>. QED BY <1>1, <1>4, <1>5
         DEF ScanPart, WorkerTypeOK, BatchInv, FenceInv, Scanning, HasBatch, Continuous,
             HasState, ReadHeights, Stale

\* loadForkScan starts without a batch.
LEMMA ScanStart == ASSUME ScanPart, MainPart, Main(Start) PROVE ScanPart'
<1>0. /\ MaxHeight \in Nat /\ wpc = "idle" /\ wpc' = "idle"
      /\ fresh = {} /\ fresh' = {} /\ pc' = "fetch"
      /\ mode' \in Modes /\ canon' = canon
      /\ UNCHANGED <<upper, seenGen, scanAt, checked, forkState, historyVars>>
      BY HeightAssumption
         DEF Main, Start, ScanPart, BatchInv, Scanning, workerVars, historyVars
<1>1. /\ forkSchedule' = NewSchedule(0) /\ forkBatch' = NilBatch
      /\ recoveryDrop' \in BOOLEAN /\ forkAligned' \in BOOLEAN
      BY DEF Main, Start, LoadForkScan
<1>2. NewSchedule(0) \in Schedule /\ NilBatch \in Batch
      BY <1>0 DEF NewSchedule, Schedule, NilBatch, Batch, NoRewind
<1>3. recoveryAnchor' \in MaybeBlock
  <2>1. OuterTail \in OuterNotice
        BY MainStart DEF Main, Start, MainPart, PipelineTypeOK
  <2>2. OuterTail.hash \in MaybeBlock
        BY <2>1 DEF OuterNotice
  <2>. QED BY <2>2 DEF Main, Start, LoadForkScan, MaybeBlock
<1>4. CursorTypeOK'
      BY <1>0, <1>1, <1>2, <1>3, PipelineAssumption DEF ScanPart, CursorTypeOK, historyVars
<1>5. WorkerTypeOK'
      BY <1>0 DEF ScanPart, WorkerTypeOK
<1>6. BatchInv' /\ FenceInv'
      BY <1>0, <1>1 DEF BatchInv, FenceInv, Scanning, HasBatch, NilBatch
<1>. QED BY <1>4, <1>5, <1>6 DEF ScanPart

\* A crash ends the worker and its batch.
LEMMA ScanCrash == ASSUME ScanPart, Crash PROVE ScanPart'
<1>0. MaxHeight \in Nat
      BY HeightAssumption
<1>1. /\ EmptyIndex \in [Heights -> MaybeBlock]
      /\ NewSchedule(0) \in Schedule
      /\ NilBatch \in Batch
      /\ NoBlock \in MaybeBlock
      BY <1>0 DEF EmptyIndex, MaybeBlock, NewSchedule, Schedule, NilBatch, Batch, NoRewind
<1>2. CursorTypeOK'
      BY <1>1 DEF Crash, CrashPipeline, ScanPart, CursorTypeOK
<1>3. WorkerTypeOK'
      BY <1>0, <1>1 DEF Crash, WorkerReset, WorkerTypeOK
<1>4. BatchInv' /\ FenceInv'
      BY DEF Crash, CrashPipeline, WorkerReset, BatchInv, FenceInv, Scanning, HasBatch,
             NilBatch
<1>. QED BY <1>2, <1>3, <1>4 DEF ScanPart

\* The DB is rebuilt only while no batch can be active.
LEMMA ScanRebuild == ASSUME ScanPart, Main(RebuildDB) PROVE ScanPart'
<1>1. EmptyIndex \in [Heights -> MaybeBlock]
      BY DEF EmptyIndex, MaybeBlock
<1>2. /\ UNCHANGED <<wpc, upper, seenGen, scanAt, checked, pc>>
      /\ pc = "down" /\ wpc = "idle" /\ fresh = {}
      BY DEF Main, RebuildDB, workerVars, runVars, ScanPart, BatchInv, Scanning
<1>3. CursorTypeOK' /\ fresh' = {} /\ forkBatch' = forkBatch /\ mode' = mode
      BY <1>1, <1>2 DEF Main, RebuildDB, ScanPart, CursorTypeOK
<1>4. WorkerTypeOK' /\ BatchInv' /\ FenceInv'
      BY <1>2, <1>3 DEF ScanPart, WorkerTypeOK, BatchInv, FenceInv, Scanning, HasBatch
<1>. QED BY <1>3, <1>4 DEF ScanPart

-----------------------------------------------------------------------------
(***************************************************************************)
(* The worker's own steps.                                                 *)
(***************************************************************************)

\* observeForkScan: no batch before, none after.
LEMMA WorkerObserve ==
    ASSUME ScanPart, NEW elapsed \in BOOLEAN, Observe(elapsed), pc' = pc
    PROVE  ScanPart'
<1>0. /\ MaxHeight \in Nat
      /\ forkState \in ForkScanState
      /\ forkSchedule \in Schedule
      /\ wpc = "idle" /\ Continuous
      BY HeightAssumption DEF ScanPart, CursorTypeOK, Observe, Scannable, HasState, NilState
<1>1. Published \in 0 .. MaxHeight /\ forkState.gen \in Nat
      BY <1>0, HeightAssumption DEF Published, ForkScanState, MaybeBlock
<1> DEFINE s == Observed(forkSchedule, elapsed, Published, forkState.gen)
<1>2. s \in Schedule
  <2> DEFINE t == IF forkSchedule.gen # forkState.gen THEN NewSchedule(forkState.gen)
                  ELSE forkSchedule
  <2>1. t \in Schedule
        BY <1>0, <1>1 DEF NewSchedule, Schedule
  <2>2. \/ s = t
        \/ s = [t EXCEPT !.seen = TRUE, !.observed = Published]
        \/ s = [t EXCEPT !.mature = TRUE, !.matureHeight = t.observed,
                         !.observed = Published]
        BY DEF Observed
  <2> HIDE DEF s, t
  <2>. QED BY <1>1, <2>1, <2>2 DEF Schedule
<1>3. /\ forkSchedule' = s
      /\ wpc' \in {"begin", "idle"}
      /\ upper' \in {s.matureHeight, 0}
      /\ seenGen' \in {forkState.gen, 0}
      /\ recent' \in {recent, {}}
      /\ unripe' \in {recent, unripe}
      BY DEF Observe
<1> HIDE DEF s
<1>4. UNCHANGED <<scanAt, checked, forkState, forkBatch, scanned, fresh, canon, mode,
                  forkAligned, recoveryAnchor, recoveryDrop>>
      BY DEF Observe, WorkerFrame
<1>5. CursorTypeOK'
      BY <1>2, <1>3, <1>4 DEF ScanPart, CursorTypeOK
<1>6. WorkerTypeOK'
      BY <1>0, <1>1, <1>2, <1>3, <1>4 DEF ScanPart, WorkerTypeOK, Schedule
<1>7. ~Scanning /\ ~Scanning' /\ HasBatch' = HasBatch
      BY <1>0, <1>3, <1>4 DEF Scanning, HasBatch
<1>8. pc # "down"
      BY <1>0 DEF ScanPart, BatchInv, Continuous
<1>9. BatchInv'
      BY <1>0, <1>3, <1>4, <1>7, <1>8 DEF ScanPart, BatchInv, Continuous
<1>10. FenceInv'
      BY <1>4, <1>7 DEF ScanPart, FenceInv
<1>. QED BY <1>5, <1>6, <1>9, <1>10 DEF ScanPart

\* beginForkScanBatch: a batch that has read nothing yet.
LEMMA WorkerBegin ==
    ASSUME ScanPart, BeginStale \/ BeginBatch, pc' = pc
    PROVE  ScanPart'
<1>0. /\ MaxHeight \in Nat /\ wpc = "begin" /\ fresh = {}
      /\ pc # "down" /\ mode' = mode
      BY HeightAssumption DEF ScanPart, BatchInv, Scanning, BeginStale, BeginBatch,
            CursorFrame, WorkerFrame
<1>1. EmptyIndex \in [Heights -> MaybeBlock]
      BY DEF EmptyIndex, MaybeBlock
<1>2. CASE BeginStale
  <2>1. /\ CursorTypeOK' /\ fresh' = {} /\ HasBatch' = HasBatch
        /\ wpc' = "idle" /\ ~Scanning' /\ ~Scanning
        BY <1>0, <1>2 DEF BeginStale, CursorFrame, ScanPart, CursorTypeOK, HasBatch,
              WorkerReset, Scanning
  <2>2. WorkerTypeOK'
        BY <1>0, <1>1, <1>2 DEF BeginStale, WorkerReset, WorkerTypeOK
  <2>3. BatchInv' /\ FenceInv'
        BY <1>0, <2>1 DEF ScanPart, BatchInv, FenceInv
  <2>. QED BY <2>1, <2>2, <2>3 DEF ScanPart
<1>3. CASE BeginBatch
  <2>1. forkState \in ForkScanState
        BY <1>3 DEF BeginBatch, Scannable, HasState, NilState, ScanPart, CursorTypeOK
  <2>2. /\ Published \in 0 .. MaxHeight
        /\ forkState.next \in 1 .. MaxHeight + 1 /\ forkState.gen \in Nat \ {0}
        BY <2>1, HeightAssumption DEF Published, ForkScanState, MaybeBlock
  <2> DEFINE bound == IF seenGen = forkState.gen THEN upper
                      ELSE MinOf(upper, forkSchedule.matureHeight)
  <2>3. bound \in 0 .. MaxHeight
        BY DEF ScanPart, CursorTypeOK, WorkerTypeOK, Schedule, MinOf
  <2>4. forkBatch' = [start |-> forkState.next, upper |-> MinOf(bound, Published),
                      gen |-> forkState.gen, rewind |-> NoRewind]
        BY <1>3 DEF BeginBatch
  <2> HIDE DEF bound
  <2>5. MinOf(bound, Published) \in 0 .. MaxHeight /\ NoRewind \in 0 .. NoRewind
        BY <1>0, <2>2, <2>3 DEF MinOf, NoRewind
  <2>6. forkBatch' \in Batch
        BY <1>0, <2>2, <2>4, <2>5 DEF Batch
  <2>7. /\ UNCHANGED <<upper, seenGen, forkState, forkSchedule, scanned, recent, unripe>>
        /\ UNCHANGED <<canon, mode, forkAligned, recoveryAnchor, recoveryDrop>>
        /\ wpc' = "scan" /\ scanAt' = forkState.next /\ checked' = EmptyIndex
        /\ fresh' = {}
        BY <1>3 DEF BeginBatch, WorkerFrame
  <2>8. CursorTypeOK'
        BY <2>6, <2>7 DEF ScanPart, CursorTypeOK
  <2>9. WorkerTypeOK'
        BY <1>0, <1>1, <2>2, <2>7 DEF ScanPart, WorkerTypeOK
  <2>10. /\ forkBatch'.start = forkState.next /\ HasBatch' /\ HasState'
         BY <2>2, <2>4, <2>7 DEF HasBatch, HasState
  <2>11. Scanning' /\ ReadHeights' = {}
         BY <2>2, <2>7, <2>10 DEF Scanning, ReadHeights
  <2>12. Continuous /\ Continuous'
         BY <1>0 DEF ScanPart, BatchInv, Continuous
  <2>13. BatchInv'
         BY <1>0, <2>2, <2>7, <2>10, <2>11, <2>12 DEF ScanPart, BatchInv
  <2>14. FenceInv'
         BY <2>7, <2>11 DEF FenceInv
  <2>. QED BY <2>8, <2>9, <2>13, <2>14 DEF ScanPart
<1>. QED BY <1>2, <1>3

\* readScanCanonical: the height just read is fresh.
LEMMA WorkerRead == ASSUME ScanPart, ReadCanonical, pc' = pc PROVE ScanPart'
<1>0. /\ MaxHeight \in Nat /\ wpc = "scan" /\ wpc' = "plan" /\ scanAt' = scanAt
      /\ checked' = [checked EXCEPT ![scanAt] = canon[scanAt]]
      /\ fresh' = fresh \cup {scanAt} /\ canon[scanAt] # NoBlock
      /\ scanAt <= forkBatch.upper
      /\ UNCHANGED <<upper, seenGen, canon, forkState, mode, forkAligned, recoveryAnchor,
                     recoveryDrop, forkSchedule, forkBatch, scanned, recent, unripe>>
      BY HeightAssumption DEF ReadCanonical, CursorFrame, MoreHeights
<1>1. Scanning /\ Scanning'
      BY <1>0 DEF Scanning
<1>2. /\ forkBatch \in Batch /\ forkBatch.start >= 1 /\ forkBatch.start <= scanAt
      /\ scanAt \in 0 .. MaxHeight + 1
      BY <1>1 DEF ScanPart, CursorTypeOK, WorkerTypeOK, BatchInv
<1>3. scanAt \in Heights
      BY <1>0, <1>2 DEF Batch, Heights
<1>4. CursorTypeOK'
      BY <1>0, <1>3 DEF ScanPart, CursorTypeOK
<1>5. WorkerTypeOK'
      BY <1>0, <1>3 DEF ScanPart, CursorTypeOK, WorkerTypeOK
<1>6. BatchInv'
      BY <1>0, <1>1 DEF ScanPart, BatchInv, HasBatch, HasState, Continuous
<1>7. FenceInv'
  <2>1. \A h \in fresh' : canon'[h] # NoBlock
        BY <1>0 DEF ScanPart, FenceInv
  <2>2. ReadHeights' = ReadHeights \cup {scanAt}
        BY <1>0, <1>2 DEF ReadHeights, Batch
  <2>3. \A h \in ReadHeights' : h \in fresh' \/ Stale(h)'
        BY <1>0, <1>1, <2>2 DEF ScanPart, FenceInv, Stale
  <2>. QED BY <2>1, <2>3 DEF FenceInv
<1>. QED BY <1>4, <1>5, <1>6, <1>7 DEF ScanPart

\* The loop ends, or a height is given up: the heights read so far stay covered.
LEMMA WorkerEnd ==
    ASSUME ScanPart, EndScan \/ GiveUpHeight, pc' = pc
    PROVE  ScanPart'
<1>0. /\ MaxHeight \in Nat /\ wpc \in {"scan", "plan"} /\ wpc' = "finish"
      /\ UNCHANGED <<upper, seenGen, scanAt, checked, fresh, canon, forkState, mode,
                     forkAligned, recoveryAnchor, recoveryDrop, forkSchedule, forkBatch,
                     scanned, recent, unripe>>
      BY HeightAssumption DEF EndScan, GiveUpHeight, CursorFrame
<1>1. Scanning /\ Scanning'
      BY <1>0 DEF Scanning
<1>2. forkBatch \in Batch /\ scanAt \in 0 .. MaxHeight + 1
      BY DEF ScanPart, CursorTypeOK, WorkerTypeOK
<1>3. CursorTypeOK' /\ WorkerTypeOK'
      BY <1>0 DEF ScanPart, CursorTypeOK, WorkerTypeOK
<1>4. BatchInv'
      BY <1>0, <1>1 DEF ScanPart, BatchInv, HasBatch, HasState, Continuous
<1>5. ReadHeights' \subseteq ReadHeights
      BY <1>0, <1>2 DEF ReadHeights, Batch
<1>6. FenceInv'
      BY <1>0, <1>1, <1>5 DEF ScanPart, FenceInv, Stale
<1>. QED BY <1>3, <1>4, <1>6 DEF ScanPart

\* The plan of a height is done.
LEMMA WorkerNext ==
    ASSUME ScanPart, EmptyPlan \/ PutVerified, pc' = pc
    PROVE  ScanPart'
<1>0. /\ MaxHeight \in Nat /\ wpc = "plan" /\ wpc' = "scan" /\ scanAt' = scanAt + 1
      /\ UNCHANGED <<upper, seenGen, checked, fresh, canon, forkState, mode,
                     forkAligned, recoveryAnchor, recoveryDrop, forkSchedule, forkBatch,
                     scanned, recent, unripe>>
      BY HeightAssumption DEF EmptyPlan, PutVerified, NextHeight, CursorFrame
<1>1. Scanning /\ Scanning'
      BY <1>0 DEF Scanning
<1>2. /\ forkBatch \in Batch /\ scanAt \in 0 .. MaxHeight + 1
      /\ scanAt <= forkBatch.upper /\ forkBatch.start <= scanAt
      BY <1>0, <1>1 DEF ScanPart, CursorTypeOK, WorkerTypeOK, BatchInv
<1>3. CursorTypeOK'
      BY <1>0 DEF ScanPart, CursorTypeOK
<1>4. WorkerTypeOK'
      BY <1>0, <1>2 DEF ScanPart, WorkerTypeOK, Batch
<1>5. BatchInv'
      BY <1>0, <1>1, <1>2 DEF ScanPart, BatchInv, HasBatch, HasState, Continuous, Batch
<1>6. ReadHeights' \subseteq ReadHeights
      BY <1>0, <1>2 DEF ReadHeights, Batch
<1>7. FenceInv'
      BY <1>0, <1>1, <1>6 DEF ScanPart, FenceInv, Stale
<1>. QED BY <1>3, <1>4, <1>5, <1>7 DEF ScanPart

\* finishForkScanBatch: what it accepts starts at the cursor, is canonical, was
\* read by the batch and has not been fenced since.
LEMMA AcceptedFacts ==
    ASSUME ScanPart, wpc = "finish",
           NEW n \in forkBatch.start .. scanAt, VerifiedPrefix(n), n > forkBatch.start
    PROVE  /\ forkState \in ForkScanState
           /\ forkState.next = forkBatch.start
           /\ n \in 1 .. MaxHeight + 1
           /\ \A h \in forkBatch.start .. n - 1 :
                 /\ h \in fresh /\ h \in Heights
                 /\ canon[h] # NoBlock /\ checked[h] = canon[h]
<1>1. /\ Scanning /\ forkBatch \in Batch /\ scanAt \in 0 .. MaxHeight + 1
      /\ MaxHeight \in Nat /\ forkBatch.start >= 1 /\ HasState
      /\ fresh \subseteq Heights
      BY HeightAssumption DEF Scanning, ScanPart, BatchInv, CursorTypeOK, WorkerTypeOK
<1>2. forkState \in ForkScanState
      BY <1>1 DEF ScanPart, CursorTypeOK, HasState, NilState
<1>3. n \in 1 .. MaxHeight + 1
      BY <1>1 DEF Batch
<1>4. \A h \in forkBatch.start .. n - 1 : Verified(h)
      BY DEF VerifiedPrefix
<1>5. forkState.next = forkBatch.start
  <2>1. forkBatch.start \in forkBatch.start .. n - 1
        BY <1>1, <1>3 DEF Batch
  <2>. QED BY <1>4, <2>1 DEF Verified
<1>6. ASSUME NEW h \in forkBatch.start .. n - 1
      PROVE  /\ h \in fresh /\ h \in Heights
             /\ canon[h] # NoBlock /\ checked[h] = canon[h]
  <2>1. h \in ReadHeights
        BY <1>1, <1>3 DEF ReadHeights, Batch
  <2>2. Verified(h)
        BY <1>4
  <2>3. ~Stale(h) /\ canon[h] # NoBlock /\ checked[h] = canon[h]
        BY <2>2 DEF Verified
  <2>4. h \in fresh
        BY <1>1, <2>1, <2>3 DEF ScanPart, FenceInv
  <2>. QED BY <1>1, <2>3, <2>4
<1>. QED BY <1>2, <1>3, <1>5, <1>6

\* finishForkScanBatch ends the batch, with or without a checkpoint.
LEMMA WorkerFinish ==
    ASSUME ScanPart, FinishBatch \/ AbandonBatch, pc' = pc
    PROVE  ScanPart'
<1>0. /\ MaxHeight \in Nat /\ wpc = "finish" /\ wpc' = "idle"
      /\ upper' = 0 /\ seenGen' = 0 /\ scanAt' = 0 /\ checked' = EmptyIndex
      /\ forkBatch' = NilBatch /\ fresh' = {}
      /\ UNCHANGED <<canon, mode, forkAligned, recoveryAnchor, recoveryDrop,
                     forkSchedule, recent, unripe>>
      BY HeightAssumption DEF FinishBatch, AbandonBatch, EndBatch, WorkerReset, WorkerFrame
<1>1. EmptyIndex \in [Heights -> MaybeBlock] /\ NilBatch \in Batch
      BY <1>0 DEF EmptyIndex, MaybeBlock, NilBatch, Batch, NoRewind
<1>2. /\ forkState' \in ForkScanState \cup {NilState}
      /\ scanned' \in [Heights -> MaybeBlock]
  <2>1. CASE UNCHANGED <<forkState, scanned>>
        BY <2>1 DEF ScanPart, CursorTypeOK
  <2>2. CASE ~UNCHANGED <<forkState, scanned>>
    <3>1. PICK n \in forkBatch.start .. scanAt :
              /\ VerifiedPrefix(n) /\ n > forkBatch.start
              /\ forkState' = [forkState EXCEPT !.next = n]
              /\ scanned' = [h \in Heights |->
                    IF h \in forkBatch.start .. n - 1 THEN checked[h] ELSE scanned[h]]
          BY <2>2 DEF FinishBatch, AbandonBatch
    <3>2. forkState \in ForkScanState /\ n \in 1 .. MaxHeight + 1
          BY <1>0, <3>1, AcceptedFacts
    <3>. QED BY <3>1, <3>2 DEF ScanPart, CursorTypeOK, WorkerTypeOK, ForkScanState
  <2>. QED BY <2>1, <2>2
<1>3. CursorTypeOK'
      BY <1>0, <1>1, <1>2 DEF ScanPart, CursorTypeOK
<1>4. WorkerTypeOK'
      BY <1>0, <1>1 DEF WorkerTypeOK
<1>5. ~Scanning' /\ ~HasBatch'
      BY <1>0 DEF Scanning, HasBatch, NilBatch
<1>6. BatchInv' /\ FenceInv'
      BY <1>0, <1>5 DEF ScanPart, BatchInv, FenceInv, Continuous
<1>. QED BY <1>3, <1>4, <1>6 DEF ScanPart

-----------------------------------------------------------------------------
(***************************************************************************)
(* The inductive invariant.                                                *)
(***************************************************************************)

\* The main flow's steps, and what surrounds the process, preserve IndInv.
LEMMA MainPreserves ==
    ASSUME MainPart, ScanPart,
           Environment \/ MainStep \/ Main(FlushCommit) \/ MainFailure \/ Crash
    PROVE  MainPart' /\ ScanPart'
<1>1. CASE Main(Produce) \/ Main(Rebalance) \/ Main(FlushCommit)
  <2>1. MainPart'
        BY <1>1, MainProduce, MainKafka DEF Main
  <2>2. UNCHANGED <<cursorVars, workerVars>> /\ pc' = pc
        BY <1>1 DEF Main, Produce, Rebalance, FlushCommit, runVars
  <2>. QED BY <2>1, <2>2, ScanIdle
<1>2. CASE Main(RebuildDB)
      BY <1>2, MainKafka, ScanRebuild DEF Main
<1>3. CASE Main(Start)
      BY <1>3, MainStart, ScanStart DEF Main
<1>4. CASE \/ Main(Fetch) \/ Main(FetchTimeout) \/ Main(SkipSeen)
           \/ Main(Reject) \/ Main(RejectReplay)
  <2>1. MainPart'
        BY <1>4, MainFetch DEF Main
  <2>2. UNCHANGED <<cursorVars, workerVars>> /\ (pc' = "down" <=> pc = "down")
        BY <1>4 DEF Main, Fetch, FetchTimeout, SkipSeen, Reject, RejectReplay,
                    pipelineVars, runVars
  <2>. QED BY <2>1, <2>2, ScanIdle
<1>5. CASE Main(BeginProcessed) \/ Main(BeginNew)
      BY <1>5, MainBegin, ScanBegin DEF Main
<1>6. CASE \/ Main(ReplicasReady) \/ Main(MarkForks) \/ Main(AlignOuterSingleton)
  <2>1. MainPart'
        BY <1>6, MainAdvance DEF Main
  <2>2. UNCHANGED <<cursorVars, workerVars>> /\ (pc' = "down" <=> pc = "down")
        BY <1>6 DEF Main, ReplicasReady, MarkForks, AlignOuterSingleton, Advance
  <2>. QED BY <2>1, <2>2, ScanIdle
<1>7. CASE Main(WriteDB)
      BY <1>7, MainAdvance, ScanWrite DEF Main
<1>8. CASE Main(Finish)
      BY <1>8, MainAdvance, ScanFinish DEF Main
<1>9. CASE Main(PublishOne) \/ Main(PublishFail)
      BY <1>9, MainPublish, ScanPublish DEF Main
<1>10. CASE Main(StepFail) \/ Main(Commit)
  <2>1. MainPart'
        BY <1>10, MainStepFail, MainCommit DEF Main
  <2>2. UNCHANGED <<cursorVars, workerVars>> /\ (pc' = "down" <=> pc = "down")
        BY <1>10 DEF Main, StepFail, Locked, Commit
  <2>. QED BY <2>1, <2>2, ScanIdle
<1>11. CASE Crash
      BY <1>11, MainCrash, ScanCrash DEF Crash
<1>. QED BY <1>1, <1>2, <1>3, <1>4, <1>5, <1>6, <1>7, <1>8, <1>9, <1>10, <1>11
         DEF Environment, MainStep, MainFailure

\* The worker's steps preserve IndInv.
LEMMA WorkerPreserves ==
    ASSUME MainPart, ScanPart, LockedWorker(Observe(FALSE)) \/ WorkerStep \/ WorkerFailure
    PROVE  MainPart' /\ ScanPart'
<1>1. /\ UNCHANGED <<kafkaVars, runVars, outVars>>
      /\ budget' \in [{"fails", "crashes", "rebalances", "rebuilds"} -> Nat]
  <2>1. CASE LockedWorker(Observe(FALSE)) \/ WorkerStep
        BY <2>1 DEF WorkerStep, LockedWorker, Worker, pipelineVars, MainPart,
                          PipelineTypeOK
  <2>2. CASE WorkerFailure
        BY <2>2, SpendTyped, PipelineAssumption
           DEF WorkerFailure, FailingWorker, MainPart
  <2>. QED BY <2>1, <2>2
<1>2. MainPart'
      BY <1>1, MainIdle
<1>3. pc' = pc
      BY <1>1 DEF runVars
<1>4. \/ \E elapsed \in BOOLEAN : Observe(elapsed)
      \/ BeginStale \/ BeginBatch
      \/ ReadCanonical \/ EndScan \/ EmptyPlan \/ PutVerified \/ GiveUpHeight
      \/ FinishBatch \/ AbandonBatch
      BY DEF WorkerStep, WorkerFailure, LockedWorker, Worker, FailingWorker, PutStale
<1>5. ScanPart'
      BY <1>3, <1>4, WorkerObserve, WorkerBegin, WorkerRead, WorkerEnd, WorkerNext,
         WorkerFinish
<1>. QED BY <1>2, <1>5

\* A step that changes nothing.
LEMMA StutterPreserves == ASSUME MainPart, ScanPart, UNCHANGED vars PROVE MainPart' /\ ScanPart'
<1>1. UNCHANGED <<kafkaVars, runVars, outVars, budget, cursorVars, workerVars>> /\ pc' = pc
      BY DEF vars, pipelineVars, runVars
<1>2. budget' \in [{"fails", "crashes", "rebalances", "rebuilds"} -> Nat]
      BY <1>1 DEF MainPart, PipelineTypeOK
<1>. QED BY <1>1, <1>2, MainIdle, ScanIdle

\* In every reachable state the types hold, publishOuter stays inside the message
\* in hand, a batch is active exactly while the worker scans it, and every height
\* the batch has read is unchanged since or fenced off.
THEOREM Inductive == Spec => []IndInv
<1>1. Init => IndInv
      BY MainInit, ScanInit DEF IndInv, TypeOK, MainPart, ScanPart
<1>2. IndInv => MainPart /\ ScanPart
      BY DEF IndInv, TypeOK, MainPart, ScanPart
<1>3. MainPart /\ ScanPart /\ [Next]_vars => MainPart' /\ ScanPart'
      BY MainPreserves, WorkerPreserves, StutterPreserves DEF Next
<1>4. MainPart' /\ ScanPart' => IndInv'
      BY DEF IndInv, TypeOK, MainPart, ScanPart
<1>. QED BY <1>1, <1>2, <1>3, <1>4, PTL DEF Spec

\* Type correctness of the composed process: the main flow, the fork-scan worker
\* and the durable cursor they share.
THEOREM TypeCorrect == Spec => []TypeOK
<1>1. IndInv => TypeOK
      BY DEF IndInv
<1>. QED BY <1>1, Inductive, PTL

-----------------------------------------------------------------------------
(***************************************************************************)
(* What the worker accepts.                                                *)
(***************************************************************************)

\* The cursor does not move forward within its generation.
NoAdvance == HasState /\ forkState'.gen = forkState.gen
                => forkState'.next <= forkState.next

\* Then nothing is accepted.
LEMMA NothingAccepted ==
    ASSUME CursorTypeOK, CursorTypeOK', NoAdvance
    PROVE  Accepted = {}
<1> SUFFICES ASSUME HasState, forkState'.gen = forkState.gen
             PROVE  forkState.next .. forkState'.next - 1 = {}
    BY DEF Accepted
<1>1. forkState \in ForkScanState /\ forkState' \in ForkScanState
      BY DEF CursorTypeOK, HasState, NilState
<1>2. forkState.next \in Int /\ forkState'.next \in Int
      BY <1>1 DEF ForkScanState
<1>. QED BY <1>2 DEF NoAdvance

\* Only finishForkScanBatch moves the cursor forward: prepareForkScan,
\* writeBlockInfoToDB and finishForkScan keep it, lower it, or start a new
\* generation.
LEMMA OnlyFinishAdvances ==
    ASSUME MainPart, ScanPart, Next, ~(LockedWorker(FinishBatch))
    PROVE  NoAdvance
<1>0. /\ CursorTypeOK
      /\ HasState => forkState.next \in Int
      BY DEF ScanPart, CursorTypeOK, HasState, ForkScanState, NilState
<1>1. CASE forkState' = forkState
      BY <1>0, <1>1 DEF NoAdvance
<1>2. CASE Main(RebuildDB)
      BY <1>2 DEF Main, RebuildDB, NoAdvance, HasState, NilState
<1>3. CASE Main(BeginProcessed) \/ Main(BeginNew)
  <2>1. /\ pc = "process"
        /\ \E processed \in BOOLEAN : PrepareForkScan(Msg, Offset, processed)
        BY <1>3 DEF Main, BeginProcessed, BeginNew
  <2>2. /\ Msg \in Notice /\ Msg.first <= Height[Msg.tail]
        /\ Offset \in 0 .. MaxMsgs
        BY <2>1, MsgFacts DEF MainPart
  <2>. QED BY <1>0, <2>1, <2>2, PrepareFacts DEF NoAdvance
<1>4. CASE Main(WriteDB)
  <2>1. pc = "write" /\ WriteBlockInfos(Msg)
        BY <1>4 DEF Main, WriteDB, Advance
  <2>2. Msg \in Notice /\ Msg.first <= Height[Msg.tail]
        BY <2>1, MsgFacts DEF MainPart
  <2>. QED BY <1>0, <2>1, <2>2, WriteFacts DEF NoAdvance
<1>5. CASE Main(Finish)
  <2>1. pc = "finish" /\ FinishForkScan(latest, Offset)
        BY <1>5 DEF Main, Finish, Advance
  <2>2. latest \in OuterNotice /\ Offset \in 0 .. MaxMsgs
        BY <2>1, MsgFacts DEF MainPart, PipelineTypeOK
  <2>. QED BY <1>0, <2>1, <2>2, FinishFacts DEF NoAdvance
<1>6. \/ forkState' = forkState
      \/ Main(RebuildDB) \/ Main(BeginProcessed) \/ Main(BeginNew)
      \/ Main(WriteDB) \/ Main(Finish)
  <2>1. CASE Environment \/ MainStep \/ Main(FlushCommit) \/ MainFailure
        BY <2>1 DEF Environment, MainStep, MainFailure, Main, cursorVars,
           Produce, Rebalance, FlushCommit, Start, Fetch, FetchTimeout, SkipSeen, Reject,
           RejectReplay, ReplicasReady, MarkForks, PublishOne, PublishFail,
           PublishUnchanged, AlignOuterSingleton, StepFail, Commit
  <2>2. CASE LockedWorker(Observe(FALSE)) \/ WorkerStep \/ WorkerFailure
        BY <2>2 DEF WorkerStep, WorkerFailure, LockedWorker, Worker, FailingWorker,
           CursorFrame, Observe, BeginStale, BeginBatch, ReadCanonical, EndScan,
           EmptyPlan, PutVerified, NextHeight, PutStale, GiveUpHeight, AbandonBatch
  <2>3. CASE Crash
        BY <2>3 DEF Crash, CrashPipeline
  <2>. QED BY <2>1, <2>2, <2>3 DEF Next
<1>. QED BY <1>1, <1>2, <1>3, <1>4, <1>5, <1>6

\* finishForkScanBatch never accepts a height whose index entry changed, even
\* away and back, after the batch read it: for every block tree, every batch
\* size and every interleaving of the main flow with the worker.
THEOREM FreshScans == Spec => AcceptedScansAreFresh
<1>1. ASSUME MainPart, ScanPart, MainPart', ScanPart', Next
      PROVE  Accepted \subseteq fresh
  <2>1. CASE LockedWorker(FinishBatch)
    <3>1. FinishBatch
          BY <2>1 DEF LockedWorker, Worker
    <3>0. wpc = "finish"
          BY <3>1 DEF FinishBatch
    <3>2. PICK n \in forkBatch.start .. scanAt :
              /\ VerifiedPrefix(n)
              /\ IF n > forkBatch.start
                 THEN forkState' = [forkState EXCEPT !.next = n]
                 ELSE forkState' = forkState
          BY <3>1 DEF FinishBatch
    <3>3. CASE n > forkBatch.start
      <4>1. /\ forkState \in ForkScanState
            /\ forkState.next = forkBatch.start
            /\ \A h \in forkBatch.start .. n - 1 : h \in fresh
            BY <1>1, <3>0, <3>2, <3>3, AcceptedFacts
      <4>2. forkState'.next = n
            BY <3>2, <3>3, <4>1 DEF ForkScanState
      <4>. QED BY <4>1, <4>2 DEF Accepted
    <3>4. CASE ~(n > forkBatch.start)
      <4>1. forkState' = forkState /\ CursorTypeOK /\ CursorTypeOK'
            BY <1>1, <3>2, <3>4 DEF ScanPart
      <4>2. HasState => forkState.next \in Int
            BY <4>1 DEF CursorTypeOK, HasState, ForkScanState, NilState
      <4>3. NoAdvance
            BY <4>1, <4>2 DEF NoAdvance
      <4>. QED BY <4>1, <4>3, NothingAccepted
    <3>. QED BY <3>3, <3>4
  <2>2. CASE ~LockedWorker(FinishBatch)
    <3>1. NoAdvance
          BY <1>1, <2>2, OnlyFinishAdvances
    <3>. QED BY <1>1, <3>1, NothingAccepted DEF ScanPart
  <2>. QED BY <2>1, <2>2
<1>2. IndInv => MainPart /\ ScanPart
      BY DEF IndInv, TypeOK, MainPart, ScanPart
<1>3. IndInv' => MainPart' /\ ScanPart'
      BY DEF IndInv, TypeOK, MainPart, ScanPart
<1>4. IndInv /\ IndInv' /\ [Next]_vars => [Accepted \subseteq fresh]_vars
      BY <1>1, <1>2, <1>3
<1>. QED BY <1>4, Inductive, PTL DEF Spec, AcceptedScansAreFresh

-----------------------------------------------------------------------------
(***************************************************************************)
(* The durable cursor of a checker that always runs in continuous mode     *)
(* claims only heights that were scanned under their current block.        *)
(*                                                                         *)
(* Coverage is inductive on top of IndInv: a step that writes the cursor   *)
(* resets it to an empty range, keeps a part of what it claimed while the  *)
(* index below it stays as it was, or adds heights that were verified      *)
(* against the index.                                                      *)
(***************************************************************************)

\* The step leaves a cursor that claims nothing.
CursorReset == forkState'.next = Height[forkState'.baseline] + 1

\* The step leaves a cursor that claims no more than before, and neither the
\* index nor the scan history changed below it.
CursorKept ==
    /\ HasState
    /\ forkState'.baseline = forkState.baseline
    /\ forkState'.next <= forkState.next
    /\ \A h \in Heights : h < forkState'.next =>
          /\ scanned'[h] = scanned[h]
          /\ canon[h] # NoBlock => canon'[h] = canon[h]

\* A cursor that is absent, reset or kept still covers what it claims.
LEMMA CoverageKept ==
    ASSUME CursorTypeOK, CursorTypeOK', Coverage,
           ~HasState' \/ CursorReset \/ CursorKept
    PROVE  Coverage'
<1> SUFFICES ASSUME HasState',
                    NEW h \in Height[forkState'.baseline] + 1 .. forkState'.next - 1
             PROVE  canon'[h] # NoBlock /\ scanned'[h] = canon'[h]
    BY DEF Coverage
<1>0. forkState' \in ForkScanState
      BY DEF CursorTypeOK, HasState, NilState
<1>1. /\ Height[forkState'.baseline] \in Nat /\ forkState'.next \in 1 .. MaxHeight + 1
      /\ MaxHeight \in Nat
      BY <1>0, HeightAssumption DEF ForkScanState, Heights
<1>2. h \in Heights /\ h < forkState'.next
      BY <1>1 DEF Heights
<1>3. CursorKept
      BY <1>1 DEF CursorReset
<1>4. forkState.next \in Int
      BY <1>3 DEF CursorKept, CursorTypeOK, HasState, NilState, ForkScanState
<1>5. h \in Height[forkState.baseline] + 1 .. forkState.next - 1
      BY <1>1, <1>3, <1>4 DEF CursorKept
<1>6. canon[h] # NoBlock /\ scanned[h] = canon[h]
      BY <1>3, <1>5 DEF Coverage, CursorKept
<1>. QED BY <1>2, <1>3, <1>6 DEF CursorKept

\* saveForkScan of a record that claims no more keeps the cursor.
LEMMA SaveKeeps ==
    ASSUME CursorTypeOK, HasState, NEW st, SaveForkScan(st),
           st.baseline = forkState.baseline, st.next <= forkState.next,
           st.next \in Int,
           \A h \in Heights : h < st.next /\ canon[h] # NoBlock => canon'[h] = canon[h]
    PROVE  CursorKept
    BY DEF SaveForkScan, CursorKept, Heights

\* An index and a cursor that stay as they are.
LEMMA SameKeeps ==
    ASSUME CursorTypeOK, UNCHANGED <<canon, forkState, scanned>>
    PROVE  ~HasState' \/ CursorKept
<1>1. HasState => forkState.next \in Int
      BY DEF CursorTypeOK, HasState, ForkScanState, NilState
<1>. QED BY <1>1 DEF HasState, CursorKept

\* prepareForkScan: nothing, a reset, or a reconciled replay.
LEMMA PrepareKeeps ==
    ASSUME CursorTypeOK, NEW n \in Notice, n.first <= Height[n.tail],
           NEW off, NEW processed, PrepareForkScan(n, off, processed), canon' = canon
    PROVE  ~HasState' \/ CursorReset \/ CursorKept
<1>1. CASE ProvenReplay(n, processed)
  <2> DEFINE gen == IF HasDrops(n) THEN forkState.gen + 1 ELSE forkState.gen
             next == IF HasDrops(n) THEN MinOf(forkState.next, n.first)
                                    ELSE forkState.next
             st == [forkState EXCEPT !.gen = gen, !.next = next,
                                     !.published = recoveryAnchor, !.pending = NoBlock]
  <2>1. SaveForkScan(st)
        BY <1>1 DEF PrepareForkScan, ReconcileForkScanReplay
  <2>2. HasState /\ forkState \in ForkScanState
        BY <1>1 DEF ProvenReplay, CursorTypeOK, HasState, NilState
  <2>3. n.first \in 1 .. MaxHeight
        BY NoticeFacts DEF Heights
  <2>4. next \in Int /\ next <= forkState.next
        BY <2>2, <2>3 DEF ForkScanState, MinOf
  <2> HIDE DEF gen, next
  <2>5. st.baseline = forkState.baseline /\ st.next = next
        BY <2>2 DEF ForkScanState
  <2> HIDE DEF st
  <2>. QED BY <2>1, <2>2, <2>4, <2>5, SaveKeeps
<1>2. CASE ~ProvenReplay(n, processed) /\ AwaitsAlignment /\ NeedsReset(off)
      BY <1>2 DEF PrepareForkScan, InitializeForkScan, SaveForkScan, CursorReset
<1>3. CASE ~ProvenReplay(n, processed) /\ ~(AwaitsAlignment /\ NeedsReset(off))
      BY <1>3, SameKeeps DEF PrepareForkScan, KeepForkScan
<1>. QED BY <1>1, <1>2, <1>3

\* finishForkScan: nothing, a first baseline, or a promotion.
LEMMA FinishKeeps ==
    ASSUME CursorTypeOK, NEW l, NEW off, FinishForkScan(l, off), canon' = canon
    PROVE  ~HasState' \/ CursorReset \/ CursorKept
<1>1. CASE ~Continuous \/ l.isFork
      BY <1>1, SameKeeps DEF FinishForkScan, KeepForkScan
<1>2. CASE Continuous /\ ~l.isFork /\ ~HasState
      BY <1>2 DEF FinishForkScan, InitializeForkScan, SaveForkScan, CursorReset
<1>3. CASE Continuous /\ ~l.isFork /\ HasState
  <2> DEFINE pend == IF forkState.pending = l.hash THEN NoBlock ELSE forkState.pending
             st == [forkState EXCEPT !.published = l.hash, !.pending = pend, !.pos = off]
  <2>1. SaveForkScan(st)
        BY <1>3 DEF FinishForkScan
  <2>2. forkState \in ForkScanState
        BY <1>3 DEF CursorTypeOK, HasState, NilState
  <2> HIDE DEF pend
  <2>3. /\ st.baseline = forkState.baseline
        /\ st.next = forkState.next /\ st.next \in Int
        BY <2>2 DEF ForkScanState
  <2> HIDE DEF st
  <2>. QED BY <1>3, <2>1, <2>3, SaveKeeps
<1>. QED BY <1>1, <1>2, <1>3

\* writeBlockInfoToDB lowers the cursor to the lowest index entry it replaces.
LEMMA WriteKeeps ==
    ASSUME CursorTypeOK, NEW n \in Notice, n.first <= Height[n.tail],
           Continuous, WriteBlockInfos(n)
    PROVE  ~HasState' \/ CursorKept
<1>1. CASE ~HasState
      BY <1>1 DEF WriteBlockInfos, KeepForkScan, HasState
<1>2. CASE HasState
  <2> DEFINE gen == IF Affected(n) = {} THEN forkState.gen ELSE forkState.gen + 1
             candidates == Affected(n) \cup {forkState.next}
  <2>1. PICK low \in candidates :
            /\ \A h \in candidates : low <= h
            /\ SaveForkScan([forkState EXCEPT !.next = low, !.gen = gen,
                                              !.pending = n.tail])
        BY <1>2 DEF WriteBlockInfos
  <2>2. forkState \in ForkScanState
        BY <1>2 DEF CursorTypeOK, HasState, NilState
  <2>3. /\ n.first \in 1 .. MaxHeight /\ Height[n.tail] \in 1 .. MaxHeight
        /\ MaxHeight \in Nat
        BY NoticeFacts, HeightAssumption DEF Heights
  <2>4. low \in Int /\ low <= forkState.next
        BY <2>1, <2>2, <2>3 DEF Affected, ReplacedHeights, StaleAbove, ForkScanState
  <2>5. ASSUME NEW h \in Heights, h < low, canon[h] # NoBlock
        PROVE  canon'[h] = canon[h]
    <3>1. h \in Int
          BY <2>3 DEF Heights
    <3>2. h \notin ReplacedHeights(n)
          BY <2>1, <2>4, <2>5, <3>1 DEF Affected
    <3>3. canon'[h] = IF h \in n.first .. Height[n.tail] THEN Anc[n.tail][h]
                      ELSE IF h \in StaleAbove(n.tail) THEN NoBlock ELSE canon[h]
          BY DEF WriteBlockInfos, WrittenIndex
    <3>. QED BY <2>5, <3>2, <3>3 DEF ReplacedHeights
  <2> DEFINE st == [forkState EXCEPT !.next = low, !.gen = gen, !.pending = n.tail]
  <2> HIDE DEF gen, candidates
  <2>6. st.baseline = forkState.baseline /\ st.next = low
        BY <2>2 DEF ForkScanState
  <2>7. SaveForkScan(st)
        BY <2>1
  <2> HIDE DEF st
  <2>. QED BY <1>2, <2>4, <2>5, <2>6, <2>7, SaveKeeps
<1>. QED BY <1>1, <1>2

\* finishForkScanBatch adds only heights it has verified against the index.
LEMMA FinishBatchCovers ==
    ASSUME ScanPart, Coverage, FinishBatch
    PROVE  Coverage'
<1>1. wpc = "finish" /\ canon' = canon
      BY DEF FinishBatch, EndBatch, WorkerFrame
<1>2. CASE UNCHANGED <<forkState, scanned>>
      BY <1>1, <1>2 DEF Coverage, HasState
<1>3. CASE ~UNCHANGED <<forkState, scanned>>
  <2>1. PICK n \in forkBatch.start .. scanAt :
            /\ VerifiedPrefix(n) /\ n > forkBatch.start
            /\ forkState' = [forkState EXCEPT !.next = n]
            /\ scanned' = [h \in Heights |->
                  IF h \in forkBatch.start .. n - 1 THEN checked[h] ELSE scanned[h]]
        BY <1>3 DEF FinishBatch
  <2>2. /\ forkState \in ForkScanState
        /\ forkState.next = forkBatch.start
        /\ n \in 1 .. MaxHeight + 1
        /\ \A h \in forkBatch.start .. n - 1 :
              h \in Heights /\ canon[h] # NoBlock /\ checked[h] = canon[h]
        BY <1>1, <2>1, AcceptedFacts
  <2>3. forkState'.next = n /\ forkState'.baseline = forkState.baseline
        BY <2>1, <2>2 DEF ForkScanState
  <2>4. /\ HasState /\ Height[forkState.baseline] \in Nat
        /\ forkState.next \in 1 .. MaxHeight + 1 /\ MaxHeight \in Nat
        BY <2>2, HeightAssumption DEF HasState, ForkScanState, Heights
  <2>5. ASSUME NEW h \in Height[forkState.baseline] + 1 .. n - 1
        PROVE  canon'[h] # NoBlock /\ scanned'[h] = canon'[h]
    <3>1. h \in Heights
          BY <2>2, <2>4 DEF Heights
    <3>2. CASE h \in forkBatch.start .. n - 1
          BY <1>1, <2>1, <2>2, <3>1, <3>2
    <3>3. CASE h \notin forkBatch.start .. n - 1
      <4>1. h \in Height[forkState.baseline] + 1 .. forkState.next - 1
            BY <2>2, <2>4, <3>3
      <4>. QED BY <1>1, <2>1, <2>4, <3>1, <3>3, <4>1 DEF Coverage
    <3>. QED BY <3>2, <3>3
  <2>. QED BY <2>3, <2>5 DEF Coverage
<1>. QED BY <1>2, <1>3

\* Every step of a checker that runs in continuous mode only.
LEMMA NextCovers ==
    ASSUME Modes \subseteq {"continuous"},
           MainPart, ScanPart, ScanPart', Coverage, [Next]_vars
    PROVE  Coverage'
<1>0. CursorTypeOK /\ CursorTypeOK'
      BY DEF ScanPart
<1>1. CASE UNCHANGED <<canon, forkState, scanned>>
      BY <1>1 DEF Coverage, HasState
<1>2. CASE Main(RebuildDB)
      BY <1>2 DEF Main, RebuildDB, Coverage, HasState, NilState
<1>3. CASE Main(BeginProcessed) \/ Main(BeginNew)
  <2>1. /\ pc = "process" /\ canon' = canon
        /\ \E processed \in BOOLEAN : PrepareForkScan(Msg, Offset, processed)
        BY <1>3 DEF Main, BeginProcessed, BeginNew
  <2>2. Msg \in Notice /\ Msg.first <= Height[Msg.tail]
        BY <2>1, MsgFacts DEF MainPart
  <2>3. ~HasState' \/ CursorReset \/ CursorKept
        BY <1>0, <2>1, <2>2, PrepareKeeps
  <2>. QED BY <1>0, <2>3, CoverageKept
<1>4. CASE Main(WriteDB)
  <2>1. pc = "write" /\ WriteBlockInfos(Msg)
        BY <1>4 DEF Main, WriteDB, Advance
  <2>2. Msg \in Notice /\ Msg.first <= Height[Msg.tail]
        BY <2>1, MsgFacts DEF MainPart
  <2>3. Continuous
        BY <2>1 DEF ScanPart, BatchInv, Continuous
  <2>4. ~HasState' \/ CursorKept
        BY <1>0, <2>1, <2>2, <2>3, WriteKeeps
  <2>. QED BY <1>0, <2>4, CoverageKept
<1>5. CASE Main(Finish)
  <2>1. canon' = canon /\ FinishForkScan(latest, Offset)
        BY <1>5 DEF Main, Finish
  <2>2. ~HasState' \/ CursorReset \/ CursorKept
        BY <1>0, <2>1, FinishKeeps
  <2>. QED BY <1>0, <2>2, CoverageKept
<1>6. CASE LockedWorker(FinishBatch)
      BY <1>6, FinishBatchCovers DEF LockedWorker, Worker
<1>7. \/ UNCHANGED <<canon, forkState, scanned>>
      \/ Main(RebuildDB) \/ Main(BeginProcessed) \/ Main(BeginNew)
      \/ Main(WriteDB) \/ Main(Finish) \/ LockedWorker(FinishBatch)
  <2>1. CASE Environment \/ MainStep \/ Main(FlushCommit) \/ MainFailure
        BY <2>1 DEF Environment, MainStep, MainFailure, Main, cursorVars, historyVars,
           Produce, Rebalance, FlushCommit, Start, Fetch, FetchTimeout, SkipSeen, Reject,
           RejectReplay, ReplicasReady, MarkForks, PublishOne, PublishFail,
           PublishUnchanged, AlignOuterSingleton, StepFail, Commit
  <2>2. CASE LockedWorker(Observe(FALSE)) \/ WorkerStep \/ WorkerFailure
        BY <2>2 DEF WorkerStep, WorkerFailure, LockedWorker, Worker, FailingWorker,
           CursorFrame, WorkerFrame, Observe, BeginStale, BeginBatch, ReadCanonical,
           EndScan, EmptyPlan, PutVerified, NextHeight, PutStale, GiveUpHeight,
           AbandonBatch, EndBatch
  <2>3. CASE Crash
        BY <2>3 DEF Crash, CrashPipeline
  <2>4. CASE UNCHANGED vars
        BY <2>4 DEF vars, cursorVars
  <2>. QED BY <2>1, <2>2, <2>3, <2>4 DEF Next
<1>. QED BY <1>1, <1>2, <1>3, <1>4, <1>5, <1>6, <1>7

\* A checker that is never started in another scan mode keeps a durable cursor
\* whose every claimed height was scanned under the block that is canonical now,
\* through any number of failures, crashes, rebalances and rebuilds of the DB.
THEOREM ContinuousCoverage ==
    ASSUME Modes \subseteq {"continuous"}
    PROVE  Spec => []Coverage
<1>1. Init => Coverage
      BY DEF Init, CursorInit, Coverage, HasState, NilState
<1>2. IndInv => MainPart /\ ScanPart
      BY DEF IndInv, TypeOK, MainPart, ScanPart
<1>3. IndInv' => ScanPart'
      BY DEF IndInv, TypeOK, ScanPart
<1>4. IndInv /\ IndInv' /\ Coverage /\ [Next]_vars => Coverage'
      BY <1>2, <1>3, NextCovers
<1>. QED BY <1>1, <1>4, Inductive, PTL DEF Spec
=============================================================================
