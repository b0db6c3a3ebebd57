---------------------------- MODULE MarksProofs ----------------------------
(***************************************************************************)
(* Theorems about ForkMarks, for every tree of blocks, every window and    *)
(* any number of notices and faults.                                       *)
(***************************************************************************)
EXTENDS ForkMarks, TLAPS

\* What the scan has in hand belongs to the height it is at, and what a listing
\* holds to the height that was listed.
ScanInv ==
    /\ \A b \in unread \cup plan : Height[b] = sh
    /\ \A h \in Heights : \A b \in keys[h] : b # NoBlock => Height[b] = h
    /\ spc \in {"list", "get", "put"} => hash \in Block
    /\ spc \in {"idle", "read", "list"} => unread = {} /\ plan = {}

\* A notice in hand is a proper one, and everything kept for it concerns its
\* heights.
WorkInv ==
    /\ pc # "fetch" \/ known # {} => todo \in Notice /\ WellFormed(todo)
    /\ \A b \in known : Height[b] \in NewHeights
    /\ asked # {} => pc = "replicas"
    /\ asked \subseteq {"list", "get"} \X NewHeights
    /\ Marking => at \in NewHeights
    /\ pc \in {"publish", "align"} => at = todo.first

\* A prefetched listing with the canonical object has every known object of its
\* height: objects are added to S3, never removed.  A prefetched validation that
\* said "main" is still right, since nobody but a late PUT of the scan makes a
\* new block a fork while processNotice has the mutex.
HintInv ==
    /\ pc \in {"replicas", "drop", "write", "mark"} =>
          \A h \in NewHeights : Canonical(h) \in keys[h] =>
             \A b \in known : Height[b] = h => b \in keys[h]
    /\ Locked /\ ~hit =>
          \A h \in NewHeights : val[h] = "main" => mark[Canonical(h)] = "main"

\* From the write until the next notice the index has the blocks of the notice.
IndexInv ==
    pc \in {"mark", "publish", "align", "recheck"} \/ (pc = "fetch" /\ known # {}) =>
        \A h \in NewHeights : canon[h] = Canonical(h)

Settled(b) == mark[b] = Proper(b, Canonical(Height[b]))

\* The heights below the one being marked are done, and all of them afterwards.
MarkedInv ==
    ~hit => \A b \in known :
        pc \in {"publish", "fetch"} \/ (Marking /\ Height[b] < at) => Settled(b)

\* The inductive invariant.
MarksInv == TypeOK /\ ScanInv /\ WorkInv /\ HintInv /\ IndexInv /\ MarkedInv

-----------------------------------------------------------------------------
(***************************************************************************)
(* The blocks of a notice.                                                 *)
(***************************************************************************)

\* The new blocks of a notice are blocks, each at its own height, and none of
\* them is dropped by the same notice.
LEMMA NewBlocks ==
    ASSUME NEW n \in Notice, WellFormed(n)
    PROVE  /\ n.first \in Heights /\ Height[n.tail] \in Heights
           /\ n.first <= Height[n.tail]
           /\ \A h \in n.first .. Height[n.tail] :
                 /\ h \in Heights
                 /\ Anc[n.tail][h] \in Block
                 /\ Height[Anc[n.tail][h]] = h
           /\ \A k \in n.first .. Height[n.old], h \in n.first .. Height[n.tail] :
                 Anc[n.old][k] # Anc[n.tail][h]
  <1>1. /\ n.tail \in Block /\ n.old \in MaybeBlock /\ n.first \in Heights
        /\ n.first <= Height[n.tail]
        /\ Anc[n.old][n.first] # Anc[n.tail][n.first]
    BY DEF Notice, WellFormed
  <1>2. Height[n.tail] \in Heights /\ Height[n.old] \in 0 .. MaxHeight
    BY <1>1, HeightAssumption DEF MaybeBlock
  <1>3. \A b \in MaybeBlock : \A h \in n.first .. Height[b] :
           /\ h \in Heights
           /\ Anc[b][h] \in Block
           /\ Height[Anc[b][h]] = h
           /\ Anc[Anc[b][h]][n.first] = Anc[b][n.first]
    <2> SUFFICES ASSUME NEW b \in MaybeBlock, NEW h \in n.first .. Height[b]
                 PROVE  /\ h \in Heights /\ Anc[b][h] \in Block
                        /\ Height[Anc[b][h]] = h
                        /\ Anc[Anc[b][h]][n.first] = Anc[b][n.first]
      OBVIOUS
    <2>1. Height[b] \in 0 .. MaxHeight /\ MaxHeight \in Nat
      BY HeightAssumption
    <2>2. h \in Heights /\ h \in 1 .. Height[b] /\ h \in 0 .. MaxHeight
          /\ n.first \in 0 .. h
      BY <1>1, <2>1 DEF Heights
    <2>3. b \in Block
      <3>1. b # NoBlock
        BY <2>2, HeightAssumption
      <3> QED BY <3>1 DEF MaybeBlock
    <2>4. Anc[b][h] \in MaybeBlock
      BY <2>2, AncAssumption
    <2>5. Anc[b][h] # NoBlock /\ Height[Anc[b][h]] = h
      BY <2>2, AncAssumption
    <2>6. Anc[Anc[b][h]][n.first] = Anc[b][n.first]
      BY <2>2, <2>3, AncAssumption
    <2> QED BY <2>2, <2>4, <2>5, <2>6 DEF MaybeBlock
  <1>4. ASSUME NEW k \in n.first .. Height[n.old], NEW h \in n.first .. Height[n.tail]
        PROVE  Anc[n.old][k] # Anc[n.tail][h]
    <2>1. /\ Anc[Anc[n.old][k]][n.first] = Anc[n.old][n.first]
          /\ Anc[Anc[n.tail][h]][n.first] = Anc[n.tail][n.first]
      BY <1>1, <1>3 DEF MaybeBlock
    <2> QED BY <2>1, <1>1
  <1>5. \A h \in n.first .. Height[n.tail] :
           h \in Heights /\ Anc[n.tail][h] \in Block /\ Height[Anc[n.tail][h]] = h
    BY <1>1, <1>3 DEF MaybeBlock
  <1> QED BY <1>1, <1>2, <1>4, <1>5

\* The same of the notice in hand.
LEMMA InHand ==
    ASSUME WorkInv, pc # "fetch" \/ known # {}
    PROVE  /\ todo \in Notice /\ WellFormed(todo)
           /\ todo.first \in Heights /\ Height[todo.tail] \in Heights
           /\ todo.first \in NewHeights /\ Height[todo.tail] \in NewHeights
           /\ NewHeights \subseteq Heights
           /\ \A h \in NewHeights : Canonical(h) \in Block /\ Height[Canonical(h)] = h
  <1>1. todo \in Notice /\ WellFormed(todo)
    BY DEF WorkInv
  <1>2. Heights \subseteq Int
    BY HeightAssumption DEF Heights
  <1>3. /\ todo.first \in Heights /\ Height[todo.tail] \in Heights
        /\ todo.first <= Height[todo.tail]
        /\ \A h \in NewHeights : /\ h \in Heights
                                /\ Canonical(h) \in Block /\ Height[Canonical(h)] = h
    BY <1>1, NewBlocks DEF NewHeights, Canonical
  <1>4. todo.first \in NewHeights /\ Height[todo.tail] \in NewHeights
    <2>1. todo.first \in Int /\ Height[todo.tail] \in Int
      BY <1>2, <1>3
    <2> QED BY <2>1, <1>3 DEF NewHeights
  <1> QED BY <1>1, <1>3, <1>4

-----------------------------------------------------------------------------
\* The invariant holds when the model starts.
LEMMA InitMarks == Init => MarksInv
  <1> SUFFICES ASSUME Init PROVE MarksInv
    OBVIOUS
  <1> USE DEF Init
  <1>1. TypeOK
    <2>1. 1 \in Heights /\ 0 \in 0 .. MaxHeight
      BY HeightAssumption DEF Heights
    <2>2. canon \in [Heights -> MaybeBlock]
      <3>1. Heights \subseteq 0 .. MaxHeight /\ Root \in MaybeBlock
        BY HeightAssumption, ForkMarksAssumption DEF Heights, MaybeBlock
      <3>2. \A h \in Heights : Anc[Root][h] \in MaybeBlock
        BY <3>1, AncAssumption
      <3> QED BY <3>2
    <2>3. keys \in [Heights -> (SUBSET Block) \cup {ListFailed}]
      BY DEF NoKeys
    <2>4. val \in [Heights -> {"none", "main", "fork"}]
      BY DEF NoValues
    <2>5. notices \in 0 .. MaxNotices /\ faults \in 0 .. MaxFaults /\ attempt \in 0 .. 2
      BY ForkMarksAssumption
    <2>6. \A h \in Heights : keys[h] = {}
      BY DEF NoKeys
    <2> QED BY <2>1, <2>2, <2>3, <2>4, <2>5, <2>6, ForkMarksAssumption
            DEF TypeOK, NoWork, MaybeBlock
  <1>2. ScanInv
    BY DEF ScanInv, NoKeys
  <1>3. WorkInv /\ HintInv /\ IndexInv /\ MarkedInv
    BY DEF WorkInv, HintInv, IndexInv, MarkedInv, Marking, Locked
  <1> QED BY <1>1, <1>2, <1>3 DEF MarksInv

-----------------------------------------------------------------------------
(***************************************************************************)
(* The window scan.                                                        *)
(***************************************************************************)

\* A step of the scan that changes no mark leaves processNotice's part alone.
LEMMA ScanLeavesMarks ==
    ASSUME MarksInv, ScanFrame, UNCHANGED <<mark, hit>>
    PROVE  WorkInv' /\ HintInv' /\ IndexInv' /\ MarkedInv'
  BY DEF MarksInv, ScanFrame, mainVars, hintVars, WorkInv, HintInv, IndexInv, MarkedInv,
         Marking, Locked, Settled, NewHeights, Canonical, Proper

\* Going on to the next height leaves nothing of the last one in hand.
LEMMA NextHeightFacts ==
    ASSUME TypeOK, NextHeight
    PROVE  /\ spc' \in {"idle", "read"} /\ hash' = NoBlock
           /\ tip' \in 0 .. MaxHeight /\ sh' \in Heights
           /\ unread' = {} /\ plan' = {}
  <1>1. sh \in Heights /\ tip \in 0 .. MaxHeight /\ MaxHeight \in Nat \ {0}
    BY HeightAssumption DEF TypeOK
  <1>2. CASE sh < tip
    BY <1>1, <1>2 DEF NextHeight, Heights
  <1>3. CASE ~(sh < tip)
    BY <1>1, <1>3 DEF NextHeight, Heights
  <1> QED BY <1>2, <1>3

\* The rest of the state stays typed through a step of the scan.
LEMMA ScanTypes ==
    ASSUME TypeOK, ScanFrame,
           mark' \in [Block -> {"absent", "main", "fork"}],
           \A b \in Block : mark[b] # "absent" => mark'[b] # "absent",
           late' \subseteq Block \X {"main", "fork"},
           spc' \in {"idle", "read", "list", "get", "put"},
           tip' \in 0 .. MaxHeight, sh' \in Heights, hash' \in MaybeBlock,
           hit' \in BOOLEAN, faults' \in 0 .. MaxFaults, UNCHANGED notices,
           \A b \in unread' \cup plan' : b \in Block /\ mark'[b] # "absent"
    PROVE  TypeOK'
  <1>1. \A h \in Heights : \A b \in keys[h] : b # NoBlock => b \in Block
    BY DEF TypeOK, ListFailed
  <1> QED BY <1>1 DEF TypeOK, ScanFrame, mainVars, hintVars

\* A fault stays within its bound.
LEMMA FaultType ==
    ASSUME TypeOK, Fault
    PROVE  faults' \in 0 .. MaxFaults /\ notices' = notices
  <1>1. faults \in 0 .. MaxFaults /\ MaxFaults \in Nat
    BY ForkMarksAssumption DEF TypeOK
  <1> QED BY <1>1 DEF Fault

\* The height is given up, finished, or not there.
LEMMA ScanMovesOn ==
    ASSUME MarksInv, NextHeight, ScanFrame, UNCHANGED <<mark, hit, notices>>,
           late' \subseteq Block \X {"main", "fork"}, faults' \in 0 .. MaxFaults
    PROVE  MarksInv'
  <1>1. /\ spc' \in {"idle", "read"} /\ hash' = NoBlock
        /\ tip' \in 0 .. MaxHeight /\ sh' \in Heights
        /\ unread' = {} /\ plan' = {}
    BY NextHeightFacts DEF MarksInv
  <1>2. TypeOK'
    BY <1>1, ScanTypes DEF MarksInv, TypeOK, MaybeBlock
  <1>3. ScanInv'
    BY <1>1 DEF MarksInv, ScanInv, ScanFrame, mainVars, hintVars
  <1> QED BY <1>2, <1>3, ScanLeavesMarks DEF MarksInv

\* Every step of the scan, its failures and timeouts included, keeps the
\* invariant: a PUT is verified against the index under the mutex.
LEMMA ScanStep ==
    ASSUME MarksInv, Scan \/ ScanGivesUp \/ \E b \in Block : ScanPutTimeout(b)
    PROVE  MarksInv'
  <1> USE DEF MarksInv, s3Vars, budget
  <1>0. /\ faults \in 0 .. MaxFaults /\ late \subseteq Block \X {"main", "fork"}
        /\ mark \in [Block -> {"absent", "main", "fork"}]
        /\ sh \in Heights /\ tip \in 0 .. MaxHeight /\ latest \in Block
        /\ hash \in MaybeBlock
        /\ \A b \in unread \cup plan : b \in Block /\ mark[b] # "absent"
    BY DEF TypeOK
  <1>1. CASE ScanStart
    <2>1. Height[latest] \in Heights /\ MaxHeight \in Nat /\ Lookback \in Nat \ {0}
      BY <1>0, HeightAssumption, ForkMarksAssumption
    <2>2. tip' \in 0 .. MaxHeight /\ sh' \in Heights
      BY <1>1, <2>1 DEF ScanStart, WindowStart, Heights
    <2>3. TypeOK'
      BY <1>0, <1>1, <2>2, ScanTypes DEF ScanStart, TypeOK
    <2>4. ScanInv'
      BY <1>1 DEF ScanStart, ScanInv, ScanFrame, mainVars, hintVars
    <2> QED BY <1>1, <2>3, <2>4, ScanLeavesMarks DEF ScanStart
  <1>2. CASE ScanRead
    <2>1. CASE CanonicalForScan(sh) = NoBlock
      BY <1>0, <1>2, <2>1, ScanMovesOn DEF ScanRead
    <2>2. CASE CanonicalForScan(sh) # NoBlock
      <3>1. CanonicalForScan(sh) \in Block
        BY <2>2, <1>0 DEF CanonicalForScan, TypeOK, MaybeBlock
      <3>2. TypeOK'
        BY <1>0, <1>2, <2>2, <3>1, ScanTypes DEF ScanRead, TypeOK, MaybeBlock
      <3>3. ScanInv'
        BY <1>2, <2>2, <3>1 DEF ScanRead, ScanInv, ScanFrame, mainVars, hintVars
      <3> QED BY <1>2, <3>2, <3>3, ScanLeavesMarks DEF ScanRead
    <2> QED BY <2>1, <2>2
  <1>3. CASE ScanList
    <2>1. CASE hash \notin List(sh)
      BY <1>0, <1>3, <2>1, ScanMovesOn DEF ScanList
    <2>2. CASE hash \in List(sh)
      <3>1. \A b \in List(sh) : b \in Block /\ mark[b] # "absent" /\ Height[b] = sh
        BY DEF List
      <3>2. TypeOK'
        BY <1>0, <1>3, <2>2, <3>1, ScanTypes DEF ScanList, TypeOK
      <3>3. ScanInv'
        BY <1>3, <2>2, <3>1 DEF ScanList, ScanInv, ScanFrame, mainVars, hintVars
      <3> QED BY <1>3, <3>2, <3>3, ScanLeavesMarks DEF ScanList
    <2> QED BY <2>1, <2>2
  <1>4. ASSUME NEW b \in Block, ScanGet(b) PROVE MarksInv'
    <2>1. unread' \subseteq unread /\ plan' \subseteq plan \cup {b} /\ b \in unread
      BY <1>4 DEF ScanGet
    <2>2. TypeOK'
      BY <1>0, <1>4, <2>1, ScanTypes DEF ScanGet, TypeOK
    <2>3. ScanInv'
      BY <1>4, <2>1 DEF ScanGet, ScanInv, ScanFrame, mainVars, hintVars
    <2> QED BY <1>4, <2>2, <2>3, ScanLeavesMarks DEF ScanGet
  <1>5. ASSUME NEW b \in Block, ScanPut(b) PROVE MarksInv'
    <2>1. /\ hash \in Block /\ Height[b] = sh /\ b \in plan
          /\ canon[Height[b]] = hash
      BY <1>5, NoBlockAssumption DEF ScanPut, ScanInv, Verified, CanonicalForScan
    <2>2. /\ mark' \in [Block -> {"absent", "main", "fork"}]
          /\ mark'[b] = Proper(b, canon[Height[b]])
          /\ \A c \in Block : c # b => mark'[c] = mark[c]
          /\ mark'[b] # "absent"
      BY <1>0, <1>5, <2>1 DEF ScanPut, Proper
    <2>3. plan' \subseteq plan
      BY <1>5 DEF ScanPut
    <2>4. TypeOK'
      BY <1>0, <1>5, <2>2, <2>3, ScanTypes DEF ScanPut, TypeOK
    <2>5. ScanInv'
      BY <1>5, <2>3 DEF ScanPut, ScanInv, ScanFrame, mainVars, hintVars
    <2>6. WorkInv' /\ IndexInv'
      BY <1>5 DEF ScanPut, ScanFrame, mainVars, hintVars, WorkInv, IndexInv, Marking,
                  NewHeights, Canonical
    <2>7. HintInv'
      BY <1>5 DEF ScanPut, ScanFrame, mainVars, hintVars, HintInv, Locked, NewHeights,
                  Canonical
    <2>8. MarkedInv'
      <3> SUFFICES ASSUME ~hit, NEW c \in known,
                          pc \in {"publish", "fetch"} \/ (Marking /\ Height[c] < at)
                   PROVE  Settled(c)'
        BY <1>5 DEF ScanPut, ScanFrame, mainVars, MarkedInv, Marking
      <3>1. pc = "fetch"
        BY <1>5 DEF ScanPut, Locked, Marking
      <3>2. c \in Block /\ Height[c] \in NewHeights
        BY DEF TypeOK, WorkInv
      <3>3. canon[Height[c]] = Canonical(Height[c])
        BY <3>1, <3>2 DEF IndexInv
      <3>4. mark'[c] = Proper(c, Canonical(Height[c]))
        BY <3>1, <3>2, <3>3, <2>2 DEF MarkedInv, Settled
      <3> QED BY <1>5, <3>4 DEF ScanPut, ScanFrame, mainVars, Settled, Canonical, Proper
    <2> QED BY <2>4, <2>5, <2>6, <2>7, <2>8
  <1>6. CASE ScanHeightEnds
    BY <1>0, <1>6, ScanMovesOn DEF ScanHeightEnds
  <1>7. CASE ScanGivesUp
    BY <1>0, <1>7, ScanMovesOn, FaultType DEF ScanGivesUp
  <1>8. ASSUME NEW b \in Block, ScanPutTimeout(b) PROVE MarksInv'
    <2>1. late' \subseteq Block \X {"main", "fork"}
      BY <1>0, <1>8 DEF ScanPutTimeout, Proper
    <2> QED BY <1>8, <2>1, ScanMovesOn, FaultType DEF ScanPutTimeout
  <1> QED BY <1>1, <1>2, <1>3, <1>4, <1>5, <1>6, <1>7, <1>8 DEF Scan

-----------------------------------------------------------------------------
(***************************************************************************)
(* Uploads, and PUTs of the scan that land late.                           *)
(***************************************************************************)
\* An upload concerns an object no listing has seen; a PUT that lands late is
\* recorded in hit.
LEMMA StoreStep ==
    ASSUME MarksInv, Landing \/ \E b \in Block : Upload(b)
    PROVE  MarksInv'
  <1> USE DEF MarksInv
  <1>1. ASSUME NEW b \in Block, NEW to \in {"main", "fork"},
               mark' = [mark EXCEPT ![b] = to],
               UNCHANGED <<canon, latest, mainVars, scanVars, known, budget>>,
               late' \subseteq late, hit' \in BOOLEAN
        PROVE  TypeOK' /\ ScanInv' /\ WorkInv' /\ IndexInv'
    <2>1. /\ mark' \in [Block -> {"absent", "main", "fork"}]
          /\ \A c \in Block : mark[c] # "absent" => mark'[c] # "absent"
      BY <1>1 DEF TypeOK
    <2>2. \A h \in Heights : \A c \in keys[h] : c # NoBlock => c \in Block
      BY DEF TypeOK, ListFailed
    <2>3. TypeOK'
      BY <1>1, <2>1, <2>2 DEF TypeOK, mainVars, hintVars, scanVars, budget
    <2>4. ScanInv'
      BY <1>1 DEF ScanInv, mainVars, hintVars, scanVars
    <2>5. WorkInv' /\ IndexInv'
      BY <1>1 DEF WorkInv, IndexInv, mainVars, hintVars, Marking, NewHeights, Canonical
    <2> QED BY <2>3, <2>4, <2>5
  <1>2. ASSUME NEW b \in Block, Upload(b) PROVE MarksInv'
    <2>1. TypeOK' /\ ScanInv' /\ WorkInv' /\ IndexInv'
      BY <1>1, <1>2 DEF Upload, TypeOK
    <2>2. \A c \in Block : mark'[c] = IF c = b THEN "main" ELSE mark[c]
      BY <1>2 DEF Upload, TypeOK
    <2>3. HintInv'
      <3>1. Locked => \A h \in NewHeights : Canonical(h) \in Block
        BY InHand DEF Locked
      <3> QED BY <1>2, <2>2, <3>1
              DEF Upload, HintInv, mainVars, hintVars, Locked, NewHeights, Canonical
    <2>4. MarkedInv'
      <3>1. \A c \in known : c \in Block /\ mark'[c] = mark[c]
        BY <1>2, <2>2 DEF Upload, TypeOK
      <3> QED BY <1>2, <3>1
              DEF Upload, MarkedInv, Settled, mainVars, Marking, Canonical, Proper
    <2> QED BY <2>1, <2>3, <2>4
  <1>3. ASSUME NEW q \in late, LandLate(q[1], q[2]) PROVE MarksInv'
    <2>1. q[1] \in Block /\ q[2] \in {"main", "fork"}
      BY DEF TypeOK
    <2>2. hit' \in BOOLEAN
      BY <1>3 DEF LandLate
    <2>3. TypeOK' /\ ScanInv' /\ WorkInv' /\ IndexInv'
      BY <1>1, <1>3, <2>1, <2>2 DEF LandLate
    <2>4. HintInv'
      BY <1>3 DEF LandLate, HintInv, mainVars, hintVars, Locked, NewHeights, Canonical
    <2>5. MarkedInv'
      BY <1>3 DEF LandLate, MarkedInv
    <2> QED BY <2>3, <2>4, <2>5
  <1> QED BY <1>2, <1>3 DEF Landing

-----------------------------------------------------------------------------
(***************************************************************************)
(* processNotice.                                                          *)
(***************************************************************************)

\* What the listings of the notice's heights return.
LEMMA ListedFacts ==
    ASSUME WorkInv, pc # "fetch"
    PROVE  \A b \in UNION {List(h) : h \in NewHeights} :
              b \in Block /\ mark[b] # "absent" /\ Height[b] \in NewHeights
  BY DEF List

\* The types of a step that leaves S3 and the scan alone.
LEMMA FlowTypes ==
    ASSUME TypeOK, UNCHANGED <<s3Vars, scanVars>>,
           canon' \in [Heights -> MaybeBlock], latest' \in Block,
           pc' \in {"fetch", "process", "replicas", "drop", "write", "mark", "publish",
                    "align", "recheck"},
           todo' \in Notice \cup {NoWork},
           asked' \subseteq {"list", "get"} \X Heights,
           keys' \in [Heights -> (SUBSET Block) \cup {ListFailed}],
           val' \in [Heights -> {"none", "main", "fork"}],
           at' \in Heights, attempt' \in 0 .. 2, hit' \in BOOLEAN,
           notices' \in 0 .. MaxNotices, faults' \in 0 .. MaxFaults,
           \A b \in known' : b \in Block /\ mark[b] # "absent",
           \A h \in Heights : \A b \in keys'[h] : b # NoBlock => mark[b] # "absent"
    PROVE  TypeOK'
  BY DEF TypeOK, s3Vars, scanVars

\* The prefetch of a notice before any request has returned.
LEMMA NoHints ==
    /\ NoKeys \in [Heights -> (SUBSET Block) \cup {ListFailed}]
    /\ NoValues \in [Heights -> {"none", "main", "fork"}]
    /\ \A h \in Heights : NoKeys[h] = {} /\ NoValues[h] = "none"
  BY DEF NoKeys, NoValues

\* The next notice: nothing is known of its heights yet.
LEMMA ReceiveStep ==
    ASSUME MarksInv, Receive PROVE MarksInv'
  <1> USE DEF MarksInv
  <1>1. pc = "fetch" /\ pc' = "process" /\ known' = {} /\ asked = {} /\ asked' = asked
    BY DEF Receive, WorkInv, hintVars
  <1>2. todo' \in Notice /\ WellFormed(todo)'
    <2>1. PICK t \in Block, f \in Heights :
             /\ WellFormed([old |-> latest, tail |-> t, first |-> f])
             /\ todo' = [old |-> latest, tail |-> t, first |-> f]
      BY DEF Receive
    <2>2. latest \in MaybeBlock
      BY DEF TypeOK, MaybeBlock
    <2> QED BY <2>1, <2>2 DEF Notice, WellFormed
  <1>3. notices' \in 0 .. MaxNotices
    <2>1. notices \in 0 .. MaxNotices /\ MaxNotices \in Nat
      BY ForkMarksAssumption DEF TypeOK
    <2> QED BY <2>1 DEF Receive
  <1>4. TypeOK'
    BY <1>1, <1>2, <1>3, FlowTypes DEF Receive, TypeOK, hintVars
  <1>5. ScanInv'
    BY DEF ScanInv, Receive, hintVars, scanVars
  <1>6. WorkInv'
    BY <1>1, <1>2 DEF WorkInv, Marking
  <1>7. HintInv' /\ IndexInv' /\ MarkedInv'
    BY <1>1 DEF HintInv, IndexInv, MarkedInv, Locked
  <1> QED BY <1>4, <1>5, <1>6, <1>7

\* The prefetch is sent, or the notice turns out to be published already.
LEMMA BeginStep ==
    ASSUME MarksInv, Begin \/ BeginProcessed PROVE MarksInv'
  <1> USE DEF MarksInv
  <1>1. CASE Begin
    <2> USE <1>1
    <2>1. pc = "process" /\ pc' = "replicas" /\ UNCHANGED <<mark, canon, todo, at, attempt>>
      BY DEF Begin, s3Vars
    <2>2. \A b \in known' : b \in Block /\ mark[b] # "absent" /\ Height[b] \in NewHeights
      BY <2>1, ListedFacts DEF Begin
    <2>3. /\ asked' \subseteq {"list", "get"} \X NewHeights
          /\ asked' \subseteq {"list", "get"} \X Heights
      BY <2>1, InHand DEF Begin
    <2>4. TypeOK'
      <3>1. hit' = FALSE
        BY DEF Begin
      <3> QED BY <2>1, <2>2, <2>3, <3>1, NoHints, FlowTypes DEF Begin, TypeOK, budget
    <2>5. ScanInv'
      BY NoHints DEF ScanInv, Begin, scanVars
    <2>6. WorkInv'
      BY <2>1, <2>2, <2>3 DEF WorkInv, Marking, NewHeights
    <2>7. HintInv'
      <3>1. \A h \in NewHeights : keys'[h] = {} /\ val'[h] = "none"
        BY <2>1, NoHints, InHand DEF Begin
      <3> QED BY <2>1, <3>1 DEF HintInv, NewHeights
    <2>8. IndexInv' /\ MarkedInv'
      BY <2>1 DEF IndexInv, MarkedInv, Marking
    <2> QED BY <2>4, <2>5, <2>6, <2>7, <2>8
  <1>2. CASE BeginProcessed
    <2> USE <1>2
    <2>1. /\ pc = "process" /\ pc' = "fetch" /\ known' = {} /\ asked' = asked
          /\ asked = {}
      BY DEF BeginProcessed, hintVars, WorkInv
    <2>2. TypeOK'
      BY <2>1, FlowTypes DEF BeginProcessed, TypeOK, hintVars, budget
    <2>3. ScanInv'
      BY DEF ScanInv, BeginProcessed, scanVars, hintVars
    <2>4. WorkInv'
      BY <2>1 DEF WorkInv, Marking
    <2>5. HintInv' /\ IndexInv' /\ MarkedInv'
      BY <2>1 DEF HintInv, IndexInv, MarkedInv, Locked
    <2> QED BY <2>2, <2>3, <2>4, <2>5
  <1> QED BY <1>1, <1>2

\* A request of the prefetch returns.
LEMMA PrefetchStep ==
    ASSUME MarksInv, NEW g \in Heights, PrefetchList(g) \/ PrefetchGet(g)
    PROVE  MarksInv'
  <1> USE DEF MarksInv
  <1>1. /\ pc = "replicas" /\ g \in NewHeights
        /\ asked' \subseteq asked
        /\ UNCHANGED <<mark, canon, latest, pc, todo, at, known, hit>>
    BY DEF PrefetchList, PrefetchGet, WorkInv, s3Vars
  <1>2. \A h \in NewHeights : h \in Heights /\ Canonical(h) \in Block
    BY <1>1, InHand
  <1>3. WorkInv'
    BY <1>1 DEF WorkInv, Marking, NewHeights
  <1>4. IndexInv' /\ MarkedInv'
    BY <1>1 DEF IndexInv, MarkedInv, Marking
  <1>5. CASE PrefetchList(g)
    <2> USE <1>5
    <2>1. /\ keys \in [Heights -> (SUBSET Block) \cup {ListFailed}]
          /\ keys' = [keys EXCEPT ![g] = List(g)] \/ keys' = [keys EXCEPT ![g] = ListFailed]
          /\ UNCHANGED val
      BY DEF PrefetchList, TypeOK
    <2>2. List(g) \subseteq Block /\ \A b \in List(g) : mark[b] # "absent" /\ Height[b] = g
      BY DEF List
    <2>3. /\ keys' \in [Heights -> (SUBSET Block) \cup {ListFailed}]
          /\ \A h \in Heights : \A b \in keys'[h] :
                b # NoBlock => mark[b] # "absent" /\ Height[b] = h
      BY <2>1, <2>2 DEF TypeOK, ScanInv, ListFailed
    <2>4. notices' \in 0 .. MaxNotices /\ faults' \in 0 .. MaxFaults
      BY FaultType DEF PrefetchList, TypeOK, budget
    <2>5. TypeOK'
      BY <1>1, <2>1, <2>3, <2>4, FlowTypes DEF PrefetchList, TypeOK
    <2>6. ScanInv'
      BY <2>3 DEF ScanInv, PrefetchList, scanVars
    <2>7. HintInv'
      <3>1. \A b \in known : b \in Block /\ (Height[b] = g => b \in List(g))
        BY DEF TypeOK, List
      <3>2. \A h \in NewHeights : Canonical(h) \in keys'[h] =>
               \A b \in known : Height[b] = h => b \in keys'[h]
        <4> SUFFICES ASSUME NEW h \in NewHeights, Canonical(h) \in keys'[h],
                            NEW b \in known, Height[b] = h
                     PROVE  b \in keys'[h]
          OBVIOUS
        <4>1. CASE h # g
          <5>1. keys'[h] = keys[h]
            BY <4>1, <2>1, <1>2
          <5> QED BY <5>1, <1>1 DEF HintInv
        <4>2. CASE h = g
          <5>1. keys'[g] \in {List(g), ListFailed}
            BY <2>1
          <5>2. Canonical(h) # NoBlock
            BY <1>2, NoBlockAssumption
          <5> QED BY <5>1, <5>2, <4>2, <3>1 DEF ListFailed
        <4> QED BY <4>1, <4>2
      <3> QED BY <1>1, <2>1, <3>2 DEF HintInv, NewHeights, Canonical, Locked
    <2> QED BY <1>3, <1>4, <2>5, <2>6, <2>7
  <1>6. CASE PrefetchGet(g)
    <2> USE <1>6
    <2>1. Canonical(g) \in Block
      BY <1>1, <1>2
    <2>2. /\ val \in [Heights -> {"none", "main", "fork"}]
          /\ mark[Canonical(g)] \in {"absent", "main", "fork"}
          /\ val' = [val EXCEPT ![g] = IF mark[Canonical(g)] = "absent" THEN "none"
                                       ELSE mark[Canonical(g)]]
          /\ UNCHANGED keys
      BY <2>1 DEF PrefetchGet, TypeOK
    <2>3. val' \in [Heights -> {"none", "main", "fork"}]
      BY <2>2
    <2>4. TypeOK'
      BY <1>1, <2>2, <2>3, FlowTypes DEF PrefetchGet, TypeOK, budget
    <2>5. ScanInv'
      BY DEF ScanInv, PrefetchGet, scanVars
    <2>6. \A h \in NewHeights :
             val'[h] = "main" => val[h] = "main" \/ mark[Canonical(h)] = "main"
      BY <1>2, <2>2
    <2>7. HintInv'
      BY <1>1, <2>2, <2>6 DEF HintInv, NewHeights, Canonical, Locked
    <2> QED BY <1>3, <1>4, <2>4, <2>5, <2>7
  <1> QED BY <1>5, <1>6

\* The steps between the prefetch and the marks.
LEMMA ReadyDropStep ==
    ASSUME MarksInv, ReplicasReady \/ RewriteDropBlocks \/ WriteDBRefused
    PROVE  MarksInv'
  <1> USE DEF MarksInv
  <1>1. CASE ReplicasReady \/ WriteDBRefused
    <2> USE <1>1
    <2>1. /\ UNCHANGED <<s3Vars, canon, latest, todo, hintVars, at, attempt, scanVars, known,
                         hit, budget>>
          /\ asked = {}
          /\ \/ pc = "replicas" /\ pc' = "drop"
             \/ pc = "write" /\ pc' = "process"
      BY DEF ReplicasReady, WriteDBRefused, WorkInv
    <2>2. TypeOK'
      BY <2>1, FlowTypes DEF TypeOK, hintVars, budget, s3Vars
    <2>3. ScanInv'
      BY <2>1 DEF ScanInv, scanVars, hintVars
    <2>4. WorkInv'
      BY <2>1 DEF WorkInv, Marking, NewHeights, hintVars
    <2>5. HintInv'
      BY <2>1 DEF HintInv, Locked, NewHeights, Canonical, hintVars, s3Vars
    <2>6. IndexInv' /\ MarkedInv'
      BY <2>1 DEF IndexInv, MarkedInv, Marking
    <2> QED BY <2>2, <2>3, <2>4, <2>5, <2>6
  <1>2. CASE RewriteDropBlocks
    <2> USE <1>2
    <2>1. PICK done \in SUBSET Dropped :
             /\ mark' = [b \in Block |->
                           IF b \in done /\ mark[b] # "absent" THEN "fork" ELSE mark[b]]
             /\ IF done = Dropped THEN UNCHANGED budget ELSE Fault
      BY DEF RewriteDropBlocks
    <2>2. /\ pc = "drop" /\ pc' = "write"
          /\ UNCHANGED <<late, canon, latest, todo, hintVars, at, attempt, scanVars, known, hit>>
      BY DEF RewriteDropBlocks
    <2>3. /\ mark' \in [Block -> {"absent", "main", "fork"}]
          /\ \A b \in Block : mark[b] # "absent" => mark'[b] # "absent"
      BY <2>1 DEF TypeOK
    <2>4. faults' \in 0 .. MaxFaults /\ notices' \in 0 .. MaxNotices
      BY <2>1, FaultType DEF TypeOK, budget
    <2>5. TypeOK'
      <3>1. \A h \in Heights : \A b \in keys[h] : b # NoBlock => b \in Block
        BY DEF TypeOK, ListFailed
      <3> QED BY <2>2, <2>3, <2>4, <3>1 DEF TypeOK, hintVars, scanVars
    <2>6. ScanInv'
      BY <2>2 DEF ScanInv, scanVars, hintVars
    <2>7. WorkInv'
      BY <2>2 DEF WorkInv, Marking, NewHeights, hintVars
    <2>8. HintInv'
      <3>1. \A h \in NewHeights : Canonical(h) \in Block /\ Canonical(h) \notin Dropped
        BY <2>2, InHand, NewBlocks DEF Canonical, Dropped, NewHeights
      <3>2. \A h \in NewHeights : mark'[Canonical(h)] = mark[Canonical(h)]
        BY <2>1, <3>1
      <3> QED BY <2>2, <3>2 DEF HintInv, Locked, NewHeights, Canonical, hintVars
    <2>9. IndexInv' /\ MarkedInv'
      BY <2>2 DEF IndexInv, MarkedInv, Marking
    <2> QED BY <2>5, <2>6, <2>7, <2>8, <2>9
  <1> QED BY <1>1, <1>2

\* The index takes the blocks of the notice, and the marks begin at the lowest.
LEMMA WriteStep ==
    ASSUME MarksInv, WriteDB PROVE MarksInv'
  <1> USE DEF MarksInv
  <1>1. /\ pc = "write" /\ pc' = "mark" /\ at' = todo.first /\ attempt' = 0
        /\ UNCHANGED <<s3Vars, latest, todo, hintVars, scanVars, known, hit, budget>>
    BY DEF WriteDB
  <1>2. /\ todo.first \in Heights /\ todo.first \in NewHeights /\ NewHeights \subseteq Heights
        /\ \A h \in NewHeights : Canonical(h) \in Block
    BY <1>1, InHand
  <1>3. canon' \in [Heights -> MaybeBlock] /\ \A h \in NewHeights : canon'[h] = Canonical(h)
    <2>1. \A h \in Heights : canon[h] \in MaybeBlock
      BY DEF TypeOK
    <2>2. \A h \in NewHeights : canon'[h] = Canonical(h) /\ Canonical(h) \in MaybeBlock
      <3>1. \A h \in NewHeights : h \in Heights /\ ~(h > Height[todo.tail])
        <4>1. Height[todo.tail] \in Int /\ todo.first \in Int
          BY <1>1, InHand, HeightAssumption DEF Heights
        <4> QED BY <1>2, <4>1 DEF NewHeights
      <3> QED BY <1>2, <3>1 DEF WriteDB, MaybeBlock
    <2>3. /\ canon' = [h \in Heights |-> canon'[h]]
          /\ \A h \in Heights : h \notin NewHeights => canon'[h] \in {NoBlock, canon[h]}
      BY DEF WriteDB
    <2>4. \A h \in Heights : canon'[h] \in MaybeBlock
      BY <2>1, <2>2, <2>3 DEF MaybeBlock
    <2> QED BY <2>2, <2>3, <2>4
  <1>4. TypeOK'
    <2>1. attempt' \in 0 .. 2
      BY <1>1
    <2> QED BY <1>1, <1>2, <1>3, <2>1, FlowTypes DEF TypeOK, hintVars, budget, s3Vars
  <1>5. ScanInv'
    BY <1>1 DEF ScanInv, scanVars, hintVars
  <1>6. WorkInv'
    BY <1>1, <1>2 DEF WorkInv, Marking, NewHeights, hintVars
  <1>7. HintInv'
    BY <1>1 DEF HintInv, Locked, NewHeights, Canonical, hintVars, s3Vars
  <1>8. IndexInv'
    BY <1>1, <1>3 DEF IndexInv, NewHeights, Canonical
  <1>9. MarkedInv'
    <2>1. \A b \in known : ~(Height[b] < at')
      BY <1>1, <1>2, HeightAssumption DEF WorkInv, NewHeights, Heights
    <2> QED BY <1>1, <2>1 DEF MarkedInv
  <1> QED BY <1>4, <1>5, <1>6, <1>7, <1>8, <1>9

\* planForkRewrites lists objects of its height only, and all the known ones.
LEMMA KeysFacts ==
    ASSUME MarksInv, Marking
    PROVE  /\ at \in NewHeights /\ Canonical(at) \in Block
           /\ \A b \in Keys : b \in Block /\ Height[b] = at /\ mark[b] # "absent"
           /\ \A b \in known : Height[b] = at => b \in Keys
  <1> USE DEF MarksInv
  <1>1. at \in NewHeights /\ at \in Heights /\ Canonical(at) \in Block
    BY InHand DEF WorkInv, Marking
  <1>2. \A b \in known : b \in Block /\ (Height[b] = at => b \in List(at))
    BY DEF TypeOK, List
  <1>3. \A b \in List(at) : b \in Block /\ Height[b] = at /\ mark[b] # "absent"
    BY DEF List
  <1>4. CASE pc = "mark" /\ attempt = 0 /\ Canonical(at) \in keys[at]
    <2>1. Keys = keys[at]
      BY <1>4 DEF Keys
    <2>2. keys[at] \in SUBSET Block
      BY <1>1, <1>4, NoBlockAssumption DEF TypeOK, ListFailed
    <2>3. \A b \in keys[at] : b \in Block /\ Height[b] = at /\ mark[b] # "absent"
      BY <1>1, <2>2, NoBlockAssumption DEF TypeOK, ScanInv
    <2>4. \A b \in known : Height[b] = at => b \in keys[at]
      BY <1>1, <1>4 DEF HintInv
    <2> QED BY <1>1, <2>1, <2>3, <2>4
  <1>5. CASE ~(pc = "mark" /\ attempt = 0 /\ Canonical(at) \in keys[at])
    <2>1. Keys = List(at)
      BY <1>5 DEF Keys
    <2> QED BY <1>1, <1>2, <1>3, <2>1
  <1> QED BY <1>4, <1>5

\* What a rewrite of some of them does to the marks.
LEMMA RewrittenFacts ==
    ASSUME MarksInv, Marking, NEW bs \in SUBSET Keys, Rewritten(bs)
    PROVE  /\ mark' \in [Block -> {"absent", "main", "fork"}]
           /\ \A b \in Block : mark[b] # "absent" => mark'[b] # "absent"
           /\ \A b \in Block : Height[b] # at => mark'[b] = mark[b]
           /\ \A h \in NewHeights :
                 mark[Canonical(h)] = "main" => mark'[Canonical(h)] = "main"
  <1>1. mark \in [Block -> {"absent", "main", "fork"}]
    BY DEF MarksInv, TypeOK
  <1>2. \A b \in bs : b \in Block /\ Height[b] = at
    BY KeysFacts
  <1>3. \A b \in Block : mark'[b] = IF b \in bs THEN Proper(b, Canonical(at)) ELSE mark[b]
    BY DEF Rewritten
  <1>4. mark' = [b \in Block |-> mark'[b]]
    BY DEF Rewritten
  <1>5. \A h \in NewHeights : Canonical(h) \in Block /\ Height[Canonical(h)] = h
    BY InHand DEF MarksInv, Marking
  <1> QED BY <1>1, <1>2, <1>3, <1>4, <1>5 DEF Proper

\* The types of a step that rewrites marks.
LEMMA RewriteTypes ==
    ASSUME MarksInv, Marking, NEW bs \in SUBSET Keys, Rewritten(bs),
           UNCHANGED <<late, canon, latest, todo, hintVars, scanVars, hit, notices>>,
           pc' \in {pc, "process", "fetch"}, at' \in Heights, attempt' \in 0 .. 2,
           faults' \in 0 .. MaxFaults, known' \subseteq known
    PROVE  TypeOK' /\ ScanInv'
  <1> USE DEF MarksInv
  <1>1. /\ mark' \in [Block -> {"absent", "main", "fork"}]
        /\ \A b \in Block : mark[b] # "absent" => mark'[b] # "absent"
    BY RewrittenFacts
  <1>2. \A h \in Heights : \A b \in keys[h] : b # NoBlock => b \in Block
    BY DEF TypeOK, ListFailed
  <1>3. TypeOK'
    BY <1>1, <1>2 DEF TypeOK, hintVars, scanVars
  <1>4. ScanInv'
    BY DEF ScanInv, hintVars, scanVars
  <1> QED BY <1>3, <1>4

\* A rewrite touches the height it is at and no finished one.
LEMMA RewriteStep ==
    ASSUME MarksInv, RewriteHeight PROVE MarksInv'
  <1> USE DEF MarksInv
  <1>1. /\ Marking /\ Rewritten(Rewrites) /\ Rewrites \in SUBSET Keys
        /\ UNCHANGED <<late, canon, latest, pc, todo, hintVars, at, scanVars, known, hit,
                       notices, faults>>
    BY DEF RewriteHeight, Rewrites, budget
  <1>2. attempt' \in 0 .. 2
    <2>1. attempt \in 0 .. 2
      BY DEF TypeOK
    <2> QED BY <2>1 DEF RewriteHeight
  <1>3. TypeOK' /\ ScanInv'
    <2>1. at' \in Heights /\ faults' \in 0 .. MaxFaults
      BY <1>1 DEF TypeOK
    <2> QED BY <1>1, <1>2, <2>1, RewriteTypes
  <1>4. WorkInv' /\ IndexInv'
    BY <1>1 DEF WorkInv, IndexInv, Marking, NewHeights, Canonical, hintVars
  <1>5. HintInv'
    <2>1. \A h \in NewHeights :
             mark[Canonical(h)] = "main" => mark'[Canonical(h)] = "main"
      BY <1>1, RewrittenFacts
    <2> QED BY <1>1, <2>1 DEF HintInv, Locked, NewHeights, Canonical, hintVars
  <1>6. MarkedInv'
    <2>1. at \in Int /\ \A b \in known : b \in Block /\ Height[b] \in Int
      BY HeightAssumption DEF TypeOK, Heights
    <2>2. \A b \in known : Height[b] < at => mark'[b] = mark[b]
      BY <1>1, <2>1, RewrittenFacts
    <2> QED BY <1>1, <2>2 DEF MarkedInv, Settled, Marking, Canonical, Proper
  <1> QED BY <1>3, <1>4, <1>5, <1>6

\* A rewrite that fails ends the claim on the known objects.
LEMMA FailsStep ==
    ASSUME MarksInv, RewriteFails PROVE MarksInv'
  <1> USE DEF MarksInv
  <1>1. /\ Marking /\ pc \in {"mark", "recheck"} /\ pc' \in {"process", "fetch"}
        /\ known' = {} /\ at' = 1 /\ attempt' = 0
        /\ UNCHANGED <<late, canon, latest, todo, hintVars, scanVars, hit>>
    BY DEF RewriteFails, Marking
  <1>2. PICK bs \in SUBSET Keys : Rewritten(bs)
    <2>1. CASE UNCHANGED mark
      <3>1. mark' = [b \in Block |-> mark[b]]
        BY <2>1 DEF TypeOK
      <3>2. Rewritten({})
        BY <3>1 DEF Rewritten
      <3> QED BY <3>2
    <2>2. CASE ~UNCHANGED mark
      BY <2>2 DEF RewriteFails, Rewrites
    <2> QED BY <2>1, <2>2
  <1>3. notices' = notices /\ faults' \in 0 .. MaxFaults
    BY FaultType DEF RewriteFails, TypeOK, budget
  <1>4. at' \in Heights /\ attempt' \in 0 .. 2
    BY <1>1, HeightAssumption DEF Heights
  <1>5. TypeOK' /\ ScanInv'
    BY <1>1, <1>2, <1>3, <1>4, RewriteTypes
  <1>6. asked = {} /\ asked' = {}
    BY <1>1 DEF WorkInv, hintVars
  <1>7. WorkInv'
    BY <1>1, <1>6 DEF WorkInv, Marking, NewHeights
  <1>8. HintInv' /\ IndexInv' /\ MarkedInv'
    BY <1>1 DEF HintInv, IndexInv, MarkedInv, Locked
  <1> QED BY <1>5, <1>7, <1>8

\* A height without anything to rewrite is done: its known objects were all
\* looked at, and a validation taken from the prefetch is still right.
LEMMA ConvergedStep ==
    ASSUME MarksInv, HeightConverged PROVE MarksInv'
  <1> USE DEF MarksInv
  <1>1. /\ Marking /\ Rewrites = {} /\ attempt' = 0
        /\ UNCHANGED <<s3Vars, canon, latest, todo, hintVars, scanVars, known, hit, budget>>
    BY DEF HeightConverged
  <1>2. /\ at \in Int /\ Height[todo.tail] \in Int /\ todo.first \in Int
        /\ todo.first <= at /\ at <= Height[todo.tail]
        /\ Height[todo.tail] \in Heights /\ todo.first \in Heights /\ todo.first \in NewHeights
    <2>1. /\ Height[todo.tail] \in Heights /\ todo.first \in Heights
          /\ todo.first \in NewHeights
      BY <1>1, InHand DEF Marking
    <2>2. at \in NewHeights
      BY <1>1 DEF WorkInv
    <2> QED BY <2>1, <2>2, HeightAssumption DEF NewHeights, Heights
  <1>3. \A b \in known : ~hit /\ Height[b] <= at => Settled(b)
    <2> SUFFICES ASSUME NEW b \in known, ~hit, Height[b] <= at PROVE Settled(b)
      OBVIOUS
    <2>0. b \in Block /\ Height[b] \in Int
      BY HeightAssumption DEF TypeOK, Heights
    <2>1. CASE Height[b] < at
      BY <1>1, <2>1 DEF MarkedInv
    <2>2. CASE Height[b] = at
      <3>1. b \in Keys
        BY <1>1, <2>2, KeysFacts
      <3>2. SeenMark(b) = Proper(b, Canonical(at))
        BY <1>1, <3>1 DEF Rewrites
      <3>3. CASE SeenMark(b) = mark[b]
        BY <2>2, <3>2, <3>3 DEF Settled
      <3>4. CASE b = Canonical(at) /\ SeenMark(b) = val[at]
        <4>1. val[at] = "main"
          BY <3>2, <3>4 DEF Proper
        <4>2. Locked /\ at \in NewHeights
          BY <1>1 DEF Locked, Marking, WorkInv
        <4>3. mark[b] = "main"
          BY <3>4, <4>1, <4>2 DEF HintInv
        <4> QED BY <2>2, <3>4, <4>3 DEF Settled, Proper
      <3> QED BY <3>3, <3>4 DEF SeenMark
    <2> QED BY <1>2, <2>0, <2>1, <2>2
  <1>4. \A b \in known : Settled(b) => Settled(b)'
    BY <1>1 DEF s3Vars, Settled, Canonical, Proper
  <1>5. /\ at' \in Heights /\ at' \in NewHeights
        /\ at < Height[todo.tail] => pc' = pc /\ at' = at + 1
        /\ ~(at < Height[todo.tail]) =>
              /\ at' = todo.first
              /\ pc' = IF pc = "mark" THEN "publish" ELSE "fetch"
    BY <1>2, HeightAssumption DEF HeightConverged, NewHeights, Heights
  <1>6. pc' \in {"mark", "recheck", "publish", "fetch"} /\ pc \in {"mark", "recheck"}
    BY <1>1, <1>5 DEF Marking
  <1>7. TypeOK'
    <2>1. attempt' \in 0 .. 2
      BY <1>1
    <2> QED BY <1>1, <1>5, <1>6, <2>1, FlowTypes DEF TypeOK, hintVars, budget, s3Vars
  <1>8. ScanInv'
    BY <1>1 DEF ScanInv, scanVars, hintVars
  <1>9. asked = {} /\ asked' = {}
    BY <1>1, <1>6 DEF WorkInv, hintVars
  <1>10. WorkInv'
    BY <1>1, <1>5, <1>6, <1>9 DEF WorkInv, Marking, NewHeights
  <1>11. HintInv'
    BY <1>1, <1>5, <1>6 DEF HintInv, Locked, NewHeights, Canonical, hintVars, s3Vars
  <1>12. IndexInv'
    BY <1>1, <1>6 DEF IndexInv, NewHeights, Canonical
  <1>13. MarkedInv'
    <2> SUFFICES ASSUME ~hit, NEW b \in known,
                        pc' \in {"publish", "fetch"} \/ (Marking' /\ Height[b] < at')
                 PROVE  Settled(b)'
      BY <1>1 DEF MarkedInv
    <2>1. /\ Height[b] \in Int /\ Height[b] <= Height[todo.tail]
      BY <1>2 DEF WorkInv, NewHeights
    <2>2. Height[b] <= at
      BY <1>2, <1>5, <1>6, <2>1 DEF Marking
    <2> QED BY <1>3, <1>4, <2>2
  <1> QED BY <1>7, <1>8, <1>10, <1>11, <1>12, <1>13

\* Publication and alignment come between the marks and the recheck.
LEMMA PublishStep ==
    ASSUME MarksInv, Publish \/ Align PROVE MarksInv'
  <1> USE DEF MarksInv
  <1>1. /\ UNCHANGED <<s3Vars, canon, todo, hintVars, at, attempt, scanVars, hit, budget>>
        /\ \/ pc = "publish" /\ pc' = "align"
           \/ pc = "align" /\ pc' = "recheck"
    BY DEF Publish, Align
  <1>2. /\ todo.tail \in Block /\ todo.first \in NewHeights
        /\ todo.first \in Heights /\ at = todo.first /\ asked = {}
    BY <1>1, InHand DEF Notice, WorkInv
  <1>3. latest' \in Block
    BY <1>2 DEF Publish, Align, TypeOK
  <1>4. \A b \in known' :
           b \in Block /\ mark[b] # "absent" /\ Height[b] \in NewHeights
    <2>1. CASE Publish
      BY <2>1 DEF Publish, TypeOK, WorkInv
    <2>2. CASE Align
      BY <2>2, <1>1, ListedFacts DEF Align
    <2> QED BY <2>1, <2>2
  <1>5. TypeOK'
    BY <1>1, <1>3, <1>4, FlowTypes DEF TypeOK, hintVars, budget, s3Vars
  <1>6. ScanInv'
    BY <1>1 DEF ScanInv, scanVars, hintVars
  <1>7. WorkInv'
    BY <1>1, <1>2, <1>4 DEF WorkInv, Marking, NewHeights, hintVars
  <1>8. HintInv'
    BY <1>1 DEF HintInv, Locked, NewHeights, Canonical, hintVars, s3Vars
  <1>9. IndexInv'
    BY <1>1 DEF IndexInv, NewHeights, Canonical
  <1>10. MarkedInv'
    <2>1. \A b \in known' : ~(Height[b] < at')
      BY <1>1, <1>2, <1>4, HeightAssumption DEF NewHeights, Heights
    <2> QED BY <1>1, <2>1 DEF MarkedInv
  <1> QED BY <1>5, <1>6, <1>7, <1>8, <1>9, <1>10

\* A failed step or a crash starts the notice over.
LEMMA RestartStep ==
    ASSUME MarksInv, StepFails \/ Crash PROVE MarksInv'
  <1> USE DEF MarksInv
  <1>1. /\ UNCHANGED <<s3Vars, canon, latest, todo, hit>> /\ Fault
        /\ pc # "fetch" /\ pc' = "process" /\ asked' = {} /\ known' = {}
        /\ keys' = NoKeys /\ val' = NoValues /\ at' = 1 /\ attempt' = 0
    BY DEF StepFails, Crash, Locked
  <1>2. /\ at' \in Heights /\ attempt' \in 0 .. 2 /\ 0 \in 0 .. MaxHeight /\ 1 \in Heights
        /\ faults' \in 0 .. MaxFaults /\ notices' = notices
    BY <1>1, FaultType, HeightAssumption DEF Heights
  <1>3. TypeOK'
    <2>1. CASE StepFails
      BY <1>1, <1>2, <2>1, NoHints, FlowTypes DEF StepFails, TypeOK, s3Vars
    <2>2. CASE Crash
      <3>1. /\ spc' = "idle" /\ tip' = 0 /\ sh' = 1 /\ hash' = NoBlock
            /\ unread' = {} /\ plan' = {}
        BY <2>2 DEF Crash
      <3> QED BY <1>1, <1>2, <3>1, NoHints DEF TypeOK, s3Vars, MaybeBlock
    <2> QED BY <2>1, <2>2
  <1>4. ScanInv'
    BY <1>1, NoHints DEF ScanInv, StepFails, Crash, scanVars
  <1>5. WorkInv'
    BY <1>1 DEF WorkInv, Marking
  <1>6. HintInv' /\ IndexInv' /\ MarkedInv'
    BY <1>1 DEF HintInv, IndexInv, MarkedInv, Locked
  <1> QED BY <1>3, <1>4, <1>5, <1>6

-----------------------------------------------------------------------------
\* Every step keeps the invariant.
LEMMA StepMarks == MarksInv /\ [Next]_vars => MarksInv'
  <1> SUFFICES ASSUME MarksInv, [Next]_vars PROVE MarksInv'
    OBVIOUS
  <1>1. CASE UNCHANGED vars
    BY <1>1 DEF vars, s3Vars, mainVars, hintVars, scanVars, budget, MarksInv, TypeOK, ScanInv,
                WorkInv, HintInv, IndexInv, MarkedInv, Marking, Locked, Settled,
                NewHeights, Canonical, Proper
  <1>2. CASE Next
    BY <1>2, StoreStep, ScanStep, ReceiveStep, BeginStep, PrefetchStep, ReadyDropStep,
       WriteStep, RewriteStep, FailsStep, ConvergedStep, PublishStep, RestartStep
       DEF Next, Main
  <1> QED BY <1>1, <1>2

\* MarksInv holds in every state of processNotice and the scan.
THEOREM MarksInductive == Spec => []MarksInv
  BY InitMarks, StepMarks, PTL DEF Spec

\* Every variable keeps its kind, and only objects that exist in S3 are listed,
\* planned for or known.
THEOREM MarksTypes == Spec => []TypeOK
  <1>1. MarksInv => TypeOK
    BY DEF MarksInv
  <1> QED BY <1>1, MarksInductive, PTL

\* What processNotice publishes is marked first, and what the recheck leaves is
\* marked, whatever the prefetch saw, the scan wrote and failed in between, unless
\* a PUT of the scan landed late (rewriteForkBlocksAtSameHeight).
THEOREM PublishedIsMarked == Spec => []KnownRightlyMarked
  <1>1. MarksInv => KnownRightlyMarked
    BY DEF MarksInv, MarkedInv, KnownRightlyMarked, Settled, Canonical
  <1> QED BY <1>1, MarksInductive, PTL

\* However old its plan, a PUT of the window scan agrees with the index of the
\* moment it is sent (canonicalForScan under the mutex).
THEOREM ScanAgrees == Spec => ScanPutsAgree
  <1>1. ASSUME MarksInv, [Next]_vars,
               spc = "put", spc' = "put", plan' # plan, NEW b \in plan \ plan'
        PROVE  mark'[b] = Proper(b, canon[Height[b]])
    <2>1. PICK c \in Block : ScanPut(c)
      BY <1>1 DEF vars, scanVars, mainVars, Next, Main, Scan, Upload, ScanPutTimeout, Landing,
          LandLate, Receive, Begin, BeginProcessed, PrefetchList, PrefetchGet, ReplicasReady,
          RewriteDropBlocks, WriteDB, WriteDBRefused, HeightConverged, RewriteHeight,
          RewriteFails, Publish, Align, StepFails, Crash, ScanStart, ScanRead, ScanList, ScanGet,
          ScanHeightEnds, ScanGivesUp, NextHeight
    <2>2. b = c /\ hash \in Block /\ Height[b] = sh /\ canon[sh] = hash
      BY <1>1, <2>1, NoBlockAssumption
         DEF ScanPut, MarksInv, ScanInv, Verified, CanonicalForScan
    <2>3. mark \in [Block -> {"absent", "main", "fork"}]
      BY <1>1 DEF MarksInv, TypeOK
    <2>4. mark'[b] = Proper(b, hash)
      BY <2>1, <2>2, <2>3 DEF ScanPut
    <2> QED BY <2>2, <2>4
  <1>2. MarksInv /\ [Next]_vars =>
           [spc = "put" /\ spc' = "put" /\ plan' # plan =>
              \A b \in plan \ plan' : mark'[b] = Proper(b, canon[Height[b]])]_vars
    BY <1>1
  <1> QED BY <1>2, MarksInductive, PTL DEF Spec, ScanPutsAgree
=============================================================================
