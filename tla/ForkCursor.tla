----------------------------- MODULE ForkCursor -----------------------------
(***************************************************************************)
(* What the main flow and the fork-scan worker share under Checker.Mutex:  *)
(* the canonical index in Pebble, the durable scan cursor next to it, the  *)
(* worker's schedule and the fence of its active batch.                    *)
(*                                                                         *)
(* The operators here are the helpers that both sides call with the mutex  *)
(* held.  Each one that changes state constrains the primed variables it   *)
(* writes and says so; the modules that use them add the UNCHANGED part.   *)
(***************************************************************************)
EXTENDS BlockTree

CONSTANTS
    MaxMsgs   \* bound on the inner notices, hence on their offsets

VARIABLES
    canon,          \* number -> hash index of the consistency DB (durable)
    forkState,      \* ForkScanState record of the consistency DB (durable)
    mode,           \* fork_scan_lookback of the running process
    forkAligned,    \* Checker.forkAligned
    recoveryAnchor, \* Checker.forkRecoveryAnchor, NoBlock for nil
    recoveryDrop,   \* Checker.forkRecoveryDrop
    forkSchedule,   \* Checker.forkSchedule
    forkBatch,      \* Checker.forkBatch
    (* History variables, read by properties only. *)
    scanned,        \* hash under which a height was last checkpointed as scanned
    fresh,          \* heights unchanged since the active batch read them
    recent,         \* heights published since the pending observation was taken
    unripe          \* heights not yet published for a whole interval

cursorVars == <<canon, forkState, mode, forkAligned, recoveryAnchor,
                recoveryDrop, forkSchedule, forkBatch,
                scanned, fresh, recent, unripe>>

historyVars == <<scanned, fresh, recent, unripe>>

NoPosition == -1

\* ForkScanState.  An anchor is its block: the hash fixes the height.  When the
\* process runs in continuous mode the in-memory copy equals the durable record,
\* because every mutation installs its copy after the synchronous commit.
ForkScanState ==
    [baseline : Block, next : 1 .. MaxHeight + 1, gen : Nat \ {0},
     published : Block, pos : NoPosition .. MaxMsgs, pending : MaybeBlock]

NilState == [baseline |-> NoBlock, next |-> 0, gen |-> 0,
             published |-> NoBlock, pos |-> NoPosition, pending |-> NoBlock]

Schedule == [gen : Nat, seen : BOOLEAN, observed : 0 .. MaxHeight,
             mature : BOOLEAN, matureHeight : 0 .. MaxHeight]

NewSchedule(gen) == [gen |-> gen, seen |-> FALSE, observed |-> 0,
                     mature |-> FALSE, matureHeight |-> 0]

NoRewind == MaxHeight + 1

Batch == [start : 0 .. MaxHeight + 1, upper : 0 .. MaxHeight,
          gen : Nat, rewind : 0 .. NoRewind]

NilBatch == [start |-> 0, upper |-> 0, gen |-> 0, rewind |-> NoRewind]

EmptyIndex == [h \in Heights |-> NoBlock]

HasState == forkState.gen # 0

HasBatch == forkBatch.gen # 0

\* config.ContinuousForkScan() of the running process.  Every other setting of
\* fork_scan_lookback leaves the durable cursor alone.
Continuous == mode = "continuous"

Published == Height[forkState.published]

CursorTypeOK ==
    /\ canon \in [Heights -> MaybeBlock]
    /\ forkState \in ForkScanState \cup {NilState}
    /\ mode \in {"continuous", "window", "down"}
    /\ forkAligned \in BOOLEAN
    /\ recoveryAnchor \in MaybeBlock
    /\ recoveryDrop \in BOOLEAN
    /\ forkSchedule \in Schedule
    /\ forkBatch \in Batch
    /\ scanned \in [Heights -> MaybeBlock]
    /\ fresh \subseteq Heights
    /\ recent \subseteq Heights
    /\ unripe \subseteq Heights

CursorInit ==
    /\ canon = EmptyIndex
    /\ forkState = NilState
    /\ mode = "down"
    /\ forkAligned = FALSE
    /\ recoveryAnchor = NoBlock
    /\ recoveryDrop = FALSE
    /\ forkSchedule = NewSchedule(0)
    /\ forkBatch = NilBatch
    /\ scanned = EmptyIndex
    /\ fresh = {}
    /\ recent = Heights
    /\ unripe = Heights

-----------------------------------------------------------------------------
(***************************************************************************)
(* The record: validation, save, initialization, rewind.                   *)
(***************************************************************************)

\* ForkScanState.validate: what setForkScan refuses to persist.
Validate(st) == st.next <= Height[st.published] + 1

\* saveForkScan: persist, then install.  Constrains forkState and the scan
\* history, which forgets the heights given back to the worker.
SaveForkScan(st) ==
    /\ Validate(st)
    /\ forkState' = st
    /\ scanned' = [h \in Heights |-> IF h < st.next THEN scanned[h] ELSE NoBlock]

\* forkScanSchedule.rewind
RewoundSchedule(s, h, gen) ==
    IF h = 0 THEN NewSchedule(gen)
    ELSE [s EXCEPT !.gen = gen,
                   !.observed = MinOf(@, h - 1),
                   !.matureHeight = MinOf(@, h - 1)]

\* A slip the runs must catch: the active batch is not fenced.
RewindWithoutFence(h, gen) ==
    /\ forkSchedule' = RewoundSchedule(forkSchedule, h, gen)
    /\ UNCHANGED forkBatch

\* rewindForkScan: truncate the schedule and fence the active batch.
\* Constrains forkSchedule and forkBatch.
RewindForkScan(h, gen) ==
    /\ forkSchedule' = RewoundSchedule(forkSchedule, h, gen)
    /\ forkBatch' = IF HasBatch
                    THEN [forkBatch EXCEPT !.rewind = MinOf(@, h)]
                    ELSE forkBatch

\* A slip the runs must catch: the generation is not counted up.
InitializeSameGeneration(anchor, pos) ==
    /\ SaveForkScan([baseline |-> anchor, next |-> Height[anchor] + 1,
                     gen |-> forkState.gen, published |-> anchor, pos |-> pos,
                     pending |-> NoBlock])
    /\ RewindForkScan(0, forkState.gen)

\* initializeForkScan: a new baseline, one generation up.
InitializeForkScan(anchor, pos) ==
    LET gen == forkState.gen + 1
    IN  /\ SaveForkScan([baseline |-> anchor, next |-> Height[anchor] + 1,
                         gen |-> gen, published |-> anchor, pos |-> pos,
                         pending |-> NoBlock])
        /\ RewindForkScan(0, gen)

KeepForkScan == UNCHANGED <<forkState, scanned, forkSchedule, forkBatch>>

-----------------------------------------------------------------------------
(***************************************************************************)
(* Startup and recovery.                                                   *)
(***************************************************************************)

\* A slip the runs must catch: the index is not compared with the outer tail.
LoadWithoutIndex(latest) ==
    LET anchor == IF latest.isFork THEN NoBlock ELSE latest.hash
    IN  /\ recoveryDrop' = (mode' = "continuous" /\ latest.isFork)
        /\ recoveryAnchor' = IF mode' = "continuous" THEN anchor ELSE NoBlock
        /\ forkAligned' = /\ mode' = "continuous"
                          /\ HasState
                          /\ forkState.pending = NoBlock
                          /\ anchor # NoBlock
                          /\ forkState.published = anchor
        /\ forkSchedule' = NewSchedule(0)
        /\ forkBatch' = NilBatch

\* loadForkScan with the tail of the outer topic as latest.  Nothing of it is
\* run, and every field keeps its zero value, outside continuous mode.
LoadForkScan(latest) ==
    LET anchor == IF latest.isFork THEN NoBlock ELSE latest.hash
    IN  /\ recoveryDrop' = (mode' = "continuous" /\ latest.isFork)
        /\ recoveryAnchor' = IF mode' = "continuous" THEN anchor ELSE NoBlock
        /\ forkAligned' = /\ mode' = "continuous"
                          /\ HasState
                          /\ forkState.pending = NoBlock
                          /\ anchor # NoBlock
                          /\ forkState.published = anchor
                          /\ canon[Height[anchor]] = anchor
        /\ forkSchedule' = NewSchedule(0)
        /\ forkBatch' = NilBatch

\* forkNoticeExtends: the notice is the transition out of head.
ForkNoticeExtends(n, head) ==
    IF HasDrops(n) THEN n.old = head
    ELSE /\ n.first = Height[head] + 1
         /\ Anc[n.tail][n.first - 1] = head

\* The checks of reconcileForkScanReplay; a failed one is an error.
ReplayMatches(n, anchor) ==
    /\ forkState.pending \in {NoBlock, anchor}
    /\ \A h \in n.first .. Height[n.tail] : canon[h] = Anc[n.tail][h]
    /\ n.tail = anchor

\* reconcileForkScanReplay: the notice is already published, the cursor is
\* still at its origin.
ReconcileForkScanReplay(n, anchor) ==
    LET rewound == HasDrops(n)
        gen == IF rewound THEN forkState.gen + 1 ELSE forkState.gen
        next == IF rewound THEN MinOf(forkState.next, n.first) ELSE forkState.next
    IN  /\ ReplayMatches(n, anchor)
        /\ SaveForkScan([forkState EXCEPT !.gen = gen, !.next = next,
                                          !.published = anchor, !.pending = NoBlock])
        /\ IF rewound THEN RewindForkScan(n.first, gen)
                      ELSE UNCHANGED <<forkSchedule, forkBatch>>

AwaitsAlignment == Continuous /\ ~forkAligned /\ recoveryAnchor # NoBlock

\* A published tail that is the transition out of the saved head.
ProvenReplay(n, processed) ==
    /\ AwaitsAlignment
    /\ HasState
    /\ forkState.published # recoveryAnchor
    /\ processed
    /\ ForkNoticeExtends(n, forkState.published)

\* An inner offset gap together with a changed startup anchor, or no cursor.
NeedsReset(off) ==
    \/ ~HasState
    \/ /\ forkState.pos # NoPosition
       /\ off > forkState.pos + 1
       /\ forkState.published # recoveryAnchor

\* prepareForkScan: runs after msgCheck or a recognised replay; processed is
\* isAlreadyProcessed(notice).  Constrains forkState, scanned, forkSchedule and
\* forkBatch; disabled where the code returns false.
PrepareForkScan(n, off, processed) ==
    CASE ProvenReplay(n, processed) -> ReconcileForkScanReplay(n, recoveryAnchor)
      [] AwaitsAlignment /\ ~ProvenReplay(n, processed) /\ NeedsReset(off) ->
            InitializeForkScan(recoveryAnchor, NoPosition)
      [] OTHER -> KeepForkScan

\* finishForkScan: promote the published tail and the message position before
\* the message can be committed.  A drop at the startup tail is never promoted.
FinishForkScan(latest, off) ==
    IF ~Continuous THEN KeepForkScan /\ UNCHANGED <<forkAligned, recoveryDrop>>
    ELSE IF latest.isFork
    THEN recoveryDrop /\ KeepForkScan /\ UNCHANGED <<forkAligned, recoveryDrop>>
    ELSE /\ latest.hash # NoBlock
         /\ IF ~HasState THEN InitializeForkScan(latest.hash, off)
            ELSE /\ SaveForkScan([forkState EXCEPT
                        !.published = latest.hash,
                        !.pending = IF @ = latest.hash THEN NoBlock ELSE @,
                        !.pos = off])
                 /\ UNCHANGED <<forkSchedule, forkBatch>>
         /\ forkAligned' = TRUE
         /\ recoveryDrop' = FALSE

\* finishForkScan returns false: a drop it must not promote, or a record that
\* validate refuses.
FinishRefused(latest) ==
    /\ Continuous
    /\ \/ latest.isFork /\ ~recoveryDrop
       \/ /\ ~latest.isFork
          /\ \/ latest.hash = NoBlock
             \/ HasState /\ ~Validate([forkState EXCEPT !.published = latest.hash])

-----------------------------------------------------------------------------
(***************************************************************************)
(* The canonical write.                                                    *)
(***************************************************************************)

\* A slip the runs must catch: nothing above the new tip is cleaned up.
NothingStale(tail) == {}

\* The run of mappings right above the new tip: left over from a longer chain.
StaleAbove(tail) ==
    {h \in Height[tail] + 1 .. MaxHeight :
        \A k \in Height[tail] + 1 .. h : canon[k] # NoBlock}

\* A slip the runs must catch: an entry that is there is not overwritten.
WrittenIfAbsent(n) ==
    [h \in Heights |->
        IF h \in n.first .. Height[n.tail] /\ canon[h] = NoBlock THEN Anc[n.tail][h]
        ELSE IF h \in StaleAbove(n.tail) THEN NoBlock
        ELSE canon[h]]

WrittenIndex(n) ==
    [h \in Heights |->
        IF h \in n.first .. Height[n.tail] THEN Anc[n.tail][h]
        ELSE IF h \in StaleAbove(n.tail) THEN NoBlock
        ELSE canon[h]]

\* Heights the batch reports to affected().
ReplacedHeights(n) ==
    {h \in n.first .. Height[n.tail] : canon[h] \notin {NoBlock, Anc[n.tail][h]}}
       \cup StaleAbove(n.tail)

\* A slip the runs must catch: overwritten heights are not reported.
AffectedByCleanup(n) == StaleAbove(n.tail)

\* A slip the runs must catch: the lowest replaced height is left out.
AffectedAboveFirst(n) == ReplacedHeights(n) \ {n.first}

Affected(n) ==
    ReplacedHeights(n) \cup (IF n.first <= Published THEN {n.first} ELSE {})

\* writeBlockInfoToDB: index and cursor change in one Pebble batch; a changed
\* generation rewinds the schedule and the active batch.  Constrains canon,
\* forkState, scanned, forkSchedule, forkBatch and fresh.
WriteBlockInfos(n) ==
    /\ canon' = WrittenIndex(n)
    /\ fresh' = {h \in fresh : canon'[h] = canon[h]}
    /\ IF Continuous /\ HasState
       THEN LET candidates == Affected(n) \cup {forkState.next}
                gen == IF Affected(n) = {} THEN forkState.gen ELSE forkState.gen + 1
            IN  /\ \E low \in candidates :
                      /\ \A h \in candidates : low <= h
                      /\ SaveForkScan([forkState EXCEPT !.next = low, !.gen = gen,
                                                        !.pending = n.tail])
                /\ IF gen # forkState.gen
                   THEN RewindForkScan(n.first, gen)
                   ELSE UNCHANGED <<forkSchedule, forkBatch>>
       ELSE KeepForkScan
=============================================================================
