--------------------------- MODULE ForkScanWorker ---------------------------
(***************************************************************************)
(* The continuous fork-scan worker: runForkScan and one batch at a time.   *)
(*                                                                         *)
(* Observe, BeginBatch, PutVerified, PutStale and FinishBatch run with     *)
(* Checker.Mutex held; the module that composes the worker with the main   *)
(* flow says when that is possible.  Canonical reads and the S3 plan run   *)
(* without the mutex and interleave with everything.                       *)
(***************************************************************************)
EXTENDS ForkCursor

CONSTANTS
    BatchSize   \* forkScanBatchSize

ASSUME BatchSizeAssumption == BatchSize \in Nat \ {0}

VARIABLES
    wpc,       \* where runForkScan is
    upper,     \* the bound observeForkScan returned
    seenGen,   \* the generation observeForkScan returned
    scanAt,    \* the height scanContinuousBatch is at
    checked    \* the hashes of the batch scanned so far, by height

workerVars == <<wpc, upper, seenGen, scanAt, checked>>

WorkerTypeOK ==
    /\ wpc \in {"idle", "begin", "scan", "plan", "finish"}
    /\ upper \in 0 .. MaxHeight
    /\ seenGen \in Nat
    /\ scanAt \in 0 .. MaxHeight + 1
    /\ checked \in [Heights -> MaybeBlock]

WorkerInit ==
    /\ wpc = "idle"
    /\ upper = 0
    /\ seenGen = 0
    /\ scanAt = 0
    /\ checked = EmptyIndex

\* The worker's share of a crash.
WorkerReset ==
    /\ wpc' = "idle"
    /\ upper' = 0
    /\ seenGen' = 0
    /\ scanAt' = 0
    /\ checked' = EmptyIndex

\* What stays as it is when the worker only moves along.
WorkerFrame == UNCHANGED <<canon, mode, forkAligned, recoveryAnchor, recoveryDrop>>

CursorFrame == UNCHANGED <<canon, forkState, mode, forkAligned, recoveryAnchor,
                           recoveryDrop, forkSchedule, forkBatch, scanned,
                           recent, unripe>>

\* A slip the runs must catch: a canonical write that is not published yet.
ScannableWhilePending == forkAligned /\ HasState

Scannable == forkAligned /\ HasState /\ forkState.pending = NoBlock

-----------------------------------------------------------------------------
\* A slip the runs must catch: the observation matures at once.
ObservedAtOnce(s, elapsed, height, gen) ==
    LET t == IF s.gen # gen THEN NewSchedule(gen) ELSE s
    IN  IF ~t.seen THEN [t EXCEPT !.seen = TRUE, !.observed = height]
        ELSE IF elapsed
        THEN [t EXCEPT !.mature = TRUE, !.matureHeight = height,
                       !.observed = height]
        ELSE t

\* forkScanSchedule.observe: mature the pending observation once a whole
\* interval has elapsed since it was taken, and take the next one.
Observed(s, elapsed, height, gen) ==
    LET t == IF s.gen # gen THEN NewSchedule(gen) ELSE s
    IN  IF ~t.seen THEN [t EXCEPT !.seen = TRUE, !.observed = height]
        ELSE IF elapsed
        THEN [t EXCEPT !.mature = TRUE, !.matureHeight = t.observed,
                       !.observed = height]
        ELSE t

\* observeForkScan, called by the timer; elapsed is what the clock says.
Observe(elapsed) ==
    /\ wpc = "idle"
    /\ Continuous
    /\ Scannable
    /\ LET s == Observed(forkSchedule, elapsed, Published, forkState.gen)
           pendingSeen == forkSchedule.gen = forkState.gen /\ forkSchedule.seen
           ready == s.mature /\ forkState.next <= s.matureHeight
       IN  /\ forkSchedule' = s
           /\ wpc' = IF ready THEN "begin" ELSE "idle"
           /\ upper' = IF ready THEN s.matureHeight ELSE 0
           /\ seenGen' = IF ready THEN forkState.gen ELSE 0
           /\ recent' = IF pendingSeen /\ ~elapsed THEN recent ELSE {}
           /\ unripe' = IF pendingSeen /\ elapsed THEN recent ELSE unripe
    /\ UNCHANGED <<scanAt, checked, forkState, forkBatch, scanned, fresh>>
    /\ WorkerFrame

\* beginForkScanBatch fails: nothing to scan, or a reorg took the mature prefix.
BeginStale ==
    /\ wpc = "begin"
    /\ \/ ~Scannable
       \/ /\ seenGen # forkState.gen
          /\ forkSchedule.gen # forkState.gen \/ ~forkSchedule.mature
    /\ WorkerReset
    /\ UNCHANGED fresh
    /\ CursorFrame

\* beginForkScanBatch: fix the bounds of the batch and register its fence.
BeginBatch ==
    /\ wpc = "begin"
    /\ Scannable
    /\ ~HasBatch
    /\ seenGen # forkState.gen =>
          forkSchedule.gen = forkState.gen /\ forkSchedule.mature
    /\ LET bound == IF seenGen = forkState.gen THEN upper
                    ELSE MinOf(upper, forkSchedule.matureHeight)
       IN  forkBatch' = [start |-> forkState.next, upper |-> MinOf(bound, Published),
                         gen |-> forkState.gen, rewind |-> NoRewind]
    /\ wpc' = "scan"
    /\ scanAt' = forkState.next
    /\ checked' = EmptyIndex
    /\ fresh' = {}
    /\ UNCHANGED <<upper, seenGen, forkState, forkSchedule, scanned, recent, unripe>>
    /\ WorkerFrame

\* A slip the runs must catch: the fence starts one height too high.
StaleAfter(h) == h > forkBatch.rewind

\* forkScanBatch.stale
Stale(h) == h >= forkBatch.rewind

\* The loop condition of scanContinuousBatchWithClock.
MoreHeights ==
    /\ scanAt <= forkBatch.upper
    /\ scanAt - forkBatch.start < BatchSize
    /\ ~Stale(scanAt)

\* readScanCanonical, without the mutex.
ReadCanonical ==
    /\ wpc = "scan"
    /\ MoreHeights
    /\ canon[scanAt] # NoBlock
    /\ checked' = [checked EXCEPT ![scanAt] = canon[scanAt]]
    /\ fresh' = fresh \cup {scanAt}
    /\ wpc' = "plan"
    /\ UNCHANGED <<upper, seenGen, scanAt>>
    /\ CursorFrame

\* The loop ends: bound, batch size, a fence, a missing index entry, or the
\* time budget once at least one height is done.
EndScan ==
    /\ wpc = "scan"
    /\ \/ ~MoreHeights
       \/ MoreHeights /\ canon[scanAt] = NoBlock
       \/ scanAt > forkBatch.start
    /\ wpc' = "finish"
    /\ UNCHANGED <<upper, seenGen, scanAt, checked, fresh>>
    /\ CursorFrame

\* verifyForkScanBatchHeight returns nil.
Verified(h) ==
    /\ HasBatch /\ forkAligned /\ HasState
    /\ forkState.next = forkBatch.start
    /\ ~Stale(h)
    /\ forkState.gen # forkBatch.gen => forkBatch.rewind # NoRewind
    /\ h <= Published
    /\ canon[h] # NoBlock
    /\ canon[h] = checked[h]

NextHeight ==
    /\ scanAt' = scanAt + 1
    /\ wpc' = "scan"
    /\ UNCHANGED <<upper, seenGen, checked, fresh>>
    /\ CursorFrame

\* executeForkScanPlan with nothing to rewrite: no mutex, no verification.
EmptyPlan == wpc = "plan" /\ NextHeight

\* executeForkScanPlan with PUTs, each one verified under the mutex.
PutVerified == wpc = "plan" /\ Verified(scanAt) /\ NextHeight

\* The height is given up: LIST, GET or PUT failed, or the verification did.
GiveUpHeight ==
    /\ wpc = "plan"
    /\ wpc' = "finish"
    /\ UNCHANGED <<upper, seenGen, scanAt, checked, fresh>>
    /\ CursorFrame

PutStale == wpc = "plan" /\ ~Verified(scanAt) /\ GiveUpHeight

\* The verified contiguous prefix of the batch is start .. n - 1.
VerifiedPrefix(n) ==
    /\ n \in forkBatch.start .. scanAt
    /\ \A h \in forkBatch.start .. n - 1 : Verified(h)
    /\ n < scanAt => ~Verified(n)

\* A slip the runs must catch: the batch stays registered.
EndBatchKeepsFence ==
    /\ fresh' = {}
    /\ WorkerReset
    /\ UNCHANGED <<forkBatch, forkSchedule, recent, unripe>>
    /\ WorkerFrame

EndBatch ==
    /\ forkBatch' = NilBatch
    /\ fresh' = {}
    /\ WorkerReset
    /\ UNCHANGED <<forkSchedule, recent, unripe>>
    /\ WorkerFrame

\* finishForkScanBatch: checkpoint the verified prefix, drop the batch.
FinishBatch ==
    /\ wpc = "finish"
    /\ \E n \in forkBatch.start .. scanAt :
          /\ VerifiedPrefix(n)
          /\ IF n > forkBatch.start
             THEN LET st == [forkState EXCEPT !.next = n]
                  IN  /\ Validate(st)
                      /\ forkState' = st
                      /\ scanned' = [h \in Heights |->
                            IF h \in forkBatch.start .. n - 1 THEN checked[h]
                            ELSE scanned[h]]
             ELSE UNCHANGED <<forkState, scanned>>
    /\ EndBatch

\* finishForkScanBatch when saveForkScan fails.
AbandonBatch == wpc = "finish" /\ EndBatch /\ UNCHANGED <<forkState, scanned>>
=============================================================================
