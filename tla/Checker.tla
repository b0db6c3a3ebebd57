------------------------------ MODULE Checker ------------------------------
(***************************************************************************)
(* One checker process: the main flow and the continuous fork-scan worker, *)
(* serialised by Checker.Mutex where the code takes it.                    *)
(***************************************************************************)
EXTENDS Pipeline, ForkScanWorker

vars == <<pipelineVars, cursorVars, workerVars>>

Init == PipelineInit /\ CursorInit /\ WorkerInit

\* A step of the main flow leaves the worker's locals alone.
Main(A) == A /\ UNCHANGED workerVars

\* A worker step leaves the main flow alone.
Worker(A) == A /\ UNCHANGED pipelineVars

\* A worker step that takes Checker.Mutex.
LockedWorker(A) == ~Locked /\ Worker(A)

\* A worker step that fails spends the failure budget.
FailingWorker(A) ==
    /\ Spend("fails", MaxFails)
    /\ A
    /\ UNCHANGED <<kafkaVars, runVars, outVars>>

Crash == CrashPipeline /\ WorkerReset

Environment ==
    \/ Main(Produce)
    \/ Main(Rebalance)
    \/ Main(RebuildDB)

\* The steps a supervised process is bound to take.
MainStep ==
    \/ Main(Start)
    \/ Main(Fetch)
    \/ Main(FetchTimeout)
    \/ Main(SkipSeen)
    \/ Main(Reject)
    \/ Main(RejectReplay)
    \/ Main(BeginProcessed)
    \/ Main(BeginNew)
    \/ Main(ReplicasReady)
    \/ Main(WriteDB)
    \/ Main(MarkForks)
    \/ Main(PublishOne)
    \/ Main(AlignOuterSingleton)
    \/ Main(Finish)
    \/ Main(Commit)

MainFailure ==
    \/ Main(PublishFail)
    \/ Main(StepFail)

\* The steps a running worker is bound to take.
WorkerStep ==
    \/ LockedWorker(Observe(TRUE))
    \/ LockedWorker(BeginStale)
    \/ LockedWorker(BeginBatch)
    \/ Worker(ReadCanonical)
    \/ Worker(EndScan)
    \/ Worker(EmptyPlan)
    \/ LockedWorker(PutVerified)
    \/ LockedWorker(PutStale)
    \/ LockedWorker(FinishBatch)

WorkerFailure ==
    \/ FailingWorker(GiveUpHeight)
    \/ ~Locked /\ FailingWorker(AbandonBatch)

Next ==
    \/ Environment
    \/ MainStep
    \/ Main(FlushCommit)
    \/ MainFailure
    \/ LockedWorker(Observe(FALSE))
    \/ WorkerStep
    \/ WorkerFailure
    \/ Crash

Spec == Init /\ [][Next]_vars

\* The supervisor restarts a dead process, Run and the background committer go
\* on while they can, Go's mutex does not starve the worker, and its clock
\* reaches the next interval.  Nothing is assumed of failures, crashes, the
\* producer or a rebalance: their number is bounded, their timing is not.
FairSpec ==
    /\ Spec
    /\ WF_vars(MainStep)
    /\ WF_vars(Main(FlushCommit))
    /\ WF_vars(WorkerStep)

-----------------------------------------------------------------------------
\* Every variable of the main flow, of the shared cursor and of the worker holds
\* a value of its kind; a present cursor is a complete ForkScanState record.
TypeOK == CursorTypeOK /\ PipelineTypeOK /\ WorkerTypeOK

(***************************************************************************)
(* What makes the types and the fence of the scan inductive.               *)
(***************************************************************************)

\* The message in hand, and publishOuter's place in it.
MainInv ==
    /\ Len(inner) <= MaxMsgs
    /\ \A k \in 1 .. Len(inner) : inner[k].first <= Height[inner[k].tail]
    /\ pc \notin {"down", "fetch"} => cur >= 1
    /\ pc \in {"replicas", "write", "mark"} => pub = 1
    /\ pc = "publish" => pub <= OuterCount(Msg)

Scanning == wpc \in {"scan", "plan", "finish"}

\* A batch exists only while the worker of a continuous process scans it.
BatchInv ==
    /\ pc = "down" => mode = "down" /\ wpc = "idle"
    /\ pc # "down" => mode \in Modes
    /\ HasBatch <=> Scanning
    /\ ~Scanning => fresh = {}
    /\ wpc # "idle" => Continuous
    /\ Scanning => /\ HasState
                   /\ forkBatch.start >= 1
                   /\ forkBatch.start <= scanAt
    /\ wpc = "plan" => scanAt <= forkBatch.upper

\* The heights the active batch has read.
ReadHeights ==
    forkBatch.start .. (IF wpc = "plan" THEN scanAt ELSE scanAt - 1)

\* A height the batch has read is either unchanged since, or fenced off: the
\* generation that changed it rewound the batch to it or below.
FenceInv ==
    /\ \A h \in fresh : canon[h] # NoBlock
    /\ Scanning => \A h \in ReadHeights : h \in fresh \/ Stale(h)

IndInv == TypeOK /\ MainInv /\ BatchInv /\ FenceInv

-----------------------------------------------------------------------------
(***************************************************************************)
(* The outer stream.                                                       *)
(***************************************************************************)

\* However failures, lost answers, crashes, replays and rebalances interleave,
\* WriteDropBlockNotice and WriteNewBlockNotice leave an outer topic in which
\* every entry follows the one before it: a new block extends the head, a drop
\* removes it.
OuterContiguous ==
    \A i \in 2 .. Len(outer) : Follows(outer[i - 1], outer[i])

Occurrences(o) == Cardinality({i \in 1 .. Len(outer) : outer[i] = o})

\* Notice n calls for o: a block of the abandoned branch is dropped, one of the
\* new branch is published.
Carries(n, o) ==
    LET branch == IF o.isFork THEN n.old ELSE n.tail
    IN  n.first <= Height[o.hash] /\ Anc[branch][Height[o.hash]] = o.hash

Required(o, upTo) == Cardinality({k \in 1 .. upTo : Carries(inner[k], o)})

\* No offset is committed, or handed to the background committer, unless every
\* drop and every new block of every message up to it is in the outer topic, as
\* often as the messages call for it.
NoLostNotice ==
    LET upTo == IF stash > committed THEN stash ELSE committed
    IN  \A o \in OuterNotice : Required(o, upTo) <= Occurrences(o)

\* When processNotice has succeeded, every entry of the canonical index is an
\* ancestor of the published head: no height keeps a dropped block.
IndexFollowsOuter ==
    pc = "commit" =>
        \A h \in Heights : canon[h] \in {NoBlock, Anc[latest.hash][h]}

\* Every inner notice that is produced is eventually committed.
EveryNoticeCommitted ==
    \A k \in 1 .. MaxMsgs : Len(inner) >= k ~> committed >= k

-----------------------------------------------------------------------------
(***************************************************************************)
(* The continuous scan.                                                    *)
(***************************************************************************)

\* Every height the durable cursor claims, from the baseline to the cursor, was
\* checkpointed under the hash that is canonical now.
Coverage ==
    HasState =>
        \A h \in Height[forkState.baseline] + 1 .. forkState.next - 1 :
            canon[h] # NoBlock /\ scanned[h] = canon[h]

\* Coverage when processes of other scan modes have run in between: it is owed
\* once the continuous process considers itself aligned.
AlignedCoverage == Continuous /\ forkAligned => Coverage

\* The heights a step adds to the scanned prefix within one generation.
Accepted ==
    IF forkState'.gen = forkState.gen /\ HasState
    THEN forkState.next .. forkState'.next - 1 ELSE {}

\* finishForkScanBatch accepts a height only if its index entry has not changed
\* since the batch read it, not even away and back.
AcceptedScansAreFresh == [][Accepted \subseteq fresh]_vars

\* A height is accepted only after its block has been published for a whole
\* scan interval of the clock, whatever reorgs, retries and restarts happened.
RipeBeforeScan == [][Accepted \cap unripe = {}]_vars

\* The last thing the outer topic says about height h.
LastAt(h) ==
    LET at == {i \in 1 .. Len(outer) : Height[outer[i].hash] = h}
    IN  IF at = {} THEN NoNotice
        ELSE outer[CHOOSE i \in at : \A j \in at : j <= i]

\* A height is accepted only under the block the outer topic currently shows at
\* that height: never under one that is indexed but not yet published.
ScannedIsPublished ==
    [][\A h \in Accepted : LastAt(h) = [hash |-> canon[h], isFork |-> FALSE]]_vars

\* finishForkScan before CommitMessages: the durable position covers every
\* committed message, and the durable head is the tail of that message or of
\* the next one.
CheckpointBeforeCommit ==
    committed > 0 =>
        /\ HasState
        /\ forkState.pos >= committed - 1
        /\ \E k \in {forkState.pos + 1, forkState.pos + 2} :
              k <= Len(inner) /\ forkState.published = inner[k].tail

\* The worker catches up with the published head.
BacklogDrains == <>[](HasState => forkState.next = Published + 1)
=============================================================================
