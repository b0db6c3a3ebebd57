------------------------------ MODULE Pipeline ------------------------------
(***************************************************************************)
(* The main flow of the checker: Run takes inner notices from Kafka and    *)
(* drives each one through processNotice until it succeeds, then commits   *)
(* its offset.  processNotice holds Checker.Mutex from its first line to   *)
(* its return; the steps below are the points at which it can fail, crash, *)
(* or make something visible outside the process.                          *)
(*                                                                         *)
(* outer is the topic the process publishes to (the version topic, or the  *)
(* singleton topic in legacy mode) and reads its tail from at startup.  A  *)
(* second destination appears only through the failures it can cause.      *)
(***************************************************************************)
EXTENDS ForkCursor

CONSTANTS
    Modes,          \* settings of fork_scan_lookback a process may start with
    MaxNew,         \* bound on len(NewBlocks)
    MaxDrop,        \* bound on len(DropBlocks)
    AsyncCommit,    \* CommitInterval > 0: offsets are committed in the background
    AckLoss,        \* whether a Kafka write may take effect and still report an error
    MaxFails,       \* bound on failed steps
    MaxCrashes,     \* bound on crashes of the process
    MaxRebalances,  \* bound on consumer-group rebalances
    MaxRebuilds     \* bound on rebuilds of the consistency DB

ASSUME PipelineAssumption ==
    /\ MaxMsgs \in Nat /\ MaxNew \in Nat /\ MaxDrop \in Nat
    /\ MaxFails \in Nat /\ MaxCrashes \in Nat
    /\ MaxRebalances \in Nat /\ MaxRebuilds \in Nat
    /\ Modes \subseteq {"continuous", "window"}
    /\ AsyncCommit \in BOOLEAN /\ AckLoss \in BOOLEAN

VARIABLES
    inner,      \* the inner topic; message i of the sequence has offset i - 1
    committed,  \* the group's committed offset: the next message to deliver
    stash,      \* offset handed to the background committer, 0 for none
    fetched,    \* the reader's next offset in this session
    cur,        \* 1 + the offset of the message Run is working on, 0 for none
    lastOffset, \* Checker.latestMsgOffset
    pc,         \* where Run is
    pub,        \* index of the outer notice publishOuter is at
    outer,      \* the outer topic
    latest,     \* Checker.latestOuterBlockChangeNotification
    notice,     \* Checker.currentNotice
    delivered,  \* Checker.delivered for the outer topic
    budget      \* how often each kind of trouble has happened

kafkaVars == <<inner, committed, stash, fetched>>
runVars == <<cur, lastOffset, pc, pub>>
outVars == <<outer, latest, notice, delivered>>
pipelineVars == <<kafkaVars, runVars, outVars, budget>>

NoticeID == [tail : MaybeBlock, newCount : Nat, dropCount : Nat]

NoID == [tail |-> NoBlock, newCount |-> 0, dropCount |-> 0]

PipelineTypeOK ==
    /\ inner \in Seq(Notice)
    /\ committed \in 0 .. Len(inner)
    /\ stash \in 0 .. Len(inner)
    /\ fetched \in 0 .. Len(inner)
    /\ cur \in 0 .. Len(inner)
    /\ lastOffset \in 0 .. MaxMsgs
    /\ pc \in {"down", "fetch", "process", "replicas", "write", "mark", "publish",
               "align", "finish", "commit"}
    /\ pub \in Nat \ {0}
    /\ outer \in Seq(OuterNotice)
    /\ latest \in OuterNotice
    /\ notice \in NoticeID
    /\ delivered \subseteq OuterNotice
    /\ budget \in [{"fails", "crashes", "rebalances", "rebuilds"} -> Nat]

Msg == inner[cur]

Offset == cur - 1

Locked == pc \in {"replicas", "write", "mark", "publish", "align", "finish"}

PipelineInit ==
    /\ inner = <<>>
    /\ committed = 0
    /\ stash = 0
    /\ fetched = 0
    /\ cur = 0
    /\ lastOffset = 0
    /\ pc = "down"
    /\ pub = 1
    /\ outer = <<>>
    /\ latest = NoNotice
    /\ notice = NoID
    /\ delivered = {}
    /\ budget = [fails |-> 0, crashes |-> 0, rebalances |-> 0, rebuilds |-> 0]

Spend(kind, max) ==
    /\ budget[kind] < max
    /\ budget' = [budget EXCEPT ![kind] = @ + 1]

-----------------------------------------------------------------------------
(***************************************************************************)
(* The environment: the upstream producer, Kafka's group coordinator, and  *)
(* an operator who deletes the consistency DB.                             *)
(***************************************************************************)

\* The upstream writer moves the head of the chain by one notice.
Produce ==
    /\ Len(inner) < MaxMsgs
    /\ \E t \in Block, f \in Heights :
          LET n == [old |-> IF Len(inner) = 0 THEN NoBlock ELSE inner[Len(inner)].tail,
                    tail |-> t, first |-> f]
          IN  /\ WellFormed(n)
              /\ NewCount(n) <= MaxNew
              /\ DropCount(n) <= MaxDrop
              /\ inner' = Append(inner, n)
    /\ UNCHANGED <<committed, stash, fetched, runVars, outVars, budget, cursorVars>>

\* A new generation of the consumer group restarts the reader at the committed
\* offset.  What the committer still held is lost if its last flush fails.
Rebalance ==
    /\ pc # "down"
    /\ Spend("rebalances", MaxRebalances)
    /\ fetched' = committed
    /\ stash' \in {0, stash}
    /\ UNCHANGED <<inner, committed, runVars, outVars, cursorVars>>

\* The background committer of CommitInterval > 0.
FlushCommit ==
    /\ pc # "down"
    /\ stash # 0
    /\ committed' = stash
    /\ stash' = 0
    /\ UNCHANGED <<inner, fetched, runVars, outVars, budget, cursorVars>>

\* The operator rebuilds the DB of a stopped checker: index and cursor are gone.
RebuildDB ==
    /\ pc = "down"
    /\ Spend("rebuilds", MaxRebuilds)
    /\ canon' = EmptyIndex
    /\ forkState' = NilState
    /\ scanned' = EmptyIndex
    /\ UNCHANGED <<kafkaVars, runVars, outVars, mode, forkAligned, recoveryAnchor,
                   recoveryDrop, forkSchedule, forkBatch, fresh, recent, unripe>>

-----------------------------------------------------------------------------
(***************************************************************************)
(* Start and stop.                                                         *)
(***************************************************************************)

\* GetLastOuterBlockNotice
OuterTail == IF Len(outer) = 0 THEN NoNotice ELSE outer[Len(outer)]

\* NewChecker up to the first FetchMessage of Run.
Start ==
    /\ pc = "down"
    /\ mode' \in Modes
    /\ latest' = OuterTail
    /\ LoadForkScan(OuterTail)
    /\ fetched' = committed
    /\ pc' = "fetch"
    /\ UNCHANGED <<inner, committed, stash, cur, lastOffset, pub, outer, notice,
                   delivered, budget, canon, forkState, historyVars>>

\* The process dies: everything but Kafka and Pebble is gone.
CrashPipeline ==
    /\ pc # "down"
    /\ Spend("crashes", MaxCrashes)
    /\ pc' = "down"
    /\ mode' = "down"
    /\ cur' = 0 /\ lastOffset' = 0 /\ pub' = 1
    /\ stash' = 0 /\ fetched' = 0
    /\ latest' = NoNotice /\ notice' = NoID /\ delivered' = {}
    /\ forkAligned' = FALSE
    /\ recoveryAnchor' = NoBlock
    /\ recoveryDrop' = FALSE
    /\ forkSchedule' = NewSchedule(0)
    /\ forkBatch' = NilBatch
    /\ fresh' = {}
    /\ recent' = Heights /\ unripe' = Heights
    /\ UNCHANGED <<inner, committed, outer, canon, forkState, scanned>>

-----------------------------------------------------------------------------
(***************************************************************************)
(* Run: fetch, the offset check, and the way into processNotice.           *)
(***************************************************************************)
\* A slip the runs must catch: ReadMessage, which commits what it returns.
FetchAndCommit ==
    /\ pc = "fetch"
    /\ fetched < Len(inner)
    /\ fetched' = fetched + 1
    /\ stash' = fetched + 1
    /\ cur' = fetched + 1
    /\ pc' = "process"
    /\ UNCHANGED <<inner, committed, lastOffset, pub, outVars, budget, cursorVars>>

Fetch ==
    /\ pc = "fetch"
    /\ fetched < Len(inner)
    /\ fetched' = fetched + 1
    /\ cur' = fetched + 1
    /\ pc' = "process"
    /\ UNCHANGED <<inner, committed, stash, lastOffset, pub, outVars, budget, cursorVars>>

\* FetchMessage ran into MsgWaitTimeout; CheckAndNotifyEtcd touches replicas only.
FetchTimeout ==
    /\ pc = "fetch"
    /\ UNCHANGED <<pipelineVars, cursorVars>>

\* A slip the runs must catch: the next offset counts as seen.
AlreadySeenNext == lastOffset # 0 /\ Offset <= lastOffset + 1

AlreadySeen == lastOffset # 0 /\ Offset <= lastOffset

\* A message of this session delivered again: straight to CommitMessages.
SkipSeen ==
    /\ pc = "process"
    /\ AlreadySeen
    /\ pc' = "commit"
    /\ UNCHANGED <<kafkaVars, cur, lastOffset, pub, outVars, budget, cursorVars>>

\* Slips the runs must catch: the first new block instead of the tail, and a
\* comparison of heights.
IsAlreadyStarted(n) == latest # NoNotice /\ Anc[n.tail][n.first] = latest.hash

IsAlreadyReached(n) == latest # NoNotice /\ Height[n.tail] <= Height[latest.hash]

\* isAlreadyProcessed; isDuplicateBlockNotification is the special case of one
\* new block and no drops, and takes the same path.
IsAlreadyProcessed(n) == latest # NoNotice /\ n.tail = latest.hash

\* Slips the runs must catch: any reorg is accepted, heights are compared
\* instead of hashes, and a dropped tail is never the origin of a reorg.
MsgCheckAnyDrop(n) ==
    \/ latest = NoNotice
    \/ HasDrops(n)
    \/ Anc[n.tail][n.first - 1] = latest.hash

MsgCheckByHeight(n) ==
    \/ latest = NoNotice
    \/ HasDrops(n) /\ n.old = latest.hash
    \/ ~HasDrops(n) /\ n.first <= Height[latest.hash] + 1

MsgCheckNoResume(n) ==
    \/ latest = NoNotice
    \/ HasDrops(n) /\ n.old = latest.hash /\ ~latest.isFork
    \/ ~HasDrops(n) /\ Anc[n.tail][n.first - 1] = latest.hash

\* The first notice is always in place.  latest may be a dropped block.
MsgCheck(n) ==
    \/ latest = NoNotice
    \/ HasDrops(n) /\ n.old = latest.hash
    \/ ~HasDrops(n) /\ Anc[n.tail][n.first - 1] = latest.hash

\* The idempotent short cut: everything but alignment and checkpoint is done.
BeginProcessed ==
    /\ pc = "process" /\ ~AlreadySeen
    /\ IsAlreadyProcessed(Msg)
    /\ PrepareForkScan(Msg, Offset, TRUE)
    /\ pc' = "align"
    /\ UNCHANGED <<kafkaVars, cur, lastOffset, pub, outVars, budget, canon, mode,
                   forkAligned, recoveryAnchor, recoveryDrop, fresh, recent, unripe>>

\* A slip the runs must catch: a retry forgets what was delivered.
BeginNoticeForgets(n) ==
    /\ notice' = [tail |-> n.tail, newCount |-> NewCount(n), dropCount |-> DropCount(n)]
    /\ delivered' = {}

\* beginNotice: a different notice forgets what was delivered.
BeginNotice(n) ==
    LET id == [tail |-> n.tail, newCount |-> NewCount(n), dropCount |-> DropCount(n)]
    IN  /\ notice' = id
        /\ delivered' = IF id = notice THEN delivered ELSE {}

BeginNew ==
    /\ pc = "process" /\ ~AlreadySeen
    /\ ~IsAlreadyProcessed(Msg)
    /\ MsgCheck(Msg)
    /\ PrepareForkScan(Msg, Offset, FALSE)
    /\ BeginNotice(Msg)
    /\ pub' = 1
    /\ pc' = "replicas"
    /\ UNCHANGED <<kafkaVars, cur, lastOffset, outer, latest, budget, canon, mode,
                   forkAligned, recoveryAnchor, recoveryDrop, fresh, recent, unripe>>

\* processNotice returns false at msgCheck; Run sleeps and calls it again.
Reject ==
    /\ pc = "process" /\ ~AlreadySeen
    /\ ~IsAlreadyProcessed(Msg)
    /\ ~MsgCheck(Msg)
    /\ UNCHANGED <<pipelineVars, cursorVars>>

\* The short cut returns false: the replay contradicts the cursor or the index.
RejectReplay ==
    /\ pc = "process" /\ ~AlreadySeen
    /\ IsAlreadyProcessed(Msg)
    /\ ProvenReplay(Msg, TRUE)
    /\ ~ReplayMatches(Msg, recoveryAnchor)
    /\ UNCHANGED <<pipelineVars, cursorVars>>

-----------------------------------------------------------------------------
(***************************************************************************)
(* processNotice after beginNotice, mutex held.                            *)
(***************************************************************************)
Advance(from, to) ==
    /\ pc = from
    /\ pc' = to
    /\ UNCHANGED <<kafkaVars, cur, lastOffset, pub, budget>>

\* checkAndNotify saw enough replicas at the height; the prefetch is done.
ReplicasReady == Advance("replicas", "write") /\ UNCHANGED <<outVars, cursorVars>>

\* rewriteDropBlocks is best effort and invisible here; then the atomic write.
WriteDB ==
    /\ Advance("write", "mark")
    /\ WriteBlockInfos(Msg)
    /\ UNCHANGED <<outVars, mode, forkAligned, recoveryAnchor, recoveryDrop,
                   recent, unripe>>

\* rewriteForkBlocksAtSameHeight returned nil.
MarkForks == Advance("mark", "publish") /\ UNCHANGED <<outVars, cursorVars>>

Item == OuterItem(Msg, pub)

\* What a published outer notice makes of the ripeness history.
NotePublished(item) ==
    IF item.isFork THEN UNCHANGED <<recent, unripe>>
    ELSE /\ recent' = recent \cup {Height[item.hash]}
         /\ unripe' = unripe \cup {Height[item.hash]}

PublishUnchanged ==
    UNCHANGED <<kafkaVars, cur, lastOffset, notice, canon, forkState, mode,
                forkAligned, recoveryAnchor, recoveryDrop, forkSchedule, forkBatch,
                scanned, fresh>>

\* publishOuter succeeded for every destination.  A destination that already
\* took the notice in an earlier attempt is not written again.
PublishOne ==
    /\ pc = "publish"
    /\ IF Item \in delivered
       THEN UNCHANGED <<outer, delivered, recent, unripe>>
       ELSE /\ outer' = Append(outer, Item)
            /\ delivered' = delivered \cup {Item}
            /\ NotePublished(Item)
    /\ latest' = IF Item.isFork THEN latest ELSE Item
    /\ pub' = pub + 1
    /\ pc' = IF pub = OuterCount(Msg) THEN "align" ELSE "publish"
    /\ UNCHANGED budget
    /\ PublishUnchanged

\* publishOuter failed: either this topic did not take the notice, or it did and
\* the other destination failed, or it did and the answer was lost.
PublishFail ==
    /\ pc = "publish"
    /\ Spend("fails", MaxFails)
    /\ \/ UNCHANGED <<outer, delivered, recent, unripe>>
       \/ /\ Item \notin delivered
          /\ outer' = Append(outer, Item)
          /\ \/ delivered' = delivered \cup {Item}
             \/ AckLoss /\ UNCHANGED delivered
          /\ NotePublished(Item)
    /\ UNCHANGED latest
    /\ pub' = 1
    /\ pc' = "process"
    /\ PublishUnchanged

\* A slip the runs must catch: finishForkScan is not called.
AlignThenCommit ==
    Advance("align", "commit") /\ UNCHANGED <<outVars, cursorVars>>

\* AlignOuterSingleton returned true.
AlignOuterSingleton ==
    Advance("align", "finish") /\ UNCHANGED <<outVars, cursorVars>>

Finish ==
    /\ Advance("finish", "commit")
    /\ FinishForkScan(latest, Offset)
    /\ UNCHANGED <<outVars, canon, mode, recoveryAnchor, fresh, recent, unripe>>

\* Any other step of processNotice fails before it changes anything; Run will
\* call processNotice again.
StepFail ==
    /\ Locked /\ pc # "publish"
    /\ IF pc = "finish" /\ FinishRefused(latest) THEN UNCHANGED budget
       ELSE Spend("fails", MaxFails)
    /\ pc' = "process"
    /\ pub' = 1
    /\ UNCHANGED <<kafkaVars, cur, lastOffset, outVars, cursorVars>>

\* CommitMessages, retried until it returns nil.
Commit ==
    /\ pc = "commit"
    /\ IF AsyncCommit
       THEN /\ stash' = IF stash < cur THEN cur ELSE stash
            /\ UNCHANGED committed
       ELSE /\ committed' = cur
            /\ UNCHANGED stash
    /\ lastOffset' = Offset
    /\ cur' = 0
    /\ pc' = "fetch"
    /\ UNCHANGED <<inner, fetched, pub, outVars, budget, cursorVars>>
=============================================================================
