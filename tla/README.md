# A TLA+ model of the consistency checker

The consistency checker reads block notices of one chain from an inner Kafka
topic, waits until the replicas have the blocks, and republishes them on an outer
topic, one notice per dropped or new block. Beside that it keeps a canonical
index in a local database, marks forks in S3, and scans the history again for
fork marks that are missing. In version mode several processes compete for the
leadership of a chain; the leader also writes to a singleton topic.

## 1. Inventory

| Part | State | Operations | Interacts with |
|---|---|---|---|
| Main flow (`check/check.go`: `Run`, `processNotice`, `publishOuter`) | `latestOuterBlockChangeNotification`, `latestMsgOffset`, `currentNotice`, `delivered` | fetch, skip, continuity check, replica wait, DB write, S3 marks, drop and new notices, checkpoint, commit | Kafka, DB, S3, nodes; `Checker.Mutex` |
| Consistency DB (`db/consistency.go`, `db/fork_scan.go`) | number to hash, hash to info, latest block, cursor record | `WriteBlockInfosWithForkScan`, load and save of the cursor, queries | main flow, worker, HTTP API |
| Continuous scan, recovery (`check/fork_scan.go`) | `forkState`, `forkSchedule`, `forkAligned`, startup tail | load, initialise, reconcile a replay, reset, rewind, finish | main flow under the mutex |
| Continuous scan, worker (`check/fork_scan.go`, `check/fork_scan_batch.go`) | `forkBatch`, locals of the batch | observe, begin, read, plan, PUT, verify, finish | main flow through the mutex, the generation and the fence |
| Window scan (`check/fork_scan.go`) | none | scan the last heights | DB under the mutex, S3 |
| S3 fork marks (`check/check.go`) | validation objects, prefetched listings | prefetch, mark dropped blocks, mark rivals of a height, recheck | main flow, both scans |
| Chain leadership (`check/check.go`) | `etcdLock`, `isOuterSingletonAlign` | become leader, revoke, poll of the version key | EtcdLock, main flow; `Checker.Mutex` |
| EtcdLock (`check/etcd_lock.go`) | lease, context, watchdog | `Acquire`, `Release`, `WatchDog` | etcd; `onLost` calls back into the leadership |
| Singleton alignment (`check/check.go`) | cached singleton tail | `AlignOuterSingleton`, `align`, `GetCommonAncestor` | leadership, Kafka, S3, other versions through the topic |
| Node map (`nodes/map.go`, `nodes/node.go`) | registered nodes, watch revision | load, watch, reload, poll | etcd, replicas over RPC |
| Replica readiness (`check/check.go`) | `ReplicaLatestBlockNumber`, `lastWrittenBlockNumber`, `latestWriteEtcd` | `checkAndNotify`, idle refresh, two etcd transactions | node map, main flow |
| HTTP API (`cmd/checker/server.go`) | none | four queries | DB, without the mutex |
| Configuration, metrics | none of their own | | |

What is hard: one mutex protects the cursor but is released while the worker reads
the index and S3; a message is published in several writes, each of which may fail
or succeed without an answer; the offset, the cursor, the index and the outer topic
are four durable states that no transaction joins, and a crash may fall between any
two; offsets may be committed in the background; leadership rests on leases that
run out while calls are under way, and callbacks of old locks arrive late; two
versions that disagree on the chain write the same topic in turn; the node map follows
etcd through a watch that breaks and starts over; S3 requests fail, take effect late
and work from listings read earlier; queries read the DB in several steps.

What makes each part correct:

- main flow: the outer topic can be applied entry by entry; nothing is committed
  before it is published; every message is committed in the end;
- DB: index and cursor change together; no height keeps a dropped block;
- recovery: the cursor never claims a height whose canonical block was not scanned;
- worker: a height is accepted only if its entry did not change since it was read,
  after the interval, and under the published block; the backlog drains;
- leadership: one live leader; alignment within one term; a leader in the end;
- singleton topic: after a handover it shows the chain of the new leader and nothing
  else; the alignment holds no message up for ever;
- replicas: a message passes only when enough of them have its height, and does pass;
  the map ends up with what is registered;
- S3 marks: known rivals are marked before publication; all are in the end;
- queries: an answer was true at some moment of the call.

`PROJECT.json` lists the hazards at their lines with the properties that catch them.

## 2. Modules

| Module | Models | Uses |
|---|---|---|
| `BlockTree` | blocks, ancestors, messages, outer notices | |
| `ForkCursor` | canonical index, cursor record, recovery, schedule, rewind | `BlockTree` |
| `Pipeline` | Kafka, `Run`, `processNotice`, `publishOuter`, start, crash | `ForkCursor` |
| `ForkScanWorker` | the continuous worker | `ForkCursor` |
| `Checker` | one process: main flow and worker over one mutex; the properties | `Pipeline`, `ForkScanWorker` |
| `ExactRelay` | abstract specification: the outer topic grows as a copy of the stream the messages call for, and reaches its end | `BlockTree` |
| `ChainLeader` | leadership, `EtcdLock`, leases, several processes | |
| `LeaderTerm` | abstract specification of leadership: terms that begin unaligned when nobody owns the chain; `ChainLeader` implements it | |
| `Singleton` | several versions, their heads, the singleton topic, `AlignOuterSingleton` | `BlockTree`, `LeaderTerm` |
| `Replicas` | replicas, registrations, leases, node map, `checkAndNotify` | |
| `ForkMarks` | validation objects, prefetch, marks of `processNotice`, window scan | `BlockTree` |
| `BlockQuery` | records, cached latest block, the four queries beside the whole of `Checker` | `Checker` |
| `MCChecker`, `MCLeader`, `MCSingleton`, `MCReplicas`, `MCMarks`, `MCQueries` | the instances | |
| `BlockTreeProofs` | lemmas about notices, their items and the tree | `BlockTree` |
| `CheckerProofs`, `StreamProofs`, `QueryProofs` | proofs about `Checker`, its outer stream, and `BlockQuery` | `Checker`, `BlockQuery` |
| `LeaderProofs`, `SingletonProofs`, `ReplicasProofs`, `MarksProofs` | proofs about `ChainLeader`, `Singleton`, `Replicas`, `ForkMarks` | |

### Correspondence

Blocks are the elements of a finite tree given by `Height` and `Anc` (the ancestor
of a block at a height). A message is the old tail it drops from, the
new tail, and the height at which the two part; `OuterItem` lists the notices it calls for:
drops from the top down, then new blocks from the bottom up. Hash, number and parent
of the code are the block and its place in the tree.

`pc` is the place of the main flow. The mutex is held from the continuity check to
the end of `processNotice`; `Locked` says so, and a worker step that takes the mutex
waits for it. Steps between two calls that change durable state are one action:
`BeginNew` (`msgCheck`, `prepareForkScan`, `beginNotice`), `WriteDB`, `PublishOne` for
each notice, `Finish`, `Commit`. A failed step goes back to the start of
`processNotice` with the same message, as `Run` retries it. A write to Kafka may fail without effect or, where
`AckLoss` is set, with effect.

`forkState` is the durable cursor record (`NilState` when absent), `canon` the
canonical index. `scanned`, `fresh`, `recent` and `unripe` are history variables: the
hash under which a height was checkpointed last, the heights whose entry has not
changed since the batch read them, and the heights published since the last interval
or not yet published for a whole one.
They guard nothing.

In `ChainLeader` a lock is an `EtcdLock` object with its lease; an object nobody
refers to is used again, so that runs stay finite. `live` are the leases etcd still
has. A process holds its mutex from the grant to the end of `Acquire` (`mine`).
`realigned` is a history variable. A lease that a watchdog renews, or that was
granted a moment ago, runs out only against the error budget; any other runs out on
its own. Durations are abstracted to the order of events.

`Singleton` takes leadership from `LeaderTerm`, which `ChainLeader` is shown to
implement (`KeepsTerms`): `owner` maps to the process with an installed lock whose
lease is live, `leads` to the processes with an installed lock, `aligned` to the flag.
Each process has its own stream of messages, index, head and version topic; only the
singleton topic is shared. `processNotice` up to the first `publishOuter` touches nothing
shared and is one step (`BeginNew`; `BeginProcessed` is the short cut, `Reject` a refusal
of `msgCheck`). A write that fails may have taken effect (`PublishFails`, `AlignFails`).
`inner` holds the messages from the committed offset on and `read` how many of them the
running process has fetched; `CommitMessages` moves the offset at once or, with
`AsyncCommit`, at any later time. `Crash` is possible at every step: the writes under way
land or not, each on its own, `latest` is read again from the version topic with its
`IsFork`, `delivered` and the cached tail are lost, and the messages from the committed
offset on are delivered again. `CanAlign` collects the reads of `align` that can fail,
`AlignPlan` what it writes. `overlap`, `torn` and `replayed` are history variables: two
processes led at once, an alignment started from a drop, a crash found more than one
message uncommitted.

In `Replicas` etcd is the registrations, the leases and the log of events since the
revision the watch goroutine starts from; a reload empties the log, a failed reload
replays it. `NodeRecord` keeps state and lease, which is what `Node.Equal` and the
transactions tell apart. A polling window is a sequence of rounds of any length; time
itself is not modelled, so the one second of the short cut in `checkAndNotify` may have
passed or not.

In `ForkMarks` an object is absent, main or fork. `keys` and `val` are the prefetched
listing and validation; each request of the prefetch returns at its own time. A PUT of
the scan that times out goes to `late` and lands at any later moment. The attempts of
`retryWithBackoff` are one request.

`BlockQuery` adds to `Checker` the records, the cached latest block and one query in
progress; every read is a step. `moments` collects the states of the index and the records the call
has lived through.

Definitions whose comment begins "A slip the runs must catch" are plausible wrong
versions of the definition that follows them. No specification uses them; each
property is shown to fail when one of them takes the place of the original.

## 3. Runs

Bounds are constants of the cfg. The trees have four or five blocks and at most
three heights: enough for a reorg of one and of two blocks, a reorg to a shorter or
equal chain, there and back, and for a batch of two heights to be cut short. Failures,
crashes, rebalances and rebuilds are counted (`MaxFails`, `MaxCrashes`, ...); where
they fall is free.

| Run | Instance | Shows |
|---|---|---|
| `crash` | four messages of one block, one failure (or lost answer), one crash | index sound, checkpoint before commit, coverage, freshness, interval, published blocks only; every message committed; backlog drains |
| `retry` | two failures, background commits, drops of two | the outer topic refines `ExactRelay` |
| `modes` | two restarts between continuous and window mode, a rebalance, two rivals at the lowest height | nothing lost, heights accepted only under published blocks |
| `partial` | messages of two blocks, drops of two, one failure, one crash, one rebuilt DB | what is published is never contradicted; no unfinished message is committed; coverage |
| `leader` | two processes of two versions, three locks, two errors, one crash, two changes of the version key | one live leader, alignment within a term, a leader in the end, `Acquire` ends; every behaviour is one of `LeaderTerm` |
| `singleton` | two versions, five blocks in two branches, three messages, drops of two, background commits, two terms, one trouble (a failed or unanswered call, a crash at any step, a lost lease) | while terms do not overlap, no alignment starts from a drop and no crash replays more than the last message, the topic shows exactly the aligned leader's chain and what `publishOuter` adds follows it; the alignment ends |
| `replicas` | two replicas, one with a lease, ready ratio 1/2, two calls, one outage, one etcd error | a true is backed by enough replicas; `lastBlockNumber` is what was reported; the map converges; a message gets through |
| `marks` | four blocks, a window of two heights, three messages, two faults | known rivals marked before publication; the scan agrees with the index; the marks of the window settle |
| `queries` | window mode, background commits, drops of two, a rebalance, one query at a time | answers were true; the latest block is the tip; stream contiguous and complete under background commits |

`leader` uses `MaxFail = 2` where `WatchDog` has 3: two failures already separate the
first failure, the reset by a success and the loss, and the proofs hold for every
value. Three locks allow a lock in use by each process and an old one whose watchdog
is still alive.

`singleton` needs two terms for one handover, and three messages for a version that is
behind, one that disagrees and one more after the alignment. One trouble may fall at every
step of both processes; that any number of them changes nothing is what the theorems say
(for the two safety properties). Every block is stored under both versions, which
`AlignEnds` needs (`VAlignStuck.cfg`). `replicas` has one outage
and one etcd error because each already meets the other in every order: a replica dies
or falls silent before, during and after a reload, and comes back under a new lease.
`MaxLag` bounds the events a working watch is behind by; a broken one may be behind by
any number. `marks` counts failed requests, late PUTs and crashes together
(`MaxFaults`), so every pair of them occurs. One query at a time is enough: a query
changes nothing.

Deadlock is checked in every run but `replicas`, where the number of calls of
`checkAndNotify` is bounded and everything stops after the last one.

### Disagreements between the code and its comments or docs

Three runs show a statement of the repository that the code does not keep; the
quotations are in `PROJECT.json`.

| Run | What happens |
|---|---|
| `partial_publish` | The second new block of a message fails once; `latest` already points at the first, so `msgCheck` refuses every retry. |
| `mode_switch` | Continuous, window, continuous, with a drop at the startup tail: the cursor is trusted although a scanned block was replaced meanwhile. |
| `offline_window` | A node that answered the earlier polls of a window and misses the last one is removed from etcd; the comment on `CheckAndNotifyEtcd` promises that only a node that fails for the whole window is. The trace is one of a message, which shares `waitReplicasReady` and `checkAndNotify` with the refresh. |

Further configurations are kept beside the runs, each with one property that TLC finds
violated:

| Configuration | Module, property | What happens |
|---|---|---|
| `VAsyncReplay.cfg` | `MCChecker`, `EveryNoticeCommitted` | Background commits, a crash that loses two offsets: the replayed message is neither the published tail nor its successor and is refused for ever (`check/fork_scan.go:209`: "publication may be replayed safely"). |
| `VDropTail.cfg` | `MCChecker`, `OuterContiguous` | A crash within the drops of a reorg, with an unflushed offset: a replayed message passes the continuity check against a dropped block and its child is published (`README.md:122`). |
| `VRebuiltIndex.cfg` | `MCChecker`, `IndexFollowsOuter` | The cleanup of the index stops at a hole and leaves a dropped block canonical above it (`db/consistency.go:225`). |
| `VWatchSpins.cfg` | `MCLeader`, `WaitsForRelease` | The watch in `Acquire` starts at the revision of the key itself and returns at once: the waiter loops over etcd while the key is held (`check/etcd_lock.go:94`). |
| `VAlignTorn.cfg` | `MCSingleton`, `AlignSuccess` | `align` ignores `IsFork` of the singleton tail: an alignment that failed between its drops and its new blocks is resumed from a dropped block, and "align success" is logged for a topic that does not show the chain (`check/check.go:1339`). |
| `VSingletonReplay.cfg` | `MCSingleton`, `ReplaySuccess` | Background commits, a crash between the two writes of `publishOuter`: the singleton topic has the new block, the version topic ends in the drop of the old one. The older message comes again, passes the duplicate check, which ignores `IsFork` of `latest`, and `align` finds the singleton tail on the local index; "align success" is logged with `latest` at the dropped block, and the next message writes its drop after the block that replaced it (`check/check.go:1147`, `:1352`). |
| `VAlignStuck.cfg` | `MCSingleton`, `AlignEnds` | The singleton tail has no block file under the leader's version: every alignment fails and the message is retried for ever (`check/getversionblock_it_test.go:13`). |
| `VBlockIsValid.cfg` | `MCQueries`, `ValidityAnswered` | For a block dropped by a reorg to a shorter chain `blockIsValid` answers with an error instead of false (`README.md:160`). |

Met while modelling and not made configurations of their own:

- with synchronous commits, a crash after two of several drops leaves a tail from
  which the replayed message does not continue; the cause is that of `VDropTail.cfg`;
- `latestMsgOffset` follows a skipped message too and may go backwards after a
  rebalance; the next redelivered message is then refused as in `VAsyncReplay.cfg`;
- a return to continuous mode with background commits: the replay of the published tail
  aligns the cursor while the index already holds the next, unpublished message that the
  window process wrote, so `ScannedIsPublished` is checked with synchronous commits only;
- `RejectReplay`: a pending head left by an interrupted write can contradict a replay
  after a change of mode, and `Run` then retries for ever;
- a late `onLost` revokes whatever lock is installed, also a newer one: a term is cut
  short, exclusion is not lost (`leader`);
- a standby of the same version holds its mutex for as long as the other leads, so
  `AcquireEnds` is checked with one process per version;
- `align` writes the drops of a fork lowest block first, `WriteDropBlockNotice` highest
  first; `OrderlyShowsChain` therefore speaks of what the topic shows, not of each
  entry;
- while a process whose lease ran out has not heard of it, two processes write the
  singleton topic; nothing but the lease keeps them apart;
- `Node.Equal` ignores the lease: a replica that comes back in the same state under a
  new lease leaves the dead one in the map, every transaction with it is refused, and
  the message is retried until the replica's state changes (`StaleLease`, the
  exception in `NoticeGetsThrough`);
- a failed write of `lastBlockNumber` is not repeated before the height changes
  (`missed`, the exception in `LastBlockPublished`);
- the replay of a published message repeats neither the marks nor the recheck; the
  window scan is what settles them (`MarksSettle`);
- `getBlockByHeight` may return a block with `is_fork` set, when a reorg falls between
  its two reads; `getLatestBlock` is null after a restart until the next write.

### Fairness

`Checker!FairSpec`: weak fairness of the main flow (a supervisor restarts the process,
`Run` loops for ever, calls that do not fail return), of the background committer (a
timer), and of the worker (Go's mutex hands over to a waiter after a millisecond, and
the timer fires). In the instances the main flow waits for messages, with the mutex free,
once messages and failures are used up, so weak fairness of the worker is enough. No
fairness of failures, crashes, rebalances or the
producer.

`ChainLeader!FairSpec`: weak fairness of each polling goroutine and of each watchdog
(tickers), of the end of a cancelled watchdog, and of the expiry of a lease nobody
renews (etcd). No fairness of errors, crashes, shutdowns or the operator.

`Singleton!FairSpec`: weak fairness of what a process does with the message in hand and
with the messages that wait for it. None of leadership, of new messages, of commits or of
failures.

`Replicas!FairSpec`: weak fairness of the watch goroutine, of `checkAndNotify` (a loop
with a deadline), and, for each replica, of registering, catching up, answering again
and the end of leases nobody renews. A dead replica need not come back.

`ForkMarks!FairSpec`: weak fairness of the main flow, of uploads (a notice is sent for
a block that is being uploaded) and of late PUTs; strong fairness of the scan, whose
mutex the main flow takes and releases again and again while Go's mutex does not
starve a waiter.

## 4. Proofs

All proofs hold for every block tree that satisfies the assumptions of `BlockTree`,
for any number of processes, versions, locks and replicas, and for every value of the
bounds, except where a theorem states a hypothesis.

**`BlockTreeProofs`** — what `WellFormed` says of a message, what each of its outer
notices is, that they follow each other and that no two are equal. `StreamProofs` and
`SingletonProofs` rest on it.

**`CheckerProofs`** — `Inductive` (`Spec => []IndInv`), `TypeCorrect`, `FreshScans`.
That an accepted height has not changed since the batch read it is not inductive:
whether `finishForkScanBatch` accepts depends on the fence in the schedule.
`IndInv` adds what ties them together: `MainInv` (the message in hand and the place
of `publishOuter` in it), `BatchInv` (a batch exists exactly while the worker of a
continuous process scans it) and `FenceInv` (every height the batch has read is
unchanged, or the generation that changed it has fenced it off). The proof splits the
invariant into a part of the main flow and a part of the scan; each action has a lemma
for each part it can disturb. `FreshScans` follows: only `FinishBatch` advances the
cursor within a generation, and it advances over read heights that are not fenced.

`ContinuousCoverage`: if every process runs in continuous mode,
every height between the baseline and the cursor was checkpointed under the hash that
is canonical now. Each operation on the cursor keeps it: a save that does not move
the cursor, a rewind below every entry that `WriteBlockInfos` changes, a reset that
empties the claimed range; a batch extends it by fresh heights (from `IndInv`). The
assumption `Modes = {"continuous"}` is needed: `mode_switch` shows the failure
without it.

**`StreamProofs`** — `OuterStreamContiguous`, `NoticesBeforeCommit`, `IndexShowsHead`,
from `StreamInductive`. The tail of the topic alone does not say which notices are
there, so `StreamInv` names the place of the topic: there are `c` and `p` such that `c`
messages are completely published and `p` notices of the next one, the topic ends with
the `p`-th of these, every notice of the `c` messages occurs as often as they call for
it, the committed offset is `c` (at most `c` with background commits), the index is the
chain of message `c` or of the next one, and each value of `pc` says where the message in hand stands to `c`. A
restart finds the place again from the tail of the topic, which is why the notices of
one message must differ. Hypotheses:

- `CommitsHold`: commits are synchronous, or there is neither crash nor rebalance. With
  background commits, a restart replays messages older than the place, and
  `VDropTail.cfg` shows that the stream then breaks. The run `queries`, which has
  background commits and a rebalance but no crash, is model-checked only.
- `IndexShowsHead` assumes `MaxRebuilds = 0`: a rebuilt index has holes, and
  `VRebuiltIndex.cfg` shows a dropped block that stays canonical above one.

`PositionBeforeCommit` adds `CheckpointInv` (the durable position is that of the last
committed message or of the next one; the former while the last one is redelivered, the
latter, saved with its tail, when the next one is ready to be committed). It assumes synchronous commits, no rebuild, and continuous mode: a process in
window mode does not move the position, and a rebuilt DB has none.

**`QueryProofs`** — the lemma `QueryKeepsChecker` carries the invariants above over to the
composition. `QueryInductive`, `QueriesTyped`, `QueriesAnswerTruly`: a
query reads a record and an index entry at two moments. `QueryInv` says that every
index entry is a recorded block of its height, that the call has seen the present
moment, and what the value carried from one read to the next (`Given`, `Mapped`) was at
some moment of the call. No hypothesis: writes, crashes and rebuilds may come between
two reads. `LatestBlockIsTip` assumes `CommitsHold` and no rebuild; it follows from the
index being the chain of the block the cache names.

**`LeaderProofs`** — `LeaderInductive`, `LeaderTypes`, `LeaderExclusion`,
`AlignedTerm`. Exclusion needs
`LeaseInv` (the leader key is bound to a live lease, and an installed lock with a live
lease is the one it is bound to), which needs `LockInv` (an installed or awaited lock
belongs to one process and is not cancelled) so that releasing or dropping one lock
does not touch another, and `TermInv` (a process that acquires does not lead).
`RevokeStep` serves the poll, `onLost` and the shutdown. `LeaderRefinesTerm`: each step
of `ChainLeader` is a step of `LeaderTerm` under the mapping, or leaves it unchanged.

**`SingletonProofs`** — the proofs take every crash, at any step, with writes under way
that land or not, and both kinds of commit. The invariant of `SingletonInductive` has four
parts:

- `TypeOK` and `FlowInv` (the message in hand and the place of `publishOuter` in it),
  which hold without conditions; `SingletonTypes` follows;
- `StreamInv`, as long as no crash replayed more than the last message: a process has
  either handled its whole stream, and then `latest`, the version topic and the index are
  those of its head, or it is at the last message, and then `latest` and the version topic
  are the head before it or one of its notices, and the index is the chain before or after
  it (`InHand`). It gives what an alignment after a restart relies on: a message that
  counts as processed is published to its end, and `latest` is not a drop of its tail;
- `OrderInv`, as long as, besides, terms did not overlap and no alignment started from a
  drop: there is one leader; a consumer of the topic is at the head its tail names
  (`Upto(Base(SingletonTail))`), unless the tail is a drop and nobody is aligned; an
  aligned leader knows the first `k` notices of its message delivered and has written
  these or, after a lost answer, one more, and the last one written is the tail
  (`Prefix`), which is what `delivered` is for when a destination fails; an aligning
  leader has ahead of it the blocks of its chain above what the topic shows
  (`NewsAhead`), or drops of the other chain and then those (`DropsAhead`). While `align`
  writes drops from the lowest up the topic is at no head; `Dropped` says what it shows
  then.

`TopicShowsChain` and `TopicFollows` follow under the conditions of `OrderInv`, which are
those of `Orderly`. Each is needed: two writers (`overlap`), `VAlignTorn.cfg` (`torn`),
`VSingletonReplay.cfg` (`replayed`). `SyncNeverReplays` proves that with synchronous
commits the third is met by itself: at most one message is uncommitted at any time.

What a sequence last said of a block is `LastWord`, a `CHOOSE` of a greatest index. That
a bounded set of numbers has a greatest element (`Highest`) is proved from the
well-foundedness of `<`.

**`ReplicasProofs`** — `ReplicasInductive`, `ReplicasTypes`, `TrueIsBacked`,
`LastBlockIsReported`. `ReadyInv` says that the reported height stays backed by its poll
from one call to the next: the short cut for replicas that are ahead returns true
without a poll. `PublishInv` says how `lastWrittenBlockNumber` follows the reported
height during the write.

**`MarksProofs`** — `MarksInductive`, `MarksTypes`, `PublishedIsMarked`, `ScanAgrees`.
The marks are right in the end only if what the prefetch saw is still good when it is
used: `HintInv` says that a prefetched listing with the canonical object has every
known rival, and that a prefetched validation "main" still holds while the mutex is
held; `IndexInv` and `MarkedInv` carry this through the heights of the message.

Only model-checked:

- liveness (`EveryNoticeCommitted`, `BacklogDrains`, `LeaderElected`, `AcquireEnds`,
  `AlignEnds`, `MapConverges`, `NoticeGetsThrough`, `MarksSettle`), which the prover
  cannot reach;
- `RelaysExactly`, the refinement of `ExactRelay`: it has fairness, and the stream it
  expects is a flattened sequence, whose value needs induction over data;
- `RipeBeforeScan` and `ScannedIsPublished`;
- the outer stream, with background commits, across a rebalance.

## 5. Not modelled

- encodings (RLP, JSON, gzip), the HTTP layer with its error codes, configuration
  files, metrics: nothing reads them back into the state modelled here;
- heights near 2^64, and messages that do not decode or have no new block;
- the paging of S3 listings and the backoff of single requests;
- writes that land after the process that sent them is gone: in `Singleton` and `Checker`
  a write under way lands at the crash or never, and in `ForkMarks` only the PUTs of the
  window scan may land late, those of `processNotice` take effect or fail when sent;
- durations: windows, timeouts and intervals are orders of events;
- in `Checker` a graceful shutdown is a crash between two steps; in `ChainLeader` it
  is an action of its own;
- `Checker`, `Singleton`, `Replicas` and `ForkMarks` are not composed into one module.
  What they share is the main flow: each of the others has the steps of `processNotice`
  that matter to it one by one and the rest as one step, and `Checker` has theirs as
  steps that succeed or fail. The traditional (single-topic) mode is `Checker`'s.

## 6. Plan

1. `ScannedIsPublished` in continuous mode, from `Coverage` and `StreamInv`, and
   `RipeBeforeScan`.
2. An abstract at-least-once relay, stated by the place of the topic (messages complete,
   notices of the next one) instead of a flattened sequence, that `Checker` is proved to
   implement across crashes and replays, next to `ExactRelay`.
