----------------------------- MODULE Singleton -----------------------------
(***************************************************************************)
(* Version mode: several checker processes, one per version, each with a   *)
(* block stream and a version topic of its own, and the singleton topic    *)
(* that only the chain leader may write.  LeaderTerm supplies the          *)
(* leadership.  The steps of processNotice before publishOuter touch       *)
(* nothing that two processes share and are one step here; Checker has     *)
(* them one by one.  A process may die at any step; it then reads latest   *)
(* from its version topic and its messages from the committed offset.      *)
(***************************************************************************)
EXTENDS BlockTree, LeaderTerm

CONSTANTS
    Root,        \* the block every version has published when the model starts
    Stored,      \* Stored[p]: the block files under the version of p in S3
    MaxNotices,  \* bound on the inner notices of all versions
    MaxNew,      \* bound on len(NewBlocks)
    MaxDrop,     \* bound on len(DropBlocks)
    AsyncCommit, \* whether commit_interval is set: offsets reach Kafka in the background
    MaxTerms,    \* bound on the terms of leadership
    MaxTroubles  \* bound on lost leases, failed calls to Kafka and crashes

ASSUME SingletonAssumption ==
    /\ NoProc \notin Proc
    /\ Root \in Block /\ Height[Root] = 1
    /\ Stored \in [Proc -> SUBSET Block]
    /\ MaxNotices \in Nat /\ MaxNew \in Nat /\ MaxDrop \in Nat
    /\ AsyncCommit \in BOOLEAN
    /\ MaxTerms \in Nat /\ MaxTroubles \in Nat

VARIABLES
    single,     \* the singleton topic
    version,    \* the last notice of each version topic
    inner,      \* the messages of each block stream from the committed offset on
    read,       \* how many of these the running process has fetched
    latest,     \* latestOuterBlockChangeNotification
    canon,      \* the number -> hash index of each consistency DB
    todo,       \* the message Run has in hand
    pc,         \* where processNotice is
    pub,        \* index of the outer notice publishOuter is at
    delivered,  \* Checker.delivered: pairs of a destination and a notice
    cached,     \* cachedOuterSingleBlockChangeNotification
    plan,       \* what align has still to write
    overlap,    \* history: two processes led at the same time
    torn,       \* history: an alignment started from a drop
    replayed,   \* history: a crash brought back more than the last message
    budget      \* how often each bounded step has happened

flowVars == <<latest, canon, todo, pc, pub, delivered, cached, plan>>
logVars == <<version, inner, read>>
histVars == <<overlap, torn, replayed>>
vars == <<termVars, single, logVars, flowVars, histVars, budget>>

\* The notice of a block that joined the chain.
Tip(b) == [hash |-> b, isFork |-> FALSE]

NoWork == [old |-> NoBlock, tail |-> NoBlock, first |-> 1]

Kinds == {"notices", "terms", "troubles"}

\* Every variable holds a value of its kind; only a leader is aligned.
TypeOK ==
    /\ owner \in Proc \cup {NoProc}
    /\ aligned \subseteq leads /\ leads \subseteq Proc
    /\ single \in Seq(OuterNotice)
    /\ version \in [Proc -> OuterNotice]
    /\ inner \in [Proc -> Seq(Notice)]
    /\ read \in [Proc -> Nat]
    /\ \A p \in Proc : read[p] <= Len(inner[p])
    /\ latest \in [Proc -> OuterNotice]
    /\ canon \in [Proc -> [Heights -> MaybeBlock]]
    /\ todo \in [Proc -> Notice \cup {NoWork}]
    /\ pc \in [Proc -> {"idle", "process", "publish", "align", "catchup"}]
    /\ pub \in [Proc -> Nat \ {0}]
    /\ delivered \in [Proc -> SUBSET ({"version", "singleton"} \X OuterNotice)]
    /\ cached \in [Proc -> OuterNotice]
    /\ plan \in [Proc -> Seq(OuterNotice)]
    /\ overlap \in BOOLEAN /\ torn \in BOOLEAN /\ replayed \in BOOLEAN
    /\ budget \in [Kinds -> Nat]

Init ==
    /\ TermInit
    /\ single = <<>>
    /\ version = [p \in Proc |-> Tip(Root)]
    /\ inner = [p \in Proc |-> <<>>]
    /\ read = [p \in Proc |-> 0]
    /\ latest = [p \in Proc |-> Tip(Root)]
    /\ canon = [p \in Proc |-> [h \in Heights |-> Anc[Root][h]]]
    /\ todo = [p \in Proc |-> NoWork]
    /\ pc = [p \in Proc |-> "idle"]
    /\ pub = [p \in Proc |-> 1]
    /\ delivered = [p \in Proc |-> {}]
    /\ cached = [p \in Proc |-> NoNotice]
    /\ plan = [p \in Proc |-> <<>>]
    /\ overlap = FALSE
    /\ torn = FALSE
    /\ replayed = FALSE
    /\ budget = [k \in Kinds |-> 0]

Spend(kind, max) ==
    /\ budget[kind] < max
    /\ budget' = [budget EXCEPT ![kind] = @ + 1]

\* processNotice of p holds Checker.Mutex.
Locked(p) == pc[p] \in {"publish", "align", "catchup"}

Goto(p, where) == pc' = [pc EXCEPT ![p] = where]

-----------------------------------------------------------------------------
(***************************************************************************)
(* Leadership.  Both ends of a term wait for Checker.Mutex; the lease does *)
(* not.                                                                    *)
(***************************************************************************)
ChangeToChainLeader(p) ==
    /\ ~Locked(p)
    /\ Spend("terms", MaxTerms)
    /\ TakeOver(p)
    /\ overlap' = (overlap \/ leads # {})
    /\ UNCHANGED <<single, logVars, flowVars, torn, replayed>>

RevokeChainLeader(p) ==
    /\ ~Locked(p)
    /\ StepDown(p)
    /\ UNCHANGED <<single, logVars, flowVars, histVars, budget>>

LeaseRunsOut ==
    /\ Spend("troubles", MaxTroubles)
    /\ LoseLease
    /\ UNCHANGED <<single, logVars, flowVars, histVars>>

-----------------------------------------------------------------------------
(***************************************************************************)
(* processNotice up to the end of publication.                             *)
(***************************************************************************)

\* WriteBlockInfos: the new blocks in, what is above the new tip out.
Written(index, n) ==
    [h \in Heights |-> CASE h \in n.first .. Height[n.tail] -> Anc[n.tail][h]
                         [] h > Height[n.tail] -> NoBlock
                         [] OTHER -> index[h]]

\* FetchMessage returns a message the producer has just written.  A process that
\* has handled everything has published the head of its stream, so the message
\* goes on from there; a version stores every block it announces.  With
\* synchronous commits the one before is committed by now.
Receive(p) ==
    /\ pc[p] = "idle"
    /\ read[p] = Len(inner[p])
    /\ AsyncCommit \/ inner[p] = <<>>
    /\ Spend("notices", MaxNotices)
    /\ \E t \in Stored[p], f \in Heights :
          LET n == [old |-> latest[p].hash, tail |-> t, first |-> f]
          IN  /\ WellFormed(n)
              /\ NewCount(n) <= MaxNew
              /\ DropCount(n) <= MaxDrop
              /\ inner' = [inner EXCEPT ![p] = Append(@, n)]
              /\ todo' = [todo EXCEPT ![p] = n]
    /\ read' = [read EXCEPT ![p] = @ + 1]
    /\ Goto(p, "process")
    /\ UNCHANGED <<termVars, single, version, latest, canon, pub, delivered, cached,
                   plan, histVars>>

\* FetchMessage returns a message that an earlier process had already fetched.
Redeliver(p) ==
    /\ pc[p] = "idle"
    /\ read[p] < Len(inner[p])
    /\ todo' = [todo EXCEPT ![p] = inner[p][read[p] + 1]]
    /\ read' = [read EXCEPT ![p] = @ + 1]
    /\ Goto(p, "process")
    /\ UNCHANGED <<termVars, single, version, inner, latest, canon, pub, delivered,
                   cached, plan, histVars, budget>>

\* FetchMessage ran into its timeout.
FetchTimeout(p) == pc[p] = "idle" /\ UNCHANGED vars

\* isDuplicateBlockNotification and isAlreadyProcessed: IsFork of latest, which is
\* a drop if the version topic ended in one, is not looked at.
IsAlreadyProcessed(p) == todo[p].tail = latest[p].hash

MsgCheck(p) ==
    LET n == todo[p]
    IN  \/ HasDrops(n) /\ n.old = latest[p].hash
        \/ ~HasDrops(n) /\ Anc[n.tail][n.first - 1] = latest[p].hash

\* The short cut: only the alignment is left to do.
BeginProcessed(p) ==
    /\ pc[p] = "process"
    /\ IsAlreadyProcessed(p)
    /\ Goto(p, "align")
    /\ UNCHANGED <<termVars, single, logVars, latest, canon, todo, pub, delivered,
                   cached, plan, histVars, budget>>

\* As far as the first publishOuter.  beginNotice keeps the delivered set: it is
\* that of an earlier attempt at the same message, or empty.
BeginNew(p) ==
    /\ pc[p] = "process"
    /\ ~IsAlreadyProcessed(p)
    /\ MsgCheck(p)
    /\ canon' = [canon EXCEPT ![p] = Written(@, todo[p])]
    /\ Goto(p, "publish")
    /\ UNCHANGED <<termVars, single, logVars, latest, todo, pub, delivered, cached,
                   plan, histVars, budget>>

\* processNotice returns false at msgCheck; Run sleeps and calls it again.
Reject(p) ==
    /\ pc[p] = "process"
    /\ ~IsAlreadyProcessed(p)
    /\ ~MsgCheck(p)
    /\ UNCHANGED vars

\* processNotice fails: Run calls it again, with the delivered set as it is.
TryAgain(p) ==
    /\ Goto(p, "process")
    /\ pub' = [pub EXCEPT ![p] = 1]

\* A slip the runs must catch: a leader writes before it is aligned.
TargetsOfLeader(p) ==
    {"version"} \cup (IF p \in leads THEN {"singleton"} ELSE {})

\* The destinations of publishOuter.
Targets(p) ==
    {"version"} \cup (IF p \in leads /\ p \in aligned THEN {"singleton"} ELSE {})

Item(p) == OuterItem(todo[p], pub[p])

Due(p) == {d \in Targets(p) : <<d, Item(p)>> \notin delivered[p]}

\* The destinations in wrote take the notice.
Write(p, wrote) ==
    /\ single' = IF "singleton" \in wrote THEN Append(single, Item(p)) ELSE single
    /\ version' = [version EXCEPT ![p] = IF "version" \in wrote THEN Item(p) ELSE @]

MarkDelivered(p, ok) ==
    delivered' = [delivered EXCEPT ![p] = @ \cup (ok \X {Item(p)})]

PublishOuter(p) ==
    /\ pc[p] = "publish"
    /\ Write(p, Due(p))
    /\ MarkDelivered(p, Due(p))
    /\ latest' = [latest EXCEPT ![p] = IF Item(p).isFork THEN @ ELSE Item(p)]
    /\ pub' = [pub EXCEPT ![p] = @ + 1]
    /\ Goto(p, IF pub[p] = OuterCount(todo[p]) THEN "align" ELSE "publish")
    /\ UNCHANGED <<termVars, inner, read, canon, todo, cached, plan, histVars, budget>>

\* Some destination reports an error.  Whatever the others did is kept; a write
\* whose answer is lost took effect and counts as failed.
PublishFails(p) ==
    /\ pc[p] = "publish"
    /\ Spend("troubles", MaxTroubles)
    /\ \E wrote \in SUBSET Due(p) : \E ok \in SUBSET wrote :
          /\ ok # Due(p)
          /\ Write(p, wrote)
          /\ MarkDelivered(p, ok)
    /\ TryAgain(p)
    /\ UNCHANGED <<termVars, inner, read, latest, canon, todo, cached, plan, histVars>>

-----------------------------------------------------------------------------
(***************************************************************************)
(* AlignOuterSingleton.                                                    *)
(***************************************************************************)

\* GetLastOuterBlockNotice on the singleton topic.
SingletonTail == IF single = <<>> THEN NoNotice ELSE single[Len(single)]

\* getVersionBlockByHash finds the block file.
HasFile(p, b) == b \in Stored[p]

\* The height at which the chains of a and b part; 0 if the instance does not
\* hold a common ancestor.
CommonHeight(a, b) ==
    LET common == {h \in 1 .. MinOf(Height[a], Height[b]) : Anc[a][h] = Anc[b][h]}
    IN  IF common = {} THEN 0 ELSE CHOOSE h \in common : \A k \in common : k <= h

Ascending(b, from, fork) ==
    [i \in 1 .. Height[b] - from + 1 |->
        [hash |-> Anc[b][from + i - 1], isFork |-> fork]]

\* GetCommonAncestor reads the files of both chains down to where they part.
\* Without a common height, or with the remote block below the local one, it
\* walks past the lowest block and fails.
FindsAncestor(p, tail, head) ==
    LET c == CommonHeight(tail, head)
    IN  /\ c > 0
        /\ Height[head] >= Height[tail]
        /\ \A h \in c .. Height[tail] : HasFile(p, Anc[tail][h])
        /\ \A h \in c .. Height[head] : HasFile(p, Anc[head][h])

\* The notices of align when the singleton tail is on the local chain: what the
\* index holds above it.
FastForward(p, tail) ==
    [i \in 1 .. Height[latest[p].hash] - Height[tail] |->
        Tip(canon[p][Height[tail] + i])]

\* A slip the runs must catch: the blocks of the other chain are not dropped.
SwitchWithoutDrops(tail, head) ==
    Ascending(head, CommonHeight(tail, head) + 1, FALSE)

\* The notices of align for a fork: both lists from the common ancestor up.
SwitchChain(tail, head) ==
    LET c == CommonHeight(tail, head)
    IN  Ascending(tail, c + 1, TRUE) \o Ascending(head, c + 1, FALSE)

OnLocalChain(p, b) == canon[p][Height[b]] = b

\* align gets what it reads: the local index, and the files of the blocks.
CanAlign(p, tail) ==
    \/ tail = latest[p].hash
    \/ /\ OnLocalChain(p, tail)
       /\ \A h \in Height[tail] + 1 .. Height[latest[p].hash] : HasFile(p, canon[p][h])
    \/ /\ canon[p][Height[tail]] # NoBlock
       /\ ~OnLocalChain(p, tail)
       /\ FindsAncestor(p, tail, latest[p].hash)

\* What align writes; IsFork of the tail is not looked at.
AlignPlan(p, tail) ==
    IF tail = latest[p].hash THEN <<>>
    ELSE IF OnLocalChain(p, tail) THEN FastForward(p, tail)
    ELSE SwitchChain(tail, latest[p].hash)

\* No message in hand.
Rest(p) ==
    /\ Goto(p, "idle")
    /\ todo' = [todo EXCEPT ![p] = NoWork]
    /\ pub' = [pub EXCEPT ![p] = 1]
    /\ delivered' = [delivered EXCEPT ![p] = {}]

\* processNotice returns true and Run goes on to CommitMessages.  What is left of
\* the notice is overwritten by the next beginNotice.
Handled(p) ==
    /\ Rest(p)
    /\ UNCHANGED <<single, logVars, latest, canon, plan, histVars, budget>>

Aligning(p) == pc[p] = "align" /\ p \in leads \ aligned

AlignNotNeeded(p) ==
    /\ pc[p] = "align"
    /\ p \notin leads \ aligned
    /\ Handled(p)
    /\ UNCHANGED <<termVars, cached>>

\* An empty singleton topic counts as aligned.
AlignEmpty(p) ==
    /\ Aligning(p)
    /\ cached[p] = NoNotice
    /\ single = <<>>
    /\ BecomeAligned(p)
    /\ Handled(p)
    /\ UNCHANGED cached

FetchSingletonTail(p) ==
    /\ Aligning(p)
    /\ cached[p] = NoNotice
    /\ single # <<>>
    /\ cached' = [cached EXCEPT ![p] = SingletonTail]
    /\ UNCHANGED <<termVars, single, logVars, latest, canon, todo, pc, pub, delivered,
                   plan, histVars, budget>>

Ahead(p) == Height[cached[p].hash] > Height[latest[p].hash]

\* A slip the runs must catch: being behind is an error.
AlignBehindFails(p) ==
    /\ Aligning(p)
    /\ cached[p] # NoNotice
    /\ Ahead(p)
    /\ TryAgain(p)
    /\ UNCHANGED <<termVars, single, logVars, latest, canon, todo, delivered, cached,
                   plan, histVars, budget>>

\* The singleton topic is ahead as far as the cached tail tells: not this time.
AlignLater(p) ==
    /\ Aligning(p)
    /\ cached[p] # NoNotice
    /\ Ahead(p)
    /\ Handled(p)
    /\ UNCHANGED <<termVars, cached>>

\* The tail is fetched again, and align reads what it needs.
AlignStart(p) ==
    /\ Aligning(p)
    /\ cached[p] # NoNotice
    /\ ~Ahead(p)
    /\ LET tail == SingletonTail
       IN  /\ cached' = [cached EXCEPT ![p] = tail]
           /\ torn' = (torn \/ tail.isFork)
           /\ IF CanAlign(p, tail.hash)
              THEN /\ plan' = [plan EXCEPT ![p] = AlignPlan(p, tail.hash)]
                   /\ Goto(p, "catchup")
                   /\ UNCHANGED pub
              ELSE /\ TryAgain(p)
                   /\ UNCHANGED plan
    /\ UNCHANGED <<termVars, single, logVars, latest, canon, todo, delivered, overlap,
                   replayed, budget>>

AlignWrite(p) ==
    /\ pc[p] = "catchup"
    /\ plan[p] # <<>>
    /\ single' = Append(single, Head(plan[p]))
    /\ plan' = [plan EXCEPT ![p] = Tail(@)]
    /\ UNCHANGED <<termVars, logVars, latest, canon, todo, pc, pub, delivered, cached,
                   histVars, budget>>

AlignDone(p) ==
    /\ pc[p] = "catchup"
    /\ plan[p] = <<>>
    /\ BecomeAligned(p)
    /\ cached' = [cached EXCEPT ![p] = NoNotice]
    /\ Handled(p)

\* A write of align that takes effect without an answer.
UnansweredAlignWrite(p) ==
    /\ pc[p] = "catchup"
    /\ plan[p] # <<>>
    /\ single' = Append(single, Head(plan[p]))

\* A fetch of the tail or a write fails; what was written stays.
AlignFails(p) ==
    /\ Aligning(p) \/ (pc[p] = "catchup" /\ plan[p] # <<>>)
    /\ Spend("troubles", MaxTroubles)
    /\ UNCHANGED single \/ UnansweredAlignWrite(p)
    /\ plan' = [plan EXCEPT ![p] = <<>>]
    /\ TryAgain(p)
    /\ UNCHANGED <<termVars, logVars, latest, canon, todo, delivered, cached, histVars>>

-----------------------------------------------------------------------------
(***************************************************************************)
(* Offsets, and the end of a process.                                      *)
(***************************************************************************)

\* How many of the fetched messages have been given to CommitMessages.
Stashed(p) == IF pc[p] = "idle" THEN read[p] ELSE read[p] - 1

\* The offsets reach Kafka: before the next fetch, or from a background goroutine.
CommitMessages(p) ==
    /\ Stashed(p) > 0
    /\ inner' = [inner EXCEPT ![p] = SubSeq(@, Stashed(p) + 1, Len(@))]
    /\ read' = [read EXCEPT ![p] = @ - Stashed(p)]
    /\ UNCHANGED <<termVars, single, version, flowVars, histVars, budget>>

\* The writes a dying process has under way reach Kafka or not.
WritesUnderWay(p) ==
    \/ UNCHANGED <<single, version>>
    \/ pc[p] = "publish" /\ \E wrote \in SUBSET Due(p) : Write(p, wrote)
    \/ UnansweredAlignWrite(p) /\ UNCHANGED version

\* The process dies, wherever it is, and NewChecker starts it again: latest is the
\* tail of the version topic, drop or not, and the group goes on from its
\* committed offset.  The index stays as it is.
Crash(p) ==
    /\ Spend("troubles", MaxTroubles)
    /\ IF p \in leads THEN StepDown(p) ELSE UNCHANGED termVars
    /\ WritesUnderWay(p)
    /\ latest' = [latest EXCEPT ![p] = version'[p]]
    /\ read' = [read EXCEPT ![p] = 0]
    /\ replayed' = (replayed \/ Len(inner[p]) > 1)
    /\ cached' = [cached EXCEPT ![p] = NoNotice]
    /\ plan' = [plan EXCEPT ![p] = <<>>]
    /\ Rest(p)
    /\ UNCHANGED <<inner, canon, overlap, torn>>

-----------------------------------------------------------------------------
AlignOuterSingleton(p) ==
    \/ AlignNotNeeded(p)
    \/ AlignEmpty(p)
    \/ FetchSingletonTail(p)
    \/ AlignLater(p)
    \/ AlignStart(p)
    \/ AlignWrite(p)
    \/ AlignDone(p)

\* What a running process is bound to do.
Step(p) ==
    \/ Redeliver(p) \/ BeginProcessed(p) \/ BeginNew(p)
    \/ PublishOuter(p) \/ AlignOuterSingleton(p)

Next ==
    \/ LeaseRunsOut
    \/ \E p \in Proc :
          \/ ChangeToChainLeader(p) \/ RevokeChainLeader(p) \/ Crash(p)
          \/ Receive(p) \/ FetchTimeout(p) \/ Reject(p) \/ CommitMessages(p)
          \/ PublishFails(p) \/ AlignFails(p)
          \/ Step(p)

Spec == Init /\ [][Next]_vars

\* Run goes on with the message it has until it is handled, and fetches the ones
\* that wait.  Nothing is assumed of the leadership, of new messages, of failures
\* or of when an offset is committed.
FairSpec == Spec /\ \A p \in Proc : WF_vars(Step(p))

-----------------------------------------------------------------------------
\* What the singleton topic last said of block b.
LastWord(b) ==
    LET at == {i \in 1 .. Len(single) : single[i].hash = b}
    IN  IF at = {} THEN NoNotice ELSE single[CHOOSE i \in at : \A j \in at : j <= i]

Shows(b) == LastWord(b) # NoNotice /\ ~LastWord(b).isFork

Withdrew(b) == LastWord(b) # NoNotice /\ LastWord(b).isFork

\* A consumer of the singleton topic holds a part of the chain of p, its head
\* included, and nothing else.
ShowsChainOf(p) ==
    \/ single = <<>>
    \/ /\ Shows(latest[p].hash)
       /\ \A b \in Block : IF Anc[latest[p].hash][Height[b]] = b THEN ~Withdrew(b)
                                                                 ELSE ~Shows(b)

AlignedShowsChain ==
    \A p \in aligned : pc[p] = "idle" => ShowsChainOf(p)

\* With one leader at a time and no message from before the last one replayed, a
\* process that logs "align success" has brought the singleton topic to its chain,
\* also when the alignment took several attempts.
AlignSuccess == ~overlap /\ ~replayed => AlignedShowsChain

\* The same of alignments that never start from a drop, with replayed messages.
ReplaySuccess == ~overlap /\ ~torn => AlignedShowsChain

Orderly == ~overlap /\ ~torn /\ ~replayed

\* As long as no two processes led at once, no alignment had to start from a drop
\* and no crash came with two messages uncommitted, whenever a leader counts itself
\* aligned and is between two messages, the singleton topic shows exactly its
\* chain: handovers between versions that disagree, failed or unanswered writes,
\* retries, and a crash between the two writes of publishOuter, followed by the
\* same message again, change nothing in that.  With synchronous commits a crash
\* never finds two messages uncommitted.
OrderlyShowsChain == Orderly => AlignedShowsChain

\* Under the same conditions, each notice publishOuter adds to the singleton topic
\* follows the last one, whichever process wrote that and whether or not its
\* answer arrives.  A step of publishOuter leaves every plan of align alone.
PublishFollows ==
    [][single' # single /\ plan' = plan /\ single # <<>> /\ Orderly
          => Follows(SingletonTail, single'[Len(single')])]_vars

\* Everything fetched so far is handled, by this process or an earlier one.
CaughtUp(p) == pc[p] = "idle" /\ read[p] = Len(inner[p])

\* A message whose blocks are published gets past AlignOuterSingleton, wherever a
\* crash falls, whatever the singleton topic ends in and whoever writes to it,
\* provided the version has stored the blocks of both chains.  The exception is a
\* crash that brings older messages back: msgCheck may refuse these for ever.
AlignEnds == \A p \in Proc : pc[p] = "align" ~> CaughtUp(p) \/ replayed
=============================================================================
