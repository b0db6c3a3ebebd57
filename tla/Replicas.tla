------------------------------ MODULE Replicas ------------------------------
(***************************************************************************)
(* Replica readiness: the replicas that register in etcd, the node map     *)
(* that follows the registrations through a watch, and the checker that    *)
(* polls the nodes of the map, decides whether enough of them have reached *)
(* a height, and writes what it saw back to etcd.                          *)
(*                                                                         *)
(* The replicas and etcd are the environment; the watch goroutine of       *)
(* nodes/map.go and checkAndNotify run concurrently and share the map.     *)
(***************************************************************************)
EXTENDS Integers, Sequences, FiniteSets

CONSTANTS
    Replica,     \* addresses of the replicas
    Leased,      \* the replicas that register with a lease
    NoNode,      \* a missing registration or map entry
    MaxHeight,   \* the highest block of the instance
    RatioNum,    \* ready_ratio = RatioNum / RatioDen
    RatioDen,
    MaxCalls,    \* bound on the calls of checkAndNotify, retries not counted
    MaxLag,      \* bound on the events of a working watch that are still under way
    MaxOutages,  \* bound on deaths of replicas and losses of RPC to them, together
    MaxErrors    \* bound on broken watches and failed transactions, together

ASSUME ReplicasAssumption ==
    /\ IsFiniteSet(Replica) /\ Leased \subseteq Replica
    /\ MaxHeight \in Nat \ {0}
    /\ RatioNum \in Nat \ {0} /\ RatioDen \in Nat \ {0} /\ RatioNum <= RatioDen
    /\ MaxCalls \in Nat /\ MaxLag \in Nat \ {0} /\ MaxOutages \in Nat /\ MaxErrors \in Nat

VARIABLES
    \* the replicas
    life,      \* number of the present or last life of a replica
    alive,     \* replicas whose process runs
    mute,      \* living replicas that do not answer RPC
    joined,    \* replicas that have registered in their present life
    height,    \* what eth_blockNumber returns
    \* etcd
    reg,       \* the registrations under the nodes prefix
    leases,    \* leases that have not run out: pairs of a replica and a life
    log,       \* events after the revision the watch goroutine starts from
    lastBlock, \* the lastBlockNumber key, 0 if missing
    \* the watch goroutine
    m,         \* RWMap.m
    wpc,       \* where watchEtcd is
    seen,      \* the events of log the watch has applied
    snapshot,  \* what the reload has still to put into the map
    \* checkAndNotify
    cpc,       \* where it is
    want,      \* kafkaLatestBlockNumber
    record,    \* the call is for a message, not an idle refresh
    states,    \* the result of the last CheckAll
    answered,  \* history: the nodes that answered some poll of this window
    reported,  \* Checker.ReplicaLatestBlockNumber
    lastWritten, \* Checker.lastWrittenBlockNumber
    wrote,     \* latestWriteEtcd is set
    witness,   \* history: the ready nodes behind reported, and out of how many
    missed,    \* history: the write of lastBlockNumber for reported failed
    calls,     \* how often checkAndNotify has been called anew
    outages,   \* how many outages there have been
    errors     \* how many etcd calls have failed

replicaVars == <<life, alive, mute, joined, height>>
etcdVars == <<reg, leases, log, lastBlock>>
watchVars == <<m, wpc, seen, snapshot>>
checkVars == <<cpc, want, record, states, answered, reported, lastWritten, wrote, witness,
               missed>>
vars == <<replicaVars, etcdVars, watchVars, checkVars, calls, outages, errors>>

\* StateType
Latest == 1
Delay == 2
Offline == 3

\* A replica has one life more than it can die.
MaxLives == MaxOutages + 1

NodeRecord == [state : {Latest, Delay, Offline}, lease : 0 .. MaxLives]

MaybeNode == NodeRecord \cup {NoNode}

\* What etcd tells a watch: a node and its new registration.
Event == [node : Replica, to : MaybeNode]

NoNodes == [r \in Replica |-> NoNode]

\* NodeWithHeight: the node of the map as it was when polled, with the verdict.
Polled == [state : {Latest, Delay, Offline}, lease : 0 .. MaxLives,
           height : 0 .. MaxHeight, change : {"none", "update", "del"}]

\* Every variable holds a value of its kind, and the watch never runs ahead of
\* the events it has been sent.
TypeOK ==
    /\ life \in [Replica -> 1 .. MaxLives]
    /\ alive \subseteq Replica /\ mute \subseteq alive /\ joined \subseteq alive
    /\ height \in [Replica -> 0 .. MaxHeight]
    /\ reg \in [Replica -> MaybeNode]
    /\ leases \subseteq Replica \X (1 .. MaxLives)
    /\ log \in Seq(Event)
    /\ lastBlock \in 0 .. MaxHeight
    /\ m \in [Replica -> MaybeNode]
    /\ wpc \in {"watch", "reload", "load"}
    /\ seen \in 0 .. Len(log)
    /\ snapshot \in [Replica -> MaybeNode]
    /\ cpc \in {"idle", "start", "check", "write", "remove", "done"}
    /\ want \in 0 .. MaxHeight
    /\ record \in BOOLEAN
    /\ states \in [Replica -> Polled \cup {NoNode}]
    /\ answered \subseteq Replica
    /\ reported \in 0 .. MaxHeight
    /\ lastWritten \in 0 .. MaxHeight
    /\ wrote \in BOOLEAN
    /\ witness \in [ready : SUBSET Replica, of : 0 .. Cardinality(Replica)]
    /\ missed \in BOOLEAN
    /\ calls \in 0 .. MaxCalls /\ outages \in 0 .. MaxOutages
    /\ errors \in 0 .. MaxErrors

\* The registration of a replica in its present life.
Registration(r) == [state |-> Delay, lease |-> IF r \in Leased THEN life[r] ELSE 0]

\* InitFromEtcd has loaded the registrations of the replicas that run.
Init ==
    /\ life = [r \in Replica |-> 1]
    /\ alive = Replica /\ mute = {} /\ joined = Replica
    /\ height = [r \in Replica |-> 0]
    /\ reg = [r \in Replica |-> Registration(r)]
    /\ leases = {<<r, 1>> : r \in Leased} /\ log = <<>> /\ lastBlock = 0
    /\ m = reg /\ wpc = "watch" /\ seen = 0 /\ snapshot = NoNodes
    /\ cpc = "idle" /\ want = 0 /\ record = FALSE /\ states = NoNodes /\ answered = {}
    /\ reported = 0 /\ lastWritten = 0 /\ wrote = FALSE
    /\ witness = [ready |-> {}, of |-> 0]
    /\ missed = FALSE
    /\ calls = 0 /\ outages = 0 /\ errors = 0

Outage ==
    /\ outages < MaxOutages
    /\ outages' = outages + 1
    /\ UNCHANGED <<calls, errors>>

EtcdError ==
    /\ errors < MaxErrors
    /\ errors' = errors + 1
    /\ UNCHANGED <<calls, outages>>

NoFault == UNCHANGED <<calls, outages, errors>>

-----------------------------------------------------------------------------
(***************************************************************************)
(* etcd: a change of the registrations is an event for every watch.        *)
(***************************************************************************)

\* The registrations become new; the events of one transaction are in the order
\* of its operations.
Change(new) ==
    LET changed == {r \in Replica : new[r] # reg[r]}
        order == CHOOSE s \in [1 .. Cardinality(changed) -> changed] :
                     \A i, j \in DOMAIN s : i # j => s[i] # s[j]
    IN  /\ changed # {} /\ wpc = "watch" => Len(log) - seen < MaxLag
        /\ reg' = new
        /\ log' = log \o [i \in DOMAIN order |-> [node |-> order[i], to |-> new[order[i]]]]

\* A lease that its process no longer renews runs out and takes its key along.
LeaseRunsOut(r, k) ==
    /\ <<r, k>> \in leases
    /\ r \notin alive \/ life[r] # k
    /\ leases' = leases \ {<<r, k>>}
    /\ Change(IF reg[r] # NoNode /\ reg[r].lease = k
              THEN [reg EXCEPT ![r] = NoNode] ELSE reg)
    /\ UNCHANGED <<replicaVars, lastBlock, watchVars, checkVars>>
    /\ NoFault

-----------------------------------------------------------------------------
(***************************************************************************)
(* The replicas.                                                           *)
(***************************************************************************)
Boot(r) ==
    /\ r \notin alive
    /\ life' = [life EXCEPT ![r] = @ + 1]
    /\ alive' = alive \cup {r}
    /\ UNCHANGED <<mute, joined, height, etcdVars, watchVars, checkVars>>
    /\ NoFault

\* A replica registers when it comes up, over whatever is left of its last life,
\* and when its registration is gone.
Register(r) ==
    /\ r \in alive \ mute
    /\ r \notin joined \/ reg[r] = NoNode
    /\ joined' = joined \cup {r}
    /\ Change([reg EXCEPT ![r] = Registration(r)])
    /\ leases' = IF r \in Leased THEN leases \cup {<<r, life[r]>>} ELSE leases
    /\ UNCHANGED <<life, alive, mute, height, lastBlock, watchVars, checkVars>>
    /\ NoFault

CatchUp(r) ==
    /\ r \in alive
    /\ height[r] < MaxHeight
    /\ height' = [height EXCEPT ![r] = @ + 1]
    /\ UNCHANGED <<life, alive, mute, joined, etcdVars, watchVars, checkVars>>
    /\ NoFault

\* RPC to a living replica times out for a while.
Flap(r) ==
    /\ r \in alive \ mute
    /\ Outage
    /\ mute' = mute \cup {r}
    /\ UNCHANGED <<life, alive, joined, height, etcdVars, watchVars, checkVars>>

Recover(r) ==
    /\ r \in mute
    /\ mute' = mute \ {r}
    /\ UNCHANGED <<life, alive, joined, height, etcdVars, watchVars, checkVars>>
    /\ NoFault

Die(r) ==
    /\ r \in alive
    /\ Outage
    /\ alive' = alive \ {r}
    /\ mute' = mute \ {r}
    /\ joined' = joined \ {r}
    /\ UNCHANGED <<life, height, etcdVars, watchVars, checkVars>>

-----------------------------------------------------------------------------
(***************************************************************************)
(* The node map and its watch.                                             *)
(***************************************************************************)

\* Node.Equal: the lease is not compared.
Equal(a, b) == a # NoNode /\ b # NoNode /\ a.state = b.state

\* SetByIP keeps an equal entry, DeleteByIP removes whatever is there.
Stored(old, new) == IF Equal(old, new) THEN old ELSE new

\* processWatchEvents, one event.  Once no watch can break any more the instance
\* forgets the event: no watch will ask for it again.
WatchEvent ==
    /\ wpc = "watch"
    /\ seen < Len(log)
    /\ LET e == log[seen + 1]
       IN  m' = [m EXCEPT ![e.node] = Stored(@, e.to)]
    /\ IF errors < MaxErrors
       THEN seen' = seen + 1 /\ UNCHANGED log
       ELSE seen' = 0 /\ log' = SubSeq(log, seen + 2, Len(log))
    /\ UNCHANGED <<replicaVars, reg, leases, lastBlock, wpc, snapshot, checkVars>>
    /\ NoFault

\* The channel closes or reports an error.
WatchBreaks ==
    /\ wpc = "watch"
    /\ EtcdError
    /\ wpc' = "reload"
    /\ UNCHANGED <<replicaVars, etcdVars, m, seen, snapshot, checkVars>>

\* A slip the runs must catch: the events are counted on from the last ones.
ReloadCountsOn ==
    /\ wpc = "reload"
    /\ snapshot' = reg
    /\ m' = NoNodes /\ log' = <<>>
    /\ wpc' = "load"
    /\ UNCHANGED <<replicaVars, reg, leases, lastBlock, seen, checkVars>>
    /\ NoFault

\* A slip the runs must catch: the map is not cleared before it is loaded.
ReloadOnTop ==
    /\ wpc = "reload"
    /\ snapshot' = reg
    /\ log' = <<>> /\ seen' = 0
    /\ wpc' = "load"
    /\ UNCHANGED <<replicaVars, reg, leases, lastBlock, m, checkVars>>
    /\ NoFault

\* reloadFromEtcd: the answer to Get, and Clear.  The next watch starts from the
\* revision of the answer.
Reload ==
    /\ wpc = "reload"
    /\ snapshot' = reg
    /\ m' = NoNodes
    /\ log' = <<>> /\ seen' = 0
    /\ wpc' = "load"
    /\ UNCHANGED <<replicaVars, reg, leases, lastBlock, checkVars>>
    /\ NoFault

\* reloadFromEtcd puts the nodes of the answer back one by one.
LoadNode(r) ==
    /\ wpc = "load"
    /\ snapshot[r] # NoNode
    /\ m' = [m EXCEPT ![r] = Stored(@, snapshot[r])]
    /\ snapshot' = [snapshot EXCEPT ![r] = NoNode]
    /\ UNCHANGED <<replicaVars, etcdVars, wpc, seen, checkVars>>
    /\ NoFault

WatchAgain ==
    /\ wpc = "load"
    /\ snapshot = NoNodes
    /\ wpc' = "watch"
    /\ UNCHANGED <<replicaVars, etcdVars, m, seen, snapshot, checkVars>>
    /\ NoFault

\* A slip the runs must catch: Clear comes before Get.
ReloadFailsCleared ==
    /\ wpc = "reload"
    /\ m' = NoNodes
    /\ seen' = 0
    /\ wpc' = "watch"
    /\ UNCHANGED <<replicaVars, etcdVars, snapshot, checkVars>>
    /\ NoFault

\* Get fails: the next watch starts from the old revision and sends its events
\* again.
ReloadFails ==
    /\ wpc = "reload"
    /\ seen' = 0
    /\ wpc' = "watch"
    /\ UNCHANGED <<replicaVars, etcdVars, m, snapshot, checkVars>>
    /\ NoFault

-----------------------------------------------------------------------------
(***************************************************************************)
(* checkAndNotify.                                                         *)
(***************************************************************************)

\* processNotice calls checkAndNotify for a message of height h.
Notice(h) ==
    /\ cpc = "idle"
    /\ calls < MaxCalls
    /\ calls' = calls + 1
    /\ want' = h /\ record' = TRUE
    /\ cpc' = "start"
    /\ UNCHANGED <<replicaVars, etcdVars, watchVars, states, answered, reported,
                   lastWritten, wrote, witness, missed, outages, errors>>

\* CheckAndNotifyEtcd, when no message came in time.
IdleRefresh ==
    /\ cpc = "idle"
    /\ calls < MaxCalls
    /\ calls' = calls + 1
    /\ want' = reported /\ record' = FALSE
    /\ cpc' = "start"
    /\ UNCHANGED <<replicaVars, etcdVars, watchVars, states, answered, reported,
                   lastWritten, wrote, witness, missed, outages, errors>>

\* A slip the runs must catch: the height is not looked at.
WrittenLately ==
    /\ cpc = "start"
    /\ wrote
    /\ cpc' = "done"
    /\ UNCHANGED <<replicaVars, etcdVars, watchVars, want, record, states, answered,
                   reported, lastWritten, wrote, witness, missed>>
    /\ NoFault

\* The replicas are known to be past the height, and etcd was written within the
\* last second.
ReplicasAhead ==
    /\ cpc = "start"
    /\ reported > want
    /\ wrote
    /\ cpc' = "done"
    /\ UNCHANGED <<replicaVars, etcdVars, watchVars, want, record, states, answered,
                   reported, lastWritten, wrote, witness, missed>>
    /\ NoFault

Answers(r) == r \in alive \ mute

\* Node.Check
Judge(r, node) ==
    LET state == CASE ~Answers(r) -> Offline
                   [] Answers(r) /\ height[r] >= want -> Latest
                   [] OTHER -> Delay
    IN  [state |-> state, lease |-> node.lease,
         height |-> IF Answers(r) THEN height[r] ELSE 0,
         change |-> IF state = node.state THEN "none"
                    ELSE IF state = Offline /\ node.lease = 0 THEN "del"
                    ELSE "update"]

\* CheckAll: GetAll and a poll of every node.
Polls == [r \in Replica |-> IF m[r] = NoNode THEN NoNode ELSE Judge(r, m[r])]

Nodes(st) == {r \in Replica : st[r] # NoNode}

ReadyNodes(st) == {r \in Nodes(st) : st[r].state = Latest}

\* check: there are nodes, and the ratio is met.
EnoughReady(st) ==
    /\ Nodes(st) # {}
    /\ Cardinality(ReadyNodes(st)) * RatioDen >= RatioNum * Cardinality(Nodes(st))

LowestReady(st, h) ==
    /\ \E r \in ReadyNodes(st) : st[r].height = h
    /\ \A r \in ReadyNodes(st) : st[r].height >= h

\* A round of waitReplicasReady finds a height, which checkAndNotify takes over.
Ready ==
    /\ cpc \in {"start", "check"}
    /\ EnoughReady(Polls)
    /\ \E h \in 0 .. MaxHeight : LowestReady(Polls, h) /\ reported' = h
    /\ states' = Polls
    /\ answered' = answered \cup {r \in Nodes(Polls) : Answers(r)}
    /\ witness' = [ready |-> ReadyNodes(Polls), of |-> Cardinality(Nodes(Polls))]
    /\ missed' = (missed /\ reported' = reported)
    /\ cpc' = "write"
    /\ UNCHANGED <<replicaVars, etcdVars, watchVars, want, record, lastWritten, wrote>>
    /\ NoFault

\* A round finds no height: there is another one after check_interval_ms, or the
\* window is over and the last round is what RemoveOfflineNodesFromEtcd gets.
NotReady ==
    /\ cpc \in {"start", "check"}
    /\ ~EnoughReady(Polls)
    /\ \/ cpc' = "check" /\ UNCHANGED states
       \/ cpc' = "remove" /\ states' = Polls
    /\ answered' = answered \cup {r \in Nodes(Polls) : Answers(r)}
    /\ UNCHANGED <<replicaVars, etcdVars, watchVars, want, record, reported,
                   lastWritten, wrote, witness, missed>>
    /\ NoFault

\* checkAndNotify returns ok.  After a false the message is tried again, and an
\* idle refresh is over.
Return(ok) ==
    /\ cpc' = IF ok THEN "done" ELSE IF record THEN "start" ELSE "idle"
    /\ states' = NoNodes
    /\ answered' = {}

Deleted == {r \in Nodes(states) : states[r].change = "del"}

\* RemoveOfflineNodesFromEtcd: one transaction, whose result nobody looks at.
RemoveOfflineNodes ==
    /\ cpc = "remove"
    /\ \/ /\ Change([r \in Replica |-> IF r \in Deleted THEN NoNode ELSE reg[r]])
          /\ NoFault
       \/ Deleted # {} /\ EtcdError /\ UNCHANGED <<reg, log>>
    /\ Return(FALSE)
    /\ UNCHANGED <<replicaVars, leases, lastBlock, watchVars, want, record, reported,
                   lastWritten, wrote, witness, missed>>

\* A slip the runs must catch: only a growing height is written.
BlockNumberGrew == reported > lastWritten

BlockNumberChanged == reported # lastWritten

\* The registrations after the transaction of WriteReplicaStateChangeToEtcd.
Updated ==
    [r \in Replica |->
        IF r \notin Nodes(states) \/ states[r].change = "none" THEN reg[r]
        ELSE IF r \in Deleted THEN NoNode
        ELSE [state |-> states[r].state, lease |-> states[r].lease]]

NothingToWrite ==
    /\ ~BlockNumberChanged
    /\ \A r \in Nodes(states) : states[r].change = "none"

\* etcd refuses a put with a lease it does not have.
LeaseMissing ==
    \E r \in Nodes(states) : /\ states[r].change # "none"
                     /\ states[r].lease # 0
                     /\ <<r, states[r].lease>> \notin leases

Written ==
    /\ Change(Updated)
    /\ lastBlock' = IF BlockNumberChanged THEN reported ELSE lastBlock

\* WriteReplicaStateChangeToEtcd succeeds.
WriteStates ==
    /\ cpc = "write"
    /\ IF NothingToWrite THEN UNCHANGED <<reg, log, lastBlock, wrote>>
       ELSE ~LeaseMissing /\ Written /\ wrote' = TRUE
    /\ lastWritten' = reported
    /\ Return(TRUE)
    /\ UNCHANGED <<replicaVars, leases, watchVars, want, record, reported, witness,
                   missed>>
    /\ NoFault

\* It fails: etcd refuses, does not answer, or its answer is lost.
WriteFails ==
    /\ cpc = "write"
    /\ ~NothingToWrite
    /\ \/ LeaseMissing /\ UNCHANGED <<reg, log, lastBlock>> /\ NoFault
       \/ UNCHANGED <<reg, log, lastBlock>> /\ EtcdError
       \/ ~LeaseMissing /\ Written /\ EtcdError
    /\ missed' = (missed \/ (BlockNumberChanged /\ lastBlock' # reported))
    /\ lastWritten' = reported
    /\ Return(FALSE)
    /\ UNCHANGED <<replicaVars, leases, watchVars, want, record, reported, wrote,
                   witness>>

\* The caller goes on.
Done ==
    /\ cpc = "done"
    /\ cpc' = "idle"
    /\ UNCHANGED <<replicaVars, etcdVars, watchVars, want, record, states, answered,
                   reported, lastWritten, wrote, witness, missed>>
    /\ NoFault

-----------------------------------------------------------------------------
Watching == WatchEvent \/ Reload \/ WatchAgain \/ \E r \in Replica : LoadNode(r)

Checking ==
    \/ Ready
    \/ NotReady
    \/ RemoveOfflineNodes
    \/ WriteStates
    \/ WriteFails
    \/ Done

\* What a replica that is left alone does.
Replicating(r) == Register(r) \/ CatchUp(r) \/ Recover(r)

Expiring(r) == \E k \in 1 .. MaxLives : LeaseRunsOut(r, k)

Next ==
    \/ \E r \in Replica : Boot(r) \/ Replicating(r) \/ Expiring(r) \/ Flap(r) \/ Die(r)
    \/ Watching \/ WatchBreaks \/ ReloadFails
    \/ Checking \/ ReplicasAhead \/ IdleRefresh
    \/ \E h \in 0 .. MaxHeight : Notice(h)

Spec == Init /\ [][Next]_vars

\* The goroutines of the checker go on, living replicas answer again, register and
\* follow the chain, etcd ends leases nobody renews.  A dead replica need not come
\* back, and of outages and errors only their number is bounded.
FairSpec ==
    /\ Spec
    /\ WF_vars(Watching)
    /\ WF_vars(Checking)
    /\ \A r \in Replica : WF_vars(Replicating(r) \/ Expiring(r))

-----------------------------------------------------------------------------
\* When checkAndNotify returns true for a height, by the short cut for replicas
\* that are ahead as well as by polling, at least ready_ratio of the nodes it
\* counted have reached that height.
ReadyWhenTrue ==
    cpc = "done" =>
        /\ witness.of > 0
        /\ Cardinality(witness.ready) * RatioDen >= RatioNum * witness.of
        /\ \A r \in witness.ready : height[r] >= want

\* After checkAndNotify returned true, lastBlockNumber in etcd is the height the
\* replicas were found at, unless the transaction that carried it failed and the
\* height has not changed since.
LastBlockPublished == cpc = "done" /\ ~missed => lastBlock = reported

\* Whatever order watch events, broken watches, replays from an old revision and
\* reloads come in, the node map ends up with the registrations in etcd.
MapConverges ==
    <>[](\A r \in Replica : m[r] = reg[r] \/ Equal(m[r], reg[r]))

\* The map holds a lease that its node no longer registers with.
StaleLease == \E r \in Replica : Equal(m[r], reg[r]) /\ m[r].lease # reg[r].lease

\* A message is not held up by its replicas for ever: checkAndNotify returns true
\* for it, or it is retried against a lease the map should have replaced.
NoticeGetsThrough == cpc = "start" /\ record ~> (cpc = "done" \/ StaleLease)

\* A registration is removed only if its node answered none of the polls of the
\* whole window, as the comment on CheckAndNotifyEtcd says.
OfflineForWholeWindow ==
    [][\A r \in Replica :
          cpc \in {"write", "remove"} /\ cpc' # cpc /\ reg[r] # NoNode
             /\ reg'[r] = NoNode => r \notin answered]_vars
=============================================================================
