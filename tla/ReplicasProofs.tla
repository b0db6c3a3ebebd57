--------------------------- MODULE ReplicasProofs ---------------------------
(***************************************************************************)
(* Proofs about Replicas, for any number of replicas, any ready_ratio and  *)
(* any number of outages and errors: types, what a true of checkAndNotify  *)
(* rests on, and what lastBlockNumber says.                                *)
(***************************************************************************)
EXTENDS Replicas, FiniteSetTheorems, SequenceTheorems, TLAPS

\* A life of a replica ends with an outage: there are enough numbers for all.
LifeInv ==
    \A r \in Replica : /\ life[r] <= outages + 1
                       /\ r \notin alive => life[r] <= outages

\* Enough of the nodes that were polled have reached the reported height.
Backed ==
    /\ witness.of > 0
    /\ Cardinality(witness.ready) * RatioDen >= RatioNum * witness.of
    /\ \A r \in witness.ready : height[r] >= reported

\* A height that was taken over stays backed, also while later calls fail: the
\* short cut of ReplicasAhead relies on a poll of an earlier call.
ReadyInv ==
    /\ reported > 0 \/ cpc \in {"write", "done"} => Backed
    /\ cpc \in {"write", "done"} => reported >= want

\* lastWrittenBlockNumber follows the reported height except during the write, and
\* the key in etcd follows it unless a write was missed.
PublishInv ==
    /\ cpc # "write" => lastWritten = reported
    /\ ~missed => \/ lastBlock = lastWritten
                  \/ cpc = "write" /\ reported # lastWritten

ReplicasInv == TypeOK /\ LifeInv /\ ReadyInv /\ PublishInv

-----------------------------------------------------------------------------
(***************************************************************************)
(* Operators.                                                              *)
(***************************************************************************)

\* Every set of replicas is finite and has a cardinality.
LEMMA ReplicaSets ==
    ASSUME NEW S \in SUBSET Replica
    PROVE  /\ IsFiniteSet(S)
           /\ Cardinality(S) \in 0 .. Cardinality(Replica)
           /\ S # {} => Cardinality(S) > 0
<1>1. IsFiniteSet(Replica)
  BY ReplicasAssumption
<1>2. IsFiniteSet(S) /\ Cardinality(S) <= Cardinality(Replica)
  BY <1>1, FS_Subset
<1>3. Cardinality(S) \in Nat /\ Cardinality(Replica) \in Nat
  BY <1>1, <1>2, FS_CardinalityType
<1>4. S # {} => Cardinality(S) # 0
  BY <1>2, FS_EmptySet
<1> QED BY <1>2, <1>3, <1>4

\* The events of a change are events of replicas, after those that were there.
LEMMA ChangeType ==
    ASSUME TypeOK, NEW new \in [Replica -> MaybeNode], Change(new)
    PROVE  /\ reg' \in [Replica -> MaybeNode]
           /\ log' \in Seq(Event)
           /\ Len(log) <= Len(log')
<1> DEFINE changed == {r \in Replica : new[r] # reg[r]}
           order == CHOOSE s \in [1 .. Cardinality(changed) -> changed] :
                        \A i, j \in DOMAIN s : i # j => s[i] # s[j]
           events == [i \in DOMAIN order |-> [node |-> order[i], to |-> new[order[i]]]]
<1>1. Cardinality(changed) \in Nat /\ ExistsBijection(1 .. Cardinality(changed), changed)
  BY ReplicaSets, FS_CardinalityType
<1>2. \E s \in [1 .. Cardinality(changed) -> changed] :
         \A i, j \in DOMAIN s : i # j => s[i] # s[j]
  <2>1. PICK f \in Bijection(1 .. Cardinality(changed), changed) : TRUE
    BY <1>1 DEF ExistsBijection
  <2>2. /\ f \in [1 .. Cardinality(changed) -> changed]
        /\ \A i, j \in DOMAIN f : i # j => f[i] # f[j]
    BY <2>1 DEF Bijection, Injection, IsInjective
  <2> QED BY <2>2
<1>3. order \in [1 .. Cardinality(changed) -> changed]
  BY <1>2
<1> DEFINE n == Cardinality(changed)
<1>4. events \in Seq(Event)
  <2> HIDE DEF order, n
  <2>1. n \in Nat /\ order \in [1 .. n -> Replica]
    BY <1>1, <1>3 DEF n
  <2>2. \A i \in 1 .. n : [node |-> order[i], to |-> new[order[i]]] \in Event
    BY <2>1 DEF Event
  <2> QED BY <2>1, <2>2
<1>5. reg' = new /\ log' = log \o events
  BY DEF Change
<1> HIDE DEF events
<1>6. log \in Seq(Event)
  BY DEF TypeOK
<1> QED BY <1>4, <1>5, <1>6

\* A poll judges every node of the map.
LEMMA PollsType ==
    ASSUME TypeOK
    PROVE  /\ Polls \in [Replica -> Polled \cup {NoNode}]
           /\ \A r \in Nodes(Polls) : /\ m[r] # NoNode
                                      /\ Polls[r] = Judge(r, m[r])
                                      /\ Judge(r, m[r]) \in Polled
           /\ Nodes(Polls) \subseteq Replica
           /\ ReadyNodes(Polls) \subseteq Nodes(Polls)
<1>1. ASSUME NEW r \in Replica, m[r] # NoNode
      PROVE  Judge(r, m[r]) \in Polled
  <2>1. m[r] \in NodeRecord
    BY <1>1 DEF TypeOK, MaybeNode
  <2>2. height[r] \in 0 .. MaxHeight /\ 0 \in 0 .. MaxHeight
    BY ReplicasAssumption DEF TypeOK
  <2> QED BY <2>1, <2>2 DEF Judge, Polled, NodeRecord, Latest, Delay, Offline
<1>2. \A r \in Replica : Polls[r] = IF m[r] = NoNode THEN NoNode ELSE Judge(r, m[r])
  BY DEF Polls
<1> QED BY <1>1, <1>2 DEF Polls, Nodes, ReadyNodes

\* A node found ready has reached the height that was asked for, and the height it
\* reports is its own.
LEMMA ReadyReached ==
    ASSUME TypeOK, NEW r \in ReadyNodes(Polls)
    PROVE  /\ r \in Replica
           /\ Polls[r].height = height[r]
           /\ height[r] >= want
<1>1. /\ r \in Replica /\ Polls[r] = Judge(r, m[r])
      /\ Polls[r].state = Latest
  BY PollsType DEF ReadyNodes
<1>2. Answers(r) /\ height[r] >= want
  BY <1>1 DEF Judge, Latest, Delay, Offline
<1> QED BY <1>1, <1>2 DEF Judge

\* What Return leaves behind.
LEMMA ReturnType ==
    ASSUME NEW ok \in BOOLEAN, Return(ok)
    PROVE  /\ cpc' \in {"idle", "start", "done"}
           /\ ok <=> cpc' = "done"
           /\ states' \in [Replica -> Polled \cup {NoNode}]
           /\ answered' = {}
BY DEF Return, NoNodes

\* What the two transactions of checkAndNotify make of the registrations.
LEMMA WritesType ==
    ASSUME TypeOK
    PROVE  /\ Updated \in [Replica -> MaybeNode]
           /\ [r \in Replica |-> IF r \in Deleted THEN NoNode ELSE reg[r]]
                 \in [Replica -> MaybeNode]
BY DEF TypeOK, Updated, Deleted, Nodes, MaybeNode, NodeRecord, Polled

-----------------------------------------------------------------------------
(***************************************************************************)
(* Steps.                                                                  *)
(***************************************************************************)

\* Every initial state satisfies the inductive invariant.
LEMMA InitReplicas == Init => ReplicasInv
<1> SUFFICES ASSUME Init PROVE ReplicasInv
  OBVIOUS
<1>1. MaxLives \in Nat /\ 1 \in 1 .. MaxLives /\ {0, 1} \subseteq 0 .. MaxLives
  BY ReplicasAssumption DEF MaxLives
<1>2. \A r \in Replica : Registration(r) \in MaybeNode
  BY <1>1 DEF Init, Registration, MaybeNode, NodeRecord, Latest, Delay, Offline
<1>3. Cardinality(Replica) \in Nat
  BY ReplicasAssumption, FS_CardinalityType
<1>4. leases \subseteq Replica \X (1 .. MaxLives)
  BY <1>1, ReplicasAssumption DEF Init
<1>5. TypeOK
  <2>1. /\ reg \in [Replica -> MaybeNode] /\ m \in [Replica -> MaybeNode]
        /\ snapshot \in [Replica -> MaybeNode]
        /\ states \in [Replica -> Polled \cup {NoNode}]
    BY <1>2 DEF Init, NoNodes, MaybeNode
  <2>2. log \in Seq(Event) /\ seen \in 0 .. Len(log)
    BY DEF Init
  <2>3. witness \in [ready : SUBSET Replica, of : 0 .. Cardinality(Replica)]
    BY <1>3 DEF Init
  <2>4. /\ life \in [Replica -> 1 .. MaxLives] /\ height \in [Replica -> 0 .. MaxHeight]
        /\ {lastBlock, want, reported, lastWritten} \subseteq 0 .. MaxHeight
        /\ calls \in 0 .. MaxCalls /\ outages \in 0 .. MaxOutages /\ errors \in 0 .. MaxErrors
    BY <1>1, ReplicasAssumption DEF Init
  <2>5. /\ alive \subseteq Replica /\ mute \subseteq alive /\ joined \subseteq alive
        /\ wpc = "watch" /\ cpc = "idle" /\ record = FALSE /\ answered = {}
        /\ wrote = FALSE /\ missed = FALSE
    BY DEF Init
  <2> QED BY <1>4, <2>1, <2>2, <2>3, <2>4, <2>5 DEF TypeOK
<1>6. LifeInv /\ ReadyInv /\ PublishInv
  BY <1>5, ReplicasAssumption DEF Init, LifeInv, ReadyInv, PublishInv
<1> QED BY <1>5, <1>6 DEF ReplicasInv

\* Steps of replicas, etcd and the watch keep what the checker knows: heights only
\* grow, and nobody else writes lastBlockNumber.
LEMMA OthersKeepVerdict ==
    ASSUME ReplicasInv, TypeOK', UNCHANGED <<checkVars, lastBlock>>,
           \A r \in Replica : height'[r] >= height[r]
    PROVE  ReadyInv' /\ PublishInv'
<1>1. ReadyInv'
  <2>1. UNCHANGED <<cpc, want, reported, witness>>
    BY DEF checkVars
  <2>2. Backed => Backed'
    <3>1. witness.ready \subseteq Replica /\ reported \in Nat
      BY DEF ReplicasInv, TypeOK
    <3>2. \A r \in Replica : height[r] \in Int /\ height'[r] \in Int
      BY DEF ReplicasInv, TypeOK
    <3>3. ASSUME NEW r \in witness.ready, height[r] >= reported
          PROVE  height'[r] >= reported
      BY <3>1, <3>2, <3>3
    <3> QED BY <2>1, <3>3 DEF Backed
  <2> QED BY <2>1, <2>2 DEF ReplicasInv, ReadyInv
<1>2. PublishInv'
  BY DEF checkVars, ReplicasInv, PublishInv
<1> QED BY <1>1, <1>2

\* A replica comes up, registers, follows the chain, falls silent, answers again or
\* dies.
LEMMA ReplicaStep ==
    ASSUME ReplicasInv, NEW r \in Replica,
           Boot(r) \/ Register(r) \/ CatchUp(r) \/ Recover(r) \/ Flap(r) \/ Die(r)
    PROVE  ReplicasInv'
<1> USE DEF NoFault, Outage, etcdVars, watchVars
<1>0. /\ MaxLives \in Nat /\ MaxLives = MaxOutages + 1 /\ MaxOutages \in Nat
      /\ MaxHeight \in Nat /\ TypeOK /\ LifeInv
  BY ReplicasAssumption DEF MaxLives, ReplicasInv
<1>1. UNCHANGED <<checkVars, lastBlock>>
  BY DEF Boot, Register, CatchUp, Recover, Flap, Die
<1>2. \A q \in Replica : height'[q] >= height[q]
  <2>1. height \in [Replica -> 0 .. MaxHeight]
    BY <1>0 DEF TypeOK
  <2>2. height' = height \/ height' = [height EXCEPT ![r] = height[r] + 1]
    BY DEF Boot, Register, CatchUp, Recover, Flap, Die
  <2> QED BY <1>0, <2>1, <2>2
<1>3. TypeOK' /\ LifeInv'
  <2>1. CASE Boot(r)
    <3>1. life[r] + 1 \in 1 .. MaxLives
      BY <1>0, <2>1 DEF Boot, TypeOK, LifeInv
    <3> QED BY <1>0, <2>1, <3>1 DEF Boot, TypeOK, LifeInv, checkVars
  <2>2. CASE Register(r)
    <3>1. Registration(r) \in MaybeNode
      BY <1>0 DEF Registration, TypeOK, MaybeNode, NodeRecord, Latest, Delay, Offline
    <3>2. [reg EXCEPT ![r] = Registration(r)] \in [Replica -> MaybeNode]
      BY <1>0, <3>1 DEF TypeOK
    <3>3. /\ reg' \in [Replica -> MaybeNode]
          /\ log' \in Seq(Event)
          /\ Len(log) <= Len(log')
      BY <1>0, <2>2, <3>2, ChangeType DEF Register
    <3>4. seen' \in 0 .. Len(log')
      BY <1>0, <2>2, <3>3 DEF Register, TypeOK
    <3>5. leases' \subseteq Replica \X (1 .. MaxLives)
      BY <1>0, <2>2 DEF Register, TypeOK
    <3>6. UNCHANGED <<life, alive, mute, height, lastBlock, m, wpc, seen, snapshot,
                      checkVars, calls, outages, errors>>
      BY <2>2 DEF Register
    <3>7. joined' \subseteq alive
      BY <1>0, <2>2 DEF Register, TypeOK
    <3> QED BY <1>0, <3>3, <3>4, <3>5, <3>6, <3>7 DEF TypeOK, LifeInv, checkVars
  <2>3. CASE CatchUp(r)
    <3>1. height' \in [Replica -> 0 .. MaxHeight]
      BY <1>0, <2>3 DEF CatchUp, TypeOK
    <3>2. UNCHANGED <<life, alive, mute, joined, etcdVars, watchVars, checkVars, calls,
                      outages, errors>>
      BY <2>3 DEF CatchUp
    <3> QED BY <1>0, <3>1, <3>2 DEF TypeOK, LifeInv, checkVars
  <2>4. CASE Recover(r)
    BY <1>0, <2>4 DEF Recover, TypeOK, LifeInv, checkVars
  <2>5. CASE Flap(r)
    BY <1>0, <2>5 DEF Flap, TypeOK, LifeInv, checkVars
  <2>6. CASE Die(r)
    BY <1>0, <2>6 DEF Die, TypeOK, LifeInv, checkVars
  <2> QED BY <2>1, <2>2, <2>3, <2>4, <2>5, <2>6
<1> QED BY <1>1, <1>2, <1>3, OthersKeepVerdict DEF ReplicasInv

\* A lease runs out.
LEMMA LeaseStep ==
    ASSUME ReplicasInv, NEW r \in Replica, NEW k \in 1 .. MaxLives, LeaseRunsOut(r, k)
    PROVE  ReplicasInv'
<1> USE DEF NoFault, replicaVars, watchVars
<1>0. TypeOK /\ LifeInv
  BY DEF ReplicasInv
<1> DEFINE new == IF reg[r] # NoNode /\ reg[r].lease = k
                  THEN [reg EXCEPT ![r] = NoNode] ELSE reg
<1>1. new \in [Replica -> MaybeNode]
  BY <1>0 DEF TypeOK, MaybeNode
<1>2. /\ reg' \in [Replica -> MaybeNode]
      /\ log' \in Seq(Event)
      /\ Len(log) <= Len(log')
  BY <1>0, <1>1, ChangeType DEF LeaseRunsOut
<1>3. /\ UNCHANGED <<life, alive, mute, joined, height, lastBlock, m, wpc, seen, snapshot,
                     checkVars, calls, outages, errors>>
      /\ leases' \subseteq leases
  BY DEF LeaseRunsOut
<1>4. seen' \in 0 .. Len(log')
  BY <1>0, <1>2, <1>3 DEF TypeOK
<1>5. TypeOK'
  BY <1>0, <1>2, <1>3, <1>4 DEF TypeOK, checkVars
<1>6. \A q \in Replica : height'[q] >= height[q]
  BY <1>0, <1>3 DEF TypeOK
<1> QED BY <1>0, <1>3, <1>5, <1>6, OthersKeepVerdict DEF ReplicasInv, LifeInv

\* The watch applies an event, breaks, or starts again.
LEMMA WatchStep ==
    ASSUME ReplicasInv, Watching \/ WatchBreaks \/ ReloadFails
    PROVE  ReplicasInv'
<1> USE DEF NoFault, EtcdError, etcdVars, replicaVars
<1>0. TypeOK /\ LifeInv
  BY DEF ReplicasInv
<1>1. UNCHANGED <<replicaVars, checkVars, lastBlock, outages>>
  BY DEF Watching, WatchEvent, Reload, WatchAgain, LoadNode, WatchBreaks, ReloadFails
<1>2. \A old, new \in MaybeNode : Stored(old, new) \in MaybeNode
  BY DEF Stored
<1>3. TypeOK'
  <2>1. CASE WatchEvent
    <3> DEFINE e == log[seen + 1]
    <3>0. log \in Seq(Event) /\ seen \in 0 .. Len(log)
      BY <1>0 DEF TypeOK
    <3>1. seen + 1 \in 1 .. Len(log)
      BY <3>0, <2>1 DEF WatchEvent
    <3>2. e \in Event
      BY <3>0, <3>1, ElementOfSeq
    <3>3. m' \in [Replica -> MaybeNode]
      BY <1>0, <1>2, <2>1, <3>2 DEF WatchEvent, TypeOK, Event
    <3>4. log' \in Seq(Event) /\ seen' \in 0 .. Len(log')
      <4>1. CASE errors < MaxErrors
        BY <2>1, <3>0, <3>1, <4>1 DEF WatchEvent
      <4>2. CASE ~(errors < MaxErrors)
        <5>1. log' = SubSeq(log, seen + 2, Len(log)) /\ seen' = 0
          BY <2>1, <4>2 DEF WatchEvent
        <5>2. SubSeq(log, seen + 2, Len(log)) \in Seq(Event)
          BY <3>0, SubSeqProperties
        <5> QED BY <5>1, <5>2
      <4> QED BY <4>1, <4>2
    <3>5. UNCHANGED <<replicaVars, reg, leases, lastBlock, wpc, snapshot, checkVars,
                      calls, outages, errors>>
      BY <2>1 DEF WatchEvent
    <3> QED BY <1>0, <3>3, <3>4, <3>5 DEF TypeOK, checkVars
  <2>2. CASE Reload
    <3>1. /\ snapshot' = reg /\ m' = NoNodes /\ log' = <<>> /\ seen' = 0 /\ wpc' = "load"
          /\ UNCHANGED <<replicaVars, reg, leases, lastBlock, checkVars, calls, outages,
                         errors>>
      BY <2>2 DEF Reload
    <3> QED BY <1>0, <3>1 DEF TypeOK, NoNodes, MaybeNode, checkVars
  <2>3. CASE WatchAgain
    BY <1>0, <2>3 DEF WatchAgain, TypeOK, checkVars
  <2>4. ASSUME NEW r \in Replica, LoadNode(r) PROVE TypeOK'
    <3>1. m' \in [Replica -> MaybeNode] /\ snapshot' \in [Replica -> MaybeNode]
      BY <1>0, <1>2, <2>4 DEF LoadNode, TypeOK, MaybeNode
    <3>2. UNCHANGED <<replicaVars, etcdVars, wpc, seen, checkVars, calls, outages, errors>>
      BY <2>4 DEF LoadNode
    <3> QED BY <1>0, <3>1, <3>2 DEF TypeOK, checkVars
  <2>5. CASE WatchBreaks
    <3>1. errors' \in 0 .. MaxErrors
      BY <1>0, <2>5, ReplicasAssumption DEF WatchBreaks, TypeOK
    <3>2. UNCHANGED <<replicaVars, etcdVars, m, seen, snapshot, checkVars, calls, outages>>
      BY <2>5 DEF WatchBreaks
    <3>3. wpc' = "reload"
      BY <2>5 DEF WatchBreaks
    <3> QED BY <1>0, <3>1, <3>2, <3>3 DEF TypeOK, checkVars
  <2>6. CASE ReloadFails
    <3>1. seen' \in 0 .. Len(log)
      BY <1>0, <2>6 DEF ReloadFails, TypeOK
    <3>2. /\ wpc' = "watch"
          /\ UNCHANGED <<replicaVars, etcdVars, m, snapshot, checkVars, calls, outages, errors>>
      BY <2>6 DEF ReloadFails
    <3> QED BY <1>0, <3>1, <3>2 DEF TypeOK, checkVars
  <2> QED BY <2>1, <2>2, <2>3, <2>4, <2>5, <2>6 DEF Watching
<1>4. \A q \in Replica : height'[q] >= height[q]
  BY <1>0, <1>1 DEF TypeOK
<1> QED BY <1>0, <1>1, <1>3, <1>4, OthersKeepVerdict DEF ReplicasInv, LifeInv

\* A call begins, ends, takes the short cut, or polls without success: none of these
\* touches what was reported and written.
LEMMA CallStep ==
    ASSUME ReplicasInv,
           \/ \E h \in 0 .. MaxHeight : Notice(h)
           \/ IdleRefresh \/ ReplicasAhead \/ NotReady \/ Done
    PROVE  ReplicasInv'
<1> USE DEF NoFault, etcdVars, watchVars, replicaVars
<1>0. TypeOK /\ LifeInv /\ ReadyInv /\ PublishInv /\ MaxHeight \in Nat /\ MaxCalls \in Nat
  BY ReplicasAssumption DEF ReplicasInv
<1>1. UNCHANGED <<replicaVars, etcdVars, watchVars, reported, lastWritten, wrote, witness,
                  missed, outages, errors>>
  BY DEF Notice, IdleRefresh, ReplicasAhead, NotReady, Done
<1>2. /\ cpc # "write"
      /\ cpc' \in {"idle", "start", "check", "remove", "done"}
      /\ cpc' = "done" => reported > want /\ want' = want
      /\ want' \in 0 .. MaxHeight /\ record' \in BOOLEAN
      /\ calls' \in 0 .. MaxCalls
      /\ states' \in [Replica -> Polled \cup {NoNode}]
      /\ answered' \subseteq Replica
  <2>1. /\ want \in 0 .. MaxHeight /\ record \in BOOLEAN /\ calls \in 0 .. MaxCalls
        /\ states \in [Replica -> Polled \cup {NoNode}] /\ answered \subseteq Replica
        /\ reported \in 0 .. MaxHeight
    BY <1>0 DEF TypeOK
  <2>2. ASSUME NEW h \in 0 .. MaxHeight, Notice(h) PROVE <1>2
    BY <1>0, <2>1, <2>2 DEF Notice
  <2>3. CASE IdleRefresh
    <3>1. record' \in BOOLEAN
      BY <2>3 DEF IdleRefresh
    <3> QED BY <1>0, <2>1, <2>3, <3>1 DEF IdleRefresh
  <2>4. CASE ReplicasAhead
    BY <2>1, <2>4 DEF ReplicasAhead
  <2>5. CASE NotReady
    <3>1. Polls \in [Replica -> Polled \cup {NoNode}] /\ Nodes(Polls) \subseteq Replica
      BY <1>0, PollsType
    <3> QED BY <2>1, <2>5, <3>1 DEF NotReady
  <2>6. CASE Done
    BY <2>1, <2>6 DEF Done
  <2> QED BY <2>2, <2>3, <2>4, <2>5, <2>6
<1>3. TypeOK'
  BY <1>0, <1>1, <1>2 DEF TypeOK
<1>4. ReadyInv'
  <2>0. reported \in Nat /\ want \in Nat
    BY <1>0 DEF TypeOK
  <2>1. cpc' = "done" => reported > 0
    BY <1>2, <2>0
  <2>2. Backed' <=> Backed
    BY <1>1 DEF Backed
  <2>3. cpc' = "done" => reported' >= want'
    BY <1>1, <1>2, <2>0
  <2> QED BY <1>0, <1>1, <1>2, <2>1, <2>2, <2>3 DEF ReadyInv
<1>5. LifeInv' /\ PublishInv'
  BY <1>0, <1>1, <1>2 DEF LifeInv, PublishInv
<1> QED BY <1>3, <1>4, <1>5 DEF ReplicasInv

\* A round that finds enough nodes ready backs the height it reports.
LEMMA ReadyStep ==
    ASSUME ReplicasInv, Ready
    PROVE  ReplicasInv'
<1> USE DEF NoFault, etcdVars, watchVars, replicaVars
<1>0. TypeOK /\ LifeInv /\ ReadyInv /\ PublishInv
  BY DEF ReplicasInv
<1>1. /\ Polls \in [Replica -> Polled \cup {NoNode}]
      /\ Nodes(Polls) \subseteq Replica
      /\ ReadyNodes(Polls) \subseteq Nodes(Polls)
  BY <1>0, PollsType
<1>2. /\ reported' \in 0 .. MaxHeight
      /\ LowestReady(Polls, reported')
      /\ EnoughReady(Polls)
  BY DEF Ready
<1>3. /\ witness' = [ready |-> ReadyNodes(Polls), of |-> Cardinality(Nodes(Polls))]
      /\ missed' = (missed /\ reported' = reported)
      /\ states' = Polls
      /\ answered' \subseteq Replica
      /\ cpc # "write" /\ cpc' = "write"
      /\ UNCHANGED <<replicaVars, etcdVars, watchVars, want, record, lastWritten, wrote,
                     calls, outages, errors>>
  BY <1>0, <1>1 DEF Ready, TypeOK
<1>4. TypeOK'
  <2>1. witness' \in [ready : SUBSET Replica, of : 0 .. Cardinality(Replica)]
    BY <1>1, <1>3, ReplicaSets
  <2>2. missed' \in BOOLEAN
    BY <1>3
  <2> QED BY <1>0, <1>1, <1>2, <1>3, <2>1, <2>2 DEF TypeOK
<1>5. ReadyInv'
  <2>1. \A r \in ReadyNodes(Polls) : /\ Polls[r].height = height[r]
                                     /\ height[r] >= want
                                     /\ height[r] \in Nat
    <3>1. \A r \in Replica : height[r] \in Nat
      BY <1>0 DEF TypeOK
    <3> QED BY <1>0, <3>1, ReadyReached
  <2>0. reported' \in Nat /\ want \in Nat
    BY <1>0, <1>2 DEF TypeOK
  <2>2. /\ \E r \in ReadyNodes(Polls) : height[r] = reported'
        /\ \A r \in ReadyNodes(Polls) : height[r] >= reported'
    BY <1>2, <2>1 DEF LowestReady
  <2>3. reported' >= want
    BY <2>0, <2>1, <2>2
  <2>4. Cardinality(Nodes(Polls)) > 0
    BY <1>1, <1>2, ReplicaSets DEF EnoughReady
  <2>5. Backed'
    BY <1>2, <1>3, <2>2, <2>4 DEF Backed, EnoughReady
  <2> QED BY <1>3, <2>3, <2>5 DEF ReadyInv
<1>6. LifeInv' /\ PublishInv'
  BY <1>0, <1>3 DEF LifeInv, PublishInv
<1> QED BY <1>4, <1>5, <1>6 DEF ReplicasInv

\* The two transactions of checkAndNotify, whether or not they take effect.
LEMMA TransactionStep ==
    ASSUME ReplicasInv, RemoveOfflineNodes \/ WriteStates \/ WriteFails
    PROVE  ReplicasInv'
<1> USE DEF NoFault, EtcdError, watchVars, replicaVars
<1>0. TypeOK /\ LifeInv /\ ReadyInv /\ PublishInv
  BY DEF ReplicasInv
<1>1. UNCHANGED <<replicaVars, leases, watchVars, want, record, reported, witness,
                  calls, outages>>
  BY DEF RemoveOfflineNodes, WriteStates, WriteFails
<1>2. /\ reg' \in [Replica -> MaybeNode]
      /\ log' \in Seq(Event)
      /\ Len(log) <= Len(log')
  <2>1. \/ UNCHANGED <<reg, log>>
        \/ Change(Updated)
        \/ Change([r \in Replica |-> IF r \in Deleted THEN NoNode ELSE reg[r]])
    BY DEF RemoveOfflineNodes, WriteStates, WriteFails, Written
  <2>2. reg \in [Replica -> MaybeNode] /\ log \in Seq(Event) /\ Len(log) <= Len(log)
    BY <1>0 DEF TypeOK
  <2> QED BY <1>0, <2>1, <2>2, WritesType, ChangeType
<1>3. /\ states' \in [Replica -> Polled \cup {NoNode}]
      /\ answered' = {}
      /\ cpc' \in {"idle", "start", "done"}
      /\ cpc' = "done" => cpc = "write"
  <2>1. CASE WriteStates
    BY <2>1, ReturnType DEF WriteStates
  <2>2. CASE RemoveOfflineNodes \/ WriteFails
    <3>1. Return(FALSE)
      BY <2>2 DEF RemoveOfflineNodes, WriteFails
    <3> QED BY <3>1, ReturnType
  <2> QED BY <2>1, <2>2
<1>4. /\ lastBlock' \in {lastBlock, reported}
      /\ lastWritten' \in {lastWritten, reported}
      /\ wrote' \in BOOLEAN
      /\ missed' \in BOOLEAN
      /\ errors' \in 0 .. MaxErrors
  <2>1. /\ wrote \in BOOLEAN /\ missed \in BOOLEAN /\ errors \in 0 .. MaxErrors
        /\ MaxErrors \in Nat
    BY <1>0, ReplicasAssumption DEF TypeOK
  <2>2. CASE RemoveOfflineNodes
    BY <2>1, <2>2 DEF RemoveOfflineNodes
  <2>3. CASE WriteStates
    BY <2>1, <2>3 DEF WriteStates, Written
  <2>4. CASE WriteFails
    BY <2>1, <2>4 DEF WriteFails, Written
  <2> QED BY <2>2, <2>3, <2>4
<1>5. TypeOK'
  <2>1. lastBlock' \in 0 .. MaxHeight /\ lastWritten' \in 0 .. MaxHeight
    BY <1>0, <1>4 DEF TypeOK
  <2>2. seen' \in 0 .. Len(log')
    BY <1>0, <1>1, <1>2 DEF TypeOK
  <2> QED BY <1>0, <1>1, <1>2, <1>3, <1>4, <2>1, <2>2 DEF TypeOK
<1>6. ReadyInv'
  <2>1. Backed' <=> Backed
    BY <1>1 DEF Backed
  <2> QED BY <1>0, <1>1, <1>3, <2>1 DEF ReadyInv
<1>7. PublishInv'
  <2>1. CASE RemoveOfflineNodes
    <3>1. cpc # "write" /\ UNCHANGED <<lastBlock, lastWritten, missed>>
      BY <2>1 DEF RemoveOfflineNodes
    <3> QED BY <1>0, <1>1, <1>3, <3>1 DEF PublishInv
  <2>2. CASE WriteStates
    <3>1. cpc = "write" /\ lastWritten' = reported /\ missed' = missed
      BY <2>2 DEF WriteStates
    <3>2. lastBlock' = IF BlockNumberChanged THEN reported ELSE lastBlock
      BY <2>2 DEF WriteStates, NothingToWrite, Written
    <3> QED BY <1>0, <1>1, <1>3, <3>1, <3>2 DEF PublishInv, BlockNumberChanged
  <2>3. CASE WriteFails
    <3>1. /\ cpc = "write" /\ lastWritten' = reported
          /\ missed' = (missed \/ (BlockNumberChanged /\ lastBlock' # reported))
          /\ \/ lastBlock' = lastBlock
             \/ lastBlock' = IF BlockNumberChanged THEN reported ELSE lastBlock
      BY <2>3 DEF WriteFails, Written
    <3> QED BY <1>0, <1>1, <1>3, <3>1 DEF PublishInv, BlockNumberChanged
  <2> QED BY <2>1, <2>2, <2>3
<1>8. LifeInv'
  BY <1>0, <1>1 DEF LifeInv
<1> QED BY <1>5, <1>6, <1>7, <1>8 DEF ReplicasInv

\* Every step keeps the inductive invariant.
LEMMA StepReplicas == ReplicasInv /\ [Next]_vars => ReplicasInv'
<1> SUFFICES ASSUME ReplicasInv, [Next]_vars PROVE ReplicasInv'
  OBVIOUS
<1>1. CASE UNCHANGED vars
  BY <1>1 DEF vars, replicaVars, etcdVars, watchVars, checkVars, ReplicasInv, TypeOK, LifeInv,
              ReadyInv, Backed, PublishInv
<1>2. CASE Next
  BY <1>2, ReplicaStep, LeaseStep, WatchStep, CallStep, ReadyStep, TransactionStep
  DEF Next, Replicating, Expiring, Checking
<1> QED BY <1>1, <1>2

-----------------------------------------------------------------------------
\* The inductive invariant: types, the numbers of lives, what the reported height
\* rests on, and how lastBlockNumber follows it.
THEOREM ReplicasInductive == Spec => []ReplicasInv
<1> QED BY InitReplicas, StepReplicas, PTL DEF Spec

\* The variables of the replicas, of the node map and of checkAndNotify keep their
\* kinds, and the watch never runs ahead of its events.
THEOREM ReplicasTypes == Spec => []TypeOK
<1>1. ReplicasInv => TypeOK
  BY DEF ReplicasInv
<1> QED BY <1>1, ReplicasInductive, PTL

\* A true of checkAndNotify, by polling or by the short cut for replicas that are
\* ahead, rests on a poll in which ready_ratio of the nodes had reached the height.
THEOREM TrueIsBacked == Spec => []ReadyWhenTrue
<1>1. ReplicasInv => ReadyWhenTrue
  <2> SUFFICES ASSUME ReplicasInv, cpc = "done"
               PROVE  /\ witness.of > 0
                      /\ Cardinality(witness.ready) * RatioDen >= RatioNum * witness.of
                      /\ \A r \in witness.ready : height[r] >= want
    BY DEF ReadyWhenTrue
  <2>1. Backed /\ reported >= want
    BY DEF ReplicasInv, ReadyInv
  <2>2. /\ witness.ready \subseteq Replica /\ reported \in Nat /\ want \in Nat
        /\ \A r \in Replica : height[r] \in Nat
    BY DEF ReplicasInv, TypeOK
  <2>3. \A r \in witness.ready : height[r] >= want
    BY <2>1, <2>2 DEF Backed
  <2> QED BY <2>1, <2>3 DEF Backed
<1> QED BY <1>1, ReplicasInductive, PTL

\* When checkAndNotify has returned true, lastBlockNumber is the reported height,
\* unless the transaction that carried it failed: lastWrittenBlockNumber is set even
\* then, and the height is written again only after it has changed.
THEOREM LastBlockIsReported == Spec => []LastBlockPublished
<1>1. ReplicasInv => LastBlockPublished
  BY DEF ReplicasInv, PublishInv, LastBlockPublished
<1> QED BY <1>1, ReplicasInductive, PTL
=============================================================================
