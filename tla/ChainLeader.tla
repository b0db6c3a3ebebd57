---------------------------- MODULE ChainLeader ----------------------------
(***************************************************************************)
(* Chain leadership in version mode.  The processes of several versions    *)
(* compete for the leader key of one chain in etcd; the version key says   *)
(* whose turn it is.  Each process has a goroutine that polls the version  *)
(* key, its main flow, and one watchdog for every lock it ever acquired.   *)
(*                                                                         *)
(* A lock is an EtcdLock object together with the one lease it was granted.*)
(* Checker.Mutex is held by the polling goroutine from Grant to the end of *)
(* Acquire, and within one step by everyone else.                          *)
(***************************************************************************)
EXTENDS Integers, FiniteSets

CONSTANTS
    Proc,        \* checker processes of one chain
    Version,     \* values of the version key; a missing key is one of no process
    VersionOf,   \* config.Version of a process
    Lock,        \* EtcdLock objects; one that nobody refers to is used again
    NoLock,      \* nil, and the missing leader key
    NoProc,      \* the owner of an unused lock
    MaxFail,     \* maxFail of WatchDog
    MaxErrors,   \* bound on failed calls to etcd and on stalls
    MaxCrashes,  \* bound on crashes
    MaxChanges   \* bound on changes of the version key

ASSUME LeaderAssumption ==
    /\ VersionOf \in [Proc -> Version]
    /\ NoLock \notin Lock
    /\ NoProc \notin Proc
    /\ MaxFail \in Nat \ {0}
    /\ MaxErrors \in Nat /\ MaxCrashes \in Nat /\ MaxChanges \in Nat

VARIABLES
    leaderKey,   \* the lock whose lease the leader key is bound to
    versionKey,  \* the value of the version key
    live,        \* the locks whose lease etcd still has
    lock,        \* the fields of each lock, and its watchdog
    status,      \* whether a process is down, in NewChecker, or in Run
    poll,        \* where the polling goroutine is
    mine,        \* the lock Acquire works on: the mutex is held
    awaited,     \* the leader key as Acquire last read it
    etcdLock,    \* Checker.etcdLock
    aligned,     \* Checker.isOuterSingletonAlign
    realigned,   \* history: AlignOuterSingleton succeeded under this lock
    budget       \* how often each kind of trouble has happened

etcdVars == <<leaderKey, live>>
pollVars == <<poll, mine, awaited>>
termVars == <<etcdLock, aligned, realigned>>
vars == <<etcdVars, versionKey, lock, status, pollVars, termVars, budget>>

MaybeLock == Lock \cup {NoLock}

\* An EtcdLock object: whether lease is set and the context cancelled, and its
\* watchdog with failCount.
LockFields ==
    [owner : Proc \cup {NoProc}, lease : BOOLEAN, cancelled : BOOLEAN,
     dog : {"none", "run", "lost"}, fails : 0 .. MaxFail]

Unused == [owner |-> NoProc, lease |-> FALSE, cancelled |-> FALSE,
           dog |-> "none", fails |-> 0]

\* A new lock of p whose lease was granted.
Granted(p) == [owner |-> p, lease |-> TRUE, cancelled |-> FALSE,
               dog |-> "none", fails |-> 0]

\* Every variable holds a value of its kind, and failCount stays within the
\* maxFail attempts WatchDog allows.
LeaderTypeOK ==
    /\ leaderKey \in MaybeLock
    /\ versionKey \in Version
    /\ live \subseteq Lock
    /\ lock \in [Lock -> LockFields]
    /\ status \in [Proc -> {"down", "boot", "up"}]
    /\ poll \in [Proc -> {"idle", "acquire", "txn", "watch", "revoke"}]
    /\ mine \in [Proc -> MaybeLock]
    /\ awaited \in [Proc -> MaybeLock]
    /\ etcdLock \in [Proc -> MaybeLock]
    /\ aligned \in [Proc -> BOOLEAN]
    /\ realigned \in [Proc -> BOOLEAN]
    /\ budget \in [{"errors", "crashes", "changes"} -> Nat]

Init ==
    /\ leaderKey = NoLock
    /\ versionKey \in Version
    /\ live = {}
    /\ lock = [l \in Lock |-> Unused]
    /\ status = [p \in Proc |-> "down"]
    /\ poll = [p \in Proc |-> "idle"]
    /\ mine = [p \in Proc |-> NoLock]
    /\ awaited = [p \in Proc |-> NoLock]
    /\ etcdLock = [p \in Proc |-> NoLock]
    /\ aligned = [p \in Proc |-> FALSE]
    /\ realigned = [p \in Proc |-> FALSE]
    /\ budget = [errors |-> 0, crashes |-> 0, changes |-> 0]

Spend(kind, max) ==
    /\ budget[kind] < max
    /\ budget' = [budget EXCEPT ![kind] = @ + 1]

SpendError == Spend("errors", MaxErrors)

MutexFree(p) == mine[p] = NoLock

-----------------------------------------------------------------------------
(***************************************************************************)
(* etcd and the operator.                                                  *)
(***************************************************************************)

\* The operator moves the chain to another version.
SetVersion ==
    /\ Spend("changes", MaxChanges)
    /\ versionKey' \in Version \ {versionKey}
    /\ UNCHANGED <<etcdVars, lock, status, pollVars, termVars>>

\* The lease of l ends, and every key bound to it with it.
DropLease(l) ==
    /\ live' = live \ {l}
    /\ leaderKey' = IF leaderKey = l THEN NoLock ELSE leaderKey

\* The lease is renewed by a watchdog, or granted a moment ago.  Acquire does not
\* renew it while it waits for the leader key.
Attended(l) ==
    \/ lock[l].dog = "run" /\ ~lock[l].cancelled
    \/ leaderKey = NoLock /\ \E p \in Proc : mine[p] = l

\* A lease runs out when nobody attends to it; the others only when the process
\* stalls or is cut off for a whole TTL.
Expire(l) ==
    /\ l \in live
    /\ IF Attended(l) THEN SpendError ELSE UNCHANGED budget
    /\ DropLease(l)
    /\ UNCHANGED <<versionKey, lock, status, pollVars, termVars>>

-----------------------------------------------------------------------------
(***************************************************************************)
(* EtcdLock.Release and RevokeChainLeader.                                 *)
(***************************************************************************)

\* EtcdLock.Release, its call of Revoke: it may fail, and nobody looks.
ReleaseLease(l) ==
    IF lock[l].lease
    THEN \/ DropLease(l) /\ UNCHANGED budget
         \/ SpendError /\ UNCHANGED etcdVars
    ELSE UNCHANGED <<etcdVars, budget>>

\* EtcdLock.Release, the fields of the lock.
Released(fields) == [fields EXCEPT !.lease = FALSE, !.cancelled = TRUE]

\* A slip the runs must catch: the alignment outlives the leadership.
EndTermKeepsAlign(p) ==
    /\ etcdLock' = [etcdLock EXCEPT ![p] = NoLock]
    /\ realigned' = [realigned EXCEPT ![p] = FALSE]
    /\ UNCHANGED aligned

EndTerm(p) ==
    /\ etcdLock' = [etcdLock EXCEPT ![p] = NoLock]
    /\ aligned' = [aligned EXCEPT ![p] = FALSE]
    /\ realigned' = [realigned EXCEPT ![p] = FALSE]

\* RevokeChainLeader: what it does to etcd and to the term ...
RevokeChainLeader(p) ==
    /\ MutexFree(p)
    /\ IF etcdLock[p] = NoLock
       THEN UNCHANGED <<etcdVars, budget, termVars>>
       ELSE ReleaseLease(etcdLock[p]) /\ EndTerm(p)

\* ... and to the lock it releases.
AfterRevoke(p) ==
    IF etcdLock[p] = NoLock THEN lock
    ELSE [lock EXCEPT ![etcdLock[p]] = Released(@)]

-----------------------------------------------------------------------------
(***************************************************************************)
(* The process, its main flow and the poll of the version key.             *)
(***************************************************************************)
Boot(p) ==
    /\ status[p] = "down"
    /\ status' = [status EXCEPT ![p] = "boot"]
    /\ UNCHANGED <<etcdVars, versionKey, lock, pollVars, termVars, budget>>

\* processNotice of a leader: AlignOuterSingleton succeeds.  The rest of the
\* main flow leaves this state alone.
ProcessNotice(p) ==
    /\ status[p] = "up"
    /\ MutexFree(p)
    /\ etcdLock[p] # NoLock
    /\ ~aligned[p]
    /\ aligned' = [aligned EXCEPT ![p] = TRUE]
    /\ realigned' = [realigned EXCEPT ![p] = TRUE]
    /\ UNCHANGED <<etcdVars, versionKey, lock, status, pollVars, etcdLock, budget>>

\* A slip the runs must catch: a leader does not step down for another version.
ReadVersionKeepsLead(p) ==
    LET wants == versionKey = VersionOf[p] /\ etcdLock[p] = NoLock
    IN  /\ status[p] # "down"
        /\ poll[p] = "idle"
        /\ poll' = [poll EXCEPT ![p] = IF wants THEN "acquire" ELSE "idle"]
        /\ status' = [status EXCEPT ![p] = IF wants THEN @ ELSE "up"]
        /\ UNCHANGED <<etcdVars, versionKey, lock, mine, awaited, termVars, budget>>

\* The first read in InitLeaderFromEtcd, and every later tick.
ReadVersion(p) ==
    LET match == versionKey = VersionOf[p]
        leads == etcdLock[p] # NoLock
    IN  /\ status[p] # "down"
        /\ poll[p] = "idle"
        /\ poll' = [poll EXCEPT ![p] = CASE match /\ ~leads -> "acquire"
                                         [] ~match /\ leads -> "revoke"
                                         [] OTHER -> "idle"]
        /\ status' = [status EXCEPT ![p] = IF match /\ ~leads THEN @ ELSE "up"]
        /\ UNCHANGED <<etcdVars, versionKey, lock, mine, awaited, termVars, budget>>

\* The first read fails and NewChecker with it; a tick whose read fails does nothing.
ReadFails(p) ==
    /\ status[p] = "boot"
    /\ poll[p] = "idle"
    /\ SpendError
    /\ status' = [status EXCEPT ![p] = "down"]
    /\ UNCHANGED <<etcdVars, versionKey, lock, pollVars, termVars>>

PollRevoke(p) ==
    /\ poll[p] = "revoke"
    /\ RevokeChainLeader(p)
    /\ lock' = AfterRevoke(p)
    /\ poll' = [poll EXCEPT ![p] = "idle"]
    /\ UNCHANGED <<versionKey, status, mine, awaited>>

-----------------------------------------------------------------------------
(***************************************************************************)
(* ChangeToChainLeader and EtcdLock.Acquire.                               *)
(***************************************************************************)

\* Acquire returns false.  In NewChecker that ends the process.
GiveUp(p) ==
    /\ poll' = [poll EXCEPT ![p] = "idle"]
    /\ mine' = [mine EXCEPT ![p] = NoLock]
    /\ status' = [status EXCEPT ![p] = IF @ = "boot" THEN "down" ELSE @]
    /\ UNCHANGED <<versionKey, awaited, termVars>>

Free == {l \in Lock \ live : lock[l].owner = NoProc}

\* The mutex is taken, the lock created and its lease granted.  A new lock is as
\* good as any other.
Grant(p) ==
    /\ poll[p] = "acquire"
    /\ etcdLock[p] = NoLock
    /\ Free # {}
    /\ LET l == CHOOSE l \in Free : TRUE
       IN  /\ lock' = [lock EXCEPT ![l] = Granted(p)]
           /\ live' = live \cup {l}
           /\ mine' = [mine EXCEPT ![p] = l]
    /\ poll' = [poll EXCEPT ![p] = "txn"]
    /\ UNCHANGED <<leaderKey, versionKey, status, awaited, termVars, budget>>

GrantFails(p) ==
    /\ poll[p] = "acquire"
    /\ SpendError
    /\ GiveUp(p)
    /\ UNCHANGED <<etcdVars, lock>>

\* A slip the runs must catch: the key is overwritten when the version is right.
MayLeadByVersion(p) == versionKey = VersionOf[p]

\* The If of the transaction.
MayLead(p) == leaderKey = NoLock /\ versionKey = VersionOf[p]

\* The transaction succeeds: the key is bound to the lease, the watchdog runs,
\* ChangeToChainLeader installs the lock and releases the mutex.
Acquired(p) ==
    /\ poll[p] = "txn"
    /\ MayLead(p)
    /\ mine[p] \in live
    /\ leaderKey' = mine[p]
    /\ lock' = [lock EXCEPT ![mine[p]].dog = "run"]
    /\ etcdLock' = [etcdLock EXCEPT ![p] = mine[p]]
    /\ realigned' = [realigned EXCEPT ![p] = FALSE]
    /\ mine' = [mine EXCEPT ![p] = NoLock]
    /\ poll' = [poll EXCEPT ![p] = "idle"]
    /\ status' = [status EXCEPT ![p] = "up"]
    /\ UNCHANGED <<versionKey, live, awaited, aligned, budget>>

\* Another version's turn, or a lease that ran out while Acquire was waiting, so
\* that the transaction is refused: Release, return false.
Refused(p) ==
    /\ poll[p] = "txn"
    /\ versionKey # VersionOf[p] \/ (MayLead(p) /\ mine[p] \notin live)
    /\ ReleaseLease(mine[p])
    /\ lock' = [lock EXCEPT ![mine[p]] = Unused]
    /\ GiveUp(p)

\* The transaction reports an error, whether or not it took effect; Release's
\* Revoke may fail for the same reason.
TxnFails(p) ==
    /\ poll[p] = "txn"
    /\ SpendError
    /\ \/ DropLease(mine[p])
       \/ UNCHANGED etcdVars
       \/ /\ MayLead(p) /\ mine[p] \in live
          /\ leaderKey' = mine[p]
          /\ UNCHANGED live
    /\ lock' = [lock EXCEPT ![mine[p]] = Unused]
    /\ GiveUp(p)

\* The version is right and the key is taken.
Taken(p) ==
    /\ poll[p] = "txn"
    /\ versionKey = VersionOf[p] /\ leaderKey # NoLock
    /\ awaited' = [awaited EXCEPT ![p] = leaderKey]
    /\ poll' = [poll EXCEPT ![p] = "watch"]
    /\ UNCHANGED <<etcdVars, versionKey, lock, status, mine, termVars, budget>>

\* A watch from the key's own revision on delivers the put of that revision at
\* once; any event, like an error of the watch, sends Acquire back to the
\* transaction.
WatchEvent(p) ==
    /\ poll[p] = "watch"
    /\ poll' = [poll EXCEPT ![p] = "txn"]
    /\ awaited' = [awaited EXCEPT ![p] = NoLock]
    /\ UNCHANGED <<etcdVars, versionKey, lock, status, mine, termVars, budget>>

-----------------------------------------------------------------------------
(***************************************************************************)
(* EtcdLock.WatchDog.                                                      *)
(***************************************************************************)
KeepAliveOk(l) ==
    /\ lock[l].dog = "run"
    /\ lock[l].lease
    /\ l \in live
    /\ lock' = [lock EXCEPT ![l].fails = 0]
    /\ UNCHANGED <<etcdVars, versionKey, status, pollVars, termVars, budget>>

\* Slips the runs must catch: one attempt too many, and a loss nobody hears of.
FailedOnceMore(fields) ==
    IF fields.fails + 1 > MaxFail
    THEN [fields EXCEPT !.fails = @ + 1, !.lease = FALSE, !.dog = "lost"]
    ELSE [fields EXCEPT !.fails = @ + 1]

FailedSilently(fields) ==
    IF fields.fails + 1 >= MaxFail
    THEN [fields EXCEPT !.fails = @ + 1, !.lease = FALSE, !.dog = "none"]
    ELSE [fields EXCEPT !.fails = @ + 1]

\* The lock is lost after maxFail failures in a row.
Failed(fields) ==
    IF fields.fails + 1 >= MaxFail
    THEN [fields EXCEPT !.fails = @ + 1, !.lease = FALSE, !.dog = "lost"]
    ELSE [fields EXCEPT !.fails = @ + 1]

\* KeepAliveOnce fails because the lease is gone.  A tick may still win against
\* the cancelled context.
KeepAliveFails(l) ==
    /\ lock[l].dog = "run"
    /\ ~lock[l].lease \/ l \notin live
    /\ lock' = [lock EXCEPT ![l] = Failed(@)]
    /\ UNCHANGED <<etcdVars, versionKey, status, pollVars, termVars, budget>>

\* KeepAliveOnce fails because etcd does not answer.
KeepAliveError(l) ==
    /\ lock[l].dog = "run"
    /\ SpendError
    /\ lock' = [lock EXCEPT ![l] = Failed(@)]
    /\ UNCHANGED <<etcdVars, versionKey, status, pollVars, termVars>>

\* onLost, which is RevokeChainLeader of the owner.
OnLost(l) ==
    /\ lock[l].dog = "lost"
    /\ RevokeChainLeader(lock[l].owner)
    /\ lock' = [AfterRevoke(lock[l].owner) EXCEPT ![l] = Unused]
    /\ UNCHANGED <<versionKey, status, pollVars>>

DogStops(l) ==
    /\ lock[l].dog = "run"
    /\ lock[l].cancelled
    /\ lock' = [lock EXCEPT ![l] = Unused]
    /\ UNCHANGED <<etcdVars, versionKey, status, pollVars, termVars, budget>>

\* The process dies and its watchdogs with it; its leases run out on their own.
Crash(p) ==
    /\ status[p] # "down"
    /\ Spend("crashes", MaxCrashes)
    /\ status' = [status EXCEPT ![p] = "down"]
    /\ poll' = [poll EXCEPT ![p] = "idle"]
    /\ mine' = [mine EXCEPT ![p] = NoLock]
    /\ etcdLock' = [etcdLock EXCEPT ![p] = NoLock]
    /\ aligned' = [aligned EXCEPT ![p] = FALSE]
    /\ lock' = [l \in Lock |-> IF lock[l].owner = p THEN Unused ELSE lock[l]]
    /\ realigned' = [realigned EXCEPT ![p] = FALSE]
    /\ awaited' = [awaited EXCEPT ![p] = NoLock]
    /\ UNCHANGED <<etcdVars, versionKey>>

\* A signal: Run returns, shutdown gives up the leadership, and the process ends.
Shutdown(p) ==
    /\ status[p] = "up"
    /\ RevokeChainLeader(p)
    /\ lock' = [l \in Lock |-> IF lock[l].owner = p THEN Unused ELSE AfterRevoke(p)[l]]
    /\ status' = [status EXCEPT ![p] = "down"]
    /\ poll' = [poll EXCEPT ![p] = "idle"]
    /\ UNCHANGED <<versionKey, mine, awaited>>

-----------------------------------------------------------------------------
\* The goroutine that polls the version key, and the process under it.
Polling(p) ==
    \/ Boot(p)
    \/ ReadVersion(p)
    \/ PollRevoke(p)
    \/ Grant(p)
    \/ Acquired(p)
    \/ Refused(p)
    \/ Taken(p)
    \/ WatchEvent(p)

WatchDog(l) ==
    \/ KeepAliveOk(l)
    \/ KeepAliveFails(l)
    \/ OnLost(l)

Next ==
    \/ SetVersion
    \/ \E p \in Proc : Polling(p) \/ ProcessNotice(p) \/ ReadFails(p)
                          \/ GrantFails(p) \/ TxnFails(p) \/ Shutdown(p) \/ Crash(p)
    \/ \E l \in Lock : WatchDog(l) \/ KeepAliveError(l) \/ DogStops(l) \/ Expire(l)

Spec == Init /\ [][Next]_vars

\* The supervisor restarts processes, the ticker of every goroutine goes on, and
\* etcd ends a lease that nobody renews.  Failures, stalls and changes of the
\* version key are bounded, not scheduled.
FairSpec ==
    /\ Spec
    /\ \A p \in Proc : WF_vars(Polling(p))
    /\ \A l \in Lock :
          /\ WF_vars(WatchDog(l))
          /\ WF_vars(DogStops(l))
          /\ WF_vars(~Attended(l) /\ Expire(l))

-----------------------------------------------------------------------------
(***************************************************************************)
(* What makes exclusion and the terms inductive.                           *)
(***************************************************************************)

\* A lock in use belongs to the process that uses it and is not cancelled.
LockInv ==
    /\ \A p \in Proc : \A l \in Lock :
          l \in {mine[p], etcdLock[p]} => lock[l].owner = p /\ ~lock[l].cancelled
    /\ \A l \in Lock : /\ lock[l].dog # "none" => lock[l].owner \in Proc
                       /\ lock[l].dog # "lost" => lock[l].fails < MaxFail
    /\ \A p \in Proc : /\ poll[p] \in {"txn", "watch"} => mine[p] # NoLock
                       /\ mine[p] # NoLock => lock[mine[p]].dog = "none"

\* The leader key is bound to a live lease: to that of whoever leads.
LeaseInv ==
    /\ leaderKey # NoLock => leaderKey \in live
    /\ \A p \in Proc : etcdLock[p] \in live => leaderKey = etcdLock[p]

\* A process that acquires does not lead, and only a leader is aligned.
TermInv ==
    \A p \in Proc :
        /\ poll[p] \in {"acquire", "txn", "watch"} => etcdLock[p] = NoLock
        /\ aligned[p] => realigned[p] /\ etcdLock[p] # NoLock

LeaderInv == LeaderTypeOK /\ LockInv /\ LeaseInv /\ TermInv

\* Two processes never both hold an installed lock whose lease etcd still has,
\* however polls, watchdogs, expiries, failed calls and crashes interleave.
OneLiveLeader ==
    \A p, q \in Proc :
        etcdLock[p] \in live /\ etcdLock[q] \in live => p = q

\* publishOuter writes to the singleton topic only after AlignOuterSingleton
\* succeeded under the lock that is held now: an alignment never outlives the
\* leadership in which it was made.
AlignedInThisTerm ==
    \A p \in Proc : etcdLock[p] # NoLock /\ aligned[p] => realigned[p]

\* When the version key settles, some process of that version leads again and
\* again with a live lease: lost locks, stale keys of crashed processes and
\* callbacks of old watchdogs delay the next leader but never prevent it.
LeaderElected ==
    \A v \in Version :
        <>[](versionKey = v) =>
            []<>(\E p \in Proc : VersionOf[p] = v /\ etcdLock[p] \in live)

\* Acquire, which keeps Checker.Mutex from the main flow, always comes to an end
\* when every version has one process.
AcquireEnds == \A p \in Proc : mine[p] # NoLock ~> mine[p] = NoLock

\* The process whose installed lock has a live lease.
Owner ==
    IF \E p \in Proc : etcdLock[p] \in live
    THEN CHOOSE p \in Proc : etcdLock[p] \in live
    ELSE NoProc

Term == INSTANCE LeaderTerm WITH
            owner <- Owner,
            leads <- {p \in Proc : etcdLock[p] # NoLock},
            aligned <- {p \in Proc : aligned[p]}

\* Through polls, transactions, watchdogs, expiries, failed calls and crashes,
\* the lock and the alignment flag behave as LeaderTerm says: a term begins
\* unaligned and only when no other holder's lease is good, and its alignment
\* ends with it.
KeepsTerms == Term!TermSpec

\* A waiter goes back to the transaction only after the leader key it found has
\* been released, as the comments around the watch in Acquire say.
WaitsForRelease ==
    [][\A p \in Proc : poll[p] = "watch" /\ poll'[p] = "txn" =>
          leaderKey # awaited[p]]_vars
=============================================================================
