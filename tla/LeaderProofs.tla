---------------------------- MODULE LeaderProofs ----------------------------
(***************************************************************************)
(* Proofs about ChainLeader, for any number of processes, versions and     *)
(* locks: types, exclusion of live leaders, alignment within a term, and   *)
(* the refinement of LeaderTerm.                                           *)
(***************************************************************************)
EXTENDS ChainLeader, TLAPS

\* Every initial state satisfies the inductive invariant.
LEMMA InitLeader == Init => LeaderInv
BY LeaderAssumption
DEF Init, LeaderInv, LeaderTypeOK, LockInv, LeaseInv, TermInv, Unused, LockFields,
    MaybeLock

\* A step of the budget keeps its type.
LEMMA SpendType ==
    ASSUME NEW kind \in {"errors", "crashes", "changes"}, NEW max,
           LeaderTypeOK, Spend(kind, max)
    PROVE  budget' \in [{"errors", "crashes", "changes"} -> Nat]
BY DEF LeaderTypeOK, Spend

\* An unused lock is a lock.
LEMMA UnusedType == Unused \in LockFields
BY LeaderAssumption DEF Unused, LockFields

\* Release keeps the owner and the watchdog of a lock.
LEMMA ReleasedFields ==
    ASSUME NEW f \in LockFields
    PROVE  /\ Released(f) \in LockFields
           /\ Released(f).owner = f.owner
           /\ Released(f).dog = f.dog
           /\ Released(f).fails = f.fails
BY DEF Released, LockFields

\* A failed renewal keeps the owner of a lock and does not cancel it.
LEMMA FailedFields ==
    ASSUME NEW f \in LockFields, f.fails < MaxFail
    PROVE  /\ Failed(f) \in LockFields
           /\ Failed(f).owner = f.owner
           /\ Failed(f).cancelled = f.cancelled
           /\ Failed(f).dog # "lost" => Failed(f).fails < MaxFail
<1>1. f.fails \in 0 .. MaxFail /\ MaxFail \in Nat
  BY LeaderAssumption DEF LockFields
<1>2. CASE f.fails + 1 >= MaxFail
  <2>1. Failed(f) = [f EXCEPT !.fails = f.fails + 1, !.lease = FALSE, !.dog = "lost"]
    BY <1>2 DEF Failed
  <2>2. f.fails + 1 \in 0 .. MaxFail
    BY <1>1, <1>2, f.fails < MaxFail
  <2>3. Failed(f) = [owner |-> f.owner, lease |-> FALSE, cancelled |-> f.cancelled,
                     dog |-> "lost", fails |-> f.fails + 1]
    BY <2>1 DEF LockFields
  <2> QED BY <2>2, <2>3 DEF LockFields
<1>3. CASE ~(f.fails + 1 >= MaxFail)
  <2>1. Failed(f) = [f EXCEPT !.fails = f.fails + 1]
    BY <1>3 DEF Failed
  <2> QED BY <2>1, <1>1, <1>3 DEF LockFields
<1> QED BY <1>2, <1>3

\* RevokeChainLeader with its effect on the locks keeps the invariant, whether or
\* not the lock of a finished watchdog is dropped in the same step.
LEMMA RevokeStep ==
    ASSUME LeaderInv, NEW p \in Proc, RevokeChainLeader(p),
           NEW gone \in SUBSET Lock,
           \A l \in gone : lock[l].owner = p,
           lock' = [l \in Lock |-> IF l \in gone THEN Unused ELSE AfterRevoke(p)[l]],
           UNCHANGED <<versionKey, mine, awaited>>,
           status' \in [Proc -> {"down", "boot", "up"}],
           poll' \in [Proc -> {"idle", "acquire", "txn", "watch", "revoke"}],
           \A q \in Proc : poll'[q] = poll[q] \/ poll'[q] = "idle"
    PROVE  LeaderInv'
<1> USE LeaderAssumption DEF etcdVars, termVars, MaybeLock
<1> DEFINE L == etcdLock[p]
<1>0. /\ L \in Lock \cup {NoLock}
      /\ mine[p] = NoLock
  BY DEF LeaderInv, LeaderTypeOK, RevokeChainLeader, MutexFree
<1>1. /\ etcdLock' = [etcdLock EXCEPT ![p] = NoLock]
      /\ \A q \in Proc : /\ q # p => aligned'[q] = aligned[q] /\ realigned'[q] = realigned[q]
                         /\ ~aligned'[p]
      /\ aligned' \in [Proc -> BOOLEAN]
      /\ realigned' \in [Proc -> BOOLEAN]
  <2>1. CASE L = NoLock
    <3>1. ~aligned[p]
      BY <2>1 DEF LeaderInv, LeaderTypeOK, TermInv
    <3>2. UNCHANGED <<etcdLock, aligned, realigned>>
      BY <2>1 DEF RevokeChainLeader
    <3>3. etcdLock = [etcdLock EXCEPT ![p] = NoLock]
      BY <2>1 DEF LeaderInv, LeaderTypeOK
    <3> QED BY <3>1, <3>2, <3>3 DEF LeaderInv, LeaderTypeOK
  <2>2. CASE L # NoLock
    <3>1. EndTerm(p)
      BY <2>2 DEF RevokeChainLeader
    <3> QED BY <3>1 DEF EndTerm, LeaderInv, LeaderTypeOK
  <2> QED BY <2>1, <2>2
<1>2. /\ budget' \in [{"errors", "crashes", "changes"} -> Nat]
      /\ \/ UNCHANGED <<leaderKey, live>>
         \/ live' = live \ {L} /\ leaderKey' = IF leaderKey = L THEN NoLock ELSE leaderKey
  BY <1>0, SpendType DEF RevokeChainLeader, ReleaseLease, DropLease, SpendError,
     LeaderInv, LeaderTypeOK
<1>3. \A l \in Lock :
         \/ l \in gone /\ lock'[l] = Unused
         \/ l \notin gone /\ l # L /\ lock'[l] = lock[l]
         \/ l \notin gone /\ l = L /\ lock'[l] = Released(lock[l])
  BY <1>0 DEF AfterRevoke, LeaderInv, LeaderTypeOK
<1>4. LeaderTypeOK'
  <2>1. lock' \in [Lock -> LockFields]
    BY <1>3, UnusedType, ReleasedFields DEF LeaderInv, LeaderTypeOK
  <2> QED BY <2>1, <1>0, <1>1, <1>2 DEF LeaderInv, LeaderTypeOK
<1>5. LockInv'
  <2>1. ASSUME NEW q \in Proc, NEW l \in Lock, l \in {mine'[q], etcdLock'[q]}
        PROVE  lock'[l].owner = q /\ ~lock'[l].cancelled
    <3>1. q # p
      BY <1>0, <1>1, <2>1 DEF LeaderInv, LeaderTypeOK
    <3>2. lock[l].owner = q /\ ~lock[l].cancelled
      BY <3>1, <1>1, <2>1 DEF LeaderInv, LockInv, LeaderTypeOK
    <3>3. l # L
      BY <3>1, <3>2, <1>0 DEF LeaderInv, LockInv
    <3> QED BY <3>1, <3>2, <3>3, <1>3
  <2>2. ASSUME NEW l \in Lock
        PROVE  /\ lock'[l].dog # "none" => lock'[l].owner \in Proc
               /\ lock'[l].dog # "lost" => lock'[l].fails < MaxFail
    <3>1. lock[l] \in LockFields
      BY DEF LeaderInv, LeaderTypeOK
    <3>2. /\ lock[l].dog # "none" => lock[l].owner \in Proc
          /\ lock[l].dog # "lost" => lock[l].fails < MaxFail
      BY DEF LeaderInv, LockInv
    <3>3. CASE lock'[l] = Unused
      BY <3>3 DEF Unused
    <3>4. CASE lock'[l] = lock[l]
      BY <3>2, <3>4
    <3>5. CASE lock'[l] = Released(lock[l])
      BY <3>1, <3>2, <3>5, ReleasedFields
    <3> QED BY <3>3, <3>4, <3>5, <1>3
  <2>3. ASSUME NEW q \in Proc
        PROVE  /\ poll'[q] \in {"txn", "watch"} => mine'[q] # NoLock
               /\ mine'[q] # NoLock => lock'[mine'[q]].dog = "none"
    <3>1. mine'[q] # NoLock => /\ mine[q] \in Lock
                               /\ lock[mine[q]].owner = q
                               /\ lock[mine[q]].dog = "none"
                               /\ q # p
      BY <1>0 DEF LeaderInv, LeaderTypeOK, LockInv
    <3>2. L \in Lock => lock[L].owner = p
      BY DEF LeaderInv, LockInv
    <3>3. mine'[q] # NoLock => lock'[mine[q]] = lock[mine[q]]
      BY <3>1, <3>2, <1>3
    <3> QED BY <3>1, <3>3 DEF LeaderInv, LockInv
  <2> QED BY <2>1, <2>2, <2>3 DEF LockInv
<1>6. LeaseInv'
  BY <1>0, <1>1, <1>2 DEF LeaderInv, LeaderTypeOK, LeaseInv
<1>7. TermInv'
  BY <1>0, <1>1 DEF LeaderInv, LeaderTypeOK, TermInv
<1> QED BY <1>4, <1>5, <1>6, <1>7 DEF LeaderInv

\* Every step keeps the inductive invariant.
LEMMA StepLeader == LeaderInv /\ [Next]_vars => LeaderInv'
<1> SUFFICES ASSUME LeaderInv, [Next]_vars PROVE LeaderInv'
  OBVIOUS
<1> USE LeaderAssumption DEF etcdVars, pollVars, termVars, MaybeLock
<1>1. CASE UNCHANGED vars
  BY <1>1 DEF vars, LeaderInv, LeaderTypeOK, LockInv, LeaseInv, TermInv
<1>2. CASE SetVersion
  BY <1>2, SpendType DEF SetVersion, LeaderInv, LeaderTypeOK, LockInv, LeaseInv, TermInv
<1>3. ASSUME NEW p \in Proc, Boot(p) \/ ReadFails(p) PROVE LeaderInv'
  BY <1>3, SpendType
  DEF Boot, ReadFails, SpendError, LeaderInv, LeaderTypeOK, LockInv, LeaseInv, TermInv
<1>4. ASSUME NEW p \in Proc, ReadVersion(p) PROVE LeaderInv'
  <2>1. /\ poll' \in [Proc -> {"idle", "acquire", "txn", "watch", "revoke"}]
        /\ status' \in [Proc -> {"down", "boot", "up"}]
        /\ \A q \in Proc : \/ poll'[q] = poll[q]
                           \/ poll'[q] \in {"idle", "revoke"}
                           \/ poll'[q] = "acquire" /\ etcdLock[q] = NoLock
    BY <1>4 DEF ReadVersion, LeaderInv, LeaderTypeOK
  <2>2. UNCHANGED <<etcdVars, versionKey, lock, mine, awaited, termVars, budget>>
    BY <1>4 DEF ReadVersion
  <2>3. LeaderTypeOK'
    BY <2>1, <2>2 DEF LeaderInv, LeaderTypeOK
  <2>4. LockInv'
    BY <2>1, <2>2 DEF LeaderInv, LockInv
  <2>5. LeaseInv'
    BY <2>2 DEF LeaderInv, LeaseInv
  <2>6. TermInv'
    BY <2>1, <2>2 DEF LeaderInv, TermInv
  <2> QED BY <2>3, <2>4, <2>5, <2>6 DEF LeaderInv
<1>5. ASSUME NEW p \in Proc, PollRevoke(p) PROVE LeaderInv'
  <2> DEFINE gone == {}
  <2>1. lock' = [l \in Lock |-> IF l \in gone THEN Unused ELSE AfterRevoke(p)[l]]
    BY <1>5 DEF PollRevoke, AfterRevoke, LeaderInv, LeaderTypeOK
  <2>2. /\ poll' \in [Proc -> {"idle", "acquire", "txn", "watch", "revoke"}]
        /\ \A q \in Proc : poll'[q] = poll[q] \/ poll'[q] = "idle"
        /\ UNCHANGED <<versionKey, mine, awaited>>
        /\ status' \in [Proc -> {"down", "boot", "up"}]
        /\ RevokeChainLeader(p)
    BY <1>5 DEF PollRevoke, LeaderInv, LeaderTypeOK
  <2>3. gone \in SUBSET Lock /\ \A l \in gone : lock[l].owner = p
    OBVIOUS
  <2> HIDE DEF gone
  <2> QED BY <2>1, <2>2, <2>3, RevokeStep
<1>6. ASSUME NEW p \in Proc, Grant(p) PROVE LeaderInv'
  <2> DEFINE l == CHOOSE l \in Free : TRUE
  <2>1. l \in Lock /\ l \notin live /\ lock[l].owner = NoProc
    <3>1. l \in Free
      BY <1>6 DEF Grant
    <3> QED BY <3>1 DEF Free
  <2>2. /\ lock' = [lock EXCEPT ![l] = Granted(p)]
        /\ live' = live \cup {l}
        /\ mine' = [mine EXCEPT ![p] = l]
        /\ poll' = [poll EXCEPT ![p] = "txn"]
        /\ etcdLock[p] = NoLock
        /\ UNCHANGED <<leaderKey, versionKey, status, awaited, termVars, budget>>
    BY <1>6 DEF Grant
  <2> HIDE DEF l
  <2>0. /\ Granted(p) \in LockFields
        /\ Granted(p).owner = p /\ ~Granted(p).cancelled
        /\ Granted(p).dog = "none" /\ Granted(p).fails = 0
    BY DEF Granted, LockFields
  <2>3. LeaderTypeOK'
    BY <2>0, <2>1, <2>2 DEF LeaderInv, LeaderTypeOK
  <2>4. LockInv'
    BY <2>0, <2>1, <2>2 DEF LeaderInv, LeaderTypeOK, LockInv
  <2>5. LeaseInv'
    BY <2>1, <2>2 DEF LeaderInv, LeaderTypeOK, LockInv, LeaseInv
  <2>6. TermInv'
    BY <2>1, <2>2 DEF LeaderInv, LeaderTypeOK, TermInv
  <2> QED BY <2>3, <2>4, <2>5, <2>6 DEF LeaderInv
<1>7. ASSUME NEW p \in Proc, GrantFails(p) PROVE LeaderInv'
  <2>1. budget' \in [{"errors", "crashes", "changes"} -> Nat]
    BY <1>7, SpendType DEF GrantFails, SpendError, LeaderInv
  <2> QED BY <2>1, <1>7
          DEF GrantFails, GiveUp, LeaderInv, LeaderTypeOK, LockInv, LeaseInv, TermInv
<1>8. ASSUME NEW p \in Proc, Acquired(p) PROVE LeaderInv'
  <2>1. mine[p] \in Lock /\ etcdLock[p] = NoLock /\ leaderKey = NoLock
    BY <1>8 DEF Acquired, MayLead, LeaderInv, LeaderTypeOK, LockInv, TermInv
  <2> DEFINE new == [lock[mine[p]] EXCEPT !.dog = "run"]
  <2>0. /\ lock' = [lock EXCEPT ![mine[p]] = new]
        /\ new \in LockFields
        /\ new.owner = lock[mine[p]].owner
        /\ new.cancelled = lock[mine[p]].cancelled
        /\ new.fails = lock[mine[p]].fails
    BY <2>1, <1>8 DEF Acquired, LeaderInv, LeaderTypeOK, LockFields
  <2>9. lock[mine[p]].dog # "lost"
    BY <2>1 DEF LeaderInv, LockInv
  <2> HIDE DEF new
  <2>2. LeaderTypeOK'
    BY <2>0, <2>1, <1>8 DEF Acquired, LeaderInv, LeaderTypeOK
  <2>3. LockInv'
    BY <2>0, <2>1, <2>9, <1>8 DEF Acquired, LeaderInv, LeaderTypeOK, LockInv
  <2>4. LeaseInv'
    BY <2>1, <1>8 DEF Acquired, LeaderInv, LeaderTypeOK, LeaseInv
  <2>5. TermInv'
    BY <2>1, <1>8 DEF Acquired, LeaderInv, LeaderTypeOK, TermInv
  <2> QED BY <2>2, <2>3, <2>4, <2>5 DEF LeaderInv
<1>9. ASSUME NEW p \in Proc, Refused(p) \/ TxnFails(p) PROVE LeaderInv'
  <2>1. mine[p] \in Lock /\ etcdLock[p] = NoLock
    BY <1>9 DEF Refused, TxnFails, LeaderInv, LeaderTypeOK, LockInv, TermInv
  <2>2. /\ lock' = [lock EXCEPT ![mine[p]] = Unused]
        /\ GiveUp(p)
        /\ budget' \in [{"errors", "crashes", "changes"} -> Nat]
        /\ \/ DropLease(mine[p])
           \/ UNCHANGED <<leaderKey, live>>
           \/ leaderKey = NoLock /\ mine[p] \in live /\ leaderKey' = mine[p] /\ live' = live
    <3>1. CASE Refused(p)
      BY <3>1, SpendType DEF Refused, ReleaseLease, SpendError, LeaderInv, LeaderTypeOK
    <3>2. CASE TxnFails(p)
      BY <3>2, SpendType DEF TxnFails, MayLead, SpendError, LeaderInv
    <3> QED BY <1>9, <3>1, <3>2
  <2>3. LeaderTypeOK'
    BY <2>1, <2>2, UnusedType DEF DropLease, GiveUp, LeaderInv, LeaderTypeOK
  <2>4. LockInv'
    BY <2>1, <2>2 DEF Unused, GiveUp, LeaderInv, LeaderTypeOK, LockInv
  <2>5. LeaseInv'
    BY <2>1, <2>2 DEF DropLease, GiveUp, LeaderInv, LeaderTypeOK, LeaseInv
  <2>6. TermInv'
    BY <2>1, <2>2 DEF GiveUp, LeaderInv, LeaderTypeOK, TermInv
  <2> QED BY <2>3, <2>4, <2>5, <2>6 DEF LeaderInv
<1>10. ASSUME NEW p \in Proc, Taken(p) \/ WatchEvent(p) PROVE LeaderInv'
  BY <1>10 DEF Taken, WatchEvent, LeaderInv, LeaderTypeOK, LockInv, LeaseInv, TermInv
<1>11. ASSUME NEW p \in Proc, ProcessNotice(p) PROVE LeaderInv'
  BY <1>11 DEF ProcessNotice, LeaderInv, LeaderTypeOK, LockInv, LeaseInv, TermInv
<1>12. ASSUME NEW p \in Proc, Crash(p) PROVE LeaderInv'
  <2>1. budget' \in [{"errors", "crashes", "changes"} -> Nat]
    BY <1>12, SpendType DEF Crash, LeaderInv
  <2>2. LeaderTypeOK'
    BY <2>1, <1>12, UnusedType DEF Crash, LeaderInv, LeaderTypeOK
  <2>3. LockInv'
    BY <1>12 DEF Crash, Unused, LeaderInv, LeaderTypeOK, LockInv
  <2>4. LeaseInv' /\ TermInv'
    BY <1>12 DEF Crash, LeaderInv, LeaderTypeOK, LeaseInv, TermInv
  <2> QED BY <2>2, <2>3, <2>4 DEF LeaderInv
<1>13. ASSUME NEW l \in Lock, KeepAliveOk(l) \/ KeepAliveFails(l) \/ KeepAliveError(l)
       PROVE  LeaderInv'
  <2>1. /\ budget' \in [{"errors", "crashes", "changes"} -> Nat]
        /\ UNCHANGED <<etcdVars, versionKey, status, pollVars, termVars>>
        /\ lock[l].dog = "run"
        /\ lock[l] \in LockFields
        /\ lock[l].fails < MaxFail
        /\ lock[l].owner \in Proc
    BY <1>13, SpendType
    DEF KeepAliveOk, KeepAliveFails, KeepAliveError, SpendError, LeaderInv, LeaderTypeOK,
        LockInv
  <2>2. PICK new \in LockFields :
           /\ lock' = [lock EXCEPT ![l] = new]
           /\ new.owner = lock[l].owner
           /\ new.cancelled = lock[l].cancelled
           /\ new.dog # "lost" => new.fails < MaxFail
    <3>1. CASE KeepAliveOk(l)
      <4> DEFINE ok == [lock[l] EXCEPT !.fails = 0]
      <4>1. /\ ok \in LockFields
            /\ ok.owner = lock[l].owner
            /\ ok.cancelled = lock[l].cancelled
            /\ ok.fails < MaxFail
        BY <2>1 DEF LockFields
      <4>2. lock' = [lock EXCEPT ![l] = ok]
        BY <3>1 DEF KeepAliveOk, LeaderInv, LeaderTypeOK
      <4> QED BY <4>1, <4>2
    <3>2. CASE KeepAliveFails(l) \/ KeepAliveError(l)
      <4>1. lock' = [lock EXCEPT ![l] = Failed(lock[l])]
        BY <3>2 DEF KeepAliveFails, KeepAliveError
      <4> QED BY <4>1, <2>1, FailedFields
    <3> QED BY <1>13, <3>1, <3>2
  <2>3. LeaderTypeOK'
    BY <2>1, <2>2 DEF LeaderInv, LeaderTypeOK
  <2>4. LockInv'
    BY <2>1, <2>2 DEF LeaderInv, LeaderTypeOK, LockInv
  <2> QED BY <2>1, <2>3, <2>4 DEF LeaderInv, LeaseInv, TermInv
<1>14. ASSUME NEW l \in Lock, OnLost(l) PROVE LeaderInv'
  <2> DEFINE p == lock[l].owner
  <2>1. p \in Proc
    BY <1>14 DEF OnLost, LeaderInv, LockInv
  <2>2. lock' = [k \in Lock |-> IF k \in {l} THEN Unused ELSE AfterRevoke(p)[k]]
    BY <1>14 DEF OnLost, AfterRevoke, LeaderInv, LeaderTypeOK
  <2>3. /\ poll' \in [Proc -> {"idle", "acquire", "txn", "watch", "revoke"}]
        /\ \A q \in Proc : poll'[q] = poll[q] \/ poll'[q] = "idle"
        /\ UNCHANGED <<versionKey, mine, awaited>>
        /\ status' \in [Proc -> {"down", "boot", "up"}]
        /\ RevokeChainLeader(p)
    BY <1>14 DEF OnLost, LeaderInv, LeaderTypeOK
  <2>4. {l} \in SUBSET Lock /\ \A k \in {l} : lock[k].owner = p
    OBVIOUS
  <2> HIDE DEF p
  <2> QED BY <2>1, <2>2, <2>3, <2>4, RevokeStep
<1>15. ASSUME NEW l \in Lock, DogStops(l) PROVE LeaderInv'
  <2>1. LeaderTypeOK'
    BY <1>15, UnusedType DEF DogStops, LeaderInv, LeaderTypeOK
  <2>2. LockInv'
    BY <1>15 DEF DogStops, Unused, LeaderInv, LeaderTypeOK, LockInv
  <2> QED BY <2>1, <2>2, <1>15 DEF DogStops, LeaderInv, LeaseInv, TermInv
<1>16. ASSUME NEW l \in Lock, Expire(l) PROVE LeaderInv'
  <2>1. budget' \in [{"errors", "crashes", "changes"} -> Nat]
    BY <1>16, SpendType DEF Expire, SpendError, LeaderInv, LeaderTypeOK
  <2> QED BY <2>1, <1>16
          DEF Expire, DropLease, LeaderInv, LeaderTypeOK, LockInv, LeaseInv, TermInv
<1>17. ASSUME NEW p \in Proc, Shutdown(p) PROVE LeaderInv'
  <2> DEFINE gone == {l \in Lock : lock[l].owner = p}
  <2>1. lock' = [l \in Lock |-> IF l \in gone THEN Unused ELSE AfterRevoke(p)[l]]
    BY <1>17 DEF Shutdown
  <2>2. /\ poll' \in [Proc -> {"idle", "acquire", "txn", "watch", "revoke"}]
        /\ \A q \in Proc : poll'[q] = poll[q] \/ poll'[q] = "idle"
        /\ UNCHANGED <<versionKey, mine, awaited>>
        /\ status' \in [Proc -> {"down", "boot", "up"}]
        /\ RevokeChainLeader(p)
    BY <1>17 DEF Shutdown, LeaderInv, LeaderTypeOK
  <2>3. gone \in SUBSET Lock /\ \A l \in gone : lock[l].owner = p
    OBVIOUS
  <2> HIDE DEF gone
  <2> QED BY <2>1, <2>2, <2>3, RevokeStep
<1> QED
  BY <1>1, <1>2, <1>3, <1>4, <1>5, <1>6, <1>7, <1>8, <1>9, <1>10, <1>11, <1>12, <1>13,
     <1>14, <1>15, <1>16, <1>17
  DEF Next, Polling, WatchDog

\* The inductive invariant: types, the ownership of locks, the binding of the
\* leader key to the leader's lease, and the terms of etcdLock.
THEOREM LeaderInductive == Spec => []LeaderInv
<1>1. LeaderInv /\ [Next]_vars => LeaderInv'
  BY StepLeader
<1> QED BY <1>1, InitLeader, PTL DEF Spec

\* The fields of the locks keep their kinds, and a watchdog gives up after maxFail
\* failures in a row.
THEOREM LeaderTypes == Spec => []LeaderTypeOK
<1>1. LeaderInv => LeaderTypeOK
  BY DEF LeaderInv
<1> QED BY <1>1, LeaderInductive, PTL

\* The transaction in Acquire, Release and the expiry of leases keep two processes
\* from both holding an installed lock with a live lease.
THEOREM LeaderExclusion == Spec => []OneLiveLeader
<1>1. LeaderInv => OneLiveLeader
  <2> SUFFICES ASSUME LeaderInv, NEW p \in Proc, NEW q \in Proc,
                      etcdLock[p] \in live, etcdLock[q] \in live
               PROVE  p = q
    BY DEF OneLiveLeader
  <2>1. etcdLock[p] = etcdLock[q] /\ etcdLock[p] \in Lock
    BY DEF LeaderInv, LeaderTypeOK, LeaseInv
  <2> QED BY <2>1 DEF LeaderInv, LockInv
<1> QED BY <1>1, LeaderInductive, PTL

\* RevokeChainLeader ends the alignment together with the leadership.
THEOREM AlignedTerm == Spec => []AlignedInThisTerm
<1>1. LeaderInv => AlignedInThisTerm
  BY DEF LeaderInv, TermInv, AlignedInThisTerm
<1> QED BY <1>1, LeaderInductive, PTL

-----------------------------------------------------------------------------
(***************************************************************************)
(* ChainLeader implements LeaderTerm.                                      *)
(***************************************************************************)

\* Owner names the one process whose installed lock has a live lease.
OwnerHolds ==
    /\ \A p \in Proc : Owner = p <=> etcdLock[p] \in live
    /\ Owner = NoProc <=> \A p \in Proc : etcdLock[p] \notin live
    /\ Owner \in Proc \cup {NoProc}

\* The exclusion of live leaders makes Owner well defined.
LEMMA OwnerDefined == LeaderInv => OwnerHolds
<1> SUFFICES ASSUME LeaderInv PROVE OwnerHolds
  OBVIOUS
<1>1. ASSUME NEW p \in Proc, NEW q \in Proc, etcdLock[p] \in live, etcdLock[q] \in live
      PROVE  p = q
  <2>1. etcdLock[p] = etcdLock[q] /\ etcdLock[p] \in Lock
    BY <1>1 DEF LeaderInv, LeaderTypeOK, LeaseInv
  <2> QED BY <2>1 DEF LeaderInv, LockInv
<1>2. CASE \E p \in Proc : etcdLock[p] \in live
  <2>1. Owner = CHOOSE p \in Proc : etcdLock[p] \in live
    BY <1>2 DEF Owner
  <2>2. Owner \in Proc /\ etcdLock[Owner] \in live
    BY <1>2, <2>1
  <2> QED BY <1>1, <1>2, <2>2, LeaderAssumption DEF OwnerHolds
<1>3. CASE ~\E p \in Proc : etcdLock[p] \in live
  <2>1. Owner = NoProc
    BY <1>3 DEF Owner
  <2> QED BY <1>3, <2>1, LeaderAssumption DEF OwnerHolds
<1> QED BY <1>2, <1>3

\* A step that leaves the installed locks and the alignment alone, and brings no
\* lease of an installed lock back to life, goes on with the term or loses its lease.
LEMMA TermGoesOn ==
    ASSUME LeaderInv, LeaderInv', UNCHANGED <<etcdLock, aligned>>,
           \A q \in Proc : etcdLock[q] \in live' => etcdLock[q] \in live
    PROVE  [Term!TermNext]_(Term!termVars)
<1>0. OwnerHolds /\ OwnerHolds'
  BY OwnerDefined, PTL
<1>1. \/ Owner' = Owner
      \/ Owner # NoProc /\ Owner' = NoProc
  BY <1>0, LeaderAssumption DEF OwnerHolds
<1> QED BY <1>1 DEF Term!TermNext, Term!termVars, Term!LoseLease

\* A step that takes the lock and the alignment from p, and touches no other lease
\* of an installed lock, ends the term of p.
LEMMA TermEnds ==
    ASSUME LeaderInv, LeaderInv', NEW p \in Proc,
           etcdLock' = [etcdLock EXCEPT ![p] = NoLock],
           \A q \in Proc : aligned'[q] = (aligned[q] /\ q # p),
           \A q \in Proc \ {p} : etcdLock[q] \in live' <=> etcdLock[q] \in live
    PROVE  [Term!TermNext]_(Term!termVars)
<1>9. OwnerHolds /\ OwnerHolds'
  BY OwnerDefined, PTL
<1> DEFINE leading == {q \in Proc : etcdLock[q] # NoLock}
           alignedSet == {q \in Proc : aligned[q]}
<1>0. /\ etcdLock \in [Proc -> MaybeLock]
      /\ live' \subseteq Lock /\ live \subseteq Lock
      /\ NoLock \notin Lock
  BY LeaderAssumption DEF LeaderInv, LeaderTypeOK
<1>1. /\ etcdLock'[p] = NoLock
      /\ \A q \in Proc \ {p} : etcdLock'[q] = etcdLock[q]
  BY <1>0
<1>2. /\ {q \in Proc : etcdLock'[q] # NoLock} = leading \ {p}
      /\ {q \in Proc : aligned'[q]} = alignedSet \ {p}
  BY <1>1
<1>3. Owner' = IF Owner = p THEN NoProc ELSE Owner
  <2>1. \A q \in Proc : etcdLock'[q] \in live' <=> q # p /\ etcdLock[q] \in live
    BY <1>0, <1>1
  <2> QED BY <2>1, <1>9, LeaderAssumption DEF OwnerHolds
<1>4. CASE p \in leading
  <2>1. Term!StepDown(p)
    BY <1>2, <1>3, <1>4 DEF Term!StepDown
  <2> QED BY <2>1 DEF Term!TermNext
<1>5. CASE p \notin leading
  <2>1. p \notin alignedSet
    BY <1>5 DEF LeaderInv, TermInv
  <2>2. Owner # p
    BY <1>0, <1>5, <1>9 DEF OwnerHolds
  <2> QED BY <1>2, <1>3, <1>5, <2>1, <2>2 DEF Term!termVars
<1> QED BY <1>4, <1>5

\* RevokeChainLeader goes on with the term of nobody, or ends the one of p.
LEMMA RevokeEndsTerm ==
    ASSUME LeaderInv, LeaderInv', NEW p \in Proc, RevokeChainLeader(p)
    PROVE  [Term!TermNext]_(Term!termVars)
<1>1. CASE etcdLock[p] = NoLock
  BY <1>1, TermGoesOn DEF RevokeChainLeader, etcdVars, termVars
<1>2. CASE etcdLock[p] # NoLock
  <2>1. EndTerm(p) /\ ReleaseLease(etcdLock[p])
    BY <1>2 DEF RevokeChainLeader
  <2>2. \A q \in Proc \ {p} : etcdLock[q] # etcdLock[p] \/ etcdLock[q] \notin Lock
    BY <1>2 DEF LeaderInv, LeaderTypeOK, LockInv, MaybeLock
  <2>3. \A q \in Proc \ {p} : etcdLock[q] \in live' <=> etcdLock[q] \in live
    BY <2>1, <2>2 DEF ReleaseLease, DropLease, etcdVars, LeaderInv, LeaderTypeOK
  <2>4. /\ etcdLock' = [etcdLock EXCEPT ![p] = NoLock]
        /\ \A q \in Proc : aligned'[q] = (aligned[q] /\ q # p)
    BY <2>1 DEF EndTerm, LeaderInv, LeaderTypeOK
  <2> QED BY <2>3, <2>4, TermEnds
<1> QED BY <1>1, <1>2

\* Every step of the protocol is a step of LeaderTerm or leaves it alone.
LEMMA TermStep ==
    ASSUME LeaderInv, LeaderInv', [Next]_vars
    PROVE  [Term!TermNext]_(Term!termVars)
<1> USE DEF etcdVars, pollVars, termVars
<1>1. CASE UNCHANGED vars
  BY <1>1, TermGoesOn DEF vars
<1>2. CASE SetVersion
  BY <1>2, TermGoesOn DEF SetVersion
<1>3. ASSUME NEW p \in Proc,
             \/ Boot(p) \/ ReadVersion(p) \/ ReadFails(p) \/ GrantFails(p)
             \/ Taken(p) \/ WatchEvent(p)
      PROVE  [Term!TermNext]_(Term!termVars)
  <2>1. UNCHANGED <<etcdLock, aligned, live>>
    BY <1>3 DEF Boot, ReadVersion, ReadFails, GrantFails, GiveUp, Taken, WatchEvent
  <2> QED BY <2>1, TermGoesOn
<1>4. ASSUME NEW p \in Proc, Grant(p) PROVE [Term!TermNext]_(Term!termVars)
  <2> DEFINE l == CHOOSE l \in Free : TRUE
  <2>1. l \in Lock /\ lock[l].owner = NoProc
    <3>1. l \in Free
      BY <1>4 DEF Grant
    <3> QED BY <3>1 DEF Free
  <2>2. live' = live \cup {l} /\ UNCHANGED <<etcdLock, aligned>>
    BY <1>4 DEF Grant
  <2> HIDE DEF l
  <2>3. \A q \in Proc : etcdLock[q] # l
    BY <2>1, LeaderAssumption DEF LeaderInv, LockInv
  <2> QED BY <2>2, <2>3, TermGoesOn
<1>5. ASSUME NEW p \in Proc, Refused(p) \/ TxnFails(p)
      PROVE  [Term!TermNext]_(Term!termVars)
  <2>1. UNCHANGED <<etcdLock, aligned>> /\ live' \subseteq live
    BY <1>5 DEF Refused, TxnFails, GiveUp, ReleaseLease, DropLease
  <2> QED BY <2>1, TermGoesOn
<1>6. ASSUME NEW p \in Proc, Acquired(p) PROVE [Term!TermNext]_(Term!termVars)
  <2>0. OwnerHolds /\ OwnerHolds'
    BY OwnerDefined, PTL
  <2>1. /\ mine[p] \in Lock /\ etcdLock[p] = NoLock /\ leaderKey = NoLock
        /\ ~aligned[p]
    BY <1>6 DEF Acquired, MayLead, LeaderInv, LeaderTypeOK, LockInv, TermInv, MaybeLock
  <2>2. /\ etcdLock' = [etcdLock EXCEPT ![p] = mine[p]]
        /\ mine[p] \in live' /\ UNCHANGED aligned
        /\ etcdLock \in [Proc -> MaybeLock]
    BY <1>6 DEF Acquired, LeaderInv, LeaderTypeOK
  <2>3. Owner = NoProc
    BY <2>0, <2>1, LeaderAssumption DEF OwnerHolds, LeaderInv, LeaderTypeOK, LeaseInv
  <2>4. Owner' = p
    BY <2>0, <2>2 DEF OwnerHolds
  <2>5. {q \in Proc : etcdLock'[q] # NoLock} = {q \in Proc : etcdLock[q] # NoLock} \cup {p}
    BY <2>1, <2>2, LeaderAssumption
  <2>6. Term!TakeOver(p)
    BY <2>1, <2>2, <2>3, <2>4, <2>5 DEF Term!TakeOver
  <2> QED BY <2>6 DEF Term!TermNext
<1>7. ASSUME NEW p \in Proc, ProcessNotice(p) PROVE [Term!TermNext]_(Term!termVars)
  <2>0. OwnerHolds /\ OwnerHolds'
    BY OwnerDefined, PTL
  <2>1. /\ UNCHANGED <<etcdLock, live>>
        /\ etcdLock[p] # NoLock /\ ~aligned[p]
        /\ aligned' = [aligned EXCEPT ![p] = TRUE]
        /\ aligned \in [Proc -> BOOLEAN]
    BY <1>7 DEF ProcessNotice, LeaderInv, LeaderTypeOK
  <2>2. Owner' = Owner
    BY <2>0, <2>1, LeaderAssumption DEF OwnerHolds
  <2>3. {q \in Proc : aligned'[q]} = {q \in Proc : aligned[q]} \cup {p}
    BY <2>1
  <2>4. Term!BecomeAligned(p)
    BY <2>1, <2>2, <2>3 DEF Term!BecomeAligned
  <2> QED BY <2>4 DEF Term!TermNext
<1>8. ASSUME NEW p \in Proc, Crash(p) PROVE [Term!TermNext]_(Term!termVars)
  <2>1. /\ etcdLock' = [etcdLock EXCEPT ![p] = NoLock]
        /\ \A q \in Proc : aligned'[q] = (aligned[q] /\ q # p)
        /\ live' = live
    BY <1>8 DEF Crash, LeaderInv, LeaderTypeOK
  <2> QED BY <2>1, TermEnds
<1>9. ASSUME NEW p \in Proc, PollRevoke(p) \/ Shutdown(p)
      PROVE  [Term!TermNext]_(Term!termVars)
  BY <1>9, RevokeEndsTerm DEF PollRevoke, Shutdown
<1>10. ASSUME NEW l \in Lock, OnLost(l) PROVE [Term!TermNext]_(Term!termVars)
  <2>1. lock[l].owner \in Proc
    BY <1>10 DEF OnLost, LeaderInv, LockInv
  <2> QED BY <2>1, <1>10, RevokeEndsTerm DEF OnLost
<1>11. ASSUME NEW l \in Lock,
              \/ KeepAliveOk(l) \/ KeepAliveFails(l) \/ KeepAliveError(l)
              \/ DogStops(l) \/ Expire(l)
       PROVE  [Term!TermNext]_(Term!termVars)
  <2>1. UNCHANGED <<etcdLock, aligned>> /\ live' \subseteq live
    BY <1>11 DEF KeepAliveOk, KeepAliveFails, KeepAliveError, DogStops, Expire, DropLease
  <2> QED BY <2>1, TermGoesOn
<1> QED
  BY <1>1, <1>2, <1>3, <1>4, <1>5, <1>6, <1>7, <1>8, <1>9, <1>10, <1>11
  DEF Next, Polling, WatchDog

\* The etcd protocol implements LeaderTerm: whatever polls, watchdogs, expiries,
\* failed calls and crashes do, a term begins unaligned and only when no other
\* holder's lease is good, and its alignment ends with it.
THEOREM LeaderRefinesTerm == Spec => KeepsTerms
<1>1. Init => Term!TermInit
  BY DEF Init, Term!TermInit, Owner
<1>2. LeaderInv /\ LeaderInv' /\ [Next]_vars => [Term!TermNext]_(Term!termVars)
  BY TermStep
<1> QED BY <1>1, <1>2, LeaderInductive, PTL DEF Spec, KeepsTerms, Term!TermSpec
=============================================================================
