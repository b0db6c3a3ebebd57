---------------------------- MODULE LeaderTerm ----------------------------
(***************************************************************************)
(* What chain leadership promises the rest of a checker, without etcd.     *)
(* A process that leads believes it may write to the singleton topic; the  *)
(* owner is the one whose lease is still good.  A term begins unaligned,   *)
(* only when nobody owns the chain, and the alignment made in it ends with *)
(* it.  A lease can run out before its holder hears of it, which is why a  *)
(* process may lead without being the owner.                               *)
(***************************************************************************)
CONSTANTS
    Proc,    \* checker processes of one chain
    NoProc   \* nobody owns the chain

VARIABLES
    owner,   \* the process whose installed lock has a live lease
    leads,   \* the processes whose etcdLock is not nil
    aligned  \* the processes whose isOuterSingletonAlign is true

termVars == <<owner, leads, aligned>>

TermInit ==
    /\ owner = NoProc
    /\ leads = {}
    /\ aligned = {}

\* ChangeToChainLeader returned true.
TakeOver(p) ==
    /\ owner = NoProc
    /\ p \notin leads
    /\ p \notin aligned
    /\ owner' = p
    /\ leads' = leads \cup {p}
    /\ UNCHANGED aligned

\* The lease runs out; the process still leads.
LoseLease ==
    /\ owner # NoProc
    /\ owner' = NoProc
    /\ UNCHANGED <<leads, aligned>>

\* A slip the runs must catch: the alignment outlives the leadership.
StepDownKeepsAlign(p) ==
    /\ p \in leads
    /\ owner' = IF owner = p THEN NoProc ELSE owner
    /\ leads' = leads \ {p}
    /\ UNCHANGED aligned

\* RevokeChainLeader, or the end of the process.
StepDown(p) ==
    /\ p \in leads
    /\ owner' = IF owner = p THEN NoProc ELSE owner
    /\ leads' = leads \ {p}
    /\ aligned' = aligned \ {p}

\* AlignOuterSingleton succeeded.
BecomeAligned(p) ==
    /\ p \in leads \ aligned
    /\ aligned' = aligned \cup {p}
    /\ UNCHANGED <<owner, leads>>

TermNext ==
    \/ LoseLease
    \/ \E p \in Proc : TakeOver(p) \/ StepDown(p) \/ BecomeAligned(p)

TermSpec == TermInit /\ [][TermNext]_termVars
=============================================================================
