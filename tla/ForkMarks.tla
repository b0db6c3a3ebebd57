----------------------------- MODULE ForkMarks -----------------------------
(***************************************************************************)
(* The fork marks in S3: every block has a validation object whose IsFork  *)
(* must agree with the canonical chain.  processNotice marks the objects   *)
(* of the heights it changes, from a listing it prefetched while it waited *)
(* for the replicas; the window scan revisits the latest heights at its    *)
(* own pace.  Blocks are uploaded by others at any time.                   *)
(*                                                                         *)
(* processNotice holds Checker.Mutex throughout; the scan holds it only to *)
(* read the index and around each PUT.  The outer stream is one step here  *)
(* (Checker has its entries one by one).                                   *)
(***************************************************************************)
EXTENDS BlockTree

CONSTANTS
    Root,        \* the block that is published when the model starts
    Lookback,    \* fork_scan_lookback
    MaxNotices,  \* bound on inner notices
    MaxNew,      \* bound on len(NewBlocks)
    MaxDrop,     \* bound on len(DropBlocks)
    MaxFaults    \* bound on failed requests and steps, PUTs of the scan that time
                 \* out, and crashes, together

ASSUME ForkMarksAssumption ==
    /\ Root \in Block
    /\ Lookback \in Nat \ {0}
    /\ MaxNotices \in Nat /\ MaxNew \in Nat /\ MaxDrop \in Nat
    /\ MaxFaults \in Nat

VARIABLES
    \* S3
    mark,     \* IsFork of each validation object
    late,     \* PUTs that timed out and may still take effect
    \* Pebble and the outer topic
    canon,    \* the number -> hash index
    latest,   \* the published head
    \* processNotice
    pc,       \* where it is
    todo,     \* the notice it works on
    asked,    \* the prefetch requests that have not returned
    keys,     \* blockPrefetch.keys of each height
    val,      \* blockPrefetch.validation.IsFork of each height
    at,       \* the height rewriteForkBlocksAtSameHeight is at
    attempt,  \* and its attempt
    \* the window scan
    spc,      \* where it is
    tip,      \* the head it goes up to
    sh,       \* the height it is at
    hash,     \* the canonical hash it read there
    unread,   \* objects listed and not read yet
    plan,     \* objects to rewrite
    \* history
    known,    \* objects of the notice's heights that the marks must cover
    hit,      \* a late PUT took effect since the notice was begun
    notices,  \* how many notices have come
    faults    \* how many faults there have been

s3Vars == <<mark, late>>
hintVars == <<asked, keys, val>>
mainVars == <<pc, todo, hintVars, at, attempt>>
scanVars == <<spc, tip, sh, hash, unread, plan>>
budget == <<notices, faults>>
vars == <<s3Vars, canon, latest, mainVars, scanVars, known, hit, budget>>

NoWork == [old |-> NoBlock, tail |-> NoBlock, first |-> 1]

\* blockPrefetch.keys when keysErr is set.
ListFailed == {NoBlock}

\* Every variable holds a value of its kind, and only existing objects are listed,
\* planned for, or known.
TypeOK ==
    /\ mark \in [Block -> {"absent", "main", "fork"}]
    /\ late \subseteq Block \X {"main", "fork"}
    /\ canon \in [Heights -> MaybeBlock]
    /\ latest \in Block
    /\ pc \in {"fetch", "process", "replicas", "drop", "write", "mark", "publish",
               "align", "recheck"}
    /\ todo \in Notice \cup {NoWork}
    /\ asked \subseteq {"list", "get"} \X Heights
    /\ keys \in [Heights -> (SUBSET Block) \cup {ListFailed}]
    /\ val \in [Heights -> {"none", "main", "fork"}]
    /\ at \in Heights
    /\ attempt \in 0 .. 2
    /\ spc \in {"idle", "read", "list", "get", "put"}
    /\ tip \in 0 .. MaxHeight
    /\ sh \in Heights
    /\ hash \in MaybeBlock
    /\ hit \in BOOLEAN
    /\ notices \in 0 .. MaxNotices /\ faults \in 0 .. MaxFaults
    /\ \A b \in unread \cup plan \cup known : b \in Block /\ mark[b] # "absent"
    /\ \A h \in Heights : \A b \in keys[h] : b # NoBlock => mark[b] # "absent"

NoKeys == [h \in Heights |-> {}]
NoValues == [h \in Heights |-> "none"]

Init ==
    /\ mark = [b \in Block |-> IF b = Root THEN "main" ELSE "absent"]
    /\ late = {}
    /\ canon = [h \in Heights |-> Anc[Root][h]]
    /\ latest = Root
    /\ pc = "fetch" /\ todo = NoWork
    /\ asked = {} /\ keys = NoKeys /\ val = NoValues
    /\ at = 1 /\ attempt = 0
    /\ spc = "idle" /\ tip = 0 /\ sh = 1 /\ hash = NoBlock
    /\ unread = {} /\ plan = {}
    /\ known = {} /\ hit = FALSE
    /\ notices = 0 /\ faults = 0

Fault ==
    /\ faults < MaxFaults
    /\ faults' = faults + 1
    /\ UNCHANGED notices

Locked == pc \notin {"fetch", "process"}

\* listBlockValidationKeys
List(h) == {b \in Block : Height[b] = h /\ mark[b] # "absent"}

\* The mark an object of height h should have when c is canonical there.
Proper(b, c) == IF b = c THEN "main" ELSE "fork"

-----------------------------------------------------------------------------
(***************************************************************************)
(* The environment: uploads, and PUTs that arrive late.                    *)
(***************************************************************************)
Upload(b) ==
    /\ mark[b] = "absent"
    /\ mark' = [mark EXCEPT ![b] = "main"]
    /\ UNCHANGED <<late, canon, latest, mainVars, scanVars, known, hit, budget>>

LandLate(b, to) ==
    /\ <<b, to>> \in late
    /\ late' = late \ {<<b, to>>}
    /\ mark' = [mark EXCEPT ![b] = to]
    /\ hit' = TRUE
    /\ UNCHANGED <<canon, latest, mainVars, scanVars, known, budget>>

-----------------------------------------------------------------------------
(***************************************************************************)
(* processNotice.                                                          *)
(***************************************************************************)
NewHeights == todo.first .. Height[todo.tail]

Canonical(h) == Anc[todo.tail][h]

Receive ==
    /\ pc = "fetch"
    /\ notices < MaxNotices
    /\ notices' = notices + 1
    /\ \E t \in Block, f \in Heights :
          LET n == [old |-> latest, tail |-> t, first |-> f]
          IN  /\ WellFormed(n)
              /\ NewCount(n) <= MaxNew
              /\ DropCount(n) <= MaxDrop
              /\ todo' = n
    /\ pc' = "process"
    /\ known' = {}
    /\ UNCHANGED <<s3Vars, canon, latest, hintVars, at, attempt, scanVars, hit,
                   faults>>

\* prefetchNewBlocks sends two requests for every new block.
Begin ==
    /\ pc = "process"
    /\ latest # todo.tail
    /\ asked' = {"list", "get"} \X NewHeights
    /\ keys' = NoKeys /\ val' = NoValues
    /\ known' = UNION {List(h) : h \in NewHeights}
    /\ hit' = FALSE
    /\ pc' = "replicas"
    /\ UNCHANGED <<s3Vars, canon, latest, todo, at, attempt, scanVars, budget>>

\* isAlreadyProcessed: neither the marks nor the recheck come again.
BeginProcessed ==
    /\ pc = "process"
    /\ latest = todo.tail
    /\ pc' = "fetch"
    /\ known' = {}
    /\ UNCHANGED <<s3Vars, canon, latest, todo, hintVars, at, attempt, scanVars, hit,
                   budget>>

\* One request returns.  A missing object is an error once the retries are
\* exhausted.
PrefetchList(h) ==
    /\ <<"list", h>> \in asked
    /\ asked' = asked \ {<<"list", h>>}
    /\ \/ keys' = [keys EXCEPT ![h] = List(h)] /\ UNCHANGED budget
       \/ keys' = [keys EXCEPT ![h] = ListFailed] /\ Fault
    /\ UNCHANGED <<s3Vars, canon, latest, pc, todo, val, at, attempt, scanVars, known,
                   hit>>

PrefetchGet(h) ==
    /\ <<"get", h>> \in asked
    /\ asked' = asked \ {<<"get", h>>}
    /\ val' = [val EXCEPT ![h] = IF mark[Canonical(h)] = "absent" THEN "none"
                                 ELSE mark[Canonical(h)]]
    /\ UNCHANGED <<s3Vars, canon, latest, pc, todo, keys, at, attempt, scanVars, known,
                   hit, budget>>

\* checkAndNotify returned true and prefetched.wait() returned.
ReplicasReady ==
    /\ pc = "replicas"
    /\ asked = {}
    /\ pc' = "drop"
    /\ UNCHANGED <<s3Vars, canon, latest, todo, hintVars, at, attempt, scanVars, known,
                   hit, budget>>

Dropped == {Anc[todo.old][h] : h \in todo.first .. Height[todo.old]}

\* rewriteDropBlocks: what cannot be read or written is passed over.
RewriteDropBlocks ==
    /\ pc = "drop"
    /\ \E done \in SUBSET Dropped :
          /\ mark' = [b \in Block |->
                        IF b \in done /\ mark[b] # "absent" THEN "fork" ELSE mark[b]]
          /\ IF done = Dropped THEN UNCHANGED budget ELSE Fault
    /\ pc' = "write"
    /\ UNCHANGED <<late, canon, latest, todo, hintVars, at, attempt, scanVars, known,
                   hit>>

\* writeBlockInfoToDB, with the validations of the prefetch.
WriteDB ==
    /\ pc = "write"
    /\ \A h \in NewHeights : val[h] # "none"
    /\ canon' = [h \in Heights |-> CASE h \in NewHeights -> Canonical(h)
                                     [] h > Height[todo.tail] -> NoBlock
                                     [] OTHER -> canon[h]]
    /\ at' = todo.first /\ attempt' = 0
    /\ pc' = "mark"
    /\ UNCHANGED <<s3Vars, latest, todo, hintVars, scanVars, known, hit, budget>>

WriteDBRefused ==
    /\ pc = "write"
    /\ \E h \in NewHeights : val[h] = "none"
    /\ pc' = "process"
    /\ UNCHANGED <<s3Vars, canon, latest, todo, hintVars, at, attempt, scanVars, known,
                   hit, budget>>

\* A slip the runs must catch: the recheck does not list again.
KeysNotFresh ==
    IF attempt = 0 /\ Canonical(at) \in keys[at] THEN keys[at] ELSE List(at)

\* planForkRewrites: the prefetched listing serves the first attempt before
\* publication, if it has the canonical object.
Keys ==
    IF pc = "mark" /\ attempt = 0 /\ Canonical(at) \in keys[at] THEN keys[at]
    ELSE List(at)

\* The validation of the canonical object is the prefetched one in the first
\* attempt, before publication unless the listing failed, and after it.
SeenMark(b) ==
    IF b = Canonical(at) /\ attempt = 0 /\ (pc = "mark" => keys[at] # ListFailed)
    THEN val[at] ELSE mark[b]

Rewrites == {b \in Keys : SeenMark(b) # Proper(b, Canonical(at))}

Rewritten(bs) ==
    mark' = [b \in Block |-> IF b \in bs THEN Proper(b, Canonical(at)) ELSE mark[b]]

Marking == pc \in {"mark", "recheck"}

\* rewriteForkBlocksAtHeight finds nothing to do: on to the next new block, to
\* publication, or to the end.
HeightConverged ==
    /\ Marking
    /\ Canonical(at) \in Keys
    /\ Rewrites = {}
    /\ attempt' = 0
    /\ IF at < Height[todo.tail] THEN at' = at + 1 /\ UNCHANGED pc
       ELSE /\ at' = todo.first
            /\ pc' = IF pc = "mark" THEN "publish" ELSE "fetch"
    /\ UNCHANGED <<s3Vars, canon, latest, todo, hintVars, scanVars, known, hit, budget>>

\* It rewrites and is called again.
RewriteHeight ==
    /\ Marking
    /\ Canonical(at) \in Keys
    /\ Rewrites # {} /\ attempt < 2
    /\ Rewritten(Rewrites)
    /\ attempt' = attempt + 1
    /\ UNCHANGED <<late, canon, latest, pc, todo, hintVars, at, scanVars, known, hit,
                   budget>>

\* It fails: the canonical object is missing, there is still something to rewrite
\* in the third attempt, or a request fails half way.  The recheck only logs it.
RewriteFails ==
    /\ Marking
    /\ \/ Canonical(at) \notin Keys /\ UNCHANGED <<mark, budget>>
       \/ /\ Canonical(at) \in Keys
          /\ Rewrites # {} /\ attempt = 2
          /\ Rewritten(Rewrites)
          /\ UNCHANGED budget
       \/ /\ Fault
          /\ \E done \in SUBSET Rewrites : Rewritten(done)
    /\ pc' = IF pc = "mark" THEN "process" ELSE "fetch"
    /\ known' = {}
    /\ at' = 1 /\ attempt' = 0
    /\ UNCHANGED <<late, canon, latest, todo, hintVars, scanVars, hit>>

\* WriteDropBlockNotice and WriteNewBlockNotice.
Publish ==
    /\ pc = "publish"
    /\ latest' = todo.tail
    /\ pc' = "align"
    /\ UNCHANGED <<s3Vars, canon, todo, hintVars, at, attempt, scanVars, known, hit,
                   budget>>

\* AlignOuterSingleton and finishForkScan.  The recheck answers for every object
\* that exists when it begins.
Align ==
    /\ pc = "align"
    /\ pc' = "recheck"
    /\ known' = UNION {List(h) : h \in NewHeights}
    /\ UNCHANGED <<s3Vars, canon, latest, todo, hintVars, at, attempt, scanVars, hit,
                   budget>>

\* Another step of processNotice fails and Run calls it again.
StepFails ==
    /\ pc \in {"replicas", "write", "publish", "align"}
    /\ Fault
    /\ pc' = "process"
    /\ asked' = {} /\ keys' = NoKeys /\ val' = NoValues
    /\ at' = 1 /\ attempt' = 0
    /\ known' = {}
    /\ UNCHANGED <<s3Vars, canon, latest, todo, scanVars, hit>>

\* The process dies and comes back with the message uncommitted.
Crash ==
    /\ Locked
    /\ Fault
    /\ pc' = "process"
    /\ asked' = {} /\ keys' = NoKeys /\ val' = NoValues
    /\ at' = 1 /\ attempt' = 0
    /\ spc' = "idle" /\ tip' = 0 /\ sh' = 1 /\ hash' = NoBlock
    /\ unread' = {} /\ plan' = {}
    /\ known' = {}
    /\ UNCHANGED <<s3Vars, canon, latest, todo, hit>>

-----------------------------------------------------------------------------
(***************************************************************************)
(* scanRecentForkBlocks.                                                   *)
(***************************************************************************)
ScanFrame == UNCHANGED <<canon, latest, mainVars, known>>

\* A slip the runs must catch: the window is one height short.
WindowStartsLate ==
    IF Height[latest] >= Lookback THEN Height[latest] - Lookback + 2 ELSE 1

WindowStart ==
    IF Height[latest] >= Lookback THEN Height[latest] - Lookback + 1 ELSE 1

\* The heights from the window's start to the head it saw.
ScanStart ==
    /\ spc = "idle"
    /\ ~Locked
    /\ tip' = Height[latest]
    /\ sh' = WindowStart
    /\ spc' = "read"
    /\ UNCHANGED <<s3Vars, hash, unread, plan, hit, budget>>
    /\ ScanFrame

\* A slip the runs must catch: the loop runs past the head.
NextHeightPast ==
    /\ IF sh <= tip THEN sh' = sh + 1 /\ spc' = "read" /\ UNCHANGED tip
                    ELSE sh' = 1 /\ spc' = "idle" /\ tip' = 0
    /\ hash' = NoBlock
    /\ unread' = {} /\ plan' = {}

\* The loop goes on whether or not the height was scanned.
NextHeight ==
    /\ IF sh < tip THEN sh' = sh + 1 /\ spc' = "read" /\ UNCHANGED tip
                   ELSE sh' = 1 /\ spc' = "idle" /\ tip' = 0
    /\ hash' = NoBlock
    /\ unread' = {} /\ plan' = {}

\* canonicalForScan, under the mutex.
CanonicalForScan(h) == IF h > Height[latest] THEN NoBlock ELSE canon[h]

ScanRead ==
    /\ spc = "read"
    /\ ~Locked
    /\ IF CanonicalForScan(sh) = NoBlock THEN NextHeight
       ELSE /\ hash' = CanonicalForScan(sh)
            /\ spc' = "list"
            /\ UNCHANGED <<tip, sh, unread, plan>>
    /\ UNCHANGED <<s3Vars, hit, budget>>
    /\ ScanFrame

\* planForkRewritesCtx without a hint, and without the mutex.
ScanList ==
    /\ spc = "list"
    /\ IF hash \in List(sh)
       THEN unread' = List(sh) /\ spc' = "get" /\ UNCHANGED <<tip, sh, hash, plan>>
       ELSE NextHeight
    /\ UNCHANGED <<s3Vars, hit, budget>>
    /\ ScanFrame

ScanGet(b) ==
    /\ spc = "get"
    /\ b \in unread
    /\ unread' = unread \ {b}
    /\ plan' = IF mark[b] # Proper(b, hash) THEN plan \cup {b} ELSE plan
    /\ spc' = IF unread' = {} THEN "put" ELSE "get"
    /\ UNCHANGED <<tip, sh, hash, s3Vars, hit, budget>>
    /\ ScanFrame

\* A slip the runs must catch: the plan is trusted.
Trusted == TRUE

\* verify
Verified == CanonicalForScan(sh) = hash

ScanPut(b) ==
    /\ spc = "put"
    /\ b \in plan
    /\ ~Locked /\ Verified
    /\ mark' = [mark EXCEPT ![b] = Proper(b, hash)]
    /\ plan' = plan \ {b}
    /\ UNCHANGED <<late, spc, tip, sh, hash, unread, hit, budget>>
    /\ ScanFrame

\* The PUT runs into forkScanWriteTimeout, with the request still on its way.
ScanPutTimeout(b) ==
    /\ spc = "put"
    /\ b \in plan
    /\ ~Locked /\ Verified
    /\ Fault
    /\ late' = late \cup {<<b, Proper(b, hash)>>}
    /\ NextHeight
    /\ UNCHANGED <<mark, hit>>
    /\ ScanFrame

\* Nothing left to do at this height, or its plan is stale.
ScanHeightEnds ==
    /\ spc = "put"
    /\ \/ plan = {}
       \/ ~Locked /\ ~Verified
    /\ NextHeight
    /\ UNCHANGED <<s3Vars, hit, budget>>
    /\ ScanFrame

\* A request fails, or forkScanHeightTimeout runs out.
ScanGivesUp ==
    /\ spc \in {"list", "get", "put"}
    /\ Fault
    /\ NextHeight
    /\ UNCHANGED <<s3Vars, hit>>
    /\ ScanFrame

-----------------------------------------------------------------------------
Main ==
    \/ Begin \/ BeginProcessed
    \/ \E h \in Heights : PrefetchList(h) \/ PrefetchGet(h)
    \/ ReplicasReady \/ RewriteDropBlocks \/ WriteDB \/ WriteDBRefused
    \/ HeightConverged \/ RewriteHeight \/ RewriteFails
    \/ Publish \/ Align

Scan ==
    \/ ScanStart \/ ScanRead \/ ScanList
    \/ \E b \in Block : ScanGet(b) \/ ScanPut(b)
    \/ ScanHeightEnds

Landing == \E p \in late : LandLate(p[1], p[2])

Next ==
    \/ \E b \in Block : Upload(b) \/ ScanPutTimeout(b)
    \/ Landing
    \/ Receive \/ Main \/ StepFails \/ Crash
    \/ Scan \/ ScanGivesUp

Spec == Init /\ [][Next]_vars

\* Run and the scan go on, the mutex being free again and again; the block of a
\* notice is uploaded and a late PUT arrives, or fails for good, some time.
FairSpec ==
    /\ Spec
    /\ WF_vars(Main)
    /\ SF_vars(Scan)
    /\ WF_vars(Landing)
    /\ \A b \in Block : WF_vars(Upload(b))

-----------------------------------------------------------------------------
\* What processNotice publishes is marked first: at every height of the notice
\* the new block counts as canonical, and every rival that was in S3 when the
\* notice was begun as a fork; after a recheck without error, every rival that
\* was there when the recheck began.  Only a PUT of the scan that lands late can
\* spoil it.
KnownRightlyMarked ==
    pc \in {"publish", "fetch"} /\ ~hit =>
        \A b \in known : mark[b] = Proper(b, Anc[todo.tail][Height[b]])

\* A PUT of the scan, however old its plan, agrees with the canonical index of
\* the moment it is sent.
ScanPutsAgree ==
    [][spc = "put" /\ spc' = "put" /\ plan' # plan =>
          \A b \in plan \ plan' : mark'[b] = Proper(b, canon[Height[b]])]_vars

\* The heights of the window.
Window == {h \in Heights : Height[latest] - Lookback < h /\ h <= Height[latest]}

\* Whatever failed, crashed, was uploaded late or landed late on the way, the
\* marks of the window end up as the canonical index has them.
MarksSettle ==
    <>[](\A h \in Window : \A b \in List(h) : mark[b] = Proper(b, canon[h]))
=============================================================================
