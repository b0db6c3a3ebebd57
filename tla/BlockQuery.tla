---------------------------- MODULE BlockQuery -----------------------------
(***************************************************************************)
(* The JSON-RPC queries of the checker beside its main flow.  A query reads *)
(* the consistency DB without Checker.Mutex and without a snapshot: the    *)
(* record of a block and the number index are read one after the other,    *)
(* and WriteBlockInfos may commit in between.  One call at any moment      *)
(* stands for all: calls do not affect each other.                         *)
(***************************************************************************)
EXTENDS Checker

VARIABLES
    recs,      \* the hash -> BlockInfo records
    cdbLatest, \* ConsistencyDB.latest
    call,      \* the query
    qpc,       \* the read it is at
    block0,    \* the block blockIsValid has looked up first
    target,    \* the block whose record is read
    answer,    \* what the client gets
    moments    \* history: index and records at every moment of the call

queryVars == <<call, qpc, block0, target, answer>>
allVars == <<vars, recs, cdbLatest, queryVars, moments>>

Methods == {"getLatestBlock", "getBlockByHeight", "getBlockById", "blockIsValid"}

\* A height serves getBlockByHeight, a block getBlockById and blockIsValid.
Calls == [method : Methods, block : MaybeBlock, height : 0 .. MaxHeight]

NoCall == [method |-> "getLatestBlock", block |-> NoBlock, height |-> 0]

\* BlockInfo: the validation hash never changes with the block and is left out.
Info(b, isFork) == [kind |-> "block", id |-> b, isFork |-> isFork]
Valid(yes) == [kind |-> "valid", id |-> NoBlock, isFork |-> ~yes]
NotFound == [kind |-> "error", id |-> NoBlock, isFork |-> FALSE]
NoAnswer == [kind |-> "none", id |-> NoBlock, isFork |-> FALSE]

\* A query is at a read of its method, every block of the index has a record, and
\* an answer names only a block that had one during the call.
QueryTypeOK ==
    /\ recs \subseteq Block
    /\ cdbLatest \in recs \cup {NoBlock}
    /\ call \in Calls
    /\ qpc \in {"idle", "latest", "number", "record", "canonical", "done"}
    /\ block0 \in MaybeBlock /\ target \in MaybeBlock
    /\ qpc \in {"record", "canonical"} => target \in Block
    /\ \A h \in Heights : canon[h] \in recs \cup {NoBlock}
    /\ qpc = "done" => answer.id = NoBlock \/ \E m \in moments : answer.id \in m.recs

QueryInit ==
    /\ Init
    /\ recs = {} /\ cdbLatest = NoBlock
    /\ call = NoCall /\ qpc = "idle"
    /\ block0 = NoBlock /\ target = NoBlock /\ answer = NoAnswer
    /\ moments = {}

-----------------------------------------------------------------------------
(***************************************************************************)
(* The checker.                                                            *)
(***************************************************************************)
Writes == pc = "write" /\ pc' = "mark"

Rebuilds == budget'.rebuilds # budget.rebuilds

Moment == [canon |-> canon, recs |-> recs]

\* A call in progress lives through this state too.
Witness == moments' = IF qpc \in {"idle", "done"} THEN moments
                      ELSE moments \cup {Moment'}

\* WriteBlockInfos sets the records in the batch that sets the index, and latest
\* before it releases ConsistencyDB's lock.  A crash loses latest and the call.
CheckerStep ==
    /\ Next
    /\ recs' = IF Rebuilds THEN {}
               ELSE IF Writes
               THEN recs \cup {Anc[Msg.tail][h] : h \in Msg.first .. Height[Msg.tail]}
               ELSE recs
    /\ cdbLatest' = IF pc' = "down" THEN NoBlock
                    ELSE IF Writes THEN Msg.tail ELSE cdbLatest
    /\ IF pc' = "down" /\ pc # "down" /\ qpc # "done"
       THEN /\ call' = NoCall /\ qpc' = "idle"
            /\ block0' = NoBlock /\ target' = NoBlock
            /\ moments' = {}
            /\ UNCHANGED answer
       ELSE UNCHANGED queryVars /\ Witness

-----------------------------------------------------------------------------
(***************************************************************************)
(* The handlers.                                                           *)
(***************************************************************************)
Query(A) == A /\ UNCHANGED <<vars, recs, cdbLatest>>

Ask(c, at) ==
    /\ qpc = "idle"
    /\ pc # "down"
    /\ call' = c
    /\ qpc' = at
    /\ target' = c.block
    /\ moments' = {Moment}
    /\ UNCHANGED <<block0, answer>>

\* index: the handler of each method, up to its first read.
AskLatest == Ask(NoCall, "latest")

AskByHeight ==
    \E h \in Heights :
        Ask([method |-> "getBlockByHeight", block |-> NoBlock, height |-> h], "number")

AskByBlock ==
    \E b \in Block, m \in {"getBlockById", "blockIsValid"} :
        Ask([method |-> m, block |-> b, height |-> Height[b]], "record")

Answer(a) == answer' = a /\ qpc' = "done" /\ UNCHANGED <<call, block0, target, moments>>

Go(at, b) ==
    /\ qpc' = at
    /\ target' = b
    /\ UNCHANGED <<call, answer, moments>>

\* GetLatestBlockInfo, under ConsistencyDB's lock.
ReadLatest ==
    /\ qpc = "latest"
    /\ Answer(IF cdbLatest = NoBlock THEN NoAnswer ELSE Info(cdbLatest, FALSE))

\* A slip the runs must catch: a height without a mapping is looked up all the same.
ReadNumberUnchecked ==
    /\ qpc = "number"
    /\ Go("record", canon[call.height]) /\ UNCHANGED block0

\* GetBlockInfoByNum: number to hash.
ReadNumber ==
    /\ qpc = "number"
    /\ IF canon[call.height] = NoBlock THEN Answer(NotFound)
       ELSE Go("record", canon[call.height]) /\ UNCHANGED block0

\* GetBlockInfoByHash: the record of the block.
ReadRecord ==
    /\ qpc = "record"
    /\ IF target \notin recs THEN Answer(NotFound)
       ELSE Go("canonical", target) /\ UNCHANGED block0

\* A slip the runs must catch: a height without a mapping makes no fork.
ForkIfReplaced(b) == canon[Height[b]] \notin {b, NoBlock}

\* GetBlockInfoByHash: is another block, or none, canonical at its height?
IsFork(b) == canon[Height[b]] # b

\* GetBlockInfoByHash returns.  handleBlockIsValid goes on with the height of its
\* first answer and compares the two blocks.
ReadCanonicalHash ==
    /\ qpc = "canonical"
    /\ IF call.method # "blockIsValid" THEN Answer(Info(target, IsFork(target)))
       ELSE IF block0 = NoBlock
       THEN Go("number", NoBlock) /\ block0' = target
       ELSE Answer(Valid(block0 = target))

QueryStep ==
    \/ Query(AskLatest) \/ Query(AskByHeight) \/ Query(AskByBlock)
    \/ Query(ReadLatest) \/ Query(ReadNumber) \/ Query(ReadRecord)
    \/ Query(ReadCanonicalHash)

QueryNext == CheckerStep \/ QueryStep

QuerySpec == QueryInit /\ [][QueryNext]_allVars

-----------------------------------------------------------------------------
\* The latest block the API reports is the tip of the index: its height maps to
\* it and nothing is mapped above it, whatever was dropped before.
LatestIsTip ==
    cdbLatest # NoBlock =>
        \A h \in Heights : /\ h = Height[cdbLatest] => canon[h] = cdbLatest
                           /\ h > Height[cdbLatest] => canon[h] = NoBlock

At(m, h) == m.canon[h]

\* Every answer was true at some moment between the call and the answer, however
\* many writes came in between: a block and whether it is a fork, a verdict, or
\* an error for what was not there.  The block getBlockByHeight returns was
\* canonical at some moment, and it is called a fork only if another block, or
\* none, took its height during the call.
AnswersWereTrue ==
    qpc = "done" /\ call.method # "getLatestBlock" =>
        LET b == call.block  h == call.height
        IN  CASE call.method = "getBlockById" ->
                   \E m \in moments : answer = IF b \notin m.recs THEN NotFound
                                               ELSE Info(b, At(m, h) # b)
              [] call.method = "getBlockByHeight" ->
                   /\ \E m \in moments : answer.id = At(m, h)
                   /\ answer.isFork => \E m \in moments : At(m, h) # answer.id
              [] call.method = "blockIsValid" ->
                   IF answer = NotFound
                   THEN \E m \in moments : b \notin m.recs \/ At(m, h) = NoBlock
                   ELSE \E m \in moments : answer = Valid(At(m, h) = b)

\* blockIsValid tells of every block the checker has recorded whether it is on the
\* canonical chain.
ValidityAnswered ==
    qpc = "done" /\ call.method = "blockIsValid"
        /\ (\A m \in moments : call.block \in m.recs) => answer.kind = "valid"
=============================================================================
