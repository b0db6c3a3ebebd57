---------------------------- MODULE QueryProofs ----------------------------
(***************************************************************************)
(* The JSON-RPC queries beside a running checker: what a client is told is *)
(* true of some moment of its call, for every tree of blocks and any       *)
(* number of writes, crashes and rebuilds in between.                      *)
(***************************************************************************)
EXTENDS BlockQuery, StreamProofs

\* The checker beside the queries is the checker: every invariant of Checker holds.
LEMMA QueryKeepsChecker == QuerySpec => Spec
  <1>1. QueryInit => Init
    BY DEF QueryInit
  <1>2. [QueryNext]_allVars => [Next]_vars
    BY DEF QueryNext, CheckerStep, QueryStep, Query, allVars
  <1> QED BY <1>1, <1>2, PTL DEF QuerySpec, Spec

-----------------------------------------------------------------------------
(***************************************************************************)
(* The inductive invariant.                                                *)
(***************************************************************************)
Active == qpc \notin {"idle", "done"}

\* An entry of the index is the recorded block of its height.
EntriesInv ==
    \A h \in Heights : canon[h] # NoBlock => canon[h] \in recs /\ Height[canon[h]] = h

\* A call in progress belongs to a running process and has seen this moment.
CallInv ==
    /\ Active => pc # "down" /\ Moment \in moments
    /\ qpc = "idle" => block0 = NoBlock
    /\ call.method \in {"getBlockById", "blockIsValid"} =>
          call.block \in Block /\ call.height = Height[call.block]
    /\ call.method = "getBlockByHeight" => call.height \in Heights
    /\ call.method # "blockIsValid" => block0 = NoBlock
    /\ Active => (qpc = "latest" <=> call.method = "getLatestBlock")

\* The block asked for is looked up first.
Given ==
    /\ call.method \in {"getBlockById", "blockIsValid"}
    /\ block0 = NoBlock
    /\ target = call.block

\* A block found through the number index.
ByNumber ==
    \/ call.method = "getBlockByHeight"
    \/ call.method = "blockIsValid" /\ block0 = call.block

Mapped ==
    /\ ByNumber
    /\ target \in recs
    /\ \E m \in moments : m.canon[call.height] = target
    /\ Height[target] = call.height

\* What the reads so far have shown.
ReadInv ==
    /\ qpc = "number" => ByNumber
    /\ qpc \in {"record", "canonical"} => Given \/ Mapped
    /\ qpc = "canonical" => target \in recs

QueryInv == QueryTypeOK /\ EntriesInv /\ CallInv /\ ReadInv /\ AnswersWereTrue

-----------------------------------------------------------------------------
\* A step of the checker writes the index, loses it, or leaves it alone.
LEMMA CheckerWrites ==
    ASSUME IndInv, Next
    PROVE  \/ WriteDB /\ Writes /\ ~Rebuilds
           \/ RebuildDB /\ ~Writes /\ Rebuilds /\ pc = "down" /\ pc' = "down"
           \/ canon' = canon /\ ~Writes /\ ~Rebuilds
  <1>1. /\ budget \in [{"fails", "crashes", "rebalances", "rebuilds"} -> Nat]
        /\ budget["rebuilds"] \in Nat
    BY DEF IndInv, TypeOK, PipelineTypeOK
  <1>2. \A k \in {"fails", "crashes", "rebalances"} : \A max : Spend(k, max) => ~Rebuilds
    BY <1>1 DEF Spend, Rebuilds
  <1>3. UNCHANGED budget => ~Rebuilds
    BY DEF Rebuilds
  <1>4. CASE RebuildDB
    <2>1. budget'["rebuilds"] = budget["rebuilds"] + 1
      BY <1>1, <1>4 DEF RebuildDB, Spend
    <2>2. Rebuilds
      BY <1>1, <2>1 DEF Rebuilds
    <2> QED BY <1>4, <2>2 DEF RebuildDB, Writes, runVars
  <1>5. CASE WriteDB
    BY <1>3, <1>5 DEF WriteDB, Advance, Writes
  <1>6. CASE LockedWorker(Observe(FALSE)) \/ WorkerStep \/ WorkerFailure
    <2>1. canon' = canon /\ ~Writes
      BY <1>6, WorkerFrames DEF Writes, runVars
    <2>2. UNCHANGED budget \/ Spend("fails", MaxFails)
      BY <1>6 DEF WorkerStep, WorkerFailure, FailingWorker, LockedWorker, Worker,
         pipelineVars
    <2> QED BY <1>2, <1>3, <2>1, <2>2
  <1>7. CASE Rebalance \/ Crash \/ PublishFail \/ StepFail
    <2>1. canon' = canon
      BY <1>7 DEF Rebalance, Crash, CrashPipeline, PublishFail, PublishUnchanged, StepFail,
         cursorVars
    <2>2. ~Writes
      BY <1>7 DEF Rebalance, Crash, CrashPipeline, PublishFail, StepFail, runVars, Writes
    <2>3. ~Rebuilds
      BY <1>2, <1>3, <1>7 DEF Rebalance, Crash, CrashPipeline, PublishFail, StepFail
    <2> QED BY <2>1, <2>2, <2>3
  <1>8. CASE \/ Produce \/ FlushCommit \/ Start \/ Fetch \/ FetchTimeout \/ SkipSeen
             \/ Reject \/ RejectReplay \/ BeginProcessed \/ BeginNew \/ ReplicasReady
             \/ MarkForks \/ PublishOne \/ AlignOuterSingleton \/ Finish \/ Commit
    <2>1. canon' = canon
      BY <1>8 DEF Produce, FlushCommit, Start, Fetch, FetchTimeout, SkipSeen, Reject,
         RejectReplay, BeginProcessed, BeginNew, ReplicasReady, MarkForks, PublishOne,
         AlignOuterSingleton, Finish, Commit, PublishUnchanged, cursorVars
    <2>2. ~Writes
      BY <1>8 DEF Produce, FlushCommit, Start, Fetch, FetchTimeout, SkipSeen, Reject,
         RejectReplay, BeginProcessed, BeginNew, ReplicasReady, MarkForks, PublishOne,
         AlignOuterSingleton, Finish, Commit, Advance, pipelineVars, runVars, Writes
    <2>3. UNCHANGED budget
      BY <1>8 DEF Produce, FlushCommit, Start, Fetch, FetchTimeout, SkipSeen, Reject,
         RejectReplay, BeginProcessed, BeginNew, ReplicasReady, MarkForks, PublishOne,
         AlignOuterSingleton, Finish, Commit, Advance, pipelineVars
    <2> QED BY <1>3, <2>1, <2>2, <2>3
  <1>9. CASE Environment \/ MainStep \/ Main(FlushCommit) \/ MainFailure \/ Crash
    BY <1>4, <1>5, <1>7, <1>8, <1>9 DEF Environment, MainStep, MainFailure, Main
  <1> QED BY <1>6, <1>9 DEF Next

\* Records and index change together; a record is lost only with the whole DB.
LEMMA RecordsFollow ==
    ASSUME IndInv, QueryTypeOK, EntriesInv, CheckerStep
    PROVE  /\ recs' \subseteq Block /\ cdbLatest' \in recs' \cup {NoBlock}
           /\ \A h \in Heights : canon'[h] \in recs' \cup {NoBlock}
           /\ EntriesInv'
           /\ pc # "down" => recs \subseteq recs'
  <1>0. Next
    BY DEF CheckerStep
  <1>1. CASE WriteDB /\ Writes /\ ~Rebuilds
    <2>1. Msg \in Notice /\ Msg.first <= Height[Msg.tail]
      BY <1>1, MsgFacts DEF IndInv, TypeOK, WriteDB, Advance
    <2>2. PICK n : n = Msg
      OBVIOUS
    <2>3. /\ n \in Notice /\ n.first <= Height[n.tail] /\ n.tail \in Block
          /\ n.first \in 1 .. MaxHeight /\ Height[n.tail] \in 1 .. MaxHeight
          /\ MaxHeight \in Nat
      BY <2>1, <2>2, NoticeFacts, HeightAssumption DEF Notice, Heights
    <2>4. canon' = WrittenIndex(n)
      BY <1>1, <2>2 DEF WriteDB, WriteBlockInfos
    <2>5. recs' = recs \cup {Anc[n.tail][h] : h \in n.first .. Height[n.tail]}
      BY <1>1, <2>2 DEF CheckerStep
    <2>6. cdbLatest' = n.tail
      BY <1>1, <2>2 DEF CheckerStep, Writes
    <2>7. \A h \in n.first .. Height[n.tail] :
             Anc[n.tail][h] \in Block /\ Height[Anc[n.tail][h]] = h
      <3> SUFFICES ASSUME NEW h \in n.first .. Height[n.tail]
                   PROVE  Anc[n.tail][h] \in Block /\ Height[Anc[n.tail][h]] = h
        OBVIOUS
      <3>1. h \in 1 .. Height[n.tail] /\ h \in 0 .. MaxHeight
        BY <2>3
      <3>2. Anc[n.tail][h] \in MaybeBlock
        BY <2>3, <3>1, AncAssumption DEF MaybeBlock
      <3> QED BY <2>3, <3>1, <3>2, AncAssumption DEF MaybeBlock
    <2>8. n.tail \in recs'
      <3>1. Anc[n.tail][Height[n.tail]] = n.tail
        BY <2>3, AncAssumption
      <3>2. Height[n.tail] \in n.first .. Height[n.tail]
        BY <2>3
      <3> QED BY <2>5, <3>1, <3>2
    <2>9. recs' \subseteq Block
      BY <2>5, <2>7 DEF QueryTypeOK
    <2>10. \A h \in Heights : canon'[h] # NoBlock =>
              canon'[h] \in recs' /\ Height[canon'[h]] = h
      <3> SUFFICES ASSUME NEW h \in Heights, canon'[h] # NoBlock
                   PROVE  canon'[h] \in recs' /\ Height[canon'[h]] = h
        OBVIOUS
      <3>1. CASE h \in n.first .. Height[n.tail]
        BY <2>4, <2>5, <2>7, <3>1 DEF WrittenIndex
      <3>2. CASE h \notin n.first .. Height[n.tail]
        <4>1. canon'[h] = canon[h]
          BY <2>4, <3>2 DEF WrittenIndex
        <4> QED BY <2>5, <4>1 DEF EntriesInv
      <3> QED BY <3>1, <3>2
    <2> QED BY <2>5, <2>6, <2>8, <2>9, <2>10 DEF EntriesInv
  <1>2. CASE RebuildDB /\ ~Writes /\ Rebuilds /\ pc = "down" /\ pc' = "down"
    <2>1. canon' = EmptyIndex /\ recs' = {} /\ cdbLatest' = NoBlock
      BY <1>2 DEF RebuildDB, CheckerStep
    <2> QED BY <1>2, <2>1 DEF EmptyIndex, EntriesInv
  <1>3. CASE canon' = canon /\ ~Writes /\ ~Rebuilds
    <2>1. recs' = recs /\ cdbLatest' \in {cdbLatest, NoBlock}
      BY <1>3 DEF CheckerStep
    <2> QED BY <1>3, <2>1 DEF QueryTypeOK, EntriesInv
  <1> QED BY <1>0, <1>1, <1>2, <1>3, CheckerWrites

\* A step of the checker, a crash or a rebuild included, keeps what a call has shown.
LEMMA QueryChecker ==
    ASSUME IndInv, QueryInv, CheckerStep
    PROVE  QueryInv'
  <1>1. /\ recs' \subseteq Block /\ cdbLatest' \in recs' \cup {NoBlock}
        /\ \A h \in Heights : canon'[h] \in recs' \cup {NoBlock}
        /\ EntriesInv'
        /\ pc # "down" => recs \subseteq recs'
    BY RecordsFollow DEF QueryInv
  <1>2. CASE pc' = "down" /\ pc # "down" /\ qpc # "done"
    <2>1. /\ call' = NoCall /\ qpc' = "idle" /\ block0' = NoBlock /\ target' = NoBlock
          /\ UNCHANGED answer
      BY <1>2 DEF CheckerStep
    <2>2. NoCall \in Calls
      BY HeightAssumption DEF NoCall, Calls, Methods, MaybeBlock
    <2>3. QueryTypeOK'
      BY <1>1, <2>1, <2>2 DEF QueryTypeOK, MaybeBlock
    <2>4. CallInv'
      BY <2>1 DEF CallInv, Active, NoCall
    <2>5. ReadInv' /\ AnswersWereTrue'
      BY <2>1 DEF ReadInv, AnswersWereTrue
    <2> QED BY <1>1, <2>3, <2>4, <2>5 DEF QueryInv
  <1>3. CASE ~(pc' = "down" /\ pc # "down" /\ qpc # "done")
    <2>1. UNCHANGED queryVars /\ Witness
      BY <1>3 DEF CheckerStep
    <2>2. UNCHANGED <<call, qpc, block0, target, answer>>
      BY <2>1 DEF queryVars
    <2>3. CASE ~Active
      <3>1. UNCHANGED moments
        BY <2>1, <2>3 DEF Witness, Active
      <3>2. QueryTypeOK'
        BY <1>1, <2>2, <2>3, <3>1 DEF QueryInv, QueryTypeOK, Active
      <3>3. CallInv' /\ ReadInv'
        BY <2>2, <2>3 DEF QueryInv, CallInv, ReadInv, Active
      <3>4. AnswersWereTrue'
        BY <2>2, <3>1 DEF QueryInv, AnswersWereTrue, At
      <3> QED BY <1>1, <3>2, <3>3, <3>4 DEF QueryInv
    <2>4. CASE Active
      <3>1. /\ moments \subseteq moments' /\ Moment' \in moments'
            /\ pc # "down" /\ pc' # "down" /\ recs \subseteq recs'
        BY <1>1, <1>3, <2>1, <2>4 DEF Witness, Active, QueryInv, CallInv
      <3>2. QueryTypeOK'
        BY <1>1, <2>2, <2>4 DEF QueryInv, QueryTypeOK, Active
      <3>3. CallInv'
        BY <2>2, <2>4, <3>1 DEF QueryInv, CallInv, Active
      <3>4. ReadInv'
        BY <2>2, <3>1 DEF QueryInv, ReadInv, Given, Mapped, ByNumber
      <3>5. AnswersWereTrue'
        BY <2>2, <2>4 DEF AnswersWereTrue, Active
      <3> QED BY <1>1, <3>2, <3>3, <3>4, <3>5 DEF QueryInv
    <2> QED BY <2>3, <2>4
  <1> QED BY <1>2, <1>3

-----------------------------------------------------------------------------
\* The index as every query step finds and leaves it.
LEMMA QueryFrame ==
    ASSUME QueryInv, UNCHANGED <<vars, recs, cdbLatest>>
    PROVE  /\ UNCHANGED <<pc, canon, recs, cdbLatest>>
           /\ Moment' = Moment
           /\ EntriesInv'
  <1>1. UNCHANGED <<pc, canon, recs, cdbLatest>>
    BY DEF vars, pipelineVars, runVars, cursorVars
  <1>2. Moment' = Moment
    BY <1>1 DEF Moment
  <1>3. EntriesInv'
    BY <1>1 DEF QueryInv, EntriesInv
  <1> QED BY <1>1, <1>2, <1>3

\* A call starts with the moment it is made in.
LEMMA QueryAsk ==
    ASSUME QueryInv, Query(AskLatest) \/ Query(AskByHeight) \/ Query(AskByBlock)
    PROVE  QueryInv'
  <1>0. /\ UNCHANGED <<pc, canon, recs, cdbLatest>> /\ Moment' = Moment /\ EntriesInv'
    BY QueryFrame DEF Query
  <1> DEFINE Asks(c, at) ==
                 \/ c = NoCall /\ at = "latest"
                 \/ /\ at = "number" /\ c.height \in Heights
                    /\ c = [method |-> "getBlockByHeight", block |-> NoBlock,
                            height |-> c.height]
                 \/ /\ at = "record" /\ c.block \in Block
                    /\ c.method \in {"getBlockById", "blockIsValid"}
                    /\ c = [method |-> c.method, block |-> c.block,
                            height |-> Height[c.block]]
  <1>1. PICK c, at : Ask(c, at) /\ Asks(c, at)
    <2>1. CASE Query(AskLatest)
      <3>1. Ask(NoCall, "latest") /\ Asks(NoCall, "latest")
        BY <2>1 DEF Query, AskLatest
      <3> QED BY <3>1
    <2>2. CASE Query(AskByHeight)
      <3>1. PICK h \in Heights :
               Ask([method |-> "getBlockByHeight", block |-> NoBlock, height |-> h], "number")
        BY <2>2 DEF Query, AskByHeight
      <3>2. Asks([method |-> "getBlockByHeight", block |-> NoBlock, height |-> h], "number")
        OBVIOUS
      <3> HIDE DEF Asks
      <3> QED BY <3>1, <3>2
    <2>3. CASE Query(AskByBlock)
      <3>1. PICK b \in Block, m \in {"getBlockById", "blockIsValid"} :
               Ask([method |-> m, block |-> b, height |-> Height[b]], "record")
        BY <2>3 DEF Query, AskByBlock
      <3>2. Asks([method |-> m, block |-> b, height |-> Height[b]], "record")
        OBVIOUS
      <3> HIDE DEF Asks
      <3> QED BY <3>1, <3>2
    <2> QED BY <2>1, <2>2, <2>3
  <1>2. /\ qpc = "idle" /\ pc # "down" /\ call' = c /\ qpc' = at /\ target' = c.block
        /\ moments' = {Moment} /\ UNCHANGED <<block0, answer>>
    BY <1>1 DEF Ask
  <1>3. c \in Calls /\ c.block \in MaybeBlock
    BY <1>1, HeightAssumption DEF Calls, Methods, NoCall, MaybeBlock, Heights
  <1>4. QueryTypeOK'
    BY <1>0, <1>1, <1>2, <1>3 DEF QueryInv, QueryTypeOK
  <1>5. CallInv'
    <2>1. block0' = NoBlock
      BY <1>2 DEF QueryInv, CallInv
    <2>2. pc' # "down" /\ Moment' \in moments'
      BY <1>0, <1>2
    <2>3. /\ c.method \in {"getBlockById", "blockIsValid"} =>
                c.block \in Block /\ c.height = Height[c.block]
          /\ c.method = "getBlockByHeight" => c.height \in Heights
          /\ at = "latest" <=> c.method = "getLatestBlock"
      BY <1>1 DEF NoCall
    <2> QED BY <1>2, <2>1, <2>2, <2>3 DEF CallInv
  <1>6. ReadInv'
    <2>1. block0' = NoBlock
      BY <1>2 DEF QueryInv, CallInv
    <2> QED BY <1>1, <1>2, <2>1 DEF ReadInv, ByNumber, Given
  <1>7. AnswersWereTrue'
    BY <1>1, <1>2 DEF AnswersWereTrue
  <1> QED BY <1>0, <1>4, <1>5, <1>6, <1>7 DEF QueryInv

\* A read that ends the call: what is left to show is that the answer was true.
LEMMA QueryAnswer ==
    ASSUME QueryInv, NEW a, Active, Answer(a), UNCHANGED <<vars, recs, cdbLatest>>,
           a.id \in recs \cup {NoBlock}, AnswersWereTrue'
    PROVE  QueryInv'
  <1>0. /\ UNCHANGED <<pc, canon, recs, cdbLatest>> /\ Moment' = Moment /\ EntriesInv'
    BY QueryFrame
  <1>1. answer' = a /\ qpc' = "done" /\ UNCHANGED <<call, block0, target, moments>>
    BY DEF Answer
  <1>2. Moment \in moments /\ Moment.recs = recs
    BY DEF QueryInv, CallInv, Moment
  <1>3. QueryTypeOK'
    BY <1>0, <1>1, <1>2 DEF QueryInv, QueryTypeOK
  <1>4. CallInv'
    BY <1>1 DEF QueryInv, CallInv, Active
  <1>5. ReadInv'
    BY <1>1 DEF ReadInv
  <1> QED BY <1>0, <1>3, <1>4, <1>5 DEF QueryInv

\* getLatestBlock reads under ConsistencyDB's lock.
LEMMA QueryLatest ==
    ASSUME QueryInv, Query(ReadLatest)
    PROVE  QueryInv'
  <1>1. Active /\ UNCHANGED <<vars, recs, cdbLatest>> /\ call.method = "getLatestBlock"
    BY DEF Query, ReadLatest, Active, QueryInv, CallInv
  <1>2. PICK a : a = IF cdbLatest = NoBlock THEN NoAnswer ELSE Info(cdbLatest, FALSE)
    OBVIOUS
  <1>3. Answer(a) /\ a.id \in recs \cup {NoBlock}
    BY <1>2 DEF Query, ReadLatest, QueryInv, QueryTypeOK, NoAnswer, Info
  <1>4. AnswersWereTrue'
    BY <1>1, <1>3 DEF AnswersWereTrue, Answer
  <1> QED BY <1>1, <1>3, <1>4, QueryAnswer

\* A read that goes on.
LEMMA QueryGo ==
    ASSUME QueryInv, NEW at \in {"number", "record", "canonical"}, NEW b \in MaybeBlock,
           Active, Go(at, b), UNCHANGED <<vars, recs, cdbLatest>>,
           call.method # "getLatestBlock",
           at # "number" => b \in Block,
           block0' = block0 \/ (call.method = "blockIsValid" /\ block0' \in MaybeBlock),
           ReadInv'
    PROVE  QueryInv'
  <1>0. /\ UNCHANGED <<pc, canon, recs, cdbLatest>> /\ Moment' = Moment /\ EntriesInv'
    BY QueryFrame
  <1>1. qpc' = at /\ target' = b /\ UNCHANGED <<call, answer, moments>>
    BY DEF Go
  <1>2. QueryTypeOK'
    BY <1>0, <1>1 DEF QueryInv, QueryTypeOK
  <1>3. CallInv'
    BY <1>0, <1>1 DEF QueryInv, CallInv, Active
  <1>4. AnswersWereTrue'
    BY <1>1 DEF AnswersWereTrue
  <1> QED BY <1>0, <1>2, <1>3, <1>4 DEF QueryInv

\* Number to hash: the entry is canonical at this moment.
LEMMA QueryNumber ==
    ASSUME QueryInv, Query(ReadNumber)
    PROVE  QueryInv'
  <1>1. /\ Active /\ UNCHANGED <<vars, recs, cdbLatest>> /\ qpc = "number"
        /\ call.method # "getLatestBlock" /\ ByNumber
    BY DEF Query, ReadNumber, Active, QueryInv, CallInv, ReadInv
  <1>2. Moment \in moments /\ Moment.canon = canon
    BY <1>1 DEF QueryInv, CallInv, Moment
  <1>3. call.height \in Heights
    <2>1. Height \in [MaybeBlock -> 0 .. MaxHeight] /\ \A b \in Block : Height[b] \in Heights
      BY HeightAssumption
    <2> QED BY <1>1, <2>1 DEF QueryInv, CallInv, ByNumber
  <1>4. CASE canon[call.height] = NoBlock
    <2>1. Answer(NotFound)
      BY <1>4 DEF Query, ReadNumber
    <2>2. answer' = NotFound /\ UNCHANGED <<call, moments>>
      BY <2>1 DEF Answer
    <2>3. AnswersWereTrue'
      BY <1>1, <1>2, <1>4, <2>2 DEF AnswersWereTrue, At, ByNumber, NotFound
    <2>4. NotFound.id \in recs \cup {NoBlock}
      BY DEF NotFound
    <2> QED BY <1>1, <2>1, <2>3, <2>4, QueryAnswer
  <1>5. CASE canon[call.height] # NoBlock
    <2>1. PICK b : b = canon[call.height]
      OBVIOUS
    <2>2. b \in Block /\ b \in recs /\ Height[b] = call.height
      BY <1>3, <1>5, <2>1 DEF QueryInv, EntriesInv, QueryTypeOK
    <2>3. Go("record", b) /\ UNCHANGED block0
      BY <1>5, <2>1 DEF Query, ReadNumber
    <2>4. ReadInv'
      <3>1. qpc' = "record" /\ target' = b /\ UNCHANGED <<call, moments, recs, block0>>
        BY <1>1, <2>3 DEF Go
      <3> QED BY <1>1, <1>2, <2>1, <2>2, <3>1 DEF ReadInv, Mapped, ByNumber
    <2>5. b \in MaybeBlock /\ block0' = block0
      BY <2>2, <2>3 DEF MaybeBlock
    <2> QED BY <1>1, <2>2, <2>3, <2>4, <2>5, QueryGo
  <1> QED BY <1>4, <1>5

\* The record: only the block a client asked for can be missing.
LEMMA QueryRecord ==
    ASSUME QueryInv, Query(ReadRecord)
    PROVE  QueryInv'
  <1>1. /\ Active /\ UNCHANGED <<vars, recs, cdbLatest>> /\ qpc = "record"
        /\ call.method # "getLatestBlock" /\ (Given \/ Mapped) /\ target \in Block
    BY DEF Query, ReadRecord, Active, QueryInv, CallInv, ReadInv, QueryTypeOK
  <1>2. Moment \in moments /\ Moment.recs = recs
    BY <1>1 DEF QueryInv, CallInv, Moment
  <1>3. CASE target \notin recs
    <2>1. Answer(NotFound) /\ Given
      BY <1>1, <1>3 DEF Query, ReadRecord, Mapped
    <2>2. answer' = NotFound /\ UNCHANGED <<call, moments>>
      BY <2>1 DEF Answer
    <2>3. call.block \notin Moment.recs
      BY <1>2, <1>3, <2>1 DEF Given
    <2>4. AnswersWereTrue'
      BY <1>2, <2>1, <2>2, <2>3 DEF AnswersWereTrue, Given
    <2>5. NotFound.id \in recs \cup {NoBlock}
      BY DEF NotFound
    <2> QED BY <1>1, <2>1, <2>4, <2>5, QueryAnswer
  <1>4. CASE target \in recs
    <2>1. PICK b : b = target
      OBVIOUS
    <2>2. Go("canonical", b) /\ UNCHANGED block0
      BY <1>4, <2>1 DEF Query, ReadRecord
    <2>3. ReadInv'
      <3>1. /\ qpc' = "canonical" /\ target' = target
            /\ UNCHANGED <<call, moments, recs, block0>>
        BY <1>1, <2>1, <2>2 DEF Go
      <3> QED BY <1>1, <1>4, <3>1 DEF ReadInv, Given, Mapped, ByNumber
    <2>4. b \in MaybeBlock /\ b \in Block /\ block0' = block0
      BY <1>1, <2>1, <2>2 DEF MaybeBlock
    <2> QED BY <1>1, <2>2, <2>3, <2>4, QueryGo
  <1> QED BY <1>3, <1>4

\* The second read of the index: whether the block is a fork, or the verdict.
LEMMA QueryCanonical ==
    ASSUME QueryInv, Query(ReadCanonicalHash)
    PROVE  QueryInv'
  <1>1. /\ Active /\ UNCHANGED <<vars, recs, cdbLatest>> /\ qpc = "canonical"
        /\ call.method # "getLatestBlock" /\ (Given \/ Mapped)
        /\ target \in Block /\ target \in recs
    BY DEF Query, ReadCanonicalHash, Active, QueryInv, CallInv, ReadInv, QueryTypeOK
  <1>2. Moment \in moments /\ Moment.recs = recs /\ Moment.canon = canon
    BY <1>1 DEF QueryInv, CallInv, Moment
  <1>3. CASE call.method # "blockIsValid"
    <2>1. PICK a : a = Info(target, IsFork(target))
      OBVIOUS
    <2>2. Answer(a) /\ a.id = target
      BY <1>3, <2>1 DEF Query, ReadCanonicalHash, Info
    <2>3. answer' = a /\ UNCHANGED <<call, moments>>
      BY <2>2 DEF Answer
    <2>4. CASE Given
      <3>1. /\ call.method = "getBlockById" /\ target = call.block
            /\ call.height = Height[call.block]
        BY <1>3, <2>4 DEF Given, QueryInv, CallInv
      <3>2. a = Info(call.block, Moment.canon[call.height] # call.block)
        BY <1>2, <2>1, <3>1 DEF IsFork
      <3>3. call.block \in Moment.recs
        BY <1>1, <1>2, <3>1
      <3> QED BY <1>1, <1>2, <2>2, <2>3, <3>1, <3>2, <3>3, QueryAnswer
              DEF AnswersWereTrue, At
    <2>5. CASE Mapped
      <3>1. /\ call.method = "getBlockByHeight" /\ Height[target] = call.height
            /\ \E m \in moments : m.canon[call.height] = target
        BY <1>3, <2>5 DEF Mapped, ByNumber
      <3>2. a.isFork => Moment.canon[call.height] # target
        BY <1>2, <2>1, <3>1 DEF IsFork, Info
      <3>3. AnswersWereTrue'
        BY <1>2, <2>2, <2>3, <3>1, <3>2 DEF AnswersWereTrue, At
      <3> QED BY <1>1, <2>2, <3>3, QueryAnswer
    <2> QED BY <1>1, <2>4, <2>5
  <1>4. CASE call.method = "blockIsValid" /\ block0 = NoBlock
    <2>1. Given /\ target = call.block
      BY <1>1, <1>4, NoBlockAssumption DEF Given, Mapped, ByNumber, QueryInv, CallInv
    <2>2. Go("number", NoBlock) /\ block0' = target
      BY <1>4 DEF Query, ReadCanonicalHash
    <2>3. ReadInv'
      <3>1. qpc' = "number" /\ UNCHANGED call
        BY <2>2 DEF Go
      <3> QED BY <1>4, <2>1, <2>2, <3>1 DEF ReadInv, ByNumber
    <2> QED BY <1>1, <1>4, <2>2, <2>3, QueryGo DEF MaybeBlock
  <1>5. CASE call.method = "blockIsValid" /\ block0 # NoBlock
    <2>1. Mapped /\ block0 = call.block
      BY <1>1, <1>5 DEF Given, Mapped, ByNumber
    <2>2. PICK a : a = Valid(block0 = target)
      OBVIOUS
    <2>3. Answer(a) /\ a.id = NoBlock
      BY <1>5, <2>2 DEF Query, ReadCanonicalHash, Valid
    <2>4. answer' = a /\ UNCHANGED <<call, moments>>
      BY <2>3 DEF Answer
    <2>5. a # NotFound
      BY <2>2 DEF Valid, NotFound
    <2>6. \E m \in moments : a = Valid(m.canon[call.height] = call.block)
      BY <2>1, <2>2 DEF Mapped, Valid
    <2>7. AnswersWereTrue'
      BY <1>5, <2>4, <2>5, <2>6 DEF AnswersWereTrue, At
    <2> QED BY <1>1, <2>3, <2>7, QueryAnswer
  <1> QED BY <1>3, <1>4, <1>5

-----------------------------------------------------------------------------
\* The query invariant, whatever the checker does beside the queries.
THEOREM QueryInductive == QuerySpec => []QueryInv
  <1>1. QueryInit => QueryInv
    <2> SUFFICES ASSUME QueryInit PROVE QueryInv
      OBVIOUS
    <2>1. canon = EmptyIndex /\ recs = {}
      BY DEF QueryInit, Init, CursorInit
    <2>2. /\ call = NoCall /\ qpc = "idle" /\ block0 = NoBlock /\ target = NoBlock
          /\ cdbLatest = NoBlock
      BY DEF QueryInit
    <2>3. NoCall \in Calls
      BY HeightAssumption DEF NoCall, Calls, Methods, MaybeBlock
    <2>4. QueryTypeOK
      BY <2>1, <2>2, <2>3 DEF QueryTypeOK, EmptyIndex, MaybeBlock
    <2>5. EntriesInv /\ ReadInv /\ AnswersWereTrue
      BY <2>1, <2>2 DEF EntriesInv, EmptyIndex, ReadInv, AnswersWereTrue
    <2>6. CallInv
      BY <2>2 DEF CallInv, Active, NoCall
    <2> QED BY <2>4, <2>5, <2>6 DEF QueryInv
  <1>2. IndInv /\ QueryInv /\ [QueryNext]_allVars => QueryInv'
    <2> SUFFICES ASSUME IndInv, QueryInv, [QueryNext]_allVars PROVE QueryInv'
      OBVIOUS
    <2>1. CASE CheckerStep
      BY <2>1, QueryChecker
    <2>2. CASE QueryStep
      BY <2>2, QueryAsk, QueryLatest, QueryNumber, QueryRecord, QueryCanonical
         DEF QueryStep
    <2>3. CASE UNCHANGED allVars
      <3>1. UNCHANGED <<vars, recs, cdbLatest>>
        BY <2>3 DEF allVars
      <3>2. /\ UNCHANGED <<pc, canon, recs, cdbLatest>> /\ Moment' = Moment /\ EntriesInv'
        BY <3>1, QueryFrame
      <3>3. UNCHANGED <<call, qpc, block0, target, answer, moments>>
        BY <2>3 DEF allVars, queryVars
      <3>4. QueryTypeOK' /\ CallInv'
        BY <3>2, <3>3 DEF QueryInv, QueryTypeOK, CallInv, Active
      <3>5. ReadInv'
        BY <3>2, <3>3 DEF QueryInv, ReadInv, Given, Mapped, ByNumber
      <3>6. AnswersWereTrue'
        BY <3>3 DEF QueryInv, AnswersWereTrue, At
      <3> QED BY <3>2, <3>4, <3>5, <3>6 DEF QueryInv
    <2> QED BY <2>1, <2>2, <2>3 DEF QueryNext
  <1> QED BY <1>1, <1>2, QueryKeepsChecker, Inductive, PTL DEF QuerySpec

\* Every query is at a read of its method, the index has a record for every block in
\* it, and an answer names no block that had none.
THEOREM QueriesTyped == QuerySpec => []QueryTypeOK
  BY QueryInductive, PTL DEF QueryInv

\* getBlockByHeight, getBlockById and blockIsValid read record and index without a
\* lock, and still answer what was true at some moment of the call.
THEOREM QueriesAnswerTruly == QuerySpec => []AnswersWereTrue
  BY QueryInductive, PTL DEF QueryInv
-----------------------------------------------------------------------------
(***************************************************************************)
(* The latest block.                                                       *)
(***************************************************************************)

\* ConsistencyDB.latest is the tip of the chain the index holds.
LatestInv == cdbLatest # NoBlock => cdbLatest \in Block /\ canon = IndexOf(cdbLatest)

\* The write that sets latest leaves the index of its chain, and nothing else writes.
LEMMA LatestStep ==
    ASSUME CommitsHold, MaxRebuilds = 0, IndInv, ChainInv, StreamInv, LatestInv, CheckerStep
    PROVE  LatestInv'
  <1>0. Next /\ MainPart
    BY DEF CheckerStep, IndInv, TypeOK, MainPart
  <1>1. CASE WriteDB /\ Writes /\ ~Rebuilds
    <2>1. PICK c \in 0 .. Len(inner) : \E p \in Places(MsgAfter(c)) :
              Standing(c, p, HeadAfter(c), MsgAfter(c))
      BY DEF StreamInv
    <2>2. PICK p \in Places(MsgAfter(c)) : Standing(c, p, HeadAfter(c), MsgAfter(c))
      BY <2>1
    <2>3. PICK h, n : h = HeadAfter(c) /\ n = MsgAfter(c)
      OBVIOUS
    <2>4. Facing(c, p, h, n) /\ Standing(c, p, h, n)
      BY <1>0, <2>2, <2>3, Placed
    <2>5. pc = "write" /\ pc' = "mark" /\ canon' = WrittenIndex(Msg)
      BY <1>1 DEF WriteDB, WriteBlockInfos, Advance
    <2>6. Msg = n /\ n # NoMsg /\ n \in Notice /\ WellFormed(n) /\ n.old = h.hash
      BY <2>4, <2>5 DEF Standing, OffsetInv, InHand, Facing
    <2>7. canon = IndexOf(n.old) \/ canon = IndexOf(n.tail)
      BY <2>4, <2>6 DEF Standing, IndexInv
    <2>8. canon' = IndexOf(n.tail)
      BY <2>5, <2>6, <2>7, IndexWritten
    <2>9. cdbLatest' = n.tail /\ n.tail \in Block
      BY <1>1, <2>5, <2>6 DEF CheckerStep, Notice
    <2> QED BY <2>8, <2>9 DEF LatestInv, IndexOf
  <1>2. CASE RebuildDB /\ ~Writes /\ Rebuilds /\ pc = "down" /\ pc' = "down"
    BY <1>2 DEF CheckerStep, LatestInv
  <1>3. CASE canon' = canon /\ ~Writes /\ ~Rebuilds
    BY <1>3 DEF CheckerStep, LatestInv, IndexOf
  <1> QED BY <1>0, <1>1, <1>2, <1>3, CheckerWrites

\* getLatestBlock names the tip of the index: what a reorg to a shorter chain leaves
\* above it is cleaned up in the same write, as long as the index was never rebuilt.
THEOREM LatestBlockIsTip ==
    ASSUME CommitsHold, MaxRebuilds = 0
    PROVE  QuerySpec => []LatestIsTip
  <1>1. QueryInit => LatestInv
    BY DEF QueryInit, LatestInv
  <1>2. IndInv /\ ChainInv /\ StreamInv /\ LatestInv /\ [QueryNext]_allVars => LatestInv'
    <2> SUFFICES ASSUME IndInv, ChainInv, StreamInv, LatestInv, [QueryNext]_allVars
                 PROVE  LatestInv'
      OBVIOUS
    <2>1. CASE CheckerStep
      BY <2>1, LatestStep
    <2>2. CASE QueryStep \/ UNCHANGED allVars
      <3>1. UNCHANGED <<canon, cdbLatest>>
        BY <2>2 DEF QueryStep, Query, allVars, vars, cursorVars
      <3> QED BY <3>1 DEF LatestInv, IndexOf
    <2> QED BY <2>1, <2>2 DEF QueryNext
  <1>3. LatestInv => LatestIsTip
    <2> SUFFICES ASSUME LatestInv, cdbLatest # NoBlock, NEW h \in Heights
                 PROVE  /\ h = Height[cdbLatest] => canon[h] = cdbLatest
                        /\ h > Height[cdbLatest] => canon[h] = NoBlock
      BY DEF LatestIsTip
    <2>1. cdbLatest \in Block /\ canon[h] = Anc[cdbLatest][h]
      BY DEF LatestInv, IndexOf
    <2>2. h \in 0 .. MaxHeight /\ Height[cdbLatest] \in Int /\ h \in Int
      BY <2>1, HeightAssumption DEF Heights
    <2>3. h = Height[cdbLatest] => Anc[cdbLatest][h] = cdbLatest
      BY <2>1, AncAssumption
    <2>4. h > Height[cdbLatest] => Anc[cdbLatest][h] = NoBlock
      BY <2>1, <2>2, AncAssumption DEF MaybeBlock
    <2> QED BY <2>1, <2>3, <2>4
  <1>4. Spec => [](ChainInv /\ StreamInv)
    BY StreamInductive
  <1> QED BY <1>1, <1>2, <1>3, <1>4, QueryKeepsChecker, Inductive, PTL DEF QuerySpec
=============================================================================
