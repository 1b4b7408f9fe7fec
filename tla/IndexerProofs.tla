--------------------------- MODULE IndexerProofs ---------------------------
(***************************************************************************)
(* Proofs about the Indexer module, for every block tree, reorg_depth,     *)
(* batch size and number of failures: the loop only ever drives the        *)
(* follower through the steps of the Follower module, so all that is       *)
(* proved there holds of it, and a catch-up never takes the index back.    *)
(***************************************************************************)
EXTENDS Indexer, FollowerProofs

USE NoBlockAssumption, HeightAssumption, BatchAssumption, BoundsAssumption

\* The minimum of two numbers.
LEMMA MinOfTwo ==
    ASSUME NEW a \in Int, NEW b \in Int
    PROVE  Min({a, b}) \in {a, b} /\ Min({a, b}) <= a /\ Min({a, b}) <= b
<1>1. \E x \in {a, b} : \A y \in {a, b} : x =< y
  <2>1. CASE a <= b
    BY <2>1
  <2>2. CASE b <= a
    BY <2>2
  <2> QED BY <2>1, <2>2
<1> QED BY <1>1 DEF Min

\* The ancestry of a block is made of blocks.
LEMMA AncestryIsBlocks == \A b \in Block : Ancestry[b] \subseteq Block
BY DEF Ancestry

\* What is left of a climbing batch when its first block is taken climbs,
\* from above that block.
LEMMA TailClimbs ==
    ASSUME NEW s \in Seq(Block), s # <<>>,
           \A i, j \in DOMAIN s : i < j => Height[s[i]] < Height[s[j]]
    PROVE  /\ Head(s) \in Block /\ Head(s) = s[1]
           /\ Tail(s) \in Seq(Block) /\ Len(Tail(s)) = Len(s) - 1
           /\ \A i \in DOMAIN Tail(s) : i + 1 \in DOMAIN s /\ Tail(s)[i] = s[i + 1]
           /\ \A i \in DOMAIN Tail(s) : Height[Tail(s)[i]] > Height[Head(s)]
           /\ \A i, j \in DOMAIN Tail(s) : i < j => Height[Tail(s)[i]] < Height[Tail(s)[j]]
<1>1. Len(s) \in Nat /\ Len(s) >= 1 /\ DOMAIN s = 1..Len(s)
  OBVIOUS
<1>2. Head(s) = s[1] /\ s[1] \in Block /\ Tail(s) \in Seq(Block) /\ Len(Tail(s)) = Len(s) - 1
  BY <1>1
<1>3. DOMAIN Tail(s) = 1..(Len(s) - 1)
  BY <1>1, <1>2
<1>4. \A i \in DOMAIN Tail(s) : i + 1 \in DOMAIN s /\ Tail(s)[i] = s[i + 1] /\ s[i + 1] \in Block
  BY <1>1, <1>3
<1>5. \A i \in DOMAIN Tail(s) : Height[Tail(s)[i]] > Height[Head(s)]
  <2> TAKE i \in DOMAIN Tail(s)
  <2>1. i + 1 \in DOMAIN s /\ 1 \in DOMAIN s /\ 1 < i + 1 /\ Tail(s)[i] = s[i + 1] /\ s[i + 1] \in Block
    BY <1>1, <1>3, <1>4
  <2>2. Height[s[1]] < Height[s[i + 1]]
    BY <2>1
  <2> QED BY <1>2, <2>1, <2>2
<1>6. ASSUME NEW i \in DOMAIN Tail(s), NEW j \in DOMAIN Tail(s), i < j
      PROVE  Height[Tail(s)[i]] < Height[Tail(s)[j]]
  <2>1. i + 1 \in DOMAIN s /\ j + 1 \in DOMAIN s /\ i + 1 < j + 1
    BY <1>3, <1>4, <1>6
  <2> QED BY <2>1, <1>4
<1> QED BY <1>2, <1>4, <1>5, <1>6

-----------------------------------------------------------------------------
(* What the follower's steps mean to the loop.                             *)

\* A call of Ingest leaves the tip alone; if it does not return at once, the
\* branch it starts is the block it was called with.
LEMMA IngestFacts ==
    ASSUME NEW b \in Block, Ingest(b)
    PROVE  /\ pc = "idle" /\ tip' = tip /\ storeTip' = storeTip
           /\ pc' \in {"idle", "walk", "commit"}
           /\ InIngest' => NewTip' = b
<1>1. pc = "idle" /\ tip' = tip /\ storeTip' = storeTip /\ pc' \in {"idle", "walk", "commit"}
      /\ (InIngest' => branch' = <<b>>)
  BY DEF Ingest, IngestKnown, IngestExtend, IngestWalk, Return, InIngest, store, memory
<1>2. branch' = <<b>> => NewTip' = b
  BY DEF NewTip
<1> QED BY <1>1, <1>2

\* The steps inside New and Ingest: loading, going on with the same new tip,
\* or returning with the old tip or the new one.
InnerStep ==
    \/ Start \/ LoadStep \/ LoadDone
    \/ WalkFound \/ WalkTooDeep \/ WalkFetch \/ WalkFail
    \/ RollbackStep \/ RollbackDone
    \/ CommitOk \/ CommitReject \/ CommitFail \/ CommitLost

\* What a step of the follower can do to the place it is at and to its tip.
LEMMA InnerFacts ==
    ASSUME IInv, InnerStep
    PROVE  \/ pc \in {"down", "load"} /\ pc' \in {"load", "idle"}
           \/ InIngest /\ InIngest' /\ tip' = tip /\ NewTip' = NewTip
           \/ InIngest /\ pc' = "idle" /\ tip' \in {tip, NewTip}
<1>1. CASE Start \/ LoadStep \/ LoadDone
  BY <1>1 DEF Start, LoadStep, LoadDone
<1>2. CASE WalkFound \/ RollbackDone
  BY <1>2 DEF WalkFound, RollbackDone, InIngest, NewTip, memory, update
<1>3. CASE WalkFetch
  <2>1. branch \in Seq(Block) /\ branch # <<>> /\ Parent \in Block
        /\ branch' = <<Parent>> \o branch
    BY <1>3 DEF WalkFetch, IInv, TypeOK, BranchInv, Ascends
  <2>2. Len(branch') = Len(branch) + 1 /\ Len(branch) \in Nat
        /\ \A i \in 2..(Len(branch) + 1) : branch'[i] = branch[i - 1]
    BY <2>1, PrependFacts
  <2>3. Len(branch) >= 1
    BY <2>1
  <2>4. Len(branch) + 1 \in 2..(Len(branch) + 1) /\ (Len(branch) + 1) - 1 = Len(branch)
    BY <2>2, <2>3
  <2>5. branch'[Len(branch) + 1] = branch[Len(branch)]
    BY <2>2, <2>4
  <2>6. NewTip' = NewTip
    BY <2>2, <2>5 DEF NewTip
  <2> QED BY <1>3, <2>6 DEF WalkFetch, InIngest, memory
<1>4. CASE WalkTooDeep \/ WalkFail \/ CommitReject \/ CommitFail
  BY <1>4 DEF WalkTooDeep, WalkFail, CommitReject, CommitFail, Return, InIngest, memory
<1>5. CASE RollbackStep
  BY <1>5 DEF RollbackStep, Return, InIngest, NewTip, memory
<1>6. CASE CommitOk \/ CommitLost
  BY <1>6 DEF CommitOk, CommitLost, Return, InIngest, memory
<1> QED BY <1>1, <1>2, <1>3, <1>4, <1>5, <1>6 DEF InnerStep

-----------------------------------------------------------------------------
(* The loop drives the follower.                                           *)

\* Every step of the loop is a step of the follower or leaves it alone.
LEMMA LoopStepIsFollowerStep == LoopInv /\ [IndexerNext]_ivars => [Next]_fvars
<1> SUFFICES ASSUME LoopInv, [IndexerNext]_ivars PROVE [Next]_fvars
  OBVIOUS
<1> USE DEF IndexerTypeOK, LoopInv
<1>1. CASE \E b \in Block : NodeAdvance(b)
  BY <1>1 DEF NodeAdvance
<1>2. CASE FollowerStep
  BY <1>2 DEF FollowerStep, Next
<1>3. CASE FollowerFault
  BY <1>3 DEF FollowerFault, Next
<1>4. CASE ProcessCrash
  BY <1>4 DEF ProcessCrash, ProcessGone, Next
<1>5. CASE BootCheck \/ BootCheckFail \/ IngestDone \/ CatchUpLoop \/ FetchOne \/ FetchDone \/ FeedOk
  BY <1>5 DEF BootCheck, BootCheckFail, IngestDone, CatchUpLoop, FetchOne, FetchDone, FeedOk
<1>6. CASE RecvWS
  <2>1. Head(heads) \in Block
    BY <1>6 DEF RecvWS
  <2> QED BY <1>6, <2>1 DEF RecvWS, CallIngest, Next
<1>7. CASE Poll
  <2>1. nodeHead \in Block
    BY <1>7 DEF Poll, BlockOrNone
  <2> QED BY <1>7, <2>1 DEF Poll, CallIngest, Next
<1>8. CASE Feed
  <2>1. Head(batch) \in Block
    BY <1>8 DEF Feed, BatchInv
  <2> QED BY <1>8, <2>1 DEF Feed, Next
<1>9. CASE FeedFail \/ FetchFail
  BY <1>9 DEF FeedFail, FetchFail, CatchUpFails, ProcessGone, Next
<1>10. CASE UNCHANGED ivars
  BY <1>10 DEF ivars
<1> QED BY <1>1, <1>2, <1>3, <1>4, <1>5, <1>6, <1>7, <1>8, <1>9, <1>10 DEF IndexerNext, Goroutine

\* The invariant holds when the process starts.
LEMMA LoopInit == IndexerInit => LoopInv
<1> SUFFICES ASSUME IndexerInit PROVE LoopInv
  OBVIOUS
<1>1. TypeOK
  BY InitInv DEF IndexerInit, IInv
<1>2. IndexerTypeOK
  <2>1. Len(<<>>) = 0 /\ <<>> \in Seq(Block)
    OBVIOUS
  <2>2. booting \in BOOLEAN
    BY DEF IndexerInit
  <2> QED BY <1>1, <2>1, <2>2 DEF IndexerInit, IndexerTypeOK, Task, BlockOrNone
<1>3. PcInv /\ FetchInv /\ FeedInv
  BY DEF IndexerInit, Init, PcInv, FetchInv, FeedInv, InIngest
<1>4. BatchInv
  BY DEF IndexerInit, BatchInv
<1> QED BY <1>2, <1>3, <1>4 DEF LoopInv

\* The parts of LoopInv that are about the loop's own variables.
LEMMA InnerKeepsLoop ==
    ASSUME IInv, IInv', LoopInv, InnerStep, faults' \in 0..MaxFaults,
           UNCHANGED <<node, heads, loop>>
    PROVE  LoopInv'
<1>1. IndexerTypeOK' /\ tip' \in BlockOrNone /\ tip \in BlockOrNone
  BY DEF LoopInv, IndexerTypeOK, IInv, TypeOK, node, loop
<1>2. UNCHANGED <<task, booting, head, target, next, until, batch>>
  BY DEF loop
<1>3. \A i \in DOMAIN batch : batch[i] \in Block
  BY DEF LoopInv, IndexerTypeOK
<1>4. CASE pc \in {"down", "load"} /\ pc' \in {"load", "idle"}
  <2>1. task = "boot" /\ batch = <<>>
    BY <1>4 DEF LoopInv, PcInv, BatchInv
  <2> QED BY <1>1, <1>2, <1>4, <2>1 DEF LoopInv, PcInv, BatchInv, FetchInv, FeedInv, InIngest
<1>5. CASE InIngest /\ InIngest' /\ tip' = tip /\ NewTip' = NewTip
  <2>1. TipHeight' = TipHeight /\ From' = From
    BY <1>5 DEF TipHeight, From
  <2>2. pc' \notin {"down", "load"}
    BY <1>5 DEF InIngest
  <2> QED BY <1>1, <1>2, <1>5, <2>1, <2>2 DEF LoopInv, PcInv, BatchInv, FetchInv, FeedInv
<1>6. CASE InIngest /\ pc' = "idle" /\ tip' \in {tip, NewTip}
  <2>1. task \in {"ingest", "feeding"}
    BY <1>6 DEF LoopInv, PcInv
  <2>2. NewTip \in Block
    <3>1. branch \in Seq(Block) /\ branch # <<>>
      BY <1>6 DEF IInv, TypeOK, BranchInv, Ascends, InIngest
    <3> QED BY <3>1 DEF NewTip
  <2>3. TipHeight' = TipHeight \/ TipHeight' = Height[NewTip]
    <3>1. CASE tip' = tip
      BY <3>1 DEF TipHeight
    <3>2. CASE tip' = NewTip
      BY <2>2, <3>2 DEF TipHeight
    <3> QED BY <1>6, <3>1, <3>2
  <2>4. BatchInv'
    <3>1. \A i \in DOMAIN batch : Height[batch[i]] > TipHeight'
      BY <1>6, <2>1, <2>3 DEF LoopInv, BatchInv, FeedInv
    <3> QED BY <1>2, <2>1, <3>1 DEF LoopInv, BatchInv
  <2> QED BY <1>1, <1>2, <1>6, <2>1, <2>4 DEF LoopInv, PcInv, FetchInv, FeedInv, InIngest
<1> QED BY <1>4, <1>5, <1>6, InnerFacts

-----------------------------------------------------------------------------
(* LoopInv is inductive.                                                   *)

\* With the process gone the loop is where it starts.
LEMMA GoneIsFresh ==
    ASSUME LoopInv, IInv', ProcessGone, faults' \in 0..MaxFaults
    PROVE  LoopInv'
<1>1. TypeOK' /\ pc' = "down" /\ heads' = <<>> /\ batch' = <<>> /\ task' = "boot"
      /\ UNCHANGED <<nodeHead, seen>>
  BY DEF ProcessGone, Crash, IInv, node
<1>2. Len(<<>>) = 0 /\ <<>> \in Seq(Block)
  OBVIOUS
<1>3. booting' \in BOOLEAN
  BY DEF ProcessGone
<1>4. IndexerTypeOK'
  BY <1>1, <1>2, <1>3 DEF ProcessGone, LoopInv, IndexerTypeOK, Task, BlockOrNone
<1> QED BY <1>1, <1>4 DEF LoopInv, PcInv, BatchInv, FetchInv, FeedInv, InIngest

\* So is it back in the select loop.
LEMMA SelectIsFresh ==
    ASSUME LoopInv, pc = "idle", ToSelect, UNCHANGED <<fvars, node, heads>>,
           faults' \in 0..MaxFaults
    PROVE  LoopInv'
<1>1. TypeOK' /\ pc' = "idle" /\ batch' = <<>> /\ task' = "select"
      /\ UNCHANGED <<nodeHead, seen, heads>>
  BY DEF ToSelect, LoopInv, IndexerTypeOK, TypeOK, fvars, node
<1>2. Len(<<>>) = 0 /\ <<>> \in Seq(Block)
  OBVIOUS
<1>3. booting' \in BOOLEAN
  BY DEF ToSelect
<1>4. IndexerTypeOK'
  BY <1>1, <1>2, <1>3 DEF ToSelect, LoopInv, IndexerTypeOK, Task, BlockOrNone
<1> QED BY <1>1, <1>4 DEF LoopInv, PcInv, BatchInv, FetchInv, FeedInv, InIngest

\* CatchUp starts with nothing fetched.
LEMMA EnterKeepsLoop ==
    ASSUME LoopInv, pc = "idle", task \in {"boot", "ingest"}, NEW b \in Block,
           NEW atBoot \in BOOLEAN, EnterCatchUp(b, atBoot),
           UNCHANGED <<fvars, node, heads, head, faults>>
    PROVE  LoopInv'
<1>1. TypeOK' /\ pc' = "idle" /\ batch' = <<>> /\ task' = "catchup" /\ target' \in Nat
      /\ UNCHANGED <<nodeHead, seen, heads, head, faults, next, until, batch>>
  BY DEF EnterCatchUp, LoopInv, IndexerTypeOK, BatchInv, TypeOK, fvars, node
<1>2. booting' \in BOOLEAN
  BY DEF EnterCatchUp
<1>3. IndexerTypeOK'
  BY <1>1, <1>2 DEF LoopInv, IndexerTypeOK, Task
<1> QED BY <1>1, <1>3 DEF LoopInv, PcInv, BatchInv, FetchInv, FeedInv, InIngest

\* A catch-up that fails.
LEMMA CatchUpFailsKeepsLoop ==
    ASSUME LoopInv, IInv', pc = "idle", CatchUpFails, faults' \in 0..MaxFaults
    PROVE  LoopInv'
BY GoneIsFresh, SelectIsFresh DEF CatchUpFails

\* A block fetched at height next extends the batch upwards.
LEMMA FetchKeepsLoop ==
    ASSUME LoopInv, FetchOne
    PROVE  LoopInv'
<1>1. /\ task = "fetch" /\ task' = "fetch" /\ pc' = pc /\ tip' = tip /\ until' = until
      /\ next' = next + 1 /\ next < until /\ next \in Nat /\ until \in Nat
      /\ UNCHANGED <<fvars, nodeHead, seen, heads, faults, booting, head, target>>
      /\ batch \in Seq(Block)
  BY DEF FetchOne, LoopInv, IndexerTypeOK, fvars, node
<1>2. TipHeight' = TipHeight /\ From' = From /\ TipHeight \in Nat /\ From = TipHeight + 1
  BY <1>1 DEF TipHeight, From, LoopInv, IndexerTypeOK, TypeOK, BlockOrNone
<1>3. /\ From <= next /\ until <= From + Batch /\ Len(batch) <= next - From /\ Len(batch) \in Nat
      /\ \A i \in DOMAIN batch : Height[batch[i]] < next
      /\ \A i \in DOMAIN batch : Height[batch[i]] > TipHeight
      /\ \A i, j \in DOMAIN batch : i < j => Height[batch[i]] < Height[batch[j]]
  BY <1>1 DEF LoopInv, FetchInv, BatchInv
<1>4. /\ batch' \in Seq(Block) /\ Len(batch') <= next' - From
      /\ \A i \in DOMAIN batch' : Height[batch'[i]] < next'
      /\ \A i \in DOMAIN batch' : Height[batch'[i]] > TipHeight
      /\ \A i, j \in DOMAIN batch' : i < j => Height[batch'[i]] < Height[batch'[j]]
  <2>1. CASE batch' = batch
    <3>1. \A i \in DOMAIN batch : Height[batch[i]] \in Nat
      BY <1>1
    <3> QED BY <1>1, <1>2, <1>3, <2>1, <3>1
  <2>2. CASE batch' # batch
    <3> DEFINE b == CHOOSE c \in AtHeight(next) : TRUE
    <3>1. b \in AtHeight(next) /\ batch' = Append(batch, b)
      BY <2>2 DEF FetchOne
    <3>2. b \in Block /\ Height[b] = next
      <4>1. AtHeight(next) \subseteq Block
        BY <1>1, AncestryIsBlocks DEF AtHeight, Canonical, LoopInv, IndexerTypeOK, BlockOrNone
      <4> QED BY <3>1, <4>1 DEF AtHeight
    <3> HIDE DEF b
    <3>3. /\ batch' \in Seq(Block) /\ Len(batch') = Len(batch) + 1
          /\ \A i \in 1..Len(batch) : batch'[i] = batch[i]
          /\ batch'[Len(batch) + 1] = b
      BY <1>1, <3>1, <3>2, AppendFacts
    <3>4. DOMAIN batch = 1..Len(batch) /\ DOMAIN batch' = 1..(Len(batch) + 1)
      BY <1>1, <3>3
    <3>5. \A i \in DOMAIN batch' : i \in DOMAIN batch \/ i = Len(batch) + 1
      BY <1>3, <3>4
    <3>6. \A i \in DOMAIN batch : batch'[i] = batch[i] /\ Height[batch[i]] \in Nat
      BY <1>1, <3>3, <3>4
    <3>7. ASSUME NEW i \in DOMAIN batch'
          PROVE  Height[batch'[i]] < next' /\ Height[batch'[i]] > TipHeight
      <4>1. CASE i \in DOMAIN batch
        <5>1. batch'[i] = batch[i] /\ Height[batch[i]] \in Nat
          BY <3>6, <4>1
        <5>2. Height[batch[i]] < next /\ Height[batch[i]] > TipHeight
          BY <1>3, <4>1
        <5> QED BY <1>1, <5>1, <5>2
      <4>2. CASE i = Len(batch) + 1
        BY <1>1, <1>2, <1>3, <3>2, <3>3, <4>2
      <4> QED BY <3>5, <4>1, <4>2
    <3>8. ASSUME NEW i \in DOMAIN batch', NEW j \in DOMAIN batch', i < j
          PROVE  Height[batch'[i]] < Height[batch'[j]]
      <4>1. i \in DOMAIN batch
        BY <1>3, <3>4, <3>8
      <4>2. CASE j \in DOMAIN batch
        BY <1>3, <3>6, <3>8, <4>1, <4>2
      <4>3. CASE j = Len(batch) + 1
        BY <1>3, <3>2, <3>3, <3>6, <4>1, <4>3
      <4> QED BY <3>5, <4>2, <4>3
    <3> QED BY <1>1, <1>2, <1>3, <3>3, <3>7, <3>8
  <2> QED BY <2>1, <2>2
<1>5. From <= next' /\ next' <= until' /\ until' <= From + Batch /\ Len(batch') <= Batch
  <2>1. Len(batch') \in Nat
    BY <1>4
  <2> QED BY <1>1, <1>2, <1>3, <1>4, <2>1
<1>6. TypeOK'
  BY <1>1 DEF LoopInv, IndexerTypeOK, TypeOK, fvars
<1>7. IndexerTypeOK'
  BY <1>1, <1>4, <1>5, <1>6 DEF LoopInv, IndexerTypeOK
<1>8. PcInv' /\ FeedInv'
  BY <1>1 DEF LoopInv, PcInv, FeedInv, InIngest
<1>9. BatchInv'
  BY <1>1, <1>2, <1>4 DEF BatchInv
<1>10. FetchInv'
  BY <1>1, <1>2, <1>4, <1>5 DEF FetchInv
<1> QED BY <1>7, <1>8, <1>9, <1>10 DEF LoopInv

\* The block CatchUp feeds is above the tip and below the rest.
LEMMA FeedKeepsLoop ==
    ASSUME LoopInv, IInv', Feed
    PROVE  LoopInv'
<1>1. /\ task = "feed" /\ task' = "feeding" /\ batch' = Tail(batch) /\ Ingest(Head(batch))
      /\ UNCHANGED <<nodeHead, seen, heads, faults, booting, head, target, next, until>>
  BY DEF Feed, node
<1>2. /\ batch \in Seq(Block) /\ batch # <<>> /\ Len(batch) <= Batch /\ Len(batch) \in Nat
      /\ \A i \in DOMAIN batch : Height[batch[i]] > TipHeight
      /\ \A i, j \in DOMAIN batch : i < j => Height[batch[i]] < Height[batch[j]]
  BY <1>1 DEF LoopInv, BatchInv, IndexerTypeOK
<1>3. /\ Head(batch) \in Block /\ Head(batch) = batch[1]
      /\ batch' \in Seq(Block) /\ Len(batch') = Len(batch) - 1
      /\ \A i \in DOMAIN batch' : i + 1 \in DOMAIN batch /\ batch'[i] = batch[i + 1]
      /\ \A i \in DOMAIN batch' : Height[batch'[i]] > Height[Head(batch)]
      /\ \A i, j \in DOMAIN batch' : i < j => Height[batch'[i]] < Height[batch'[j]]
  BY <1>1, <1>2, TailClimbs
<1>4. pc' \in {"idle", "walk", "commit"} /\ tip' = tip /\ (InIngest' => NewTip' = Head(batch))
  BY <1>1, <1>3, IngestFacts
<1>5. TipHeight' = TipHeight /\ Height[Head(batch)] > TipHeight
  <2>1. 1 \in DOMAIN batch
    BY <1>2
  <2> QED BY <1>2, <1>3, <1>4, <2>1 DEF TipHeight
<1>6. \A i \in DOMAIN batch' : Height[batch'[i]] > TipHeight
  BY <1>2, <1>3
<1>7. IndexerTypeOK'
  <2>1. TypeOK' /\ Len(batch') <= Batch
    BY <1>2, <1>3 DEF IInv
  <2> QED BY <1>1, <1>3, <2>1 DEF LoopInv, IndexerTypeOK, Task
<1>8. PcInv' /\ FetchInv'
  BY <1>1, <1>4 DEF PcInv, FetchInv, InIngest
<1>9. BatchInv'
  BY <1>1, <1>3, <1>5, <1>6 DEF BatchInv
<1>10. FeedInv'
  BY <1>3, <1>4, <1>5 DEF FeedInv
<1> QED BY <1>7, <1>8, <1>9, <1>10 DEF LoopInv

\* Every step keeps the invariant.
LEMMA LoopNext == IInv /\ IInv' /\ LoopInv /\ [IndexerNext]_ivars => LoopInv'
<1> SUFFICES ASSUME IInv, IInv', LoopInv, [IndexerNext]_ivars PROVE LoopInv'
  OBVIOUS
<1>1. ASSUME NEW b \in Block, NodeAdvance(b)
      PROVE  LoopInv'
  <2>1. nodeHead' \in BlockOrNone /\ seen' \subseteq Block
    BY <1>1, AncestryIsBlocks DEF NodeAdvance, LoopInv, IndexerTypeOK, BlockOrNone
  <2>2. heads' \in Seq(Block) /\ Len(heads') <= HeadsCap
    <3>1. heads \in Seq(Block) /\ Len(heads) \in Nat /\ Len(heads) <= HeadsCap
      BY DEF LoopInv, IndexerTypeOK
    <3>2. Append(heads, b) \in Seq(Block) /\ Len(Append(heads, b)) = Len(heads) + 1
      BY <3>1, AppendFacts
    <3> QED BY <1>1, <3>1, <3>2 DEF NodeAdvance
  <2>3. UNCHANGED <<pc, tip, branch, task, booting, head, target, next, until, batch, faults>>
    BY <1>1 DEF NodeAdvance, fvars, loop
  <2>4. TipHeight' = TipHeight /\ From' = From /\ NewTip' = NewTip /\ InIngest' = InIngest
    BY <2>3 DEF TipHeight, From, NewTip, InIngest
  <2>5. IndexerTypeOK'
    BY <2>1, <2>2, <2>3 DEF LoopInv, IndexerTypeOK, IInv
  <2> QED BY <2>3, <2>4, <2>5 DEF LoopInv, PcInv, BatchInv, FetchInv, FeedInv
<1>2. CASE FollowerStep
  <2>1. InnerStep /\ UNCHANGED <<node, heads, loop>> /\ faults' \in 0..MaxFaults
    BY <1>2 DEF FollowerStep, InnerStep, LoopInv, IndexerTypeOK
  <2> QED BY <2>1, InnerKeepsLoop
<1>3. CASE FollowerFault
  <2>1. InnerStep /\ UNCHANGED <<node, heads, loop>>
    BY <1>3 DEF FollowerFault, InnerStep
  <2>2. faults' \in 0..MaxFaults
    BY <1>3 DEF FollowerFault, Fault, LoopInv, IndexerTypeOK
  <2> QED BY <2>1, <2>2, InnerKeepsLoop
<1>4. CASE ProcessCrash
  <2>1. faults' \in 0..MaxFaults
    BY <1>4 DEF ProcessCrash, Fault, LoopInv, IndexerTypeOK
  <2> QED BY <1>4, <2>1, GoneIsFresh DEF ProcessCrash
<1>5. CASE BootCheck \/ BootCheckFail
  <2>1. pc = "idle" /\ task = "boot" /\ UNCHANGED <<fvars, node, heads, faults>>
    BY <1>5 DEF BootCheck, BootCheckFail
  <2>2. ToSelect \/ (nodeHead \in Block /\ EnterCatchUp(nodeHead, TRUE) /\ UNCHANGED head)
    BY <1>5 DEF BootCheck, BootCheckFail, LoopInv, IndexerTypeOK, BlockOrNone
  <2>3. faults' \in 0..MaxFaults
    BY <2>1 DEF LoopInv, IndexerTypeOK
  <2> QED BY <2>1, <2>2, <2>3, SelectIsFresh, EnterKeepsLoop
<1>6. CASE RecvWS \/ Poll
  <2>1. PICK b \in Block : /\ task = "select" /\ CallIngest(b) /\ UNCHANGED <<node, faults>>
                           /\ heads' \in Seq(Block) /\ Len(heads') <= HeadsCap
    <3>1. CASE RecvWS
      <4>1. Head(heads) \in Block /\ Tail(heads) \in Seq(Block) /\ Len(Tail(heads)) <= HeadsCap
        BY <3>1 DEF RecvWS, LoopInv, IndexerTypeOK
      <4> QED BY <3>1, <4>1 DEF RecvWS
    <3>2. CASE Poll
      <4>1. nodeHead \in Block
        BY <3>2 DEF Poll, LoopInv, IndexerTypeOK, BlockOrNone
      <4> QED BY <3>2, <4>1 DEF Poll, LoopInv, IndexerTypeOK
    <3> QED BY <1>6, <3>1, <3>2
  <2>2. pc' \in {"idle", "walk", "commit"} /\ tip' = tip
    BY <2>1, IngestFacts DEF CallIngest
  <2>3. task' = "ingest" /\ batch = <<>> /\ batch' = <<>> /\ head' = b
        /\ UNCHANGED <<nodeHead, seen, faults, booting, target, next, until, batch>>
    BY <2>1 DEF CallIngest, node, LoopInv, BatchInv
  <2>4. IndexerTypeOK'
    BY <2>1, <2>3 DEF LoopInv, IndexerTypeOK, IInv, Task, BlockOrNone
  <2> QED BY <2>2, <2>3, <2>4 DEF LoopInv, PcInv, BatchInv, FetchInv, FeedInv, InIngest
<1>7. CASE IngestDone
  <2>1. pc = "idle" /\ task = "ingest" /\ UNCHANGED <<fvars, node, heads, faults>>
    BY <1>7 DEF IngestDone
  <2>2. CASE ToSelect
    <3>1. faults' \in 0..MaxFaults
      BY <2>1 DEF LoopInv, IndexerTypeOK
    <3> QED BY <2>1, <2>2, <3>1, SelectIsFresh
  <2>3. CASE FarBehind(head) /\ EnterCatchUp(head, FALSE) /\ UNCHANGED head
    BY <2>1, <2>3, EnterKeepsLoop DEF LoopInv, PcInv
  <2> QED BY <1>7, <2>2, <2>3 DEF IngestDone
<1>8. CASE CatchUpLoop
  <2>1. /\ task = "catchup" /\ UNCHANGED <<fvars, node, heads, faults>>
        /\ pc = "idle" /\ batch = <<>> /\ pc' = pc /\ tip' = tip
        /\ TipHeight \in Nat /\ target \in Nat
    BY <1>8 DEF CatchUpLoop, fvars, LoopInv, PcInv, BatchInv, InIngest, IndexerTypeOK, TypeOK, PC,
       TipHeight, BlockOrNone
  <2>2. CASE ToSelect
    <3>1. faults' \in 0..MaxFaults
      BY <2>1 DEF LoopInv, IndexerTypeOK
    <3> QED BY <2>1, <2>2, <3>1, SelectIsFresh
  <2>3. CASE ~ToSelect
    <3>1. TipHeight < target /\ next' = From /\ until' = To /\ task' = "fetch"
          /\ UNCHANGED <<booting, head, target, batch>>
      BY <1>8, <2>3 DEF CatchUpLoop
    <3>2. From \in Nat /\ To \in Nat /\ From <= To /\ To <= From + Batch
      <4>1. From = TipHeight + 1 /\ From + Batch \in Int /\ target + 1 \in Int
        BY <2>1 DEF From
      <4>2. To \in {From + Batch, target + 1} /\ To <= From + Batch
        BY <4>1, MinOfTwo DEF To
      <4> QED BY <2>1, <3>1, <4>1, <4>2
    <3>3. From' = From
      BY <2>1 DEF From, TipHeight
    <3>4. IndexerTypeOK'
      BY <2>1, <3>1, <3>2 DEF LoopInv, IndexerTypeOK, IInv, node, Task
    <3>5. Len(batch') = 0
      BY <2>1, <3>1
    <3> QED BY <2>1, <3>1, <3>2, <3>3, <3>4, <3>5
        DEF LoopInv, PcInv, BatchInv, FetchInv, FeedInv, InIngest
  <2> QED BY <2>2, <2>3
<1>9. CASE FetchOne
  BY <1>9, FetchKeepsLoop
<1>10. CASE FetchDone \/ FeedOk
  <2>1. pc = "idle" /\ UNCHANGED <<fvars, node, heads, faults>> /\ pc' = pc /\ tip' = tip
    BY <1>10 DEF FetchDone, FeedOk, fvars, LoopInv, PcInv, InIngest, IndexerTypeOK, TypeOK, PC
  <2>2. CASE ToSelect
    <3>1. faults' \in 0..MaxFaults
      BY <2>1 DEF LoopInv, IndexerTypeOK
    <3> QED BY <2>1, <2>2, <3>1, SelectIsFresh
  <2>3. CASE ~ToSelect
    <3>1. task' = (IF batch = <<>> THEN "catchup" ELSE "feed")
          /\ UNCHANGED <<booting, head, target, next, until, batch>>
      BY <1>10, <2>3 DEF FetchDone, FeedOk
    <3>2. TipHeight' = TipHeight
      BY <2>1 DEF TipHeight
    <3>3. IndexerTypeOK'
      BY <2>1, <3>1 DEF LoopInv, IndexerTypeOK, IInv, node, Task
    <3> QED BY <2>1, <3>1, <3>2, <3>3 DEF LoopInv, PcInv, BatchInv, FetchInv, FeedInv, InIngest
  <2> QED BY <2>2, <2>3
<1>11. CASE Feed
  BY <1>11, FeedKeepsLoop
<1>12. CASE FeedFail
  <2>1. pc = "idle" /\ CatchUpFails /\ faults' \in 0..MaxFaults
    BY <1>12 DEF FeedFail, LoopInv, IndexerTypeOK
  <2> QED BY <2>1, CatchUpFailsKeepsLoop
<1>13. CASE FetchFail
  <2>1. pc = "idle" /\ CatchUpFails
    BY <1>13 DEF FetchFail, LoopInv, PcInv, InIngest, IndexerTypeOK, TypeOK, PC
  <2>2. faults' \in 0..MaxFaults
    BY <1>13 DEF FetchFail, Fault, LoopInv, IndexerTypeOK
  <2> QED BY <2>1, <2>2, CatchUpFailsKeepsLoop
<1>14. CASE UNCHANGED ivars
  <2>1. UNCHANGED <<pc, tip, branch, nodeHead, seen, heads, task, booting, head, target, next,
                    until, batch, faults>>
    BY <1>14 DEF ivars, fvars, node, loop
  <2>2. TipHeight' = TipHeight /\ From' = From /\ NewTip' = NewTip /\ InIngest' = InIngest
    BY <2>1 DEF TipHeight, From, NewTip, InIngest
  <2>3. IndexerTypeOK'
    BY <2>1 DEF LoopInv, IndexerTypeOK, IInv
  <2> QED BY <2>1, <2>2, <2>3 DEF LoopInv, PcInv, BatchInv, FetchInv, FeedInv
<1> QED BY <1>1, <1>2, <1>3, <1>4, <1>5, <1>6, <1>7, <1>8, <1>9, <1>10, <1>11, <1>12, <1>13,
       <1>14 DEF IndexerNext, Goroutine

-----------------------------------------------------------------------------
(* Theorems.                                                               *)

\* LoopInv, what Run and CatchUp rely on between any two of their steps, and
\* the follower's IInv hold at all times, whatever the node does.
THEOREM LoopInductive == IndexerSpec => [](IInv /\ LoopInv)
<1>1. IndexerInit => IInv /\ LoopInv
  BY LoopInit, InitInv DEF IndexerInit
<1>2. IInv /\ LoopInv /\ [IndexerNext]_ivars => (IInv /\ LoopInv)'
  BY LoopNext, NextInv, LoopStepIsFollowerStep
<1> QED BY <1>1, <1>2, PTL DEF IndexerSpec

\* Run, ingest, CatchUp and the boot-time check use the follower only as the
\* Follower module allows: every behaviour of the loop is one of the follower.
THEOREM LoopImplementsFollower == IndexerSpec => Spec
<1>1. IndexerInit => Init
  BY DEF IndexerInit
<1> QED BY <1>1, LoopInductive, LoopStepIsFollowerStep, PTL DEF IndexerSpec, Spec

\* Every variable of the loop keeps its type; a batch never holds more than
\* Batch blocks (CatchUp's from + 100, BlocksByRange).
THEOREM LoopTypeCorrect == IndexerSpec => []IndexerTypeOK
<1>1. LoopInv => IndexerTypeOK
  BY DEF LoopInv
<1> QED BY <1>1, LoopInductive, PTL

\* No commit inside CatchUp takes the index back, although the node may
\* reorganise between the fetch of a batch and its Ingest.
THEOREM CatchUpNeverFallsBack == IndexerSpec => CatchUpClimbs
<1>1. IInv /\ LoopInv /\ [IndexerNext]_ivars
      => [CatchingUp /\ storeTip' # storeTip => Height[storeTip'] > TipHeight]_ivars
  <2> SUFFICES ASSUME IInv, LoopInv, [IndexerNext]_ivars, CatchingUp, storeTip' # storeTip
               PROVE  Height[storeTip'] > TipHeight
    OBVIOUS
  <2>1. [Next]_fvars
    BY LoopStepIsFollowerStep
  <2>2. CommitOk \/ CommitLost
    BY <2>1 DEF Next, Start, LoadStep, LoadDone, Ingest, IngestKnown, IngestExtend, IngestWalk,
       WalkFound, WalkTooDeep, WalkFetch, WalkFail, RollbackStep, RollbackDone,
       CommitReject, CommitFail, Crash, fvars, store
  <2>3. pc = "commit" /\ storeTip' = NewTip
    BY <2>2 DEF CommitOk, CommitLost, StoreCommit
  <2>4. InIngest /\ task = "feeding"
    BY <2>3 DEF LoopInv, PcInv, InIngest, CatchingUp
  <2> QED BY <2>3, <2>4 DEF LoopInv, FeedInv
<1> QED BY <1>1, LoopInductive, PTL DEF IndexerSpec, CatchUpClimbs

\* The index the running service keeps is what ChainIndex promises: driven by
\* WebSocket heads, polls and catch-ups it moves only from one gapless chain
\* to another, by one atomic extension or reorganisation.
THEOREM LoopImplementsChainIndex == IndexerSpec => ImplementsChainIndex
BY LoopImplementsFollower, Refinement, PTL
=============================================================================
