------------------------------- MODULE Indexer -------------------------------
(***************************************************************************)
(* The loop that drives the follower (internal/indexer/indexer.go), the    *)
(* catch-up it falls back to (Follower.CatchUp), the RPC client it fetches *)
(* with (internal/rpcclient/blocks.go) and the WebSocket head feed         *)
(* (StreamBlocks in internal/rpcclient/ws.go).                             *)
(*                                                                         *)
(* The zone node is external: it moves its head through the block tree     *)
(* while the loop runs, so a head, a batch of blocks and the chain they    *)
(* were read from may be stale by the time they are used.                  *)
(***************************************************************************)
EXTENDS Follower, FiniteSetsExt

CONSTANTS
    Batch,       \* blocks per BlocksByRange request (100 in CatchUp)
    HeadsCap,    \* heads in flight: the heads channel (16) and the socket
    MaxFaults    \* bound: RPC and store failures and crashes in a behaviour

ASSUME BatchAssumption == Batch \in Nat \ {0}

ASSUME BoundsAssumption == HeadsCap \in Nat /\ MaxFaults \in Nat

VARIABLES
    nodeHead,    \* the head the node reports, NoBlock before its first block
    seen,        \* every block that was ever on the node's canonical chain
    heads,       \* the heads channel
    task,        \* where Run, ingest and CatchUp are
    booting,     \* CatchUp was called by catchUpIfBehind
    head,        \* ingest's argument
    target,      \* CatchUp's targetHeight
    next, until, \* heights still to fetch of [from, to)
    batch,       \* blocks fetched and not yet fed to Ingest
    faults       \* failures so far

node == <<nodeHead, seen>>
loop == <<task, booting, head, target, next, until, batch>>
ivars == <<fvars, node, heads, loop, faults>>

Task == {"boot", "select", "ingest", "catchup", "fetch", "feed", "feeding"}
CatchingUp == task \in {"catchup", "fetch", "feed", "feeding"}

IndexerTypeOK ==
    /\ TypeOK
    /\ nodeHead \in BlockOrNone
    /\ seen \subseteq Block
    /\ heads \in Seq(Block) /\ Len(heads) <= HeadsCap
    /\ task \in Task
    /\ booting \in BOOLEAN
    /\ head \in BlockOrNone
    /\ target \in Nat /\ next \in Nat /\ until \in Nat
    /\ batch \in Seq(Block) /\ Len(batch) <= Batch
    /\ faults \in 0..MaxFaults

Canonical == IF nodeHead = NoBlock THEN {} ELSE Ancestry[nodeHead]

IndexerInit ==
    /\ Init
    /\ nodeHead = NoBlock /\ seen = {}
    /\ heads = <<>>
    /\ task = "boot" /\ booting = FALSE
    /\ head = NoBlock /\ target = 0 /\ next = 0 /\ until = 0 /\ batch = <<>>
    /\ faults = 0

-----------------------------------------------------------------------------
(* The node and the WebSocket.                                             *)

\* The node adopts a new head.  A head is replaced only by one of greater
\* accumulated entropy, so it never falls back to a block it already had.
\* The subscription delivers the head, or loses it with the connection.
NodeAdvance(b) ==
    /\ b \notin seen
    /\ nodeHead' = b
    /\ seen' = seen \cup Ancestry[b]
    /\ \/ heads' = heads
       \/ /\ Len(heads) < HeadsCap
          /\ heads' = Append(heads, b)
    /\ UNCHANGED <<fvars, loop, faults>>

Fault ==
    /\ faults < MaxFaults
    /\ faults' = faults + 1

-----------------------------------------------------------------------------
(* The steps inside Follower.New and Follower.Ingest.                      *)

FollowerStep ==
    /\ \/ Start \/ LoadStep \/ LoadDone
       \/ WalkFound \/ WalkTooDeep \/ WalkFetch
       \/ RollbackStep \/ RollbackDone
       \/ CommitOk \/ CommitReject
       \/ WalkFail /\ Parent \notin Block
    /\ UNCHANGED <<node, heads, loop, faults>>

FollowerFault ==
    /\ Fault
    /\ \/ WalkFail /\ Parent \in Block
       \/ CommitFail
       \/ CommitLost
    /\ UNCHANGED <<node, heads, loop>>

\* A stopped process loses its channel and its local variables.
ProcessGone ==
    /\ Crash
    /\ heads' = <<>>
    /\ task' = "boot" /\ booting' = FALSE
    /\ head' = NoBlock /\ target' = 0 /\ next' = 0 /\ until' = 0 /\ batch' = <<>>
    /\ UNCHANGED node

ProcessCrash == Fault /\ ProcessGone

-----------------------------------------------------------------------------
(* Run: the boot-time check and the select loop.                           *)

\* Mutant: a gap must be twice as deep as the window to be caught up.
FarBehindTwice(b) == Height[b] > TipHeight + 2 * MaxDepth

\* The head is too far ahead for walkToKnown.
FarBehind(b) == Height[b] > TipHeight + MaxDepth

EnterCatchUp(b, atBoot) ==
    /\ task' = "catchup"
    /\ booting' = atBoot
    /\ target' = Height[b]
    /\ UNCHANGED <<next, until, batch>>

\* Back in the select loop; the locals of ingest and CatchUp are gone.
ToSelect ==
    /\ task' = "select"
    /\ booting' = FALSE
    /\ head' = NoBlock /\ target' = 0 /\ next' = 0 /\ until' = 0 /\ batch' = <<>>

\* catchUpIfBehind.  LatestBlock is the node's head when it is asked.
BootCheck ==
    /\ pc = "idle" /\ task = "boot"
    /\ IF TipHeight # 0 /\ nodeHead # NoBlock /\ FarBehind(nodeHead)
       THEN EnterCatchUp(nodeHead, TRUE) /\ UNCHANGED head
       ELSE ToSelect
    /\ UNCHANGED <<fvars, node, heads, faults>>

\* catchUpIfBehind swallows an RPC error (at most one per start, so it needs
\* no bound).
BootCheckFail ==
    /\ pc = "idle" /\ task = "boot"
    /\ TipHeight # 0
    /\ ToSelect
    /\ UNCHANGED <<fvars, node, heads, faults>>

CallIngest(b) ==
    /\ Ingest(b)
    /\ head' = b
    /\ task' = "ingest"
    /\ UNCHANGED <<booting, target, next, until, batch>>

RecvWS ==
    /\ task = "select" /\ heads # <<>>
    /\ CallIngest(Head(heads))
    /\ heads' = Tail(heads)
    /\ UNCHANGED <<node, faults>>

\* The ticker fires and LatestBlock answers; when it fails Run just continues.
Poll ==
    /\ task = "select" /\ nodeHead # NoBlock
    /\ CallIngest(nodeHead)
    /\ UNCHANGED <<node, heads, faults>>

\* The rest of Indexer.ingest.
IngestDone ==
    /\ task = "ingest" /\ pc = "idle"
    /\ IF result = "tooDeep" /\ FarBehind(head)
       THEN EnterCatchUp(head, FALSE) /\ UNCHANGED head
       ELSE ToSelect
    /\ UNCHANGED <<fvars, node, heads, faults>>

-----------------------------------------------------------------------------
(* Follower.CatchUp.                                                       *)

\* CatchUp returns an error: Run gives up at boot, ingest only logs it.
CatchUpFails ==
    \/ booting /\ ProcessGone
    \/ ~booting /\ ToSelect /\ UNCHANGED <<fvars, node, heads>>

\* Mutant: the range starts at the tip.
FromTip == TipHeight

From == TipHeight + 1

To == Min({From + Batch, target + 1})

\* The loop condition and the bounds of the next request.
CatchUpLoop ==
    /\ task = "catchup"
    /\ IF TipHeight < target
       THEN /\ next' = From
            /\ until' = To
            /\ task' = "fetch"
            /\ UNCHANGED <<booting, head, target, batch>>
       ELSE ToSelect
    /\ UNCHANGED <<fvars, node, heads, faults>>

\* The node answers the requests of a batch one by one from the chain it has
\* at that moment; a height it has no block for is null and skipped.
AtHeight(h) == {b \in Canonical : Height[b] = h}

FetchOne ==
    /\ task = "fetch" /\ next < until
    /\ batch' = IF AtHeight(next) = {}
                THEN batch
                ELSE Append(batch, CHOOSE b \in AtHeight(next) : TRUE)
    /\ next' = next + 1
    /\ UNCHANGED <<fvars, node, heads, faults, task, booting, head, target, until>>

\* Mutant: an empty batch does not end the catch-up.
FetchDoneRetries ==
    /\ task = "fetch" /\ next = until
    /\ task' = IF batch = <<>> THEN "catchup" ELSE "feed"
    /\ UNCHANGED <<fvars, node, heads, faults, booting, head, target, next, until, batch>>

FetchDone ==
    /\ task = "fetch" /\ next = until
    /\ IF batch = <<>>
       THEN ToSelect
       ELSE task' = "feed" /\ UNCHANGED <<booting, head, target, next, until, batch>>
    /\ UNCHANGED <<fvars, node, heads, faults>>

FetchFail ==
    /\ task = "fetch"
    /\ Fault
    /\ CatchUpFails

Feed ==
    /\ task = "feed"
    /\ Ingest(Head(batch))
    /\ batch' = Tail(batch)
    /\ task' = "feeding"
    /\ UNCHANGED <<node, heads, faults, booting, head, target, next, until>>

FeedOk ==
    /\ task = "feeding" /\ pc = "idle"
    /\ result = "ok"
    /\ task' = IF batch = <<>> THEN "catchup" ELSE "feed"
    /\ UNCHANGED <<fvars, node, heads, faults, booting, head, target, next, until, batch>>

FeedFail ==
    /\ task = "feeding" /\ pc = "idle"
    /\ result # "ok"
    /\ CatchUpFails
    /\ UNCHANGED faults

-----------------------------------------------------------------------------
\* The steps of the indexer's goroutine that no failure takes.
Goroutine ==
    \/ FollowerStep
    \/ BootCheck \/ RecvWS \/ Poll \/ IngestDone
    \/ CatchUpLoop \/ FetchOne \/ FetchDone \/ Feed \/ FeedOk \/ FeedFail

IndexerNext ==
    \/ \E b \in Block : NodeAdvance(b)
    \/ Goroutine
    \/ FollowerFault \/ ProcessCrash \/ BootCheckFail \/ FetchFail

IndexerSpec == IndexerInit /\ [][IndexerNext]_ivars

(***************************************************************************)
(* Fairness: the goroutine is scheduled, the process supervisor restarts   *)
(* the process (restart: unless-stopped in docker-compose.yml), the ticker *)
(* keeps firing and its requests are answered again and again.  Nothing is *)
(* assumed of the node, of the WebSocket or of failures.                   *)
(***************************************************************************)
FairSpec == IndexerSpec /\ WF_ivars(Goroutine) /\ SF_ivars(Poll)

-----------------------------------------------------------------------------
(* The inductive invariant of the loop: which of the follower's steps can  *)
(* be under way at each task, and how the fetched blocks stand to the tip. *)

InIngest == pc \in {"walk", "rollback", "commit"}

PcInv ==
    /\ pc \in {"down", "load"} => task = "boot"
    /\ InIngest => task \in {"ingest", "feeding"}
    /\ task = "ingest" => head \in Block

\* The heights of the blocks still to be fed climb, from above the tip.
BatchInv ==
    /\ \A i \in DOMAIN batch : Height[batch[i]] > TipHeight
    /\ \A i, j \in DOMAIN batch : i < j => Height[batch[i]] < Height[batch[j]]
    /\ task \notin {"fetch", "feed", "feeding"} => batch = <<>>
    /\ task = "feed" => batch # <<>>

FetchInv ==
    task = "fetch" =>
        /\ From <= next /\ next <= until /\ until <= From + Batch
        /\ Len(batch) <= next - From
        /\ \A i \in DOMAIN batch : Height[batch[i]] < next

\* The block being fed lies between the tip and the rest of its batch.
FeedInv ==
    task = "feeding" /\ InIngest =>
        /\ Height[NewTip] > TipHeight
        /\ \A i \in DOMAIN batch : Height[batch[i]] > Height[NewTip]

\* What CatchUp relies on while the node may reorganise under it: the batch
\* it fetched climbs from above its tip, each block it feeds to Ingest is
\* above the tip and below the blocks that follow, and Ingest runs only
\* where Run or CatchUp called it.
LoopInv == IndexerTypeOK /\ PcInv /\ BatchInv /\ FetchInv /\ FeedInv

-----------------------------------------------------------------------------
(* Properties.                                                             *)

\* A window block the branch under b hangs from, near enough for walkToKnown.
Reaches(b, h) ==
    \E a \in window \cap Ancestry[b] : h - Height[a] <= MaxDepth

\* The node's head can be joined to the index: directly, or by a catch-up
\* whose first block can be.
Joinable ==
    /\ Up
    /\ tip = storeTip
    /\ \/ tip = NoBlock
       \/ Reaches(nodeHead, Height[nodeHead])
       \/ Height[nodeHead] > TipHeight + MaxDepth /\ Reaches(nodeHead, TipHeight + 1)

\* If from some time on the node's head stays joinable, the index ends at the
\* node's head and stays there: no stale WebSocket head, no half-finished
\* catch-up and no earlier failure leaves Run on another block for good.
Converges ==
    <>[](nodeHead # NoBlock /\ Joinable) => <>[](storeTip = nodeHead /\ tip = nodeHead)

\* CatchUp returns, whatever the node does to its chain meanwhile: its loop
\* advances the tip or stops.
CatchUpReturns == CatchingUp ~> ~CatchingUp

\* Inside CatchUp every commit raises the tip, even when the node reorganises
\* between the fetch of a batch and its Ingest: a stale batch is never used
\* to take the index back.
CatchUpClimbs ==
    [][CatchingUp /\ storeTip' # storeTip => Height[storeTip'] > TipHeight]_ivars

\* "resyncs from a checkpoint when the store's tip is more than ReorgDepth
\* blocks behind the current chain head": an index that far behind gets back
\* onto the node's chain.
ResyncsWhenFarBehind ==
    Up /\ tip # NoBlock /\ nodeHead # NoBlock /\ FarBehind(nodeHead)
    ~> storeTip \in Canonical

=============================================================================
