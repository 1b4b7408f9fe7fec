------------------------------ MODULE Follower ------------------------------
(***************************************************************************)
(* The reorg follower (internal/follower/follower.go) and the spine of the *)
(* store it commits to (blocks and meta.tip; store/memory.go and the first *)
(* half of Postgres.ApplyUpdate in store/postgres.go).                     *)
(*                                                                         *)
(* The follower is a single goroutine that owns an in-memory window of     *)
(* recent canonical blocks.  Each loop iteration of the code is a step     *)
(* here, because RPC errors, store errors and process crashes fall between *)
(* them.  The head handed to Ingest is any block whatsoever: the Indexer   *)
(* module says which ones the real driver hands in.                        *)
(***************************************************************************)
EXTENDS Chain, Sequences, Functions

CONSTANT MaxDepth     \* reorg_depth

\* config.LoadFollow refuses reorg_depth <= 0.
ASSUME MaxDepthAssumption == MaxDepth \in Nat \ {0}

VARIABLES
    storeBlocks,  \* rows of table blocks (Memory.blocks)
    storeTip,     \* meta['tip'] (Memory.tip)
    window,       \* Follower.window, as the set of its keys
    tip,          \* Follower.tip
    pc,           \* where the goroutine is
    recent,       \* New: blocks read by RecentBlocks, tip first
    branch,       \* Ingest: the blocks to apply, ancestor first
    ancestor,     \* Ingest: the known block branch hangs from
    rollback,     \* Ingest: the blocks to undo, tip first
    result        \* what the last Ingest returned

store == <<storeBlocks, storeTip>>
memory == <<window, tip>>
update == <<branch, ancestor, rollback>>
fvars == <<storeBlocks, storeTip, window, tip, pc, recent, branch, ancestor,
           rollback, result>>

PC == {"down", "load", "idle", "walk", "rollback", "commit"}
Result == {"ok", "tooDeep", "windowBroken", "error"}

BlockOrNone == Block \cup {NoBlock}

TypeOK ==
    /\ storeBlocks \subseteq Block
    /\ storeTip \in BlockOrNone
    /\ window \subseteq Block
    /\ tip \in BlockOrNone
    /\ pc \in PC
    /\ recent \in Seq(Block)
    /\ branch \in Seq(Block)
    /\ ancestor \in BlockOrNone
    /\ rollback \in Seq(Block)
    /\ result \in Result

\* Follower.Tip's height: 0 before the first block.
TipHeight == IF tip = NoBlock THEN 0 ELSE Height[tip]

Init ==
    /\ storeBlocks = {} /\ storeTip = NoBlock
    /\ window = {} /\ tip = NoBlock
    /\ pc = "down"
    /\ recent = <<>> /\ branch = <<>> /\ rollback = <<>> /\ ancestor = NoBlock
    /\ result = "ok"

-----------------------------------------------------------------------------
(* follower.New: rebuild the window from the store.                        *)

Start ==
    /\ pc = "down"
    /\ pc' = "load"
    /\ UNCHANGED <<store, memory, recent, update, result>>

\* The block a walk down the parent links from t visits after those in s.
Cursor(t, s) == IF s = <<>> THEN t ELSE ParentHash[s[Len(s)]]

\* Mutant: the walk does not stop at a block the store does not have.
MoreRecentUnchecked == Len(recent) < MaxDepth /\ Cursor(storeTip, recent) # NoBlock

MoreRecent == Len(recent) < MaxDepth /\ Cursor(storeTip, recent) \in storeBlocks

\* One iteration of RecentBlocks(maxDepth).
LoadStep ==
    /\ pc = "load"
    /\ MoreRecent
    /\ recent' = Append(recent, Cursor(storeTip, recent))
    /\ UNCHANGED <<store, memory, pc, update, result>>

LoadDone ==
    /\ pc = "load"
    /\ ~MoreRecent
    /\ window' = Range(recent)
    /\ tip' = IF recent = <<>> THEN NoBlock ELSE recent[1]
    /\ pc' = "idle"
    /\ recent' = <<>>
    /\ UNCHANGED <<store, update, result>>

-----------------------------------------------------------------------------
(* Follower.Ingest.                                                        *)

\* Ingest returns r with no update under way.
Return(r) ==
    /\ pc' = "idle"
    /\ result' = r
    /\ branch' = <<>> /\ ancestor' = NoBlock /\ rollback' = <<>>
    /\ UNCHANGED recent

IngestKnown(b) ==
    /\ pc = "idle"
    /\ b \in window
    /\ Return("ok")
    /\ UNCHANGED <<store, memory>>

IngestExtend(b) ==
    /\ pc = "idle"
    /\ b \notin window
    /\ tip = NoBlock \/ ParentHash[b] = tip
    /\ branch' = <<b>>
    /\ ancestor' = tip
    /\ pc' = "commit"
    /\ UNCHANGED <<store, memory, recent, rollback, result>>

IngestWalk(b) ==
    /\ pc = "idle"
    /\ b \notin window
    /\ tip # NoBlock /\ ParentHash[b] # tip
    /\ branch' = <<b>>
    /\ pc' = "walk"
    /\ UNCHANGED <<store, memory, recent, ancestor, rollback, result>>

Ingest(b) == IngestKnown(b) \/ IngestExtend(b) \/ IngestWalk(b)

\* walkToKnown: the local variable parent.
Parent == ParentHash[branch[1]]

WalkFound ==
    /\ pc = "walk"
    /\ Parent \in window
    /\ ancestor' = Parent
    /\ pc' = "rollback"
    /\ UNCHANGED <<store, memory, recent, branch, rollback, result>>

WalkTooDeep ==
    /\ pc = "walk"
    /\ Parent \notin window
    /\ Len(branch) >= MaxDepth
    /\ Return("tooDeep")
    /\ UNCHANGED <<store, memory>>

\* Mutant: the fetched ancestor goes to the wrong end of the branch.
WalkFetchAppends ==
    /\ pc = "walk"
    /\ Parent \notin window
    /\ Len(branch) < MaxDepth
    /\ Parent \in Block
    /\ branch' = Append(branch, Parent)
    /\ UNCHANGED <<store, memory, pc, recent, ancestor, rollback, result>>

\* BlockByHash answers with the block that has the hash.
WalkFetch ==
    /\ pc = "walk"
    /\ Parent \notin window
    /\ Len(branch) < MaxDepth
    /\ Parent \in Block
    /\ branch' = <<Parent>> \o branch
    /\ UNCHANGED <<store, memory, pc, recent, ancestor, rollback, result>>

\* BlockByHash fails, or the node has no such block.
WalkFail ==
    /\ pc = "walk"
    /\ Parent \notin window
    /\ Len(branch) < MaxDepth
    /\ Return("error")
    /\ UNCHANGED <<store, memory>>

\* One iteration of rollbackFrom(ancestor), its error return included.
RollbackStep ==
    /\ pc = "rollback"
    /\ Cursor(tip, rollback) # ancestor
    /\ IF Cursor(tip, rollback) \in window
       THEN /\ rollback' = Append(rollback, Cursor(tip, rollback))
            /\ UNCHANGED <<pc, recent, branch, ancestor, result>>
       ELSE Return("windowBroken")
    /\ UNCHANGED <<store, memory>>

RollbackDone ==
    /\ pc = "rollback"
    /\ Cursor(tip, rollback) = ancestor
    /\ pc' = "commit"
    /\ UNCHANGED <<store, memory, recent, update, result>>

-----------------------------------------------------------------------------
(* Store.ApplyUpdate(Update{Rollback: rollback, Apply: branch}), one       *)
(* transaction.                                                            *)

\* Mutant: the first applied block need not connect to the stored tip.
ConnectsAnywhere ==
    /\ branch # <<>>
    /\ \A i \in 1..Len(rollback) :
           rollback[i] = IF i = 1 THEN storeTip ELSE ParentHash[rollback[i - 1]]
    /\ \A i \in 2..Len(branch) : ParentHash[branch[i]] = branch[i - 1]

\* The checks ApplyUpdate makes before it changes anything.
Connects ==
    /\ branch # <<>>
    /\ \A i \in 1..Len(rollback) :
           rollback[i] = IF i = 1 THEN storeTip ELSE ParentHash[rollback[i - 1]]
    /\ storeTip # NoBlock => ParentHash[branch[1]] = Cursor(storeTip, rollback)
    /\ \A i \in 2..Len(branch) : ParentHash[branch[i]] = branch[i - 1]

\* Mutant: rolled back blocks are not deleted.
AppliedKeeping(S) == S \cup Range(branch)

\* The blocks of S without the rolled back ones and with the applied ones:
\* what ApplyUpdate does to the store and Ingest to its window.
Applied(S) == (S \ Range(rollback)) \cup Range(branch)

NewTip == branch[Len(branch)]

StoreCommit ==
    /\ storeBlocks' = Applied(storeBlocks)
    /\ storeTip' = NewTip

\* Follower.prune after tip t was recorded.
Prune(S, t) ==
    IF Height[t] < MaxDepth
    THEN S
    ELSE {b \in S : Height[b] >= Height[t] - MaxDepth}

\* Mutant: only the head is entered into the window.
TrackedHeadOnly == Prune((window \ Range(rollback)) \cup {NewTip}, NewTip)

\* Mutant: rolled back blocks stay in the window.
TrackedKeeping == Prune(window \cup Range(branch), NewTip)

\* The window after the update.
Tracked == Prune(Applied(window), NewTip)

\* The update commits and Ingest brings the window and the tip along.
CommitOk ==
    /\ pc = "commit"
    /\ Connects
    /\ StoreCommit
    /\ window' = Tracked
    /\ tip' = NewTip
    /\ Return("ok")

\* ApplyUpdate refuses an update that does not connect to its tip.
CommitReject ==
    /\ pc = "commit"
    /\ ~Connects
    /\ Return("error")
    /\ UNCHANGED <<store, memory>>

\* The transaction aborts: a database error or a block that does not decode.
CommitFail ==
    /\ pc = "commit"
    /\ Connects
    /\ Return("error")
    /\ UNCHANGED <<store, memory>>

\* The database commits, but its answer is lost and Ingest sees an error.
CommitLost ==
    /\ pc = "commit"
    /\ Connects
    /\ StoreCommit
    /\ Return("error")
    /\ UNCHANGED memory

\* The process dies (or New fails); only the store survives.
Crash ==
    /\ pc # "down"
    /\ pc' = "down"
    /\ window' = {} /\ tip' = NoBlock
    /\ recent' = <<>> /\ branch' = <<>> /\ rollback' = <<>> /\ ancestor' = NoBlock
    /\ result' = "ok"
    /\ UNCHANGED store

-----------------------------------------------------------------------------
Next ==
    \/ Start \/ LoadStep \/ LoadDone
    \/ \E b \in Block : Ingest(b)
    \/ WalkFound \/ WalkTooDeep \/ WalkFetch \/ WalkFail
    \/ RollbackStep \/ RollbackDone
    \/ CommitOk \/ CommitReject \/ CommitFail \/ CommitLost
    \/ Crash

Spec == Init /\ [][Next]_fvars

-----------------------------------------------------------------------------
(* The inductive invariant.  IInv says what holds between the steps of New *)
(* and Ingest: what the walks have collected so far, where they started,   *)
(* and how the follower's memory and the store are related.                *)

\* s climbs one height at a time along parent links (branch).
Ascends(s) ==
    /\ s # <<>>
    /\ \A i \in 1..Len(s) : Height[s[i]] = Height[s[1]] + i - 1
    /\ \A i \in 2..Len(s) : ParentHash[s[i]] = s[i - 1]

\* s steps down from t along parent links (recent, rollback).
Descends(s, t) ==
    /\ s # <<>> => s[1] = t
    /\ \A i \in 1..Len(s) : Height[s[i]] = Height[t] - i + 1
    /\ \A i \in 2..Len(s) : s[i] = ParentHash[s[i - 1]]

Up == pc \notin {"down", "load"}

\* A follower that has a tip resumed from, or wrote, a store that has one;
\* while the two tips agree the window is part of the store.
MemoryInv ==
    /\ tip # NoBlock => storeTip # NoBlock
    /\ Up => IsChain(window, tip)
    /\ Up /\ tip = storeTip => window \subseteq storeBlocks
    /\ Up => \A b \in window : Height[b] >= Height[tip] - MaxDepth

LoadInv ==
    /\ pc # "load" => recent = <<>>
    /\ pc = "load" => /\ Descends(recent, storeTip)
                      /\ Range(recent) \subseteq storeBlocks
                      /\ Len(recent) <= MaxDepth

BranchInv ==
    pc \in {"walk", "rollback", "commit"} =>
        /\ Ascends(branch)
        /\ Range(branch) \cap window = {}

RollbackInv ==
    /\ pc \notin {"rollback", "commit"} => rollback = <<>>
    /\ pc \in {"walk", "rollback"} => tip # NoBlock
    /\ pc \in {"rollback", "commit"} /\ tip # NoBlock =>
           /\ ancestor \in window
           /\ ParentHash[branch[1]] = ancestor
           /\ Descends(rollback, tip)
           /\ Range(rollback) \subseteq window
           /\ Cursor(tip, rollback) \in window
           /\ Height[Cursor(tip, rollback)] >= Height[ancestor]
    /\ pc = "commit" =>
           IF tip = NoBlock
           THEN rollback = <<>> /\ Len(branch) = 1
           ELSE Cursor(tip, rollback) = ancestor

IInv ==
    /\ TypeOK
    /\ IsChain(storeBlocks, storeTip)
    /\ MemoryInv
    /\ LoadInv
    /\ BranchInv
    /\ RollbackInv
    /\ result # "windowBroken"

-----------------------------------------------------------------------------
(* Properties.                                                             *)

\* The index the store holds is what ChainIndex promises: every commit, with
\* whatever errors, lost answers and crashes came before it, takes the table
\* from one gapless chain to another by cutting it back to a block and
\* growing a contiguous branch from there (Follower.Ingest, ApplyUpdate).
Index == INSTANCE ChainIndex WITH chain <- storeBlocks, tip <- storeTip
ImplementsChainIndex == Index!Spec

\* meta.tip names the highest row of blocks, and the rows under it form one
\* gapless chain with one block per height (ApplyUpdate's connectivity rules).
StoreIsChain == IsChain(storeBlocks, storeTip)

\* rollbackFrom never answers "window broken": pruning and reorganisations
\* leave a window in which every walk from the tip to a known ancestor
\* stays inside.
WindowNeverBroken == result # "windowBroken"

\* Unless a commit's answer was lost, the follower's tip is the store's tip;
\* and then the window is a gapless top part of the store, at most
\* MaxDepth + 1 blocks long, so RecentBlocks and prune agree on what to keep.
WindowMirrorsStore ==
    pc \notin {"down", "load"} /\ tip = storeTip =>
        /\ window \subseteq storeBlocks
        /\ IsChain(window, tip)
        /\ \A b \in window : Height[b] >= Height[tip] - MaxDepth

\* Once a commit's answer is lost the follower works from a tip that is no
\* longer the store's; the store then refuses whatever it sends, so nothing
\* is applied twice or on top of the wrong block until a restart reloads the
\* tip.  Only a follower without a tip, which cannot be wrong about it, may
\* still commit.
StaleFollowerCannotCommit ==
    [][storeTip' # storeTip => tip \in {storeTip, NoBlock}]_fvars

\* "How many blocks back the follower keeps in its reorg window": every
\* stored block less than MaxDepth below the tip is in the window.
WindowReachesBack ==
    Up /\ tip # NoBlock /\ tip = storeTip =>
        \A b \in storeBlocks : Height[b] > Height[tip] - MaxDepth => b \in window

=============================================================================
