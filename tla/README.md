# qi-index: a TLA+ verification of the indexer

qi-index follows one zone of the Quai network, keeps the canonical chain and
its Qi UTXO set in Postgres, and serves both over REST and WebSocket.  This
directory models the parts of it that are hard to test: the reorg-safe
follower, the atomic store update and its undo, the loop that drives them
against a node that keeps changing its mind, several processes on one
database, the answers the API puts together from several queries, the
WebSocket fan-out, history paging and the derivation of outputs from external
transactions.

Paths below are relative to the repository's root.

## 1. The system

| part | code | state | operations |
|---|---|---|---|
| reorg follower | `internal/follower/follower.go` | `window`, `tip`, `tipHeight`, in memory | `New`, `Ingest` (`walkToKnown`, `rollbackFrom`, `prune`), `CatchUp` |
| store | `internal/store/memory.go`, `postgres.go` | tables `blocks`, `meta` | `RecentBlocks`, `Tip`, `ApplyUpdate` (one transaction) |
| UTXO decoder | `internal/decoder/decoder.go` | tables `utxos`, `conversion_outputs` | `DecodeApply`, `DecodeRollback`, inside the store's transaction |
| output derivation | `internal/qidecode/qidecode.go` | none | `derivedOutputsCapped`, `MaxConversionOutputs`, `TrimDeadline` |
| follow loop | `internal/indexer/indexer.go` | `heads` channel, locals | `Run`, `catchUpIfBehind`, `ingest` |
| RPC client | `internal/rpcclient` | connections | `LatestBlock`, `BlockByHash`, `BlocksByRange`, `StreamBlocks` |
| WebSocket hub | `internal/api/ws.go`, `server.go`, callback in `cmd/qi-index/main.go` | `Hub.clients`, one channel per client | `Broadcast`, `add`, `remove`, two goroutines per client |
| read API | `internal/api/handlers.go`, `internal/store/read.go` | none | queries on the committed tables |
| reconcile | `cmd/reconcile/main.go` | locals of `run`; writes `utxos`, `conversion_outputs` | reapplies recent blocks through the decoder, compares unspent outputs with the node's |
| configuration, metrics, m0spike, web page, deployment | | none that matters here | |

How they interact.  `Run` is one goroutine.  It takes heads from the WebSocket
feed (another goroutine, through a channel of 16) and from a poll ticker, and
hands each to `Ingest`.  `Ingest` walks the head's ancestry over RPC until it
meets its window, builds one `chain.Update` and gives it to `ApplyUpdate`,
which checks that the update connects to `meta.tip` under a row lock, undoes
the rolled back blocks, moves the spine, decodes the new blocks and moves
`meta.tip`, all in one transaction.  Then the follower updates its window and
calls `OnUpdate`, which reads the events of the last block and broadcasts them
under the hub's read lock.  API readers see whatever is committed at each of
their queries.  `reconcile` is a process of its own: it writes the decoder's
tables without the lock on `meta.tip`.

What is hard: the node changes its chain between any two RPCs; the feed
delivers heads late or not at all; every RPC and every SQL statement may fail,
and a commit may succeed while its answer is lost; the process may die
anywhere and resumes from the store alone; undo works by height and not by
hash; clients connect, stall and vanish while broadcasts run on the indexer's
goroutine; clients page through a table that is reorganised under them; an
answer needs several queries and an update may fall between them; two indexers
may overlap during a restart, and reconcile may run next to them.

What makes each part correct:

* follower and store: the stored blocks are one gapless chain that ends in
  `meta.tip` and changes only by whole updates; the window is the top of that
  chain, and every walk in it succeeds; a follower that is wrong about the tip
  does no harm;
* decoder: after any history of updates the tables are the ones the stored
  chain determines; trimming misses nothing;
* follow loop: it ends at the node's head whenever that is reachable; a
  catch-up ends, and does not take the index back;
* hub: whoever keeps up gets everything once and in order; nobody stops the
  indexer; goroutines of dead clients end;
* derivation: the outputs are the value's expansion, cut off at the cap;
* history: a listing misses and repeats nothing that stays, and ends;
* read API: an answer is exact about every block that stays while it is put
  together, and its parts add up when nothing is committed meanwhile;
* several writers: updates stay in one order; reapplying a stored block
  changes nothing; an undisturbed reconcile completes what it reapplies and
  raises no false alarm.

## 2. Modules

```
Chain <-- ChainIndex  (what the index promises; Follower and Ledger
  ^                    instantiate it with their refinement mappings)
  |
  +-- Follower <-- Indexer <-- MCIndexer
  |      ^
  |      +-------- MCFollower
  |
  +-- Decoder <-- Ledger <-- Reads <-- MCLedger
         ^
         +-------- Writers <-- Reconcile <-- MCReconcile

Hub     Derive <-- MCDerive     History <-- MCHistory

FollowerProofs <-- IndexerProofs      HubProofs      HistoryProofs
DecoderProofs <-- LedgerProofs <-- ReadsProofs
      ^
      +---------- ReconcileProofs
```

(An arrow points to the module that is extended.  Decoder also extends
UtxoTable, and each `XProofs` extends `X`.)

**Chain** is the tree of blocks a node may ever serve.  A block is its hash;
`ParentHash` and `Height` are constant functions (a hash commits to both).
`IsChain(S, t)` says that the set `S` is a gapless chain with head `t`.

**ChainIndex** is the abstract specification: a chain and its tip, the first
block, and `Move`, which keeps the chain up to a fork and grows a contiguous
branch from it.

**Follower** models `New` and `Ingest` with one action per iteration of each
loop, because failures fall between them, together with the store's spine.
`pc` is the place in the code: `down`, `load` (`RecentBlocks`), `idle`,
`walk`, `rollback`, `commit`.  The head handed to `Ingest` is any block at
all.  `WalkFail`, `CommitFail`, `CommitLost` (committed, answer lost) and
`Crash` are the failures.  The window is a set of blocks: the Go map is keyed
by hash, and a hash determines its block.

**Indexer** adds the node, the heads channel, `Run`, `catchUpIfBehind`,
`ingest`, `CatchUp` and `BlocksByRange`.  The steps inside `Ingest` are the
Follower's.  A batch is fetched block by block from the chain the node has at
that moment.  A `CatchUp` error ends the process at boot and is only logged
later, as in the code.  The node is external; it is assumed never to return to
a block that was on its chain before (entropy only grows).

**UtxoTable** has one operator per SQL statement of the decoder.  **Decoder**
has the statements an update runs, in the code's order, what each does to the
database, and the reference: `ExpectedUtxos(C)` and `ExpectedConvs(C)` say from
the bodies of the blocks of chain `C`, without replaying a statement, what the
tables have to hold.  `Stages(rollback, apply)` is the body of `ApplyUpdate`
after its checks: a stage per block to undo, one for the spine, one per block
to decode, one for `meta.tip`.  A stage is a list of lists of statements,
because `applyBlock` runs through a block's transactions twice (Qi transactions,
then inbound ETXs) and then sweeps.  A Qi transaction with a field the decoder
refuses (`"bad"`) contributes a statement that cannot be run; an ETX with such
a field ends the update in the same way and is represented by it.  Public keys
and the source column are left out: they travel with the row.  `WellFormed` is
what `ParseBody` guarantees of a transaction, `ValidChain` what the network's
consensus guarantees of the blocks of one chain.  The last section of the
module says what a *set* of statements leads to (`UtxosOf`, `ConvsOf`): the
language of Ledger's invariant.

**Ledger** runs these statements one per step on the transaction's own view.
`stage`, `list` and `pos` are the place in `ApplyUpdate`'s loops; `Commit`
comes after the last statement and an `Abort` is possible at every point.
`FromFollower` is what the follower guarantees of an update it sends (Follower
establishes it), `Connects` what `ApplyUpdate` itself checks.

**Reads** adds the readers.  `http` is the request being answered: `Ask`, one
`Query` per query of `read.go`, `Respond` (the answer, or an error in its
place).  `push` is the read that `OnUpdate` makes after a commit, on the
indexer's goroutine.  A query sees what is committed when it runs; `seen`
keeps every database committed since the request came, as a history of what its
queries may have seen.  Counts and
sums are modelled as the sets of rows they are taken over.  HTTP steps are taken
while no transaction is open: an open one changes nothing they can see, so a
step inside it does what it does just before it begins.

**Writers** is the database with several processes.  Transactions run at READ
COMMITTED: a statement sees what is committed when it runs and its own
transaction's writes, takes the rows it changes, and waits while another
transaction holds them; an insert waits for its key.  A statement that had to
wait is evaluated when it gets its rows.  `txn` holds for each running process
its statements and the places among them that it has still to run, the keys it
holds and its versions of their rows.
`mind` is what an indexer believes to be stored; it is stale after somebody
else's commit and after a lost answer, and `Load` (a restart) renews it.
`TipLock` is `SELECT ... FOR UPDATE`, which locks nothing while there is no row.

**Reconcile** is `run` of `cmd/reconcile` next to these processes and a node
that moves: the range (with `uint64` arithmetic, modulo twice `TwoTo63`), the
batches, a transaction per block, the sample of addresses, the comparison and
the result.  `raced`, `foreign`, `crossed`, `quiet` and `whole` are history
variables: they name the circumstances the properties except (section 3).

**Hub** has the indexer's goroutine (`OnUpdate`, then one `SendOrSkip` per
client), and per client the reader (`ServeHTTP`, `readPump`) and the writer
(`writePump`).  `updates` and `dropped` are history variables that only
properties use.

**Derive** is the loop of `derivedOutputsCapped`.  `FindMinDenominations` is
go-quai's greedy expansion, modelled from how the code uses it.

**History** is a client that follows `next_cursor` through
`/address/{addr}/history` while updates are committed.

`MC*` modules give the constants of a run.  Operators commented "Mutant" are
altered versions of the definition that follows them; no specification uses
them.  They serve to show that the properties would notice the alteration.

## 3. Runs

| run | expected | what it shows |
|---|---|---|
| `follower` | pass | `StoreIsChain`, `WindowNeverBroken`, `WindowMirrorsStore`, `StaleFollowerCannotCommit`, refinement of ChainIndex, and the inductive invariant `IInv` |
| `indexer` | pass | `LoopInv`; `CatchUpClimbs`, `CatchUpReturns`, `Converges` |
| `ledger` | pass | of the tables: `LedgerInv`, `UtxosMatchChain`, `ConvsMatchChain`, `NoneOverdue`, `UndecodableNeverStored`, refinement of ChainIndex; of the answers: `ReadsInv`, `PushedEventsExact`, `BlockAnswerExact`, `TxAnswerComplete`, `OutpointUnique`, `AccountsAddUp` |
| `reconcile` | pass | two processes on one database: `ReconcileInv`, `WritersKeepChain`, `DecodedStaysDecoded`, `NoDeadlock`, `BackfillCompletes`, `NoFalseAlarm` |
| `hub` | pass | `HubInv`; `DeliveredExactly`, `BroadcastEnds`, `BrokenClientsLeave` |
| `derive` | pass | `CapIsPrefix`, `ValuePreserved`, `NoWraparound` |
| `history` | pass | `HistoryInv`; `PagesCoverStableRows`, `PagingEnds` |
| `resync_wedge` | violation | an index forked off below its window is never resynced |
| `window_shrinks` | violation | after a reorganisation to a lower head the window is shorter than `reorg_depth` |
| `hub_push` | violation | only the last block of an update is pushed |
| `history_limit` | violation | a `limit` outside 1..200 ends the listing early |
| `reconcile_verify` | violation | reconcile ends well although a phantom output is left |

`IInv`, `LoopInv`, `HubInv`, `HistoryInv`, `LedgerInv`, `ReadsInv` and
`ReconcileInv` are the inductive invariants of section 4; the runs check them on the instances, with
the type invariants as a part of them.

The five violations are places where the code does something else than its
comments or documents say; `PROJECT.json` quotes them.  The first one matters
most in operation: `CatchUp` starts at the tip's height + 1, so once the fork
has left the window its first block can never be joined, and the documented
"resync from a checkpoint" does not exist.  `Converges` therefore has the
premise `Joinable`: the head can be reached from the window directly, or by a
catch-up whose first block can be.

### How the tables can still go wrong

With one indexer and nothing else on the database the tables are right
(`ledger`).  With more processes the `reconcile` run shows that they go wrong
in the following ways only, each named by a history variable:

* `raced`: two processes make the first update of an empty database at once,
  find no `meta.tip` row to lock, and both commit;
* `foreign`: reconcile commits a block that is not stored, because the index
  is on another branch than the node, or has been rolled back since the fetch;
  what it created and spent then stays until a block of that height is rolled
  back;
* `crossed`: reconcile commits a block that had been stored undecoded while an
  update is open, and the update's later statements see rows its earlier ones
  did not: an output can be trimmed that the update had spent.

`BackfillCompletes` says which outputs there are and which of them are unspent,
not how an output ended.  If a pass dies after it has decoded a block and before
it has decoded the one that spends an output of it, the indexer's sweep trims
that output at its deadline, and a later pass, which finds no live row to spend,
leaves it trimmed.  The run reaches this from two undecoded blocks.  The
property also leaves out ranges of 2^63 blocks and more: `from` may then wrap
round to a height above the stored ones, and the pass reapplies nothing and
ends well.

A pass over a fully decoded index is harmless whatever the updates do
meanwhile, as long as it reapplies stored blocks.  `NoFalseAlarm` is about an
index at the node's head: one that trails it does get outputs reported as
phantoms that the node has spent since.

### Bounds

* `follower`: ten blocks with forks of length one and three, a rival first
  block and a window of 3: extensions, gap fills, reorganisations inside, at
  the edge of and beyond the window, and restarts between all of them.
* `indexer`: eight blocks, window 2, batches of 2 (the code: 100), one head in
  flight (16 in the channel, more in the socket), one failure or crash.  The
  tree has a branch that can be joined only while its fork is in the window
  (a restart at the end of the trunk loses it), and whose head is far enough
  ahead to start a catch-up of two batches.
* `ledger`: eight blocks on three branches with every kind of transaction:
  spends across blocks and inside one, a spend in the block of the deadline,
  locked trimmable outputs, conversions, inbound ETXs with and without value
  or lockup, the same transactions at different heights of the branches, and a
  transaction that does not decode behind two that do.  Eleven requests, one
  for each endpoint or more, with one commit while a request is answered: two
  queries of it can then see different chains, which is all a commit can do to
  them.  The tree is finite, so the run may end (no deadlock check).
* `reconcile`: four blocks on two branches; two of {two indexers, reconcile}
  run side by side; ranges of 2, 3, 5 and 13 blocks (shorter than the chain, as
  long, longer so that `from` wraps round, and so long that the range comes out
  empty), batches of 2, a margin of 1 (the code: 50), two sampled addresses of
  four, 4-bit heights.  Databases start empty or with up to three blocks, of
  which the decoder has seen all, all but the first or all but the first two.
  Behaviours are followed until a property has nothing more to say of them
  (`Clean`), and a pass that was disturbed is not followed into its
  verification, which changes nothing.  The two branches spend the same outputs in opposite orders, so
  that updates would wait for each other in a circle but for the lock.
* `reconcile_verify`: the same with one indexer, and without `Clean`.
* `hub`: two clients, a channel of 1 (the code: 64), three blocks in updates
  of up to two.  Clients connect once and heights are bounded, so the run may end.
* `derive`: denominations 1, 2, 5, 10, at most five outputs, values 0..60 and
  eleven gas limits around every threshold.
* `history`: five rows at three heights, two of them of one transaction, and
  limits from -1 to 4 where the documented range is 1..3.

### Fairness

* `Indexer!FairSpec`: the goroutine is scheduled and its process restarted
  (`restart: unless-stopped` in `docker-compose.yml`); the poll is strongly
  fair, because the ticker keeps firing and `select` chooses at random among
  ready cases, so the feed cannot starve it, and a node that is up answers it
  again and again.  Failures are bounded by `MaxFaults`; nothing is assumed of
  when they happen, of the feed, or of the node's choices.
* `Hub!FairSpec`: goroutines are scheduled; registration and removal are
  strongly fair because Go's `RWMutex` does not let readers starve a writer;
  writes to an open connection and the ping ticker happen.  Whether a
  connection breaks is not assumed.
* `History!FairSpec`: the client asks and the server answers.

## 4. Proofs

The theorems hold for every value of the constants: every block tree (finite or
not), every body of a block, every depth, batch size, number of clients, buffer
size, set of rows and page size that satisfies the assumptions.

| module | theorem | states |
|---|---|---|
| FollowerProofs | `Inductive` | `Spec => []IInv` |
| | `TypeCorrect` | `Spec => []TypeOK` |
| | `StoreSafe` | `Spec => []StoreIsChain` |
| | `WindowSafe` | `Spec => []WindowNeverBroken` |
| | `WindowFaithful` | `Spec => []WindowMirrorsStore` |
| | `StaleFollowerHarmless` | `Spec => StaleFollowerCannotCommit` |
| | `Refinement` | `Spec => ImplementsChainIndex` |
| IndexerProofs | `LoopImplementsFollower` | `IndexerSpec => Spec` |
| | `LoopInductive`, `LoopTypeCorrect` | `IndexerSpec => [](IInv /\ LoopInv)`, and `[]IndexerTypeOK` |
| | `CatchUpNeverFallsBack` | `IndexerSpec => CatchUpClimbs` |
| | `LoopImplementsChainIndex` | `IndexerSpec => ImplementsChainIndex` |
| LedgerProofs | `LedgerInductive`, `LedgerTypes` | `Spec => []LedgerInv`, and `[]LedgerTypeOK` |
| | `LedgerUtxos`, `LedgerConvs` | `Spec => []UtxosMatchChain`, `[]ConvsMatchChain` |
| | `LedgerNoneOverdue` | `Spec => []NoneOverdue` |
| | `LedgerDecodable` | `Spec => []UndecodableNeverStored` |
| | `LedgerRefinement` | `Spec => LedgerImplementsChainIndex` |
| ReadsProofs | `ReadsImplementsLedger` | `ReadsSpec => Spec` |
| | `ReadsInductive` | `ReadsSpec => []ReadsInv` |
| | `PushedEvents`, `BlockAnswers` | `ReadsSpec => []PushedEventsExact`, `[]BlockAnswerExact` |
| | `TxAnswers` | `ReadsSpec => []TxAnswerComplete` |
| | `OutpointAnswers` | `ReadsSpec => []OutpointUnique` |
| | `Accounts` | `ReadsSpec => []AccountsAddUp` |
| ReconcileProofs | `ReconcileInvariant` | `ReconcileSpec => []ReconcileInv` |
| | `WritersKeepOneChain` | `ReconcileSpec => []WritersKeepChain` |
| | `TablesStayDecoded` | `ReconcileSpec => []DecodedStaysDecoded` |
| | `NobodyDeadlocks` | `ReconcileSpec => []NoDeadlock` |
| | `NoAlarmWithoutCause` | `ReconcileSpec => []NoFalseAlarm` |
| | `PassBackfills` | `ReconcileSpec => []BackfillCompletes` |
| HubProofs | `HubInductive`, `HubTypeCorrect` | `Spec => []HubInv`, and `[]HubTypeOK` |
| | `Delivery` | `Spec => []DeliveredExactly` |
| HistoryProofs | `HistoryInductive`, `HistoryTypeCorrect` | `Spec => []HistoryInv`, and `[]HistoryTypeOK` |
| | `ListingComplete` | `Spec => []PagesCoverStableRows` |

`LoopImplementsFollower` and `ReadsImplementsLedger` carry the theorems of
FollowerProofs over to the running indexer and those of LedgerProofs to an
index that is read while it is written.

### Assumptions

* Chain: a block's parent is a block or unknown; a block is one higher than its
  parent (consensus); the empty hash is no block.
* Follower: `reorg_depth` is positive (`config.LoadFollow` refuses others).
* Decoder, `BodyAssumption`: a body is a sequence of transactions with the
  fields `ParseBody` fills in, and a transaction's hash is not NULL.
  `LockAssumption`: lock periods are heights.
* Decoder, `ConsensusAssumption`: in one chain a transaction occurs once, an
  outpoint is spent once, and an output is spent after it was made and not above
  its trim height.  A node rejects a block that breaks this before it serves
  it; the decoder relies on it (a spend that finds no live row changes nothing
  and reports nothing).  It is assumed of chains only: two branches may contain
  the same transactions at different heights, and spend the same outputs.
* Reconcile, `StoredAssumption`: a database is found with a gapless chain that
  ends in its `meta.tip` and with rows as the statements write them, decoded or
  not.  `StemAssumption`: of each of its rows the output is made by a stored
  block, and if it is spent or trimmed a stored block is the reason; an index
  without blocks has no conversions.  Updates leave it so, and so does a pass
  that applied no foreign block and crossed no update.  `ReconcileAssumption`:
  heights fit a `bigint`, and the flag, the batch and the `LIMIT` are positive.
  Nothing is assumed of how many processes there are, of which run side by side,
  or of the width of an integer.
* Indexer: a batch is not empty.  Hub: neither the send buffer's capacity nor an
  update is zero.  History: a row is its height, transaction and index, and the
  default limit is in the documented range.

TLC evaluates these on the instances of the runs.

### The arguments

*Follower.*  `StoreIsChain` is not inductive: that a commit keeps the store
a chain depends on what the walks collected before it.  `IInv` adds that

* `LoadInv`: what `RecentBlocks` has read steps down from the stored tip,
  inside the store;
* `MemoryInv`: the window is a chain that ends in the follower's tip, at most
  `MaxDepth` below it, and part of the store while the two tips agree;
* `BranchInv`: the branch climbs along parent links and avoids the window;
* `RollbackInv`: the rollback steps down from the tip inside the window, has
  not passed the ancestor, and has reached it before the commit.

Four lemmas about chains carry the proof: cutting a chain back to one of its
blocks leaves a chain (`CutIsChain`), growing a climbing branch on its head
gives a chain (`GraftIsChain`), removing a walk down from the head is such a
cut (`TrailCut`), and pruning is harmless (`PruneIsChain`).  `ConnectsMeans`
shows that the store's checks force the follower's tip to be the store's (or
both to be in their first step), `CommitIsChain` and `CommitWindow` apply
these to a commit, `NextInv` goes through the actions, and `CommitIsMove`
shows that a commit is a `Move` or a `Bootstrap` of ChainIndex.

*Indexer.*  The steps inside `Ingest` are the Follower's, the others leave its
variables alone; hence the refinement.  `CatchUpClimbs` needs to know that a
batch, fetched before the node changed its chain, still lies above the tip when
its blocks are fed: `LoopInv` says that the heights of the blocks to be fed
climb from above the tip (`BatchInv`), also while a batch is being fetched
(`FetchInv`), that the block being fed lies between the tip and the rest
(`FeedInv`), and that `Ingest` runs only where `Run` or `CatchUp` called it
(`PcInv`).

*Ledger.*  The state in the middle of a transaction is no function of a chain.
`LedgerInv` describes it by the *set* of statements it stands for: a table
holds the rows inserted by the statements of a set `D`, each with the fate
(`Became`) that the spends and sweeps in `D` give it, whatever their order.

* `CommittedInv`: the committed tables are those of all statements of the
  stored chain (`Holds(db, ChainStatements(db.blocks))`).
* `UndoInv`: while block `b` is undone, `work` is the table of the chain up to
  `b` after the first statements of `rollbackBlock` (`UtxosUndone`).  When all
  four have run it is the table of the chain up to `b`'s parent: undo by height
  undoes exactly what `applyBlock` did (`UndoneUtxos`, `UndoBlock`).
* `SpineInv`: what stays, with part of the blocks removed and added.
* `DecodeInv`: the tables of the part that stays, of the branch's blocks below
  `b`, and of the statements of `b` before `<<list, pos>>` (`Executed`).  One
  more statement is one more element (`DecodeStep`): an insert never finds its
  key taken and a spend always finds its row live, because an outpoint is made
  and spent once, made before it is spent, and spent before the sweep of its
  deadline.
* `TipInv`, `DoneInv`: the same of the whole branch.

DecoderProofs has the facts about the statements alone.  Its last lemmas say
that the tables of the statements of a chain are `ExpectedUtxos` and
`ExpectedConvs`, which do not mention statements.  `NoneOverdue` follows because
a chain has a block at every height between two of its blocks (`NoGap`), and
that block a sweep.

*Reads.*  No answer is a function of one database, since its queries see
several.  `ReadsInv` says that each part of an answer is what its query returned
from one of the databases in `seen` (`PartsInv`), and that the chains of these
agree below every block they all have (`SeenInv`; every commit is a `Move`,
`CommitAgrees`).  What a block did is determined by the blocks up to it, so
parts that were read from different chains still say the same of a block that
stayed.  `OnUpdate`'s read has seen one database only, because the next update
begins after it has returned.  `Accounts` also needs that the table of a chain
is finite (one block per height, `FiniteChain`) and that no row is both spent
and trimmed.

*Writers and Reconcile.*  A transaction's statements run between those of
others, so neither the committed tables nor what a transaction sees is a function
of the steps it has taken itself.  `ReconcileInv` says what is:

* `WritersInv`: a transaction holds the keys of its own rows, no two hold the
  same key (`Apart`), and the statements it has run come before those it has not
  (`TxnInv`).  A statement looks at and changes rows of its own keys only, so a
  commit of one process changes what another sees only at keys that the other
  does not hold.  A key held by reconcile is one that a statement of its block
  would still change in the committed table (`Justified`): nobody else has
  changed that row since.
* `ChainInv`: the lock on `meta.tip` makes an open update `Steady` (the committed
  blocks stay the ones it builds on), so that it connects to the stored chain
  until it commits (`OnChain`) and sees that chain with a part of its own blocks
  removed and added (`SpineView`).  A first update has no lock; it can be
  forestalled, which `raced` records.
* `TablesInv`: the committed tables are those of the statements of the stored
  chain, and a steady update sees the tables its own statements lead to
  (`TableView`, the language of `LedgerInv`).  Reconcile cannot disturb it: of a
  block whose statements are all in the table none changes a row, so its
  transaction holds no key, and its commit is a stutter.  Where such a block is
  not stored, its commit sets `foreign`.
* `PassInv`: the range and the batch, with the wrap round of `from`.
* `AlarmInv`: while a quiet pass stands at the node's head, what the node said of
  an address is current.  The stored chain may start above the node's first
  block, but above its lowest block the two are the same, so an output that is
  unspent in the stored chain is unspent at the node as well.
* `SettledInv` and `StemsInv`: of an index that is decoded in part the tables are
  no function of the blocks, as earlier passes may have left any pattern.  What
  remains true is that each row `Stems` from the stored chain: some statement of
  it made the output, and if the row has ended, one ended it.  An open update
  sees such rows as well, stemming from the blocks it has not yet taken back and
  those it has added (`StemView`), and so does reconcile in the middle of a block
  (`RemadeView`).  `SettledInv` says that such an index is not empty, so every
  update of it locks `meta.tip`.
* `QuietInv`: a quiet pass goes through the stored blocks of its range one height
  at a time, and after each statement the tables have `CaughtUp` with the
  statements run so far: every output they make is there, and no unspent output
  since `from` is one they end.

`NobodyDeadlocks` follows: an update holds the lock on `meta.tip`, so there is one
at most, and reconcile, which reapplies what is in the tables, holds no key that
it could wait for.

`PassBackfills` puts the last two together.  At its end the pass has run the
statements of every stored block from `from` on, and `from` is
`max(minH, maxH - n + 1)`: had the subtraction wrapped round, `from` would be no
`bigint` and the sample query would have failed.  Every output since `from` that
the chain makes is there, by `CaughtUp`, and there is no other, as rows stem from
the chain.  One that the chain ends is not unspent, by `CaughtUp`; one that it
does not end is unspent, because the row could have ended only by a statement of
the chain.

*Hub.*  `DeliveredExactly` says nothing of the middle of a broadcast, when some
clients have been reached.  `HubInv` says what each client is owed at that point
(`OwedInv`), that only registered clients are left to reach (`BroadcastInv`),
and that a connection has no history before it is registered (`FreshInv`).

*History.*  `HistoryInv` says that the cursor is the last row listed
(`CursorInv`), that what was listed goes from newer to older, and that every
row that stays is listed or still ahead of the cursor (`AheadInv`), between any
two pages and whatever is committed there.

### Only model-checked

* Liveness (`Converges`, `CatchUpReturns`, `BroadcastEnds`,
  `BrokenClientsLeave`, `PagingEnds`): out of the proof system's reach.
* Derive: `CapIsPrefix` and `ValuePreserved` are about folds and flattened
  sequences, which would need induction over data.  `NoWraparound` could be
  proved.
* That the rollback the follower computes as a sorted sequence (`RollbackTo`)
  meets `FromFollower` and `Connects`.  The proofs are about every update that
  meets the two, which are guards of `Begin`.

## 5. Not modelled

* JSON and hex parsing, HTTP routing and rendering, metrics, flags: data
  conversion without state of its own.
* Migrations and connecting: start-up I/O that runs before any of the modelled
  operations.
* The feed's reconnects: a lost head in `NodeAdvance` stands for their effect,
  and `Converges` rests on the poll alone.  That the backoff is never reset
  and that every reconnect leaves a goroutine waiting is not modelled.
* Merging of configuration sources; its check that `reorg_depth` is positive
  is an assumption of Follower.
* Shutting the server down: the requests it may cut off only read.
* m0spike, the web page, the provider example and the deployment files.

## 6. Plan

1. Core, done: Chain, ChainIndex, Follower with its proofs, Indexer, Ledger,
   Hub, Derive, History.
2. Readers and further writers, done: Decoder split from Ledger, Reads,
   Writers, Reconcile.
3. Proofs, done: Follower, Indexer, Ledger with the decoder, Reads, Writers and
   Reconcile, and the safety of Hub and History.
4. Prove next: the safety of Derive, as far as it needs no induction over data.
5. Then: the feed with its reconnects and backoff; Follower composed with
   Ledger, so that the transaction's steps and the follower's failures
   interleave in one specification.
