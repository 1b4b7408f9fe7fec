------------------------------ MODULE Reconcile ------------------------------
(***************************************************************************)
(* cmd/reconcile/main.go next to running indexers: it reapplies the last   *)
(* blocks of the stored range through the decoder, each in a transaction   *)
(* of its own that does not lock meta.tip, and then compares the unspent   *)
(* outputs of some addresses with the node's.                              *)
(***************************************************************************)
EXTENDS Writers

CONSTANTS
    Tool,        \* the reconcile process
    Owner,       \* the address each outpoint pays to
    NBlocks,     \* values of the flag -blocks
    Batch,       \* blocks per BlocksByRange request (100)
    Margin,      \* blocks below maxH whose outputs are not sampled (50)
    SampleLimit, \* addresses sampled at most (1000)
    TwoTo63,     \* 2^63: a bigint is less, a uint64 less than twice that
    StoredDbs    \* the databases the processes may find

ASSUME ToolAssumption == Tool \notin Process

ASSUME ReconcileAssumption ==
    /\ NBlocks \subseteq Nat \ {0} /\ Batch \in Nat \ {0} /\ Margin \in Nat
    /\ SampleLimit \in Nat \ {0} /\ TwoTo63 \in Nat \ {0}
    /\ \A b \in Block : Height[b] < TwoTo63

\* A database with its rows as the statements write them.
IsRow(r) ==
    r = [op |-> r.op, lock |-> r.lock, created |-> r.created, deadline |-> r.deadline,
         spent |-> r.spent, spentTx |-> r.spentTx, trimmed |-> r.trimmed]

IsTables(d) == IsDb(d) /\ \A r \in d.utxos : IsRow(r)

\* A database is found as earlier updates have left it.
ASSUME StoredAssumption == \A d \in StoredDbs : IsTables(d) /\ IsChain(d.blocks, d.tip)

VARIABLES
    rec,       \* the locals of run
    foreign,   \* reconcile committed a block that was not stored (history)
    crossed,   \* reconcile committed a block while an update was open (history)
    quiet,     \* nothing but this pass has been going on since it began (history)
    whole      \* every block stored at the start had been decoded (history)

recvars == <<wvars, rec, foreign, crossed, quiet, whole>>

Idle == [pc |-> "idle", n |-> 0, minH |-> 0, maxH |-> 0, from |-> 0, next |-> 0, end |-> 0,
         batch |-> <<>>, addrs |-> {}, addr |-> {}, nodeSet |-> {}, mismatches |-> 0]

Ended == rec.pc \in {"idle", "ok", "mismatch", "failed"}

Wrap(n) == n % (2 * TwoTo63)

\* pgx refuses to encode a uint64 of 2^63 or more as a bigint.
IsBigint(n) == n < TwoTo63

Canonical == Ancestry[nodeHead]

\* The index and the node agree on every stored block, and no update runs.
Still == db.blocks \subseteq Canonical /\ \A p \in DOMAIN mind : ~txn[p].open

-----------------------------------------------------------------------------
(* run: the range and the backfill.                                        *)

Heights(S) == {Height[b] : b \in S}

\* Mutant: one block too few.
FromShort(maxH, minH, n) ==
    LET f == Wrap(maxH - n + 2) IN IF f < minH THEN minH ELSE f

From(maxH, minH, n) ==
    LET f == Wrap(maxH - n + 1) IN IF f < minH THEN minH ELSE f

\* Mutant: a batch of one block more.
EndInclusive(h, maxH) == Min({h + Batch + 1, maxH + 1})

End(h, maxH) == Min({h + Batch, maxH + 1})

\* Everything but the locals of run.
Elsewhere == <<db, mind, nodeHead, seen, raced, whole>>
mixed == <<foreign, crossed>>

\* min and max of an empty table are NULL, which Scan refuses.
Start(n) ==
    /\ Tool \in DOMAIN txn /\ Ended
    /\ rec' = IF db.blocks = {} THEN [Idle EXCEPT !.pc = "failed"]
              ELSE LET lo == Min(Heights(db.blocks))
                       hi == Max(Heights(db.blocks))
                       f == From(hi, lo, n)
                   IN [Idle EXCEPT !.pc = "fetch", !.n = n, !.minH = lo, !.maxH = hi,
                                   !.from = f, !.next = f, !.end = End(f, hi)]
    /\ quiet' = Still
    /\ UNCHANGED <<Elsewhere, txn, mixed>>

\* One height of BlocksByRange, read from the node's chain of that moment; a
\* height the node does not have is skipped.
Fetch ==
    /\ rec.pc = "fetch" /\ rec.next < rec.end
    /\ rec' = [rec EXCEPT !.next = @ + 1,
                          !.batch = @ \o SetToSeq({b \in Canonical : Height[b] = rec.next})]
    /\ UNCHANGED <<Elsewhere, txn, mixed, quiet>>

\* BeginFunc around DecodeApply of one block.
ApplyBegin ==
    /\ rec.pc = "fetch" /\ rec.next >= rec.end /\ rec.batch # <<>>
    /\ ~txn[Tool].open
    /\ LET code == <<ApplyBlock(rec.batch[1])>>
       IN txn' = [txn EXCEPT ![Tool] =
                      [NoTxn EXCEPT !.code = code, !.todo = Places(code), !.open = TRUE]]
    /\ UNCHANGED <<Elsewhere, rec, mixed, quiet>>

ApplyRun == rec.pc = "fetch" /\ RunStatement(Tool) /\ UNCHANGED <<Elsewhere, rec, mixed, quiet>>

ApplyCommit ==
    /\ rec.pc = "fetch" /\ txn[Tool].open /\ txn[Tool].todo = {}
    /\ db' = View(db, txn[Tool])
    /\ txn' = [txn EXCEPT ![Tool] = NoTxn]
    /\ rec' = [rec EXCEPT !.batch = Tail(@)]
    /\ foreign' = (foreign \/ rec.batch[1] \notin db.blocks)
    /\ crossed' = (crossed \/ \E p \in DOMAIN mind : txn[p].open)
    /\ UNCHANGED <<mind, nodeHead, seen, raced, whole, quiet>>

\* The loop's condition: the next batch, or the sample of addresses.
NextBatch ==
    /\ rec.pc = "fetch" /\ rec.next >= rec.end /\ rec.batch = <<>>
    /\ rec' = IF rec.next <= rec.maxH
              THEN [rec EXCEPT !.end = End(rec.next, rec.maxH)]
              ELSE [rec EXCEPT !.pc = "sample"]
    /\ UNCHANGED <<Elsewhere, txn, mixed, quiet>>

\* A fetch, a statement or a query fails, a block does not decode, or the
\* process dies.
Fail ==
    /\ ~Ended
    /\ rec' = [Idle EXCEPT !.pc = "failed"]
    /\ txn' = [txn EXCEPT ![Tool] = NoTxn]
    /\ UNCHANGED <<Elsewhere, mixed, quiet>>

-----------------------------------------------------------------------------
(* run: the verification.                                                  *)

LiveIn(U) == {r \in U : Live(r)}

Sampled ==
    {Owner[r.op] : r \in {s \in LiveIn(db.utxos) :
                              rec.from <= s.created /\ s.created <= Wrap(rec.maxH - Margin)}}

\* LIMIT: all of them, or SampleLimit of them.
Sample ==
    /\ rec.pc = "sample"
    /\ IF IsBigint(rec.from) /\ IsBigint(Wrap(rec.maxH - Margin))
       THEN \E S \in SUBSET Sampled :
                /\ IsFiniteSet(S) /\ Cardinality(S) <= SampleLimit
                /\ S # Sampled => Cardinality(S) = SampleLimit
                /\ rec' = [rec EXCEPT !.pc = "node", !.addrs = S]
       ELSE rec' = [Idle EXCEPT !.pc = "failed"]
    /\ UNCHANGED <<Elsewhere, txn, mixed, quiet>>

\* nodeUnspent: what the node's head says is unspent.  A failed call is
\* logged and its address passed over.
NodeUnspent(a) == {r.op : r \in {s \in LiveIn(ExpectedUtxos(Canonical)) : Owner[s.op] = a}}

AskNode(a) ==
    /\ rec.pc = "node" /\ a \in rec.addrs
    /\ \/ rec' = [rec EXCEPT !.addrs = @ \ {a}]
       \/ rec' = [rec EXCEPT !.addrs = @ \ {a}, !.pc = "db", !.addr = {a},
                             !.nodeSet = NodeUnspent(a)]
    /\ UNCHANGED <<Elsewhere, txn, mixed, quiet>>

DbUnspent(A) == {r.op : r \in {s \in LiveIn(db.utxos) : Owner[s.op] \in A}}

\* Mutant: outputs only the node has count as well.
OnlyDBEither(node, ours) == (ours \ node) \cup (node \ ours)

\* diffSets
OnlyDB(node, ours) == ours \ node

\* dbUnspent and the comparison.
Compare ==
    /\ rec.pc = "db"
    /\ rec' = [rec EXCEPT !.pc = "node", !.addr = {}, !.nodeSet = {},
                          !.mismatches = @ + IF OnlyDB(rec.nodeSet, DbUnspent(rec.addr)) # {}
                                             THEN 1 ELSE 0]
    /\ UNCHANGED <<Elsewhere, txn, mixed, quiet>>

Finish ==
    /\ rec.pc = "node" /\ rec.addrs = {}
    /\ rec' = [rec EXCEPT !.pc = IF rec.mismatches > 0 THEN "mismatch" ELSE "ok"]
    /\ UNCHANGED <<Elsewhere, txn, mixed, quiet>>

-----------------------------------------------------------------------------
ReconcileInit ==
    /\ db \in StoredDbs
    /\ nodeHead \in {b \in Block : db.blocks \subseteq Ancestry[b]}
    /\ seen = Ancestry[nodeHead]
    /\ \E running \in kSubset(MaxRunning, Process \cup {Tool}) :
           /\ txn = [p \in running |-> NoTxn]
           /\ mind = [p \in running \ {Tool} |-> db.blocks]
    /\ raced = FALSE /\ foreign = FALSE /\ crossed = FALSE /\ quiet = FALSE
    /\ whole = (TablesMatch(db) /\ \A b \in db.blocks : ~Undecodable(b))
    /\ rec = Idle

Applying == ApplyBegin \/ ApplyRun \/ ApplyCommit \/ Fail

\* These steps read what is committed, and write nothing.
Reading ==
    \/ \E n \in NBlocks : Start(n)
    \/ Fetch \/ NextBatch
    \/ Sample \/ (\E a \in rec.addrs : AskNode(a)) \/ Compare \/ Finish

ReconcileStep == Applying \/ Reading

\* What the indexers and the node do, which ends a pass's quiet.
Others ==
    /\ (\E b \in Block : NodeAdvance(b)) \/ (\E p \in DOMAIN mind : WriterStep(p))
    /\ quiet' = (quiet /\ Still')
    /\ UNCHANGED <<rec, mixed, whole>>

ReconcileNext == ReconcileStep \/ Others

ReconcileSpec == ReconcileInit /\ [][ReconcileNext]_recvars

-----------------------------------------------------------------------------
(* The inductive invariant.                                                *)

\* A transaction holds the keys of its own rows, and has run its statements
\* up to some place.
TxnInv(S, t) ==
    /\ t = [code |-> t.code, todo |-> t.todo, locks |-> t.locks, own |-> t.own,
            rollback |-> t.rollback, apply |-> t.apply, bare |-> t.bare, open |-> t.open]
    /\ t.open \in BOOLEAN /\ t.bare \in BOOLEAN
    /\ ~t.open => t = NoTxn
    /\ IsTables(t.own)
    /\ \A r \in t.own.utxos : UtxoKey(r) \in t.locks
    /\ \A c \in t.own.convs : ConvKey(c) \in t.locks
    /\ \A b \in t.own.blocks : BlockKey(b) \in t.locks
    /\ t.own.blocks \subseteq S /\ t.own.tip \in S \cup {NoBlock}
    /\ t.todo \subseteq Places(t.code)
    /\ \A u \in t.todo, v \in Places(t.code) : Before(u, v) => v \in t.todo

\* A key is held because some statement of the transaction changes its row as
\* it is committed: nobody else has changed it since.
Justified(d, t) ==
    \A k \in t.locks : \E u \in Places(t.code) :
        /\ StatementOf(t, u).sql # "fail"
        /\ k \in Changed(d, Exec(d, StatementOf(t, u)))

\* reconcile's transaction t decodes the first block of its batch.
ToolInv(d, t, r) ==
    /\ DOMAIN r = DOMAIN Idle /\ r.batch \in Seq(Block)
    /\ t.open => r.pc = "fetch" /\ r.batch # <<>> /\ t.code = <<ApplyBlock(r.batch[1])>> /\ ~t.bare
    /\ Justified(d, t)

\* An open update of blocks in S; it holds the lock on meta.tip unless it is
\* a first one.
UpdateInv(S, t) ==
    /\ t.code = Stages(t.rollback, t.apply)
    /\ t.rollback \in Seq(Block) /\ t.apply \in Seq(Block) /\ t.apply # <<>>
    /\ ToSet(t.apply) \subseteq S
    /\ ~t.bare => TipKey \in t.locks

\* A first update is of a single block.
FirstInv(d, t) == t.rollback = <<>> /\ Len(t.apply) = 1 /\ Justified(d, t)

\* It connects to the stored chain.
OnChain(d, t) ==
    /\ Connects(d.tip, t.rollback, t.apply)
    /\ t.rollback \in Seq(d.blocks)
    /\ ToSet(t.apply) \cap d.blocks = {}
    /\ IF t.bare THEN d.tip = NoBlock ELSE d.tip # NoBlock /\ ParentHash[t.apply[1]] \in d.blocks

\* While an update is open the committed blocks stay the ones it builds on,
\* unless it is a first one that another has forestalled.
Steady(d, t) == t.open /\ (t.bare => d.blocks = {})

\* The spine as the update sees it.
SpineView(d, t) ==
    LET r == Len(t.rollback)
        a == Len(t.apply)
    IN /\ View(d, t).blocks = (d.blocks \ {t.rollback[i] : i \in {x \in 1..r : <<r + 1, 1, x>> \notin t.todo}})
                           \cup {t.apply[i] : i \in {x \in 1..a : <<r + 1, 1, r + x>> \notin t.todo}}
       /\ View(d, t).tip = IF <<r + a + 2, 1, 1>> \in t.todo THEN d.tip ELSE t.apply[a]

\* The part of the stored chain that stays.
KeptBy(d, t) == IF d.tip = NoBlock THEN {} ELSE UpTo(d.blocks, ParentHash[t.apply[1]])

\* The decoding statements the update has run.
DecodedBy(t) ==
    UNION {{StatementOf(t, u) : u \in {v \in Places(t.code) \ t.todo : v[1] = Len(t.rollback) + 1 + n}} :
           n \in DOMAIN t.apply}

Undoing(t) == \E u \in t.todo : u[1] <= Len(t.rollback)

\* The tables as the update sees them: on the way down what the chain up to
\* the block being undone leads to, with some of its rows undone, on the way
\* up what the kept part and the statements so far lead to.
TableView(d, t) ==
    /\ \A i \in 1..Len(t.rollback), m \in 1..4 :
           <<i, 1, m>> \in NextPlace(t) =>
               LET D == ChainStatements(UpTo(d.blocks, t.rollback[i]))
                   h == Height[t.rollback[i]]
               IN /\ View(d, t).utxos = UtxosUndone(UtxosOf(D), h, m - 1)
                  /\ View(d, t).convs = ConvsUndone(ConvsOf(D), h, m - 1)
    /\ ~Undoing(t) => Holds(View(d, t), ChainStatements(KeptBy(d, t)) \cup DecodedBy(t))

\* An indexer believes M stored, and its transaction is t.
IndexerInv(S, M, t) == M \subseteq S /\ (t.open => UpdateInv(S, t))

\* No block of M lies below the stored chain.
Above(M, d) == \A b \in M : \E c \in d.blocks : Height[c] <= Height[b]

SpineInv(d, M, t) ==
    /\ Above(M, d)
    /\ t.open /\ t.bare => M = {} /\ FirstInv(d, t)
    /\ Steady(d, t) => OnChain(d, t) /\ SpineView(d, t)

TableInv(d, t) == Steady(d, t) => TableView(d, t)

\* Two transactions hold no key in common.
Apart(T) == \A p, q \in DOMAIN T : p # q => T[p].locks \cap T[q].locks = {}

\* What always holds.
WritersInv ==
    /\ IsTables(db) /\ db.blocks \subseteq seen /\ db.tip \in seen \cup {NoBlock}
    /\ nodeHead \in Block /\ seen \subseteq Block
    /\ raced \in BOOLEAN /\ foreign \in BOOLEAN /\ whole \in BOOLEAN
    /\ DOMAIN txn # {} /\ DOMAIN mind = DOMAIN txn \ {Tool}
    /\ \A p \in DOMAIN txn : TxnInv(seen, txn[p])
    /\ Apart(txn)
    /\ IF Tool \in DOMAIN txn THEN ToolInv(db, txn[Tool], rec) ELSE rec = Idle
    /\ \A p \in DOMAIN mind : IndexerInv(seen, mind[p], txn[p])

\* What holds of the spine until two first updates are committed.
ChainInv ==
    ~raced =>
        /\ IsChain(db.blocks, db.tip)
        /\ \A p \in DOMAIN mind : SpineInv(db, mind[p], txn[p])

\* What holds of the tables as long as only decoded blocks are stored and
\* only stored blocks are reapplied.
TablesInv ==
    whole /\ ~raced /\ ~foreign =>
        /\ Holds(db, ChainStatements(db.blocks))
        /\ \A p \in DOMAIN mind : TableInv(db, txn[p])

\* The blocks the node has served have a highest one.
SeenInv == \E b \in seen : \A c \in seen : Height[c] <= Height[b]

\* The locals of a pass: what it fetches lies in its range, a batch at a time.
PassInv(r) ==
    /\ r.from \in 0..(2 * TwoTo63 - 1) /\ {r.next, r.end, r.maxH, r.mismatches} \subseteq Nat
    /\ r.from <= r.next /\ r.end <= r.maxH + 1
    /\ r.batch # <<>> => r.next <= r.end
    /\ Len(r.batch) <= Batch /\ Len(r.batch) + r.end <= Batch + r.next
    /\ \A i \in DOMAIN r.batch : r.from <= Height[r.batch[i]] /\ Height[r.batch[i]] <= r.maxH
    /\ IsFiniteSet(r.addrs) /\ Cardinality(r.addrs) <= SampleLimit
    /\ r.mismatches > 0 => r.pc \in {"node", "db", "mismatch"}
    /\ r.pc = "mismatch" => r.mismatches > 0

\* As long as a pass is quiet at the node's head, what it was told by the node
\* is current, and it has counted only addresses with an output too many.
AlarmInv ==
    /\ quiet => Still
    /\ quiet /\ nodeHead = db.tip =>
           /\ rec.pc = "db" => rec.nodeSet = UNION {NodeUnspent(a) : a \in rec.addr}
           /\ ~raced /\ rec.mismatches > 0 => LiveIn(db.utxos) \ ExpectedUtxos(db.blocks) # {}

\* Two versions of one output.
SameOutput(q, r) == q.op = r.op /\ q.created = r.created /\ q.deadline = r.deadline /\ q.lock = r.lock

\* If row r is no longer unspent, a statement of D is the reason.
EndedBy(r, D) ==
    /\ r.spent = Null \/ \E s \in SpendsOf(r.op, D) : s.h = r.spent
    /\ r.trimmed = Null \/ (r.trimmed = r.deadline /\ DueIn(r, D))

\* Statements of D have made r what it is, though perhaps not all of them.
Stems(r, D) == (\E q \in RowsIn(D) : SameOutput(q, r)) /\ EndedBy(r, D)

\* The first n statements of rollbackBlock leave no such row.
Cleared(r, h, n) == (n >= 1 => r.trimmed # h) /\ (n >= 2 => r.spent # h) /\ (n >= 3 => r.created # h)

\* The rows an update sees when the index may be decoded in part only.
StemView(d, t) ==
    /\ \A i \in 1..Len(t.rollback), m \in 1..4 :
           <<i, 1, m>> \in NextPlace(t) =>
               \A r \in View(d, t).utxos :
                   /\ Stems(r, ChainStatements(UpTo(d.blocks, t.rollback[i])))
                   /\ Cleared(r, Height[t.rollback[i]], m - 1)
    /\ ~Undoing(t) =>
           \A r \in View(d, t).utxos : Stems(r, ChainStatements(KeptBy(d, t)) \cup DecodedBy(t))

\* The rows reconcile sees while it runs statements of E: committed ones, and
\* those its statements have made or ended.
RemadeView(d, t, E) ==
    \A r \in View(d, t).utxos :
        \/ r \in d.utxos
        \/ (\E q \in d.utxos \cup RowsIn(E) : SameOutput(q, r)) /\ EndedBy(r, E)

\* The rows of an index that is decoded in part stem from the stored chain.
StemInv(d, T, r) ==
    /\ \A x \in d.utxos : Stems(x, ChainStatements(d.blocks))
    /\ \A p \in DOMAIN T \ {Tool} : T[p].open => StemView(d, T[p])
    /\ Tool \in DOMAIN T /\ T[Tool].open => RemadeView(d, T[Tool], BlockStatements[r.batch[1]])

\* The databases found are ones that no pass has spoilt: each row stems from
\* the stored chain.
ASSUME StemAssumption ==
    \A d \in StoredDbs :
        /\ \A r \in d.utxos : Stems(r, ChainStatements(d.blocks))
        /\ d.blocks = {} => d.convs = {}

\* The statements the pass has run: of the blocks it is through with, and of
\* the one it is at.
RunBy(d, t, r) ==
    ChainStatements({b \in d.blocks : r.from <= Height[b] /\ Height[b] < r.next - Len(r.batch)})
    \cup {StatementOf(t, u) : u \in Places(t.code) \ t.todo}

\* U has the outputs D makes, and no unspent output since height h that D ends.
CaughtUp(U, D, h) ==
    /\ \A q \in RowsIn(D) : \E r \in U : r.op = q.op /\ r.created = q.created
    /\ \A r \in U : Live(r) /\ r.created >= h => SpendsOf(r.op, D) = {} /\ ~DueIn(r, D)

\* A quiet pass goes through the stored blocks of its range in their order.
ProgressInv(d, t, r) ==
    r.pc \notin {"idle", "failed"} =>
        /\ d.blocks # {} /\ r.minH = Min(Heights(d.blocks)) /\ r.maxH = Max(Heights(d.blocks))
        /\ r.n \in NBlocks /\ r.from = From(r.maxH, r.minH, r.n)
        /\ \A i \in DOMAIN r.batch :
               r.batch[i] \in d.blocks /\ Height[r.batch[i]] = r.next - Len(r.batch) + i - 1
        /\ CaughtUp(View(d, t).utxos, RunBy(d, t, r), r.from) /\ Decodable(RunBy(d, t, r))
        /\ r.pc # "fetch" => r.batch = <<>> /\ r.next > r.maxH
        /\ r.pc \in {"node", "db", "ok", "mismatch"} => IsBigint(r.from)

\* An index that is decoded in part is not empty, so its updates have a row to
\* lock.
SettledInv == ~whole /\ ~raced => db.blocks # {} /\ \A p \in DOMAIN txn : ~txn[p].bare

\* Its rows stem from the stored chain as long as nothing spoils them.
StemsInv == ~whole /\ ~raced /\ ~foreign /\ ~crossed => StemInv(db, txn, rec)

\* What a quiet pass has been through is decoded.
QuietInv == quiet /\ ~raced /\ Tool \in DOMAIN txn => ProgressInv(db, txn[Tool], rec)

\* However the statements of the indexers' and reconcile's transactions
\* interleave, an open update sees the spine and the tables that its
\* statements so far lead to, what is committed is one chain and its tables,
\* a pass stays in its range, its batch and its sample, and what it has been
\* through is decoded.
ReconcileInv ==
    /\ WritersInv /\ ChainInv /\ TablesInv /\ SeenInv /\ PassInv(rec) /\ AlarmInv
    /\ SettledInv /\ StemsInv /\ QuietInv

-----------------------------------------------------------------------------
(* Properties.                                                             *)

\* Processes that overlap leave one gapless chain that ends in meta.tip: the
\* lock on meta.tip puts their updates in an order, and one that was built on
\* another tip is refused.  The exception is that two of them make the first
\* update at once, when there is no row to lock.
WritersKeepChain == raced \/ IsChain(db.blocks, db.tip)

\* The tables are those of the stored chain whatever reconcile reapplies
\* meanwhile, as long as it reapplies stored blocks.
DecodedStaysDecoded == whole /\ ~raced /\ ~foreign => TablesMatch(db)

\* Updates, and reconcile reapplying stored blocks of a decoded index, never
\* wait for each other in a circle: the lock on meta.tip comes first, and
\* reapplying changes no row.  (First updates, blocks that are not stored and
\* blocks stored undecoded can; Postgres then ends one of the transactions.)
NoDeadlock ==
    Stuck => \/ ~whole \/ raced \/ foreign
             \/ \E p \in DOMAIN txn : txn[p].bare
             \/ rec.batch # <<>> /\ rec.batch[1] \notin db.blocks

\* The outputs created since height h: which there are, and which of them
\* are unspent.
OutputsSince(h, S) ==
    {[op |-> r.op, created |-> r.created, live |-> Live(r)] : r \in {s \in S : s.created >= h}}

\* A pass with nothing else going on that gets through its verification has
\* decoded the last n stored blocks: their outputs are in the tables, and
\* unspent or not as the stored chain has it, even if the blocks had been
\* stored undecoded, and whatever an earlier pass left half done.  (How an
\* output ended may be wrong: one that the indexer trimmed while the block
\* that spends it was not decoded stays trimmed.  And for an n of 2^63 or more
\* the range may come out empty, and the pass ends well.)
BackfillCompletes ==
    rec.pc \in {"ok", "mismatch"} /\ IsBigint(rec.n) /\ quiet /\ ~raced /\ ~foreign /\ ~crossed =>
        LET h == Max({rec.minH, rec.maxH - rec.n + 1})
        IN OutputsSince(h, db.utxos) = OutputsSince(h, ExpectedUtxos(db.blocks))

\* reconcile reports no mismatch of a sound index whose tip is the node's.
NoFalseAlarm ==
    rec.pc = "mismatch" /\ quiet /\ ~raced /\ nodeHead = db.tip =>
        LiveIn(db.utxos) \ ExpectedUtxos(db.blocks) # {}


=============================================================================
