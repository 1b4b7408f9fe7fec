------------------------------- MODULE Writers -------------------------------
(***************************************************************************)
(* Several processes that write to one Postgres database: indexers that    *)
(* overlap (a rolling restart, or a server-side transaction that outlives  *)
(* its client), each running ApplyUpdate of internal/store/postgres.go.    *)
(*                                                                         *)
(* Transactions run at READ COMMITTED.  A statement sees what is committed *)
(* when it runs, and its own transaction's writes.  It waits for the rows  *)
(* it changes, and for the keys it inserts, while another open transaction *)
(* holds them; it is evaluated when it gets them.  Any transaction may be  *)
(* rolled back at any point: a failure, a crash, a deadlock's victim.      *)
(***************************************************************************)
EXTENDS Decoder

CONSTANTS
    Process,    \* the indexer processes
    MaxRunning  \* bound: processes that run side by side

ASSUME MaxRunningAssumption == MaxRunning \in Nat \ {0}

VARIABLES
    db,         \* what is committed
    txn,        \* the running processes, each with its transaction
    mind,       \* the running indexers, each with the blocks it believes stored
    nodeHead,   \* the node's head
    seen,       \* every block that was ever on the node's canonical chain
    raced       \* two first updates were committed side by side (history)

wvars == <<db, txn, mind, nodeHead, seen, raced>>

-----------------------------------------------------------------------------
(* Rows, keys and locks.                                                   *)

UtxoKey(r) == <<"utxos", r.op, r.created>>
ConvKey(c) == <<"convs", c.op>>
BlockKey(b) == <<"blocks", b>>
TipKey == <<"meta">>

\* Database d with the rows of the keys in locks replaced by own's.
Overlay(d, own, locks) ==
    [utxos  |-> {r \in d.utxos : UtxoKey(r) \notin locks} \cup own.utxos,
     convs  |-> {c \in d.convs : ConvKey(c) \notin locks} \cup own.convs,
     blocks |-> {b \in d.blocks : BlockKey(b) \notin locks} \cup own.blocks,
     tip    |-> IF TipKey \in locks THEN own.tip ELSE d.tip]

\* The rows of d whose keys are in locks.
Locked(d, locks) ==
    [utxos  |-> {r \in d.utxos : UtxoKey(r) \in locks},
     convs  |-> {c \in d.convs : ConvKey(c) \in locks},
     blocks |-> {b \in d.blocks : BlockKey(b) \in locks},
     tip    |-> IF TipKey \in locks THEN d.tip ELSE NoBlock]

Differ(S, T) == (S \ T) \cup (T \ S)

\* The keys of the rows a statement changes from d to e.
Changed(d, e) ==
    {UtxoKey(r) : r \in Differ(d.utxos, e.utxos)}
    \cup {ConvKey(c) : c \in Differ(d.convs, e.convs)}
    \cup {BlockKey(b) : b \in Differ(d.blocks, e.blocks)}
    \cup (IF d.tip # e.tip THEN {TipKey} ELSE {})

\* The unique key an INSERT has to wait for even if it then does nothing.
Inserted(s) ==
    CASE s.sql = "insert"      -> {UtxoKey(s.row)}
      [] s.sql = "conv"        -> {ConvKey(s)}
      [] s.sql = "insertBlock" -> {BlockKey(s.b)}
      [] s.sql = "tip"         -> {TipKey}
      [] OTHER                 -> {}

\* A transaction: its statements, stage by stage, the places among them of
\* those it still has to run, the keys it holds, its versions of their rows,
\* the update it applies, and whether it found no row to lock in meta.
NoTxn == [code |-> <<>>, todo |-> {}, locks |-> {}, own |-> EmptyDb,
          rollback |-> <<>>, apply |-> <<>>, bare |-> FALSE, open |-> FALSE]

\* A place is a stage, a list of it and a statement of that; they run in order.
Places(code) ==
    UNION {UNION {{<<i, j, k>> : k \in DOMAIN code[i][j]} : j \in DOMAIN code[i]} : i \in DOMAIN code}

Before(u, v) ==
    \/ u[1] < v[1]
    \/ u[1] = v[1] /\ u[2] < v[2]
    \/ u[1] = v[1] /\ u[2] = v[2] /\ u[3] < v[3]

StatementOf(t, u) == t.code[u[1]][u[2]][u[3]]

\* The place of the next statement, if there is one.
NextPlace(t) == {u \in t.todo : \A v \in t.todo : ~Before(v, u)}

Held(T, p) == UNION {T[q].locks : q \in DOMAIN T \ {p}}

\* What transaction t sees when d is committed.
View(d, t) == Overlay(d, t.own, t.locks)

\* The keys process p's next statement has to hold or to wait for.
Wants(d, t, s) ==
    IF s.sql = "fail" THEN {} ELSE Changed(View(d, t), Exec(View(d, t), s)) \cup Inserted(s)

Wanted(p) == UNION {Wants(db, txn[p], StatementOf(txn[p], u)) : u \in NextPlace(txn[p])}

\* Transaction t after its statement at place u.
After(d, t, u) ==
    LET after == Exec(View(d, t), StatementOf(t, u))
        locks == t.locks \cup Changed(View(d, t), after)
    IN [t EXCEPT !.todo = @ \ {u}, !.locks = locks, !.own = Locked(after, locks)]

\* One statement of process p's transaction.
RunStatement(p) ==
    \E u \in NextPlace(txn[p]) :
        /\ StatementOf(txn[p], u).sql # "fail"
        /\ Wanted(p) \cap Held(txn, p) = {}
        /\ txn' = [txn EXCEPT ![p] = After(db, txn[p], u)]

-----------------------------------------------------------------------------
(* The processes.                                                          *)

NodeAdvance(b) ==
    /\ b \notin seen
    /\ nodeHead' = b
    /\ seen' = seen \cup Ancestry[b]
    /\ UNCHANGED <<db, txn, mind, raced>>

\* follower.New, at a start or restart.
Load(p) ==
    /\ ~txn[p].open /\ mind[p] # db.blocks
    /\ mind' = [mind EXCEPT ![p] = db.blocks]
    /\ UNCHANGED <<db, txn, nodeHead, seen, raced>>

\* Mutant: SELECT value FROM meta without FOR UPDATE.
TipLockNone(p) == {}

\* SELECT ... FOR UPDATE: there is nothing to lock before the first update.
TipLock(p) == IF db.tip = NoBlock THEN {} ELSE {TipKey}

\* BeginFunc, the lock and the checks.  The follower builds its update from
\* its own window; its first update is one block.
Begin(p, apply) ==
    LET a == ParentHash[apply[1]]
        rollback == IF mind[p] = {} THEN <<>> ELSE RollbackTo(mind[p], a)
        code == Stages(rollback, apply)
    IN /\ ~txn[p].open
       /\ ToSet(apply) \subseteq seen \ mind[p]
       /\ IF mind[p] = {} THEN Len(apply) = 1 ELSE a \in mind[p]
       /\ rollback \in Seq(mind[p])
       /\ TipLock(p) \cap Held(txn, p) = {}
       /\ Connects(db.tip, rollback, apply)
       /\ txn' = [txn EXCEPT ![p] =
                     [code |-> code, todo |-> Places(code), locks |-> TipLock(p),
                      own |-> Locked(db, TipLock(p)), rollback |-> rollback, apply |-> apply,
                      bare |-> db.tip = NoBlock, open |-> TRUE]]
       /\ UNCHANGED <<db, mind, nodeHead, seen, raced>>

\* The blocks process p believes stored once its transaction has committed.
Goal(p) == (mind[p] \ ToSet(txn[p].rollback)) \cup ToSet(txn[p].apply)

Run(p) == RunStatement(p) /\ UNCHANGED <<db, mind, nodeHead, seen, raced>>

\* The answer to the commit may be lost; the follower then keeps its window.
Commit(p) ==
    /\ txn[p].open /\ txn[p].todo = {}
    /\ db' = View(db, txn[p])
    /\ txn' = [txn EXCEPT ![p] = NoTxn]
    /\ mind' \in {mind, [mind EXCEPT ![p] = Goal(p)]}
    /\ raced' = (raced \/ (txn[p].bare /\ db.blocks \notin {{}, Goal(p)}))
    /\ UNCHANGED <<nodeHead, seen>>

Abort(p) ==
    /\ txn[p].open
    /\ txn' = [txn EXCEPT ![p] = NoTxn]
    /\ UNCHANGED <<db, mind, nodeHead, seen, raced>>

WriterStep(p) ==
    \/ Load(p) \/ Run(p) \/ Commit(p) \/ Abort(p)
    \/ \E s \in Branches : Begin(p, s)

-----------------------------------------------------------------------------
(* Properties.                                                             *)

\* Everybody waits for a row somebody else holds.
Stuck == \A p \in DOMAIN txn : Wanted(p) \cap Held(txn, p) # {}

TablesMatch(d) == d.utxos = ExpectedUtxos(d.blocks) /\ d.convs = ExpectedConvs(d.blocks)
=============================================================================
