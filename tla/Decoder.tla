------------------------------ MODULE Decoder ------------------------------
(***************************************************************************)
(* What an update does to the database: the statements of                  *)
(* Postgres.ApplyUpdate with the UTXO decoder injected, in the order the   *)
(* code runs them (internal/store/postgres.go,                             *)
(* internal/decoder/decoder.go), and the reference they are checked        *)
(* against: the tables a chain determines, stated without replaying any    *)
(* statement.  Constant-level; Ledger and Writers run the statements.      *)
(***************************************************************************)
EXTENDS Chain, UtxoTable, Sequences, SequencesExt

CONSTANTS
    Body,          \* the transactions of each block (ParseBody)
    TrimDepth,     \* types.TrimDepths; 0 for a denomination it does not list
    LockDepth,     \* params.LockupByteToBlockDepth, indices 0..3
    ConversionLock,\* params.ConversionLockPeriod
    MaxApply       \* bound: blocks applied by one update

ASSUME MaxApplyAssumption == MaxApply \in Nat \ {0}

IsSequence(s) == s \in Seq(ToSet(s))

\* A transaction as ParseBody returns it.  "bad" is a Qi transaction with a
\* field the decoder refuses (a hash, an address or a key that is not hex of
\* the right length).  The outputs of an ETX are the ones its value derives.
IsQiTx(t) == t.kind \in {"qi", "bad"}
IsEtx(t) == t.kind \in {"coinbase", "conversion"}

WellFormed(t) ==
    /\ t.kind \in {"qi", "bad", "coinbase", "conversion", "other"}
    /\ t.hash # NoTx
    /\ IsQiTx(t) \/ IsEtx(t) =>
           /\ IsSequence(t.outs)
           /\ \A j \in DOMAIN t.outs : TrimDepth[t.outs[j].denom] \in Nat
    /\ IsQiTx(t) =>
           /\ IsSequence(t.ins)
           /\ \A j \in DOMAIN t.outs : t.outs[j].lock \in Nat /\ t.outs[j].qi \in BOOLEAN
    /\ IsEtx(t) => t.toQi \in BOOLEAN /\ t.hasValue \in BOOLEAN

ASSUME BodyAssumption ==
    /\ DOMAIN Body = Block
    /\ \A b \in Block : IsSequence(Body[b]) /\ \A i \in DOMAIN Body[b] : WellFormed(Body[b][i])

ASSUME LockAssumption == LockDepth \in [0..3 -> Nat] /\ ConversionLock \in Nat

-----------------------------------------------------------------------------
(* The statements of an update.                                            *)

\* decodeHash, decodeAddr and decodeHex refuse a field of t.
Refused(t) == t.kind = "bad"

\* isQiScopeBytes: the address is in the Qi ledger.
InQiScope(out) == out.qi

TrimDeadline(denom, h) == IF TrimDepth[denom] = 0 THEN 0 ELSE h + TrimDepth[denom]

NullIfZero(v) == IF v = 0 THEN Null ELSE v

OutputRow(t, i, lock, h) ==
    NewRow(<<t.hash, i - 1>>, lock, h, NullIfZero(TrimDeadline(t.outs[i].denom, h)))

\* A Qi transaction: mark its inputs, then create its outputs; an output to
\* an address outside the Qi ledger is recorded as a conversion instead.
SpendAndCreate(t, h) ==
    [i \in DOMAIN t.ins |-> [sql |-> "spend", op |-> t.ins[i], h |-> h, tx |-> t.hash]]
    \o [i \in DOMAIN t.outs |->
           IF InQiScope(t.outs[i])
           THEN [sql |-> "insert", row |-> OutputRow(t, i, t.outs[i].lock, h)]
           ELSE [sql |-> "conv", op |-> <<t.hash, i - 1>>, h |-> h]]

\* Mutant: a transaction that does not decode is skipped.
QiStatementsLenient(t, h) == IF Refused(t) THEN <<>> ELSE SpendAndCreate(t, h)

\* A field that does not decode ends the update: "fail" cannot be run.
QiStatements(t, h) ==
    IF Refused(t) THEN <<[sql |-> "fail"]>> ELSE SpendAndCreate(t, h)

\* An inbound ETX to a Qi address: the derived outputs, locked.  A coinbase
\* whose lockup byte is missing or out of range, and an ETX without a value,
\* create nothing.
EtxLock(t, h) == h + IF t.kind = "coinbase" THEN LockDepth[t.lockup] ELSE ConversionLock

CreatesOutputs(t) ==
    /\ t.toQi
    /\ t.hasValue
    /\ t.kind = "coinbase" => t.lockup \in 0..3

EtxStatements(t, h) ==
    IF CreatesOutputs(t)
    THEN [i \in DOMAIN t.outs |-> [sql |-> "insert", row |-> OutputRow(t, i, EtxLock(t, h), h)]]
    ELSE <<>>

\* Decoder.applyBlock runs through the body twice, for the Qi transactions
\* and then for the ETXs: the statements of each transaction it comes to.
TxStatements(b) ==
    LET h == Height[b]
        n == Len(Body[b])
    IN [k \in 1..(2 * n) |->
           IF k <= n
           THEN IF IsQiTx(Body[b][k]) THEN QiStatements(Body[b][k], h) ELSE <<>>
           ELSE IF IsEtx(Body[b][k - n]) THEN EtxStatements(Body[b][k - n], h) ELSE <<>>]

\* Mutant: outputs are trimmed before the block's transactions spend them.
ApplyBlockSweepFirst(b) == <<<<[sql |-> "sweep", h |-> Height[b]]>>>> \o TxStatements(b)

\* The whole of applyBlock: the transactions, then the sweep.
ApplyBlock(b) == Append(TxStatements(b), <<[sql |-> "sweep", h |-> Height[b]]>>)

\* Decoder.rollbackBlock.
RollbackBlock(b) ==
    LET h == Height[b]
    IN <<[sql |-> "untrim", h |-> h], [sql |-> "unspend", h |-> h],
         [sql |-> "uncreate", h |-> h], [sql |-> "unconv", h |-> h]>>

\* Mutant: the rolled back blocks stay in table blocks.
SpineInsertOnly(rollback, apply) ==
    [i \in DOMAIN apply |-> [sql |-> "insertBlock", b |-> apply[i]]]

SpineStatements(rollback, apply) ==
    [i \in DOMAIN rollback |-> [sql |-> "deleteBlock", b |-> rollback[i]]]
    \o [i \in DOMAIN apply |-> [sql |-> "insertBlock", b |-> apply[i]]]

\* The checks of Postgres.ApplyUpdate: the rollback goes down from the tip,
\* the new blocks hang from its end and from one another.
Connects(tip, rollback, apply) ==
    /\ apply # <<>>
    /\ \A i \in DOMAIN rollback : rollback[i] = IF i = 1 THEN tip ELSE ParentHash[rollback[i - 1]]
    /\ tip # NoBlock =>
           ParentHash[apply[1]] = IF rollback = <<>> THEN tip ELSE ParentHash[rollback[Len(rollback)]]
    /\ \A i \in 2..Len(apply) : ParentHash[apply[i]] = apply[i - 1]

\* What ApplyUpdate does after its checks, stage by stage: a block to undo, the
\* spine, a block to decode, the tip.  A stage is a list of lists of statements.
Stages(rollback, apply) ==
    LET r == Len(rollback)
        a == Len(apply)
    IN [i \in 1..(r + a + 2) |->
           CASE i <= r                      -> <<RollbackBlock(rollback[i])>>
             [] i = r + 1                   -> <<SpineStatements(rollback, apply)>>
             [] r + 1 < i /\ i < r + a + 2 -> ApplyBlock(apply[i - r - 1])
             [] i = r + a + 2               -> <<<<[sql |-> "tip", b |-> apply[a]]>>>>]

\* What a statement does to the database.
Exec(d, s) ==
    CASE s.sql = "spend"       -> [d EXCEPT !.utxos = MarkSpent(@, s.op, s.h, s.tx)]
      [] s.sql = "insert"      -> [d EXCEPT !.utxos = Insert(@, s.row)]
      [] s.sql = "conv"        -> [d EXCEPT !.convs = InsertConv(@, s.op, s.h)]
      [] s.sql = "sweep"       -> [d EXCEPT !.utxos = SweepTrims(@, s.h)]
      [] s.sql = "untrim"      -> [d EXCEPT !.utxos = Untrim(@, s.h)]
      [] s.sql = "unspend"     -> [d EXCEPT !.utxos = Unspend(@, s.h)]
      [] s.sql = "uncreate"    -> [d EXCEPT !.utxos = DeleteCreated(@, s.h)]
      [] s.sql = "unconv"      -> [d EXCEPT !.convs = DeleteConv(@, s.h)]
      [] s.sql = "deleteBlock" -> [d EXCEPT !.blocks = @ \ {s.b}]
      [] s.sql = "insertBlock" -> [d EXCEPT !.blocks = @ \cup {s.b}]
      [] s.sql = "tip"         -> [d EXCEPT !.tip = s.b]

IsDb(d) == d = [utxos |-> d.utxos, convs |-> d.convs, blocks |-> d.blocks, tip |-> d.tip]

EmptyDb == [utxos |-> {}, convs |-> {}, blocks |-> {}, tip |-> NoBlock]

\* Contiguous runs of blocks an update may apply.
Branches ==
    {s \in BoundedSeq(Block, MaxApply) :
        s # <<>> /\ \A i \in 2..Len(s) : ParentHash[s[i]] = s[i - 1]}

\* The blocks of chain C above a, tip first: what the follower sends as
\* Rollback for a branch that hangs from a.
RollbackTo(C, a) ==
    SetToSortSeq(C \ UpTo(C, a), LAMBDA x, y : Height[x] > Height[y])

-----------------------------------------------------------------------------
(* The reference.                                                          *)

\* Some transaction of b has a field the decoder refuses.
Undecodable(b) == \E t \in ToSet(Body[b]) : Refused(t)

Spends(b, op) ==
    \E i \in DOMAIN Body[b] : IsQiTx(Body[b][i]) /\ op \in ToSet(Body[b][i].ins)

\* The outputs block b creates in the Qi ledger, as fresh rows.
QiRows(t, h) ==
    {OutputRow(t, j, t.outs[j].lock, h) : j \in {k \in DOMAIN t.outs : IsQiTx(t) /\ t.outs[k].qi}}

EtxRows(t, h) ==
    {OutputRow(t, j, EtxLock(t, h), h) : j \in {k \in DOMAIN t.outs : IsEtx(t) /\ CreatesOutputs(t)}}

Creates(b) == UNION {QiRows(t, Height[b]) \cup EtxRows(t, Height[b]) : t \in ToSet(Body[b])}

\* What consensus guarantees of the blocks of one chain C (external: the node
\* checks it before it serves a block): a transaction occurs once; an outpoint
\* is spent once; an output is spent by a later block than the one that makes
\* it, or by a later Qi transaction of the same block if a Qi transaction
\* made it, and not above the height at which it is trimmed.
ValidChain(C) ==
    \A b, c \in C : \A i \in DOMAIN Body[b], j \in DOMAIN Body[c] :
        LET s == Body[b][i]
            t == Body[c][j]
        IN /\ s.hash = t.hash => b = c /\ i = j
           /\ IsQiTx(s) /\ IsQiTx(t) =>
                  \A x \in DOMAIN s.ins, y \in DOMAIN t.ins :
                      s.ins[x] = t.ins[y] => b = c /\ i = j /\ x = y
           /\ IsQiTx(s) =>
                  \A r \in QiRows(t, Height[c]) \cup EtxRows(t, Height[c]), x \in DOMAIN s.ins :
                      s.ins[x] = r.op =>
                          /\ Height[c] < Height[b] \/ (b = c /\ j < i /\ IsQiTx(t))
                          /\ r.lock = 0 /\ r.deadline # Null => Height[b] <= r.deadline

ASSUME ConsensusAssumption ==
    \A C \in SUBSET Block : (\E t \in Block : IsChain(C, t)) => ValidChain(C)

\* What the canonical chain C says became of an output: spent by the block
\* that names it, else trimmed at its deadline if it has come and the output
\* is not locked, else unspent.
Fate(r, C) ==
    LET spenders == {b \in C : Spends(b, r.op) /\ Height[b] >= r.created}
        spender == CHOOSE b \in spenders : TRUE
        due == r.lock = 0 /\ r.deadline # Null /\ \E b \in C : Height[b] = r.deadline
    IN IF spenders # {}
       THEN [r EXCEPT !.spent = Height[spender],
                      !.spentTx = (CHOOSE t \in ToSet(Body[spender]) :
                                       IsQiTx(t) /\ r.op \in ToSet(t.ins)).hash]
       ELSE IF due THEN [r EXCEPT !.trimmed = r.deadline] ELSE r

ExpectedUtxos(C) == {Fate(r, C) : r \in UNION {Creates(b) : b \in C}}

ConvRows(t, h) ==
    {[op |-> <<t.hash, j - 1>>, height |-> h] :
        j \in {k \in DOMAIN t.outs : IsQiTx(t) /\ ~t.outs[k].qi}}

ExpectedConvs(C) == UNION {UNION {ConvRows(t, Height[b]) : t \in ToSet(Body[b])} : b \in C}

-----------------------------------------------------------------------------
(* What a set of statements leads to, whatever their order: the language   *)
(* of Ledger's invariant.                                                  *)

\* The statements applyBlock runs for b, and for all blocks of C.
BlockStatements ==
    [b \in Block |->
        LET lists == ApplyBlock(b) IN UNION {ToSet(lists[i]) : i \in DOMAIN lists}]

ChainStatements(C) == UNION {BlockStatements[b] : b \in C}

\* Those of b before statement m of its list k.
Executed(b, k, m) ==
    LET lists == ApplyBlock(b)
    IN UNION {{lists[i][j] : j \in {x \in DOMAIN lists[i] : i < k \/ x < m}} :
              i \in {x \in DOMAIN lists : x <= k}}

\* The tables a set D of statements leads to, whatever their order.
RowsIn(D) == {s.row : s \in {x \in D : x.sql = "insert"}}

SpendsOf(op, D) == {s \in D : s.sql = "spend" /\ s.op = op}

DueIn(r, D) == r.lock = 0 /\ \E s \in D : s.sql = "sweep" /\ s.h = r.deadline

OneOf(S) == CHOOSE x \in S : TRUE

Became(r, D) ==
    IF SpendsOf(r.op, D) # {}
    THEN LET s == OneOf(SpendsOf(r.op, D)) IN [r EXCEPT !.spent = s.h, !.spentTx = s.tx]
    ELSE IF DueIn(r, D) THEN [r EXCEPT !.trimmed = r.deadline] ELSE r

UtxosOf(D) == {Became(r, D) : r \in RowsIn(D)}

ConvsOf(D) == {[op |-> s.op, height |-> s.h] : s \in {x \in D : x.sql = "conv"}}

\* The tables after the first n statements of rollbackBlock at height h.
UtxosUndone(U, h, n) ==
    CASE n = 0 -> U
      [] n = 1 -> Untrim(U, h)
      [] n = 2 -> Unspend(Untrim(U, h), h)
      [] n > 2 -> DeleteCreated(Unspend(Untrim(U, h), h), h)

ConvsUndone(V, h, n) == IF n > 3 THEN DeleteConv(V, h) ELSE V

\* No statement of D is one that cannot run.
Decodable(D) == \A s \in D : s.sql # "fail"

\* d holds what statements D lead to.
Holds(d, D) == d.utxos = UtxosOf(D) /\ d.convs = ConvsOf(D) /\ Decodable(D)

=============================================================================
