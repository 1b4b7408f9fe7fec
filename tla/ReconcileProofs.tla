--------------------------- MODULE ReconcileProofs ---------------------------
(***************************************************************************)
(* What the runs of Reconcile check of a few processes on a small tree,    *)
(* for any number of them, every block tree and every body: row by row,    *)
(* what an open transaction sees is what its statements so far lead to.    *)
(***************************************************************************)
EXTENDS Reconcile, DecoderProofs, FiniteSetTheorems, WellFoundedInduction, TLAPS

-----------------------------------------------------------------------------
(* Databases, row by row.                                                  *)

\* d and e have the same row, or none, of key k.
SameAt(d, e, k) ==
    /\ \A r : UtxoKey(r) = k => (r \in d.utxos <=> r \in e.utxos)
    /\ \A c : ConvKey(c) = k => (c \in d.convs <=> c \in e.convs)
    /\ \A b : BlockKey(b) = k => (b \in d.blocks <=> b \in e.blocks)
    /\ TipKey = k => d.tip = e.tip

\* The rows of own are those of keys in locks.
OwnKeys(own, locks) ==
    /\ \A r \in own.utxos : UtxoKey(r) \in locks
    /\ \A c \in own.convs : ConvKey(c) \in locks
    /\ \A b \in own.blocks : BlockKey(b) \in locks

\* A key is the key of rows of one table.
LEMMA KeysDiffer ==
    /\ \A r, c : UtxoKey(r) # ConvKey(c)
    /\ \A r, b : UtxoKey(r) # BlockKey(b)
    /\ \A c, b : ConvKey(c) # BlockKey(b)
    /\ \A r : UtxoKey(r) # TipKey
    /\ \A c : ConvKey(c) # TipKey
    /\ \A b : BlockKey(b) # TipKey
BY DEF UtxoKey, ConvKey, BlockKey, TipKey

\* Agreement on a row is an equivalence.
LEMMA SameTrans ==
    ASSUME NEW d, NEW e, NEW f, NEW k, SameAt(d, e, k), SameAt(e, f, k)
    PROVE  SameAt(d, f, k)
BY DEF SameAt

LEMMA SameSym ==
    ASSUME NEW d, NEW e, NEW k, SameAt(d, e, k)
    PROVE  SameAt(e, d, k)
BY DEF SameAt

\* Changed names the keys of the rows in which two databases differ.
LEMMA ChangedKeys ==
    ASSUME NEW d, NEW e, NEW k
    PROVE  k \in Changed(d, e) <=> ~SameAt(d, e, k)
<1>1. ASSUME k \in Changed(d, e), SameAt(d, e, k) PROVE FALSE
  <2>1. CASE \E r \in Differ(d.utxos, e.utxos) : k = UtxoKey(r)
    BY <1>1, <2>1 DEF Differ, SameAt
  <2>2. CASE \E c \in Differ(d.convs, e.convs) : k = ConvKey(c)
    BY <1>1, <2>2 DEF Differ, SameAt
  <2>3. CASE \E b \in Differ(d.blocks, e.blocks) : k = BlockKey(b)
    BY <1>1, <2>3 DEF Differ, SameAt
  <2>4. CASE d.tip # e.tip /\ k = TipKey
    BY <1>1, <2>4 DEF SameAt
  <2> QED BY <1>1, <2>1, <2>2, <2>3, <2>4 DEF Changed
<1>2. ASSUME ~SameAt(d, e, k) PROVE k \in Changed(d, e)
  <2>1. CASE \E r : UtxoKey(r) = k /\ ~(r \in d.utxos <=> r \in e.utxos)
    BY <2>1 DEF Changed, Differ
  <2>2. CASE \E c : ConvKey(c) = k /\ ~(c \in d.convs <=> c \in e.convs)
    BY <2>2 DEF Changed, Differ
  <2>3. CASE \E b : BlockKey(b) = k /\ ~(b \in d.blocks <=> b \in e.blocks)
    BY <2>3 DEF Changed, Differ
  <2>4. CASE TipKey = k /\ d.tip # e.tip
    BY <2>4 DEF Changed
  <2> QED BY <1>2, <2>1, <2>2, <2>3, <2>4 DEF SameAt
<1> QED BY <1>1, <1>2

\* A transaction sees its own rows and, of the others, the committed ones.
LEMMA OverlayAt ==
    ASSUME NEW d, NEW own, NEW locks, OwnKeys(own, locks), NEW k
    PROVE  /\ k \notin locks => SameAt(Overlay(d, own, locks), d, k)
           /\ k \in locks => SameAt(Overlay(d, own, locks), own, k)
<1> DEFINE v == Overlay(d, own, locks)
<1>1. /\ v.utxos = {r \in d.utxos : UtxoKey(r) \notin locks} \cup own.utxos
      /\ v.convs = {c \in d.convs : ConvKey(c) \notin locks} \cup own.convs
      /\ v.blocks = {b \in d.blocks : BlockKey(b) \notin locks} \cup own.blocks
      /\ v.tip = IF TipKey \in locks THEN own.tip ELSE d.tip
  BY DEF Overlay
<1> HIDE DEF v
<1>2. ASSUME k \notin locks PROVE SameAt(v, d, k)
  BY <1>1, <1>2 DEF SameAt, OwnKeys
<1>3. ASSUME k \in locks PROVE SameAt(v, own, k)
  BY <1>1, <1>3 DEF SameAt, OwnKeys
<1> QED BY <1>2, <1>3 DEF v

\* What a transaction keeps of its view.
LEMMA LockedAt ==
    ASSUME NEW d, NEW locks
    PROVE  /\ OwnKeys(Locked(d, locks), locks)
           /\ \A k \in locks : SameAt(Locked(d, locks), d, k)
BY DEF OwnKeys, Locked, SameAt

\* Every row has a key.
LEMMA SameEverywhere ==
    ASSUME NEW d, NEW e, IsDb(d), IsDb(e), \A k : SameAt(d, e, k)
    PROVE  d = e
<1>1. \A r : r \in d.utxos <=> r \in e.utxos
  BY DEF SameAt
<1>2. \A c : c \in d.convs <=> c \in e.convs
  BY DEF SameAt
<1>3. \A b : b \in d.blocks <=> b \in e.blocks
  BY DEF SameAt
<1>4. d.tip = e.tip
  BY DEF SameAt
<1>5. d.utxos = e.utxos /\ d.convs = e.convs /\ d.blocks = e.blocks
  BY <1>1, <1>2, <1>3
<1> QED BY <1>4, <1>5 DEF IsDb

\* A transaction that holds the keys of what a statement changes sees its
\* outcome.
LEMMA SeesOutcome ==
    ASSUME NEW d, NEW own, NEW locks, OwnKeys(own, locks), NEW e, IsDb(e),
           NEW L, L = locks \cup Changed(Overlay(d, own, locks), e)
    PROVE  Overlay(d, Locked(e, L), L) = e
<1> DEFINE v == Overlay(d, own, locks)
           w == Overlay(d, Locked(e, L), L)
<1>1. IsDb(w)
  BY DEF Overlay, IsDb
<1>2. OwnKeys(Locked(e, L), L)
  BY LockedAt
<1>3. ASSUME NEW k \in L PROVE SameAt(w, e, k)
  <2>1. SameAt(w, Locked(e, L), k)
    BY <1>2, OverlayAt
  <2>2. SameAt(Locked(e, L), e, k)
    BY LockedAt
  <2> HIDE DEF w
  <2> QED BY <2>1, <2>2, SameTrans
<1>4. ASSUME NEW k, k \notin L PROVE SameAt(w, e, k)
  <2>1. SameAt(w, d, k)
    BY <1>2, <1>4, OverlayAt
  <2>2. SameAt(v, d, k)
    BY <1>4, OverlayAt
  <2>3. SameAt(v, e, k)
    BY <1>4, ChangedKeys
  <2> HIDE DEF v, w
  <2>4. SameAt(d, v, k)
    BY <2>2, SameSym
  <2>5. SameAt(d, e, k)
    BY <2>3, <2>4, SameTrans
  <2> QED BY <2>1, <2>5, SameTrans
<1> HIDE DEF w
<1>5. w = e
  BY <1>1, <1>3, <1>4, SameEverywhere
<1> QED BY <1>5 DEF w

-----------------------------------------------------------------------------
(* Statements, row by row.                                                 *)

UtxoSql == {"spend", "insert", "sweep", "untrim", "unspend", "uncreate"}
ConvSql == {"conv", "unconv"}
BlockSql == {"deleteBlock", "insertBlock"}

\* A statement that can run.
Sound(s) ==
    /\ s.sql \in UtxoSql \cup ConvSql \cup BlockSql \cup {"tip"}
    /\ s.sql = "insert" => IsRow(s.row)

\* What a statement makes of each table.
UtxosAfter(U, s) ==
    CASE s.sql = "spend"    -> MarkSpent(U, s.op, s.h, s.tx)
      [] s.sql = "insert"   -> Insert(U, s.row)
      [] s.sql = "sweep"    -> SweepTrims(U, s.h)
      [] s.sql = "untrim"   -> Untrim(U, s.h)
      [] s.sql = "unspend"  -> Unspend(U, s.h)
      [] s.sql = "uncreate" -> DeleteCreated(U, s.h)
      [] OTHER              -> U

ConvsAfter(V, s) ==
    CASE s.sql = "conv"   -> InsertConv(V, s.op, s.h)
      [] s.sql = "unconv" -> DeleteConv(V, s.h)
      [] OTHER            -> V

BlocksAfter(B, s) ==
    CASE s.sql = "deleteBlock" -> B \ {s.b}
      [] s.sql = "insertBlock" -> B \cup {s.b}
      [] OTHER                 -> B

TipAfter(t, s) == IF s.sql = "tip" THEN s.b ELSE t

\* Exec, table by table.
LEMMA ExecTables ==
    ASSUME NEW d, IsDb(d), NEW s, Sound(s)
    PROVE  /\ IsDb(Exec(d, s))
           /\ Exec(d, s).utxos = UtxosAfter(d.utxos, s)
           /\ Exec(d, s).convs = ConvsAfter(d.convs, s)
           /\ Exec(d, s).blocks = BlocksAfter(d.blocks, s)
           /\ Exec(d, s).tip = TipAfter(d.tip, s)
<1> DEFINE P(e) == /\ IsDb(e)
                   /\ e.utxos = UtxosAfter(d.utxos, s)
                   /\ e.convs = ConvsAfter(d.convs, s)
                   /\ e.blocks = BlocksAfter(d.blocks, s)
                   /\ e.tip = TipAfter(d.tip, s)
<1>1. ASSUME NEW e, NEW U, e = [d EXCEPT !.utxos = U]
      PROVE  IsDb(e) /\ e.utxos = U /\ e.convs = d.convs /\ e.blocks = d.blocks /\ e.tip = d.tip
  BY <1>1 DEF IsDb
<1>2. ASSUME NEW e, NEW V, e = [d EXCEPT !.convs = V]
      PROVE  IsDb(e) /\ e.utxos = d.utxos /\ e.convs = V /\ e.blocks = d.blocks /\ e.tip = d.tip
  BY <1>2 DEF IsDb
<1>3. ASSUME NEW e, NEW B, e = [d EXCEPT !.blocks = B]
      PROVE  IsDb(e) /\ e.utxos = d.utxos /\ e.convs = d.convs /\ e.blocks = B /\ e.tip = d.tip
  BY <1>3 DEF IsDb
<1>4. ASSUME NEW e, NEW t, e = [d EXCEPT !.tip = t]
      PROVE  IsDb(e) /\ e.utxos = d.utxos /\ e.convs = d.convs /\ e.blocks = d.blocks /\ e.tip = t
  BY <1>4 DEF IsDb
<1>5. CASE s.sql \in UtxoSql
  <2>1. Exec(d, s) = [d EXCEPT !.utxos = UtxosAfter(d.utxos, s)]
    <3>1. CASE s.sql = "spend"
      BY <3>1 DEF Exec, UtxosAfter
    <3>2. CASE s.sql = "insert"
      BY <3>2 DEF Exec, UtxosAfter
    <3>3. CASE s.sql = "sweep"
      BY <3>3 DEF Exec, UtxosAfter
    <3>4. CASE s.sql = "untrim"
      BY <3>4 DEF Exec, UtxosAfter
    <3>5. CASE s.sql = "unspend"
      BY <3>5 DEF Exec, UtxosAfter
    <3>6. CASE s.sql = "uncreate"
      BY <3>6 DEF Exec, UtxosAfter
    <3> QED BY <1>5, <3>1, <3>2, <3>3, <3>4, <3>5, <3>6 DEF UtxoSql
  <2>2. \A V : ConvsAfter(V, s) = V
    BY <1>5 DEF ConvsAfter, UtxoSql
  <2>3. \A B : BlocksAfter(B, s) = B
    BY <1>5 DEF BlocksAfter, UtxoSql
  <2>4. \A t : TipAfter(t, s) = t
    BY <1>5 DEF TipAfter, UtxoSql
  <2> QED BY <1>1, <2>1, <2>2, <2>3, <2>4
<1>6. CASE s.sql \in ConvSql
  <2>1. Exec(d, s) = [d EXCEPT !.convs = ConvsAfter(d.convs, s)]
    <3>1. CASE s.sql = "conv"
      BY <3>1 DEF Exec, ConvsAfter
    <3>2. CASE s.sql = "unconv"
      BY <3>2 DEF Exec, ConvsAfter
    <3> QED BY <1>6, <3>1, <3>2 DEF ConvSql
  <2>2. \A U : UtxosAfter(U, s) = U
    BY <1>6 DEF UtxosAfter, ConvSql
  <2>3. \A B : BlocksAfter(B, s) = B
    BY <1>6 DEF BlocksAfter, ConvSql
  <2>4. \A t : TipAfter(t, s) = t
    BY <1>6 DEF TipAfter, ConvSql
  <2> QED BY <1>2, <2>1, <2>2, <2>3, <2>4
<1>7. CASE s.sql \in BlockSql
  <2>1. Exec(d, s) = [d EXCEPT !.blocks = BlocksAfter(d.blocks, s)]
    <3>1. CASE s.sql = "deleteBlock"
      BY <3>1 DEF Exec, BlocksAfter
    <3>2. CASE s.sql = "insertBlock"
      BY <3>2 DEF Exec, BlocksAfter
    <3> QED BY <1>7, <3>1, <3>2 DEF BlockSql
  <2>2. \A U : UtxosAfter(U, s) = U
    BY <1>7 DEF UtxosAfter, BlockSql
  <2>3. \A V : ConvsAfter(V, s) = V
    BY <1>7 DEF ConvsAfter, BlockSql
  <2>4. \A t : TipAfter(t, s) = t
    BY <1>7 DEF TipAfter, BlockSql
  <2> QED BY <1>3, <2>1, <2>2, <2>3, <2>4
<1>8. CASE s.sql = "tip"
  <2>1. Exec(d, s) = [d EXCEPT !.tip = TipAfter(d.tip, s)]
    BY <1>8 DEF Exec, TipAfter
  <2>2. \A U : UtxosAfter(U, s) = U
    BY <1>8 DEF UtxosAfter
  <2>3. \A V : ConvsAfter(V, s) = V
    BY <1>8 DEF ConvsAfter
  <2>4. \A B : BlocksAfter(B, s) = B
    BY <1>8 DEF BlocksAfter
  <2> QED BY <1>4, <2>1, <2>2, <2>3, <2>4
<1> QED BY <1>5, <1>6, <1>7, <1>8 DEF Sound

\* What an UPDATE of utxos makes of a row.
RowAfter(r, s) ==
    CASE s.sql = "spend"   -> IF r.op = s.op /\ Live(r) THEN [r EXCEPT !.spent = s.h, !.spentTx = s.tx] ELSE r
      [] s.sql = "sweep"   -> IF r.deadline = s.h /\ Live(r) /\ r.lock = 0 THEN [r EXCEPT !.trimmed = s.h] ELSE r
      [] s.sql = "untrim"  -> IF r.trimmed = s.h THEN [r EXCEPT !.trimmed = Null] ELSE r
      [] s.sql = "unspend" -> IF r.spent = s.h THEN [r EXCEPT !.spent = Null, !.spentTx = NoTx] ELSE r

UpdateSql == {"spend", "sweep", "untrim", "unspend"}

LEMMA UpdateRows ==
    ASSUME NEW s, s.sql \in UpdateSql, NEW U
    PROVE  UtxosAfter(U, s) = {RowAfter(r, s) : r \in U}
<1>1. CASE s.sql = "spend"
  BY <1>1 DEF UtxosAfter, RowAfter, MarkSpent
<1>2. CASE s.sql = "sweep"
  BY <1>2 DEF UtxosAfter, RowAfter, SweepTrims
<1>3. CASE s.sql = "untrim"
  BY <1>3 DEF UtxosAfter, RowAfter, Untrim
<1>4. CASE s.sql = "unspend"
  BY <1>4 DEF UtxosAfter, RowAfter, Unspend
<1> QED BY <1>1, <1>2, <1>3, <1>4 DEF UpdateSql

\* It stays a row of the same key.
LEMMA UpdateKeepsKey ==
    ASSUME NEW s, s.sql \in UpdateSql, NEW r, IsRow(r)
    PROVE  IsRow(RowAfter(r, s)) /\ UtxoKey(RowAfter(r, s)) = UtxoKey(r)
<1>1. ASSUME NEW x, NEW h, NEW tx, x = [r EXCEPT !.spent = h, !.spentTx = tx]
      PROVE  IsRow(x) /\ x.op = r.op /\ x.created = r.created
  <2> DEFINE y == [r EXCEPT !.spent = h]
  <2>1. IsRow(y) /\ y.op = r.op /\ y.created = r.created
    BY DEF IsRow
  <2>2. x = [y EXCEPT !.spentTx = tx]
    BY <1>1
  <2> HIDE DEF y
  <2> QED BY <2>1, <2>2 DEF IsRow
<1>2. ASSUME NEW x, NEW h, x = [r EXCEPT !.trimmed = h]
      PROVE  IsRow(x) /\ x.op = r.op /\ x.created = r.created
  BY <1>2 DEF IsRow
<1>3. RowAfter(r, s) = r \/ (\E h, tx : RowAfter(r, s) = [r EXCEPT !.spent = h, !.spentTx = tx])
      \/ (\E h : RowAfter(r, s) = [r EXCEPT !.trimmed = h])
  <2>1. CASE s.sql = "spend"
    BY <2>1 DEF RowAfter
  <2>2. CASE s.sql = "sweep"
    BY <2>2 DEF RowAfter
  <2>3. CASE s.sql = "untrim"
    BY <2>3 DEF RowAfter
  <2>4. CASE s.sql = "unspend"
    BY <2>4 DEF RowAfter
  <2> QED BY <2>1, <2>2, <2>3, <2>4 DEF UpdateSql
<1> QED BY <1>1, <1>2, <1>3 DEF UtxoKey

\* Statements keep rows rows.
LEMMA ExecKeepsTables ==
    ASSUME NEW d, IsTables(d), NEW s, Sound(s)
    PROVE  IsTables(Exec(d, s))
<1> DEFINE U == d.utxos
           W == UtxosAfter(U, s)
<1>1. IsDb(d) /\ \A r \in U : IsRow(r)
  BY DEF IsTables
<1>2. IsDb(Exec(d, s)) /\ Exec(d, s).utxos = W
  BY <1>1, ExecTables
<1>3. ASSUME NEW r \in W PROVE IsRow(r)
  <2>1. CASE s.sql \in UpdateSql
    BY <1>1, <2>1, UpdateRows, UpdateKeepsKey
  <2>2. CASE s.sql = "insert"
    BY <1>1, <2>2 DEF UtxosAfter, Insert, Sound
  <2>3. CASE s.sql = "uncreate"
    BY <1>1, <2>3 DEF UtxosAfter, DeleteCreated
  <2>4. CASE s.sql \notin UtxoSql
    BY <1>1, <2>4 DEF UtxosAfter, UtxoSql
  <2> QED BY <2>1, <2>2, <2>3, <2>4 DEF UtxoSql, UpdateSql
<1> HIDE DEF W
<1> QED BY <1>2, <1>3 DEF IsTables

\* What a statement makes of a row depends on that row alone.
LEMMA ExecLocal ==
    ASSUME NEW d, NEW e, IsTables(d), IsTables(e), NEW s, Sound(s), NEW k, SameAt(d, e, k)
    PROVE  SameAt(Exec(d, s), Exec(e, s), k)
<1> DEFINE f == Exec(d, s)
           g == Exec(e, s)
<1>1. IsDb(d) /\ IsDb(e) /\ (\A r \in d.utxos : IsRow(r)) /\ (\A r \in e.utxos : IsRow(r))
  BY DEF IsTables
<1>2. f.utxos = UtxosAfter(d.utxos, s) /\ g.utxos = UtxosAfter(e.utxos, s)
  BY <1>1, ExecTables
<1>3. f.convs = ConvsAfter(d.convs, s) /\ g.convs = ConvsAfter(e.convs, s)
  BY <1>1, ExecTables
<1>4. f.blocks = BlocksAfter(d.blocks, s) /\ g.blocks = BlocksAfter(e.blocks, s)
  BY <1>1, ExecTables
<1>5. f.tip = TipAfter(d.tip, s) /\ g.tip = TipAfter(e.tip, s)
  BY <1>1, ExecTables
<1> HIDE DEF f, g
<1>6. ASSUME NEW U, NEW W, \A r \in U : IsRow(r), \A r \in W : IsRow(r),
             \A r : UtxoKey(r) = k => (r \in U <=> r \in W),
             NEW r \in UtxosAfter(U, s), UtxoKey(r) = k
      PROVE  r \in UtxosAfter(W, s)
  <2>1. CASE s.sql \in UpdateSql
    <3>1. PICK q \in U : r = RowAfter(q, s)
      BY <1>6, <2>1, UpdateRows
    <3>2. UtxoKey(q) = k
      BY <1>6, <2>1, <3>1, UpdateKeepsKey
    <3>3. q \in W
      BY <1>6, <3>2
    <3> QED BY <2>1, <3>1, <3>3, UpdateRows
  <2>2. CASE s.sql = "insert"
    <3>1. \A X : UtxosAfter(X, s) = Insert(X, s.row)
      BY <2>2 DEF UtxosAfter
    <3>2. CASE UtxoKey(s.row) = k
      <4>1. \A q : q.op = s.row.op /\ q.created = s.row.created => UtxoKey(q) = k
        BY <3>2 DEF UtxoKey
      <4>2. (\E q \in U : q.op = s.row.op /\ q.created = s.row.created)
              <=> (\E q \in W : q.op = s.row.op /\ q.created = s.row.created)
        BY <1>6, <4>1
      <4> QED BY <1>6, <3>1, <4>2 DEF Insert
    <3>3. CASE UtxoKey(s.row) # k
      BY <1>6, <3>1, <3>3 DEF Insert
    <3> QED BY <3>2, <3>3
  <2>3. CASE s.sql = "uncreate"
    <3>1. \A X : UtxosAfter(X, s) = DeleteCreated(X, s.h)
      BY <2>3 DEF UtxosAfter
    <3> QED BY <1>6, <3>1 DEF DeleteCreated
  <2>4. CASE s.sql \notin UtxoSql
    <3>1. \A X : UtxosAfter(X, s) = X
      BY <2>4 DEF UtxosAfter, UtxoSql
    <3> QED BY <1>6, <3>1
  <2> QED BY <2>1, <2>2, <2>3, <2>4 DEF UtxoSql, UpdateSql
<1>7. \A r : UtxoKey(r) = k => (r \in f.utxos <=> r \in g.utxos)
  <2>1. \A r : UtxoKey(r) = k => (r \in d.utxos <=> r \in e.utxos)
    BY DEF SameAt
  <2>2. \A r : UtxoKey(r) = k => (r \in e.utxos <=> r \in d.utxos)
    BY <2>1
  <2> QED BY <1>1, <1>2, <1>6, <2>1, <2>2
<1>8. \A c : ConvKey(c) = k => (c \in f.convs <=> c \in g.convs)
  <2>1. \A c : ConvKey(c) = k => (c \in d.convs <=> c \in e.convs)
    BY DEF SameAt
  <2>2. CASE s.sql = "conv"
    <3>1. \A X : ConvsAfter(X, s) = InsertConv(X, s.op, s.h)
      BY <2>2 DEF ConvsAfter
    <3>2. CASE <<"convs", s.op>> = k
      <4>1. \A q : q.op = s.op => ConvKey(q) = k
        BY <3>2 DEF ConvKey
      <4>2. (\E q \in d.convs : q.op = s.op) <=> (\E q \in e.convs : q.op = s.op)
        BY <2>1, <4>1
      <4> QED BY <1>3, <2>1, <3>1, <4>2 DEF InsertConv
    <3>3. CASE <<"convs", s.op>> # k
      <4>1. ConvKey([op |-> s.op, height |-> s.h]) # k
        BY <3>3 DEF ConvKey
      <4> QED BY <1>3, <2>1, <3>1, <4>1 DEF InsertConv
    <3> QED BY <3>2, <3>3
  <2>3. CASE s.sql = "unconv"
    <3>1. \A X : ConvsAfter(X, s) = DeleteConv(X, s.h)
      BY <2>3 DEF ConvsAfter
    <3> QED BY <1>3, <2>1, <3>1 DEF DeleteConv
  <2>4. CASE s.sql \notin ConvSql
    <3>1. \A X : ConvsAfter(X, s) = X
      BY <2>4 DEF ConvsAfter, ConvSql
    <3> QED BY <1>3, <2>1, <3>1
  <2> QED BY <2>2, <2>3, <2>4 DEF ConvSql
<1>9. \A b : BlockKey(b) = k => (b \in f.blocks <=> b \in g.blocks)
  <2>1. \A b : BlockKey(b) = k => (b \in d.blocks <=> b \in e.blocks)
    BY DEF SameAt
  <2>2. CASE s.sql = "deleteBlock"
    BY <1>4, <2>1, <2>2 DEF BlocksAfter
  <2>3. CASE s.sql = "insertBlock"
    BY <1>4, <2>1, <2>3 DEF BlocksAfter
  <2>4. CASE s.sql \notin BlockSql
    BY <1>4, <2>1, <2>4 DEF BlocksAfter, BlockSql
  <2> QED BY <2>2, <2>3, <2>4 DEF BlockSql
<1>10. TipKey = k => f.tip = g.tip
  BY <1>5 DEF SameAt, TipAfter
<1>11. SameAt(f, g, k)
  BY <1>7, <1>8, <1>9, <1>10 DEF SameAt
<1> QED BY <1>11 DEF f, g

-----------------------------------------------------------------------------
(* The places of a transaction's statements.                               *)

LEMMA InPlaces ==
    ASSUME NEW code, NEW u
    PROVE  u \in Places(code) <=>
               \E i \in DOMAIN code : \E j \in DOMAIN code[i] : \E k \in DOMAIN code[i][j] :
                   u = <<i, j, k>>
BY DEF Places

\* The statement of an update that stands at place u: it undoes a block, moves
\* the spine, decodes a block, or moves the tip.
UndoAt(t, u, s) ==
    \E i \in 1..Len(t.rollback), m \in 1..4 : u = <<i, 1, m>> /\ s = RollbackBlock(t.rollback[i])[m]

DeleteAt(t, u, s) ==
    \E i \in 1..Len(t.rollback) :
        u = <<Len(t.rollback) + 1, 1, i>> /\ s = [sql |-> "deleteBlock", b |-> t.rollback[i]]

StoreAt(t, u, s) ==
    \E i \in 1..Len(t.apply) :
        /\ u = <<Len(t.rollback) + 1, 1, Len(t.rollback) + i>>
        /\ s = [sql |-> "insertBlock", b |-> t.apply[i]]

DecodeAt(t, u, s) ==
    \E n \in 1..Len(t.apply) : \E k, m :
        u = <<Len(t.rollback) + 1 + n, k, m>> /\ StatementAt(t.apply[n], k, m, s)

MoveAt(t, u, s) ==
    /\ u = <<Len(t.rollback) + Len(t.apply) + 2, 1, 1>>
    /\ s = [sql |-> "tip", b |-> t.apply[Len(t.apply)]]

IsUpdate(t) ==
    /\ t.code = Stages(t.rollback, t.apply)
    /\ t.rollback \in Seq(Block) /\ t.apply \in Seq(Block) /\ t.apply # <<>>

\* The two sequences of an update.
LEMMA UpdateLists ==
    ASSUME NEW t, IsUpdate(t), NEW r, NEW a, r = Len(t.rollback), a = Len(t.apply)
    PROVE  /\ r \in Nat /\ a \in Nat /\ 1 <= a
           /\ DOMAIN t.rollback = 1..r /\ DOMAIN t.apply = 1..a
           /\ IsSequence(t.rollback) /\ IsSequence(t.apply)
           /\ \A i \in 1..r : t.rollback[i] \in Block
           /\ \A i \in 1..a : t.apply[i] \in Block
<1>1. t.rollback \in Seq(Block) /\ t.apply \in Seq(Block) /\ t.apply # <<>>
  BY DEF IsUpdate
<1>2. r \in Nat /\ a \in Nat /\ DOMAIN t.rollback = 1..r /\ DOMAIN t.apply = 1..a
  BY <1>1, LenProperties
<1>3. 1 <= a
  BY <1>1, <1>2, EmptySeq
<1>4. ASSUME NEW s \in Seq(Block) PROVE IsSequence(s)
  <2>1. s \in [1..Len(s) -> ToSet(s)] /\ Len(s) \in Nat
    BY <1>4, LenProperties DEF ToSet
  <2> QED BY <2>1 DEF IsSequence
<1>5. \A i \in 1..r : t.rollback[i] \in Block
  BY <1>1, <1>2, ElementOfSeq
<1>6. \A i \in 1..a : t.apply[i] \in Block
  BY <1>1, <1>2, ElementOfSeq
<1> QED BY <1>1, <1>2, <1>3, <1>4, <1>5, <1>6

\* What stands where.
LEMMA UpdatePlaces ==
    ASSUME NEW t, IsUpdate(t), NEW u, NEW s
    PROVE  (u \in Places(t.code) /\ s = StatementOf(t, u)) <=>
               UndoAt(t, u, s) \/ DeleteAt(t, u, s) \/ StoreAt(t, u, s) \/ DecodeAt(t, u, s)
               \/ MoveAt(t, u, s)
<1> DEFINE R == t.rollback
           A == t.apply
           r == Len(R)
           a == Len(A)
           c == t.code
           sp == SpineStatements(R, A)
<1>1. /\ r \in Nat /\ a \in Nat /\ 1 <= a /\ IsSequence(R) /\ IsSequence(A)
      /\ \A i \in 1..r : R[i] \in Block
      /\ \A i \in 1..a : A[i] \in Block
  BY UpdateLists
<1>2. StagesAre(c, R, A, r, a)
  BY <1>1, StageLists DEF IsUpdate
<1>3. SpineIs(sp, R, A, r, a)
  BY <1>1, SpineList
<1>4. \A b : DOMAIN RollbackBlock(b) = 1..4
  BY DEF RollbackBlock
<1>5. \A i, j, k : StatementOf(t, <<i, j, k>>) = c[i][j][k]
  BY DEF StatementOf
<1>6. Len(t.rollback) = r /\ Len(t.apply) = a /\ t.rollback = R /\ t.apply = A /\ t.code = c
  OBVIOUS
<1> HIDE DEF R, A, r, a, c, sp
<1>7. ASSUME NEW i \in DOMAIN c, NEW j \in DOMAIN c[i], NEW k \in DOMAIN c[i][j],
             u = <<i, j, k>>, s = c[i][j][k]
      PROVE  UndoAt(t, u, s) \/ DeleteAt(t, u, s) \/ StoreAt(t, u, s) \/ DecodeAt(t, u, s)
             \/ MoveAt(t, u, s)
  <2>1. i \in 1..(r + a + 2)
    BY <1>2 DEF StagesAre
  <2>2. CASE i \in 1..r
    <3>1. c[i] = <<RollbackBlock(R[i])>>
      BY <1>2, <2>2 DEF StagesAre
    <3>2. j = 1 /\ c[i][j] = RollbackBlock(R[i])
      BY <1>7, <3>1, OneList
    <3>3. k \in 1..4
      BY <1>4, <1>7, <3>2
    <3> QED BY <1>6, <1>7, <2>2, <3>2, <3>3 DEF UndoAt
  <2>3. CASE i = r + 1
    <3>1. c[i] = <<sp>>
      BY <1>2, <2>3 DEF StagesAre, sp
    <3>2. j = 1 /\ c[i][j] = sp
      BY <1>7, <3>1, OneList
    <3>3. k \in 1..(r + a)
      BY <1>3, <1>7, <3>2 DEF SpineIs
    <3>4. CASE k \in 1..r
      <4>1. s = [sql |-> "deleteBlock", b |-> R[k]]
        BY <1>3, <1>7, <3>2, <3>4 DEF SpineIs
      <4> QED BY <1>6, <1>7, <2>3, <3>2, <3>4, <4>1 DEF DeleteAt
    <3>5. CASE k \notin 1..r
      <4>1. PICK x \in 1..a : k = r + x
        <5>1. k - r \in 1..a /\ k = r + (k - r)
          BY <1>1, <3>3, <3>5
        <5> QED BY <5>1
      <4>2. s = [sql |-> "insertBlock", b |-> A[x]]
        BY <1>3, <1>7, <3>2, <4>1 DEF SpineIs
      <4> QED BY <1>6, <1>7, <2>3, <3>2, <4>1, <4>2 DEF StoreAt
    <3> QED BY <3>4, <3>5
  <2>4. CASE r + 1 < i /\ i < r + a + 2
    <3>1. PICK n \in 1..a : i = r + 1 + n
      <4>1. i - (r + 1) \in 1..a /\ i = r + 1 + (i - (r + 1))
        BY <1>1, <2>1, <2>4
      <4> QED BY <4>1
    <3>2. c[i] = ApplyBlock(A[n])
      BY <1>2, <3>1 DEF StagesAre
    <3>3. StatementAt(A[n], j, k, s)
      BY <1>7, <3>2 DEF StatementAt
    <3> QED BY <1>6, <1>7, <3>1, <3>3 DEF DecodeAt
  <2>5. CASE i = r + a + 2
    <3>1. c[i] = <<<<[sql |-> "tip", b |-> A[a]]>>>>
      BY <1>2, <2>5 DEF StagesAre
    <3>2. j = 1 /\ c[i][j] = <<[sql |-> "tip", b |-> A[a]]>>
      BY <1>7, <3>1, OneList
    <3>3. k = 1 /\ s = [sql |-> "tip", b |-> A[a]]
      BY <1>7, <3>2, OneList
    <3> QED BY <1>6, <1>7, <2>5, <3>2, <3>3 DEF MoveAt
  <2> QED BY <1>1, <2>1, <2>2, <2>3, <2>4, <2>5
<1>8. ASSUME NEW i \in DOMAIN c, NEW j \in DOMAIN c[i], NEW k \in DOMAIN c[i][j],
             u = <<i, j, k>>, s = c[i][j][k]
      PROVE  u \in Places(c) /\ s = StatementOf(t, u)
  <2>1. u \in Places(c)
    BY <1>8, InPlaces
  <2> QED BY <1>5, <1>8, <2>1
<1>9. ASSUME u \in Places(c), s = StatementOf(t, u)
      PROVE  UndoAt(t, u, s) \/ DeleteAt(t, u, s) \/ StoreAt(t, u, s) \/ DecodeAt(t, u, s)
             \/ MoveAt(t, u, s)
  <2>1. PICK i \in DOMAIN c : \E j \in DOMAIN c[i] : \E k \in DOMAIN c[i][j] : u = <<i, j, k>>
    BY <1>9, InPlaces
  <2>2. PICK j \in DOMAIN c[i] : \E k \in DOMAIN c[i][j] : u = <<i, j, k>>
    BY <2>1
  <2>3. PICK k \in DOMAIN c[i][j] : u = <<i, j, k>>
    BY <2>2
  <2>4. s = c[i][j][k]
    BY <1>5, <1>9, <2>3
  <2> QED BY <1>7, <2>3, <2>4
<1>10. ASSUME UndoAt(t, u, s) PROVE u \in Places(c) /\ s = StatementOf(t, u)
  <2>1. PICK i \in 1..r, m \in 1..4 : u = <<i, 1, m>> /\ s = RollbackBlock(R[i])[m]
    BY <1>6, <1>10 DEF UndoAt
  <2>2. i \in DOMAIN c
    BY <1>1, <1>2 DEF StagesAre
  <2>3. c[i] = <<RollbackBlock(R[i])>>
    BY <1>2 DEF StagesAre
  <2>4. 1 \in DOMAIN c[i] /\ c[i][1] = RollbackBlock(R[i])
    BY <2>3, OneList
  <2> QED BY <1>4, <1>8, <2>1, <2>2, <2>4
<1>11. ASSUME NEW k \in 1..(r + a), u = <<r + 1, 1, k>>, s = sp[k]
       PROVE  u \in Places(c) /\ s = StatementOf(t, u)
  <2>1. r + 1 \in DOMAIN c
    BY <1>1, <1>2 DEF StagesAre
  <2>2. c[r + 1] = <<sp>>
    BY <1>2 DEF StagesAre, sp
  <2>3. 1 \in DOMAIN c[r + 1] /\ c[r + 1][1] = sp
    BY <2>2, OneList
  <2>4. k \in DOMAIN c[r + 1][1]
    BY <1>3, <2>3 DEF SpineIs
  <2> QED BY <1>8, <1>11, <2>1, <2>3, <2>4
<1>12. ASSUME DeleteAt(t, u, s) PROVE u \in Places(c) /\ s = StatementOf(t, u)
  <2>1. PICK i \in 1..r : u = <<r + 1, 1, i>> /\ s = [sql |-> "deleteBlock", b |-> R[i]]
    BY <1>6, <1>12 DEF DeleteAt
  <2>2. i \in 1..(r + a) /\ s = sp[i]
    BY <1>1, <1>3, <2>1 DEF SpineIs
  <2> QED BY <1>11, <2>1, <2>2
<1>13. ASSUME StoreAt(t, u, s) PROVE u \in Places(c) /\ s = StatementOf(t, u)
  <2>1. PICK i \in 1..a : u = <<r + 1, 1, r + i>> /\ s = [sql |-> "insertBlock", b |-> A[i]]
    BY <1>6, <1>13 DEF StoreAt
  <2>2. r + i \in 1..(r + a) /\ s = sp[r + i]
    BY <1>1, <1>3, <2>1 DEF SpineIs
  <2> QED BY <1>11, <2>1, <2>2
<1>14. ASSUME DecodeAt(t, u, s) PROVE u \in Places(c) /\ s = StatementOf(t, u)
  <2>1. PICK n \in 1..a : \E k, m : u = <<r + 1 + n, k, m>> /\ StatementAt(A[n], k, m, s)
    BY <1>6, <1>14 DEF DecodeAt
  <2>2. PICK k, m : u = <<r + 1 + n, k, m>> /\ StatementAt(A[n], k, m, s)
    BY <2>1
  <2>3. r + 1 + n \in DOMAIN c
    BY <1>1, <1>2 DEF StagesAre
  <2>4. c[r + 1 + n] = ApplyBlock(A[n])
    BY <1>2 DEF StagesAre
  <2>5. k \in DOMAIN c[r + 1 + n] /\ m \in DOMAIN c[r + 1 + n][k] /\ s = c[r + 1 + n][k][m]
    BY <2>2, <2>4 DEF StatementAt
  <2> QED BY <1>8, <2>2, <2>3, <2>5
<1>15. ASSUME MoveAt(t, u, s) PROVE u \in Places(c) /\ s = StatementOf(t, u)
  <2>1. u = <<r + a + 2, 1, 1>> /\ s = [sql |-> "tip", b |-> A[a]]
    BY <1>6, <1>15 DEF MoveAt
  <2>2. r + a + 2 \in DOMAIN c
    BY <1>1, <1>2 DEF StagesAre
  <2>3. c[r + a + 2] = <<<<[sql |-> "tip", b |-> A[a]]>>>>
    BY <1>2 DEF StagesAre
  <2>4. 1 \in DOMAIN c[r + a + 2] /\ c[r + a + 2][1] = <<[sql |-> "tip", b |-> A[a]]>>
    BY <2>3, OneList
  <2>5. 1 \in DOMAIN c[r + a + 2][1] /\ c[r + a + 2][1][1] = [sql |-> "tip", b |-> A[a]]
    BY <2>4, OneList
  <2> QED BY <1>8, <2>1, <2>2, <2>4, <2>5
<1>16. QED
  <2>1. Places(t.code) = Places(c)
    BY <1>6
  <2> QED BY <1>9, <1>10, <1>12, <1>13, <1>14, <1>15, <2>1

\* Every statement of a block or of an update that does not fail is sound, and
\* is of one of the kinds its place says.
LEMMA BlockSound ==
    ASSUME NEW b \in Block, NEW k, NEW m, NEW s, StatementAt(b, k, m, s), s.sql # "fail"
    PROVE  Sound(s) /\ s.sql \in {"spend", "insert", "conv", "sweep"}
<1>1. s.sql \in {"spend", "insert", "conv", "sweep"}
  BY StatementFacts
<1>2. s.sql = "insert" => Fresh(s.row)
  BY StatementFacts
<1>3. \A x : Fresh(x) => IsRow(x)
  BY DEF Fresh, NewRow, IsRow
<1> QED BY <1>1, <1>2, <1>3 DEF Sound, UtxoSql, ConvSql

LEMMA UndoSound ==
    ASSUME NEW b, NEW m \in 1..4, NEW s, s = RollbackBlock(b)[m]
    PROVE  /\ Sound(s) /\ s.h = Height[b]
           /\ m = 1 => s.sql = "untrim"
           /\ m = 2 => s.sql = "unspend"
           /\ m = 3 => s.sql = "uncreate"
           /\ m = 4 => s.sql = "unconv"
<1>1. CASE m = 1
  <2>1. s = [sql |-> "untrim", h |-> Height[b]]
    BY <1>1 DEF RollbackBlock
  <2> QED BY <1>1, <2>1 DEF Sound, UtxoSql
<1>2. CASE m = 2
  <2>1. s = [sql |-> "unspend", h |-> Height[b]]
    BY <1>2 DEF RollbackBlock
  <2> QED BY <1>2, <2>1 DEF Sound, UtxoSql
<1>3. CASE m = 3
  <2>1. s = [sql |-> "uncreate", h |-> Height[b]]
    BY <1>3 DEF RollbackBlock
  <2> QED BY <1>3, <2>1 DEF Sound, UtxoSql
<1>4. CASE m = 4
  <2>1. s = [sql |-> "unconv", h |-> Height[b]]
    BY <1>4 DEF RollbackBlock
  <2> QED BY <1>4, <2>1 DEF Sound, ConvSql
<1> QED BY <1>1, <1>2, <1>3, <1>4

LEMMA UpdateSound ==
    ASSUME NEW t, IsUpdate(t), NEW u \in Places(t.code), NEW s, s = StatementOf(t, u), s.sql # "fail"
    PROVE  Sound(s)
<1>1. /\ \A i \in 1..Len(t.rollback) : t.rollback[i] \in Block
      /\ \A i \in 1..Len(t.apply) : t.apply[i] \in Block
  BY UpdateLists
<1>2. CASE UndoAt(t, u, s)
  BY <1>2, UndoSound DEF UndoAt
<1>3. CASE DeleteAt(t, u, s)
  BY <1>3 DEF DeleteAt, Sound, BlockSql
<1>4. CASE StoreAt(t, u, s)
  BY <1>4 DEF StoreAt, Sound, BlockSql
<1>5. CASE DecodeAt(t, u, s)
  BY <1>1, <1>5, BlockSound DEF DecodeAt
<1>6. CASE MoveAt(t, u, s)
  BY <1>6 DEF MoveAt, Sound
<1> QED BY <1>2, <1>3, <1>4, <1>5, <1>6, UpdatePlaces

\* The places of reconcile's transaction.
LEMMA ToolPlaces ==
    ASSUME NEW t, NEW b \in Block, t.code = <<ApplyBlock(b)>>, NEW u \in Places(t.code)
    PROVE  \E k, m : StatementAt(b, k, m, StatementOf(t, u))
<1>1. DOMAIN t.code = {1} /\ t.code[1] = ApplyBlock(b)
  BY OneList
<1>2. PICK i \in DOMAIN t.code : \E j \in DOMAIN t.code[i] : \E k \in DOMAIN t.code[i][j] : u = <<i, j, k>>
  BY InPlaces
<1>3. PICK j \in DOMAIN ApplyBlock(b) : \E k \in DOMAIN ApplyBlock(b)[j] : u = <<1, j, k>>
  BY <1>1, <1>2
<1>4. PICK k \in DOMAIN ApplyBlock(b)[j] : u = <<1, j, k>>
  BY <1>3
<1>5. StatementOf(t, u) = ApplyBlock(b)[j][k]
  BY <1>1, <1>4 DEF StatementOf
<1> QED BY <1>4, <1>5 DEF StatementAt

-----------------------------------------------------------------------------
(* What a statement does to its transaction.                               *)

LEMMA TxnKeys ==
    ASSUME NEW S, NEW t, TxnInv(S, t)
    PROVE  OwnKeys(t.own, t.locks) /\ IsTables(t.own)
BY DEF TxnInv, OwnKeys

LEMMA ViewTables ==
    ASSUME NEW d, NEW t, IsTables(d), IsTables(t.own)
    PROVE  IsTables(View(d, t))
BY DEF IsTables, IsDb, View, Overlay

LEMMA LockedTables ==
    ASSUME NEW d, NEW L, IsTables(d)
    PROVE  IsTables(Locked(d, L))
BY DEF IsTables, IsDb, Locked

\* The blocks in sight are known ones.
LEMMA ViewSpine ==
    ASSUME NEW d, NEW t, NEW S, TxnInv(S, t), d.blocks \subseteq S, d.tip \in S \cup {NoBlock}
    PROVE  View(d, t).blocks \subseteq S /\ View(d, t).tip \in S \cup {NoBlock}
BY DEF TxnInv, View, Overlay

Stores(S, s) == s.sql \in {"insertBlock", "tip"} => s.b \in S

\* t2 is t after its statement s at place u.
Ran(S, d, t, u, s, t2) ==
    /\ TxnInv(S, t2)
    /\ View(d, t2) = Exec(View(d, t), s)
    /\ t2.locks = t.locks \cup Changed(View(d, t), Exec(View(d, t), s))
    /\ t2.todo = t.todo \ {u}
    /\ t2.code = t.code /\ t2.rollback = t.rollback /\ t2.apply = t.apply
    /\ t2.bare = t.bare /\ t2.open = t.open
    /\ u \in Places(t.code)

\* The transaction sees the outcome of its statement, and holds its keys.
LEMMA RunTxn ==
    ASSUME NEW S, NEW d, IsTables(d), d.blocks \subseteq S, d.tip \in S \cup {NoBlock},
           NEW t, TxnInv(S, t), t.open, NEW u \in NextPlace(t),
           NEW s, s = StatementOf(t, u), Sound(s), Stores(S, s), NEW t2, t2 = After(d, t, u)
    PROVE  Ran(S, d, t, u, s, t2)
<1> DEFINE v == View(d, t)
           e == Exec(v, s)
           L == t.locks \cup Changed(v, e)
<1>1. OwnKeys(t.own, t.locks) /\ IsTables(t.own)
  BY TxnKeys
<1>2. IsTables(v)
  BY <1>1, ViewTables
<1>3. IsTables(e)
  BY <1>2, ExecKeepsTables
<1>4. t = [code |-> t.code, todo |-> t.todo, locks |-> t.locks, own |-> t.own,
           rollback |-> t.rollback, apply |-> t.apply, bare |-> t.bare, open |-> t.open]
  BY DEF TxnInv
<1>5. t2 = [code |-> t.code, todo |-> t.todo \ {u}, locks |-> L, own |-> Locked(e, L),
            rollback |-> t.rollback, apply |-> t.apply, bare |-> t.bare, open |-> t.open]
  <2>1. t2 = [t EXCEPT !.todo = t.todo \ {u}, !.locks = L, !.own = Locked(e, L)]
    BY <1>4 DEF After
  <2> HIDE DEF L, e
  <2> QED BY <1>4, <2>1
<1>6. Overlay(d, Locked(e, L), L) = e
  <2>1. IsDb(e)
    BY <1>3 DEF IsTables
  <2>2. v = Overlay(d, t.own, t.locks)
    BY DEF View
  <2> HIDE DEF v, e
  <2> QED BY <1>1, <2>1, <2>2, SeesOutcome
<1>7. u \in t.todo /\ (\A x \in t.todo : ~Before(x, u)) /\ t.todo \subseteq Places(t.code)
  BY DEF NextPlace, TxnInv
<1>8. \A x \in t.todo \ {u}, y \in Places(t.code) : Before(x, y) => y \in t.todo \ {u}
  <2>1. \A x \in t.todo, y \in Places(t.code) : Before(x, y) => y \in t.todo
    BY DEF TxnInv
  <2> QED BY <1>7, <2>1
<1>9. OwnKeys(Locked(e, L), L)
  BY LockedAt
<1>10. IsTables(Locked(e, L))
  BY <1>3, LockedTables
<1>11. e.blocks \subseteq S /\ e.tip \in S \cup {NoBlock}
  <2>1. v.blocks \subseteq S /\ v.tip \in S \cup {NoBlock}
    BY ViewSpine
  <2>2. e.blocks = BlocksAfter(v.blocks, s) /\ e.tip = TipAfter(v.tip, s)
    <3>1. IsDb(v)
      BY <1>2 DEF IsTables
    <3> QED BY <3>1, ExecTables
  <2> HIDE DEF v, e
  <2>3. e.blocks \subseteq S
    BY <2>1, <2>2 DEF BlocksAfter, Stores
  <2>4. e.tip \in S \cup {NoBlock}
    BY <2>1, <2>2 DEF TipAfter, Stores
  <2> QED BY <2>3, <2>4
<1>12. Locked(e, L).blocks \subseteq S /\ Locked(e, L).tip \in S \cup {NoBlock}
  BY <1>11 DEF Locked
<1> HIDE DEF L, e, v
<1>13. /\ t2.code = t.code /\ t2.todo = t.todo \ {u} /\ t2.locks = L /\ t2.own = Locked(e, L)
       /\ t2.rollback = t.rollback /\ t2.apply = t.apply /\ t2.bare = t.bare /\ t2.open = t.open
  BY <1>5
<1>14. t2 = [code |-> t2.code, todo |-> t2.todo, locks |-> t2.locks, own |-> t2.own,
             rollback |-> t2.rollback, apply |-> t2.apply, bare |-> t2.bare, open |-> t2.open]
  BY <1>5, <1>13
<1>15. t.open \in BOOLEAN /\ t.bare \in BOOLEAN
  BY DEF TxnInv
<1>16. TxnInv(S, t2)
  <2>1. t2.todo \subseteq Places(t2.code)
    BY <1>7, <1>13
  <2>2. \A x \in t2.todo, y \in Places(t2.code) : Before(x, y) => y \in t2.todo
    BY <1>8, <1>13
  <2>3. IsTables(t2.own) /\ t2.own.blocks \subseteq S /\ t2.own.tip \in S \cup {NoBlock}
    BY <1>10, <1>12, <1>13
  <2>4. OwnKeys(t2.own, t2.locks)
    BY <1>9, <1>13
  <2>5. /\ \A r \in t2.own.utxos : UtxoKey(r) \in t2.locks
        /\ \A c \in t2.own.convs : ConvKey(c) \in t2.locks
        /\ \A b \in t2.own.blocks : BlockKey(b) \in t2.locks
    BY <2>4 DEF OwnKeys
  <2>6. t2.open \in BOOLEAN /\ t2.bare \in BOOLEAN /\ (~t2.open => t2 = NoTxn)
    BY <1>13, <1>15
  <2> QED BY <1>14, <2>1, <2>2, <2>3, <2>5, <2>6 DEF TxnInv
<1>17. View(d, t2) = e
  BY <1>6, <1>13 DEF View
<1>18. u \in Places(t.code)
  BY <1>7
<1> QED BY <1>13, <1>16, <1>17, <1>18 DEF e, v, L, Ran

-----------------------------------------------------------------------------
(* Why a key is held.                                                      *)

\* The statements of t are sound unless they fail.
SoundCode(t) ==
    \A u \in Places(t.code) : StatementOf(t, u).sql # "fail" => Sound(StatementOf(t, u))

\* A key taken by a statement is one it changes in what is committed.
LEMMA RunJustified ==
    ASSUME NEW d, IsTables(d), NEW t, IsTables(t.own), OwnKeys(t.own, t.locks),
           Justified(d, t), NEW u \in Places(t.code),
           NEW s, s = StatementOf(t, u), Sound(s), s.sql # "fail",
           NEW t2, t2.code = t.code, t2.locks = t.locks \cup Changed(View(d, t), Exec(View(d, t), s))
    PROVE  Justified(d, t2)
<1> DEFINE v == View(d, t)
<1>1. \A x : StatementOf(t2, x) = StatementOf(t, x)
  BY DEF StatementOf
<1>2. ASSUME NEW k \in t.locks
      PROVE  \E x \in Places(t2.code) : /\ StatementOf(t2, x).sql # "fail"
                                        /\ k \in Changed(d, Exec(d, StatementOf(t2, x)))
  BY <1>1 DEF Justified
<1>3. ASSUME NEW k, k \notin t.locks, k \in Changed(v, Exec(v, s))
      PROVE  k \in Changed(d, Exec(d, s))
  <2>1. SameAt(v, d, k)
    BY <1>3, OverlayAt DEF View
  <2>2. IsTables(v)
    BY ViewTables
  <2> HIDE DEF v
  <2>3. SameAt(Exec(v, s), Exec(d, s), k)
    BY <2>1, <2>2, ExecLocal
  <2>4. ~SameAt(v, Exec(v, s), k)
    BY <1>3, ChangedKeys
  <2>5. ASSUME SameAt(d, Exec(d, s), k) PROVE FALSE
    <3>1. SameAt(v, Exec(d, s), k)
      BY <2>1, <2>5, SameTrans
    <3>2. SameAt(Exec(d, s), Exec(v, s), k)
      BY <2>3, SameSym
    <3>3. SameAt(v, Exec(v, s), k)
      BY <3>1, <3>2, SameTrans
    <3> QED BY <2>4, <3>3
  <2> QED BY <2>5, ChangedKeys
<1>4. ASSUME NEW k \in t2.locks, k \notin t.locks
      PROVE  \E x \in Places(t2.code) : /\ StatementOf(t2, x).sql # "fail"
                                        /\ k \in Changed(d, Exec(d, StatementOf(t2, x)))
  <2>1. k \in Changed(v, Exec(v, s))
    BY <1>4
  <2>2. k \in Changed(d, Exec(d, s))
    BY <1>3, <1>4, <2>1
  <2>3. u \in Places(t2.code) /\ StatementOf(t2, u) = s
    BY <1>1
  <2> QED BY <2>2, <2>3
<1> QED BY <1>2, <1>4 DEF Justified

\* A commit leaves the rows alone whose keys somebody else holds.
LEMMA CommitLeaves ==
    ASSUME NEW d, NEW q, OwnKeys(q.own, q.locks), NEW k, k \notin q.locks
    PROVE  SameAt(View(d, q), d, k)
BY OverlayAt DEF View

LEMMA CommitJustified ==
    ASSUME NEW d, IsTables(d), NEW q, IsTables(q.own), OwnKeys(q.own, q.locks),
           NEW t, SoundCode(t), Justified(d, t), t.locks \cap q.locks = {}
    PROVE  Justified(View(d, q), t)
<1> DEFINE e == View(d, q)
<1>1. IsTables(e)
  BY ViewTables
<1>2. ASSUME NEW k \in t.locks
      PROVE  \E u \in Places(t.code) : /\ StatementOf(t, u).sql # "fail"
                                       /\ k \in Changed(e, Exec(e, StatementOf(t, u)))
  <2>1. PICK u \in Places(t.code) : /\ StatementOf(t, u).sql # "fail"
                                    /\ k \in Changed(d, Exec(d, StatementOf(t, u)))
    BY DEF Justified
  <2> DEFINE s == StatementOf(t, u)
  <2>2. Sound(s)
    BY <2>1 DEF SoundCode
  <2>3. SameAt(e, d, k)
    BY CommitLeaves
  <2> HIDE DEF e, s
  <2>4. SameAt(Exec(e, s), Exec(d, s), k)
    BY <1>1, <2>2, <2>3, ExecLocal
  <2>5. ~SameAt(d, Exec(d, s), k)
    BY <2>1, ChangedKeys DEF s
  <2>6. ASSUME SameAt(e, Exec(e, s), k) PROVE FALSE
    <3>1. SameAt(d, e, k)
      BY <2>3, SameSym
    <3>2. SameAt(d, Exec(e, s), k)
      BY <2>6, <3>1, SameTrans
    <3>3. SameAt(d, Exec(d, s), k)
      BY <2>4, <3>2, SameTrans
    <3> QED BY <2>5, <3>3
  <2>7. k \in Changed(e, Exec(e, s))
    BY <2>6, ChangedKeys
  <2> QED BY <2>1, <2>7 DEF s
<1> QED BY <1>2 DEF Justified, e

\* A transaction whose statements would change nothing holds nothing.
LEMMA NothingToHold ==
    ASSUME NEW d, IsDb(d), NEW t, OwnKeys(t.own, t.locks), Justified(d, t),
           \A u \in Places(t.code) : StatementOf(t, u).sql # "fail" => Exec(d, StatementOf(t, u)) = d
    PROVE  t.locks = {} /\ View(d, t) = d
<1>1. ASSUME NEW k \in t.locks PROVE FALSE
  <2>1. PICK u \in Places(t.code) : /\ StatementOf(t, u).sql # "fail"
                                    /\ k \in Changed(d, Exec(d, StatementOf(t, u)))
    BY DEF Justified
  <2>2. k \in Changed(d, d)
    BY <2>1
  <2> QED BY <2>2, ChangedKeys DEF SameAt
<1>2. \A k : SameAt(View(d, t), d, k)
  BY <1>1, CommitLeaves
<1>3. IsDb(View(d, t))
  BY DEF View, Overlay, IsDb
<1> QED BY <1>1, <1>2, <1>3, SameEverywhere

\* One whose statements would leave the spine alone leaves it alone.
LEMMA SpineToHold ==
    ASSUME NEW d, NEW t, OwnKeys(t.own, t.locks), Justified(d, t),
           \A u \in Places(t.code) :
               StatementOf(t, u).sql # "fail" =>
                   /\ Exec(d, StatementOf(t, u)).blocks = d.blocks
                   /\ Exec(d, StatementOf(t, u)).tip = d.tip
    PROVE  View(d, t).blocks = d.blocks /\ View(d, t).tip = d.tip
<1>1. ASSUME NEW k \in t.locks, (\E b : k = BlockKey(b)) \/ k = TipKey PROVE FALSE
  <2>1. PICK u \in Places(t.code) : /\ StatementOf(t, u).sql # "fail"
                                    /\ k \in Changed(d, Exec(d, StatementOf(t, u)))
    BY DEF Justified
  <2> DEFINE e == Exec(d, StatementOf(t, u))
  <2>2. e.blocks = d.blocks /\ e.tip = d.tip
    BY <2>1
  <2> HIDE DEF e
  <2>3. SameAt(d, e, k)
    BY <1>1, <2>2, KeysDiffer DEF SameAt
  <2> QED BY <2>1, <2>3, ChangedKeys DEF e
<1> DEFINE v == View(d, t)
<1>2. \A b : SameAt(v, d, BlockKey(b))
  BY <1>1, CommitLeaves
<1>3. SameAt(v, d, TipKey)
  BY <1>1, CommitLeaves
<1> HIDE DEF v
<1>4. v.blocks = d.blocks
  BY <1>2 DEF SameAt
<1>5. v.tip = d.tip
  BY <1>3 DEF SameAt
<1> QED BY <1>4, <1>5 DEF v

-----------------------------------------------------------------------------
(* Reapplying a stored block.                                              *)

\* On the tables of a chain the statements of its blocks change nothing.
LEMMA Reapplied ==
    ASSUME NEW C \in SUBSET Block, NEW d, IsDb(d), Holds(d, ChainStatements(C)),
           NEW b \in C, NEW k, NEW m, NEW s, StatementAt(b, k, m, s), s.sql # "fail"
    PROVE  Exec(d, s) = d
<1> DEFINE D == ChainStatements(C)
<1>1. s \in D
  BY InChain
<1>2. d.utxos = UtxosOf(D) /\ d.convs = ConvsOf(D)
  BY DEF Holds
<1>3. \A q \in RowsIn(D) : Fresh(q)
  BY SomeOfChain
<1>4. b \in Block /\ Height[b] \in Nat
  BY HeightAssumption
<1>5. Sound(s) /\ s.sql \in {"spend", "insert", "conv", "sweep"}
  BY <1>4, BlockSound
<1>6. \A x \in D : x.sql \in {"spend", "sweep"} => x.h \in Nat
  <2>1. ASSUME NEW x \in D, x.sql \in {"spend", "sweep"} PROVE x.h \in Nat
    <3>1. PICK c \in C : \E i, j : StatementAt(c, i, j, x)
      BY InChain
    <3>2. x.h = Height[c]
      BY <2>1, <3>1, StatementFacts
    <3> QED BY <3>2, HeightAssumption
  <2> QED BY <2>1
<1> HIDE DEF D
<1>7. ASSUME NEW r \in RowsIn(D), SpendsOf(r.op, D) # {}
      PROVE  ~Live(Became(r, D))
  <2> DEFINE x == OneOf(SpendsOf(r.op, D))
  <2>1. x \in SpendsOf(r.op, D)
    BY <1>7, OneOfOne
  <2>2. x.h \in Nat
    BY <1>6, <2>1 DEF SpendsOf
  <2>3. Became(r, D) = [r EXCEPT !.spent = x.h, !.spentTx = x.tx]
    BY <1>7 DEF Became
  <2> HIDE DEF x
  <2>4. Became(r, D).spent = x.h
    BY <1>3, <2>3, SpentRow
  <2> QED BY <2>2, <2>4 DEF Live, Null
<1>8. CASE s.sql = "insert"
  <2>1. s.row \in RowsIn(D)
    BY <1>1, <1>8 DEF RowsIn
  <2> DEFINE q == Became(s.row, D)
  <2>2. q \in d.utxos
    BY <1>2, <2>1 DEF UtxosOf
  <2>3. q.op = s.row.op /\ q.created = s.row.created
    BY <1>3, <2>1, FateKeepsKey
  <2> HIDE DEF q
  <2>4. Insert(d.utxos, s.row) = d.utxos
    BY <2>2, <2>3 DEF Insert
  <2> QED BY <1>8, <2>4 DEF Exec, IsDb
<1>9. CASE s.sql = "spend"
  <2>1. ASSUME NEW q \in d.utxos, q.op = s.op PROVE ~Live(q)
    <3>1. PICK r \in RowsIn(D) : q = Became(r, D)
      BY <1>2 DEF UtxosOf
    <3>2. r.op = s.op
      BY <1>3, <2>1, <3>1, FateKeepsKey
    <3>3. s \in SpendsOf(r.op, D)
      BY <1>1, <1>9, <3>2 DEF SpendsOf
    <3> QED BY <1>7, <3>1, <3>3
  <2>2. MarkSpent(d.utxos, s.op, s.h, s.tx) = d.utxos
    BY <2>1 DEF MarkSpent
  <2> QED BY <1>9, <2>2 DEF Exec, IsDb
<1>10. CASE s.sql = "sweep"
  <2>1. ASSUME NEW q \in d.utxos, q.deadline = s.h, q.lock = 0 PROVE ~Live(q)
    <3>1. PICK r \in RowsIn(D) : q = Became(r, D)
      BY <1>2 DEF UtxosOf
    <3>2. r.deadline = s.h /\ r.lock = 0
      BY <1>3, <2>1, <3>1, FateKeepsKey
    <3>3. DueIn(r, D)
      BY <1>1, <1>10, <3>2 DEF DueIn
    <3>4. CASE SpendsOf(r.op, D) # {}
      BY <1>7, <3>1, <3>4
    <3>5. CASE SpendsOf(r.op, D) = {}
      <4>1. q = [r EXCEPT !.trimmed = r.deadline]
        BY <3>1, <3>3, <3>5 DEF Became
      <4>2. q.trimmed = s.h
        BY <1>3, <3>2, <4>1, TrimmedRow
      <4>3. s.h \in Nat
        BY <1>1, <1>6, <1>10
      <4> QED BY <4>2, <4>3 DEF Live, Null
    <3> QED BY <3>4, <3>5
  <2>2. SweepTrims(d.utxos, s.h) = d.utxos
    BY <2>1 DEF SweepTrims
  <2> QED BY <1>10, <2>2 DEF Exec, IsDb
<1>11. CASE s.sql = "conv"
  <2>1. [op |-> s.op, height |-> s.h] \in d.convs
    BY <1>1, <1>2, <1>11 DEF ConvsOf
  <2>2. InsertConv(d.convs, s.op, s.h) = d.convs
    BY <2>1 DEF InsertConv
  <2> QED BY <1>11, <2>2 DEF Exec, IsDb
<1> QED BY <1>5, <1>8, <1>9, <1>10, <1>11

-----------------------------------------------------------------------------
(* Counting up and down a chain.                                           *)

LEMMA Least ==
    ASSUME NEW N \in SUBSET Nat, NEW x \in N
    PROVE  \E m \in N : \A n \in N : m <= n
<1>1. PICK m \in N : \A n \in N : ~(<<n, m>> \in OpToRel(<, Nat))
  <2>1. IsWellFoundedOn(OpToRel(<, Nat), Nat)
    BY NatLessThanWellFounded
  <2> QED BY <2>1, WFMin
<1>2. \A n \in N : ~(n < m)
  BY <1>1 DEF OpToRel
<1> QED BY <1>2

LEMMA CountUp ==
    ASSUME NEW N, NEW l \in Nat, NEW h \in Nat, l \in N,
           \A n \in l..h : n \in N /\ n < h => n + 1 \in N
    PROVE  \A n \in l..h : n \in N
<1> DEFINE M == {n \in l..h : n \notin N}
<1>1. SUFFICES ASSUME NEW x \in M PROVE FALSE
  OBVIOUS
<1>2. M \in SUBSET Nat
  OBVIOUS
<1>3. PICK m \in M : \A n \in M : m <= n
  <2> HIDE DEF M
  <2> QED BY <1>1, <1>2, Least
<1>4. m - 1 \in l..h /\ m - 1 < h /\ (m - 1) + 1 = m /\ ~(m <= m - 1)
  BY <1>3
<1>5. m - 1 \in N
  BY <1>3, <1>4
<1> QED BY <1>3, <1>4, <1>5

LEMMA CountDown ==
    ASSUME NEW N, NEW l \in Nat, NEW h \in Nat, h \in N,
           \A n \in l..h : n \in N /\ l < n => n - 1 \in N
    PROVE  \A n \in l..h : n \in N
<1> DEFINE M == {n \in 0..h : h - n \in N \/ h - n < l}
<1>1. 0 \in M /\ 0 \in Nat
  OBVIOUS
<1>2. ASSUME NEW n \in 0..h, n \in M, n < h PROVE n + 1 \in M
  <2>1. n + 1 \in 0..h /\ h - (n + 1) = (h - n) - 1
    BY <1>2
  <2>2. CASE h - n \in N /\ l <= h - n
    <3>1. h - n \in l..h
      BY <2>2
    <3> QED BY <2>1, <2>2, <3>1
  <2> QED BY <1>2, <2>1, <2>2
<1>3. \A n \in 0..h : n \in M
  <2> HIDE DEF M
  <2> QED BY <1>1, <1>2, CountUp
<1>4. ASSUME NEW n \in l..h PROVE n \in N
  <2>1. h - n \in 0..h /\ h - (h - n) = n
    OBVIOUS
  <2>2. h - n \in M
    BY <1>3, <2>1
  <2> QED BY <2>1, <2>2
<1> QED BY <1>4

-----------------------------------------------------------------------------
(* An update on the stored chain.                                          *)

\* Update t builds on the chain of d.
Builds(d, t) ==
    /\ IsUpdate(t) /\ IsChain(d.blocks, d.tip) /\ OnChain(d, t)
    /\ t.bare => t.rollback = <<>> /\ Len(t.apply) = 1

\* The chain with the first n blocks of the branch, and its tip.
GrownBy(d, t, n) == KeptBy(d, t) \cup {t.apply[i] : i \in 1..n}

TipBy(d, t, n) ==
    IF n > 0 THEN t.apply[n] ELSE IF d.tip = NoBlock THEN NoBlock ELSE ParentHash[t.apply[1]]

LEMMA BuildShape ==
    ASSUME NEW d, NEW t, Builds(d, t), NEW r, NEW a, r = Len(t.rollback), a = Len(t.apply)
    PROVE  /\ \A i \in 1..r : t.rollback[i] \in d.blocks
           /\ \A i \in 1..a : t.apply[i] \notin d.blocks
           /\ d.tip = NoBlock => r = 0 /\ a = 1 /\ d.blocks = {}
           /\ d.tip # NoBlock => ParentHash[t.apply[1]] \in d.blocks
           /\ t.bare \in BOOLEAN => (t.bare <=> d.tip = NoBlock)
<1>0. IsUpdate(t) /\ OnChain(d, t) /\ IsChain(d.blocks, d.tip)
  BY DEF Builds
<1>1. r \in Nat /\ a \in Nat /\ DOMAIN t.rollback = 1..r /\ DOMAIN t.apply = 1..a
  BY <1>0, UpdateLists
<1>2. t.rollback \in Seq(d.blocks) /\ ToSet(t.apply) \cap d.blocks = {}
  BY <1>0 DEF OnChain
<1>3. \A i \in 1..r : t.rollback[i] \in d.blocks
  BY <1>1, <1>2, ElementOfSeq
<1>4. \A i \in 1..a : t.apply[i] \notin d.blocks
  BY <1>1, <1>2 DEF ToSet
<1>5. IF t.bare THEN d.tip = NoBlock ELSE d.tip # NoBlock /\ ParentHash[t.apply[1]] \in d.blocks
  BY <1>0 DEF OnChain
<1>6. ASSUME d.tip = NoBlock PROVE r = 0 /\ a = 1 /\ d.blocks = {}
  <2>1. t.rollback = <<>> /\ Len(t.apply) = 1
    BY <1>5, <1>6 DEF Builds
  <2>2. d.blocks = {}
    BY <1>0, <1>6 DEF IsChain
  <2>3. r = 0
    BY <2>1
  <2> QED BY <2>1, <2>2, <2>3
<1>7. d.tip # NoBlock => ParentHash[t.apply[1]] \in d.blocks
  BY <1>5
<1>8. t.bare \in BOOLEAN => (t.bare <=> d.tip = NoBlock)
  BY <1>5
<1> QED BY <1>3, <1>4, <1>6, <1>7, <1>8

\* The rollback goes down the stored chain to the block the branch hangs from.
LEMMA BuildDown ==
    ASSUME NEW d, NEW t, Builds(d, t), NEW r, r = Len(t.rollback), d.tip # NoBlock
    PROVE  /\ r = 0 => ParentHash[t.apply[1]] = d.tip
           /\ r > 0 => t.rollback[1] = d.tip
           /\ \A i \in 1..r :
                  ParentHash[t.rollback[i]] = IF i = r THEN ParentHash[t.apply[1]] ELSE t.rollback[i + 1]
           /\ \A i \in 1..r : ParentHash[t.rollback[i]] \in d.blocks
<1> DEFINE R == t.rollback
           p == ParentHash[t.apply[1]]
<1>0. IsUpdate(t) /\ Connects(d.tip, R, t.apply)
  BY DEF Builds, OnChain
<1>1. r \in Nat /\ DOMAIN R = 1..r
  BY <1>0, UpdateLists
<1>2. \A i \in 1..r : R[i] = IF i = 1 THEN d.tip ELSE ParentHash[R[i - 1]]
  BY <1>0, <1>1 DEF Connects
<1>3. R = <<>> <=> r = 0
  <2>1. R \in Seq(Block)
    BY <1>0 DEF IsUpdate
  <2> QED BY <2>1, EmptySeq
<1>4. p = IF r = 0 THEN d.tip ELSE ParentHash[R[r]]
  <2>1. p = IF R = <<>> THEN d.tip ELSE ParentHash[R[Len(R)]]
    BY <1>0 DEF Connects
  <2> QED BY <1>3, <2>1
<1>5. p \in d.blocks /\ \A i \in 1..r : R[i] \in d.blocks
  BY BuildShape
<1> HIDE DEF R, p
<1>6. r > 0 => R[1] = d.tip
  BY <1>1, <1>2
<1>7. ASSUME NEW i \in 1..r PROVE ParentHash[R[i]] = IF i = r THEN p ELSE R[i + 1]
  <2>1. CASE i = r
    BY <1>1, <1>4, <2>1
  <2>2. CASE i # r
    <3>1. i + 1 \in 1..r /\ i + 1 # 1 /\ (i + 1) - 1 = i
      BY <1>1, <2>2
    <3> QED BY <1>2, <2>2, <3>1
  <2> QED BY <2>1, <2>2
<1>8. ASSUME NEW i \in 1..r PROVE ParentHash[R[i]] \in d.blocks
  <2>1. CASE i = r
    BY <1>5, <1>7, <2>1
  <2>2. CASE i # r
    <3>1. i + 1 \in 1..r
      BY <1>1, <2>2
    <3> QED BY <1>5, <1>7, <2>2, <3>1
  <2> QED BY <2>1, <2>2
<1> QED BY <1>4, <1>6, <1>7, <1>8 DEF R, p

\* What the rollback takes off the chain is what lies above the block the
\* branch hangs from.
LEMMA RolledBack ==
    ASSUME NEW d, NEW t, Builds(d, t), NEW r, r = Len(t.rollback)
    PROVE  d.blocks \ {t.rollback[i] : i \in 1..r} = KeptBy(d, t)
<1> DEFINE R == t.rollback
           p == ParentHash[t.apply[1]]
           S == d.blocks
           U == {R[i] : i \in 1..r}
<1>1. IsUpdate(t) /\ IsChain(S, d.tip)
  BY DEF Builds
<1>2. r \in Nat
  BY <1>1, UpdateLists
<1>3. CASE d.tip = NoBlock
  BY <1>3, BuildShape DEF KeptBy
<1>4. CASE d.tip # NoBlock
  <2>1. p \in S /\ (\A i \in 1..r : R[i] \in S)
    BY <1>4, BuildShape
  <2>2. /\ r = 0 => p = d.tip
        /\ r > 0 => R[1] = d.tip
        /\ \A i \in 1..r : ParentHash[R[i]] = IF i = r THEN p ELSE R[i + 1]
    BY <1>4, BuildDown
  <2>3. KeptBy(d, t) = UpTo(S, p)
    BY <1>4 DEF KeptBy
  <2>4. S \subseteq Block /\ d.tip \in S /\ \A c \in S : Height[c] \in Nat
    BY <1>1, <1>4, HeightAssumption DEF IsChain
  <2> HIDE DEF R, p, S
  <2>5. \A i \in 1..r : Height[R[i]] > Height[p]
    <3> DEFINE N == {i \in 1..r : Height[R[i]] > Height[p]}
    <3>1. SUFFICES ASSUME r # 0 PROVE \A i \in 1..r : i \in N
      BY <1>2
    <3>2. ASSUME NEW i \in 1..r PROVE Height[R[i]] = Height[ParentHash[R[i]]] + 1
      <4>1. ParentHash[R[i]] \in S
        <5>1. i # r => i + 1 \in 1..r
          BY <1>2
        <5> QED BY <2>1, <2>2, <5>1
      <4> QED BY <2>1, <2>4, <4>1, NumberingAssumption
    <3>3. r \in N /\ 1 \in Nat
      <4>1. r \in 1..r
        BY <1>2, <3>1
      <4>2. Height[R[r]] = Height[p] + 1 /\ Height[p] \in Nat
        BY <2>1, <2>2, <2>4, <3>2, <4>1
      <4> QED BY <4>1, <4>2
    <3>4. ASSUME NEW i \in 1..r, i \in N, 1 < i PROVE i - 1 \in N
      <4>1. i - 1 \in 1..r /\ i - 1 # r /\ (i - 1) + 1 = i
        BY <1>2, <3>4
      <4>2. Height[R[i - 1]] = Height[R[i]] + 1
        BY <2>2, <3>2, <4>1
      <4>3. Height[R[i]] \in Nat /\ Height[p] \in Nat
        BY <2>1, <2>4
      <4> QED BY <3>4, <4>1, <4>2, <4>3
    <3> HIDE DEF N
    <3> QED BY <1>2, <3>3, <3>4, CountDown
  <2>6. ASSUME NEW c \in S, Height[c] > Height[p] PROVE c \in U
    <3> DEFINE top == Height[d.tip]
               N == {h \in Nat : \A x \in S : Height[x] = h /\ h > Height[p] => x \in U}
    <3>1. top \in Nat /\ Height[c] \in Nat /\ Height[p] \in Nat /\ Height[c] <= top
      BY <1>1, <2>1, <2>4 DEF IsChain
    <3>2. r # 0
      BY <2>2, <2>6, <3>1
    <3>3. d.tip \in U
      BY <1>2, <2>2, <3>2
    <3>4. top \in N
      <4>1. \A x \in S : Height[x] = top => x = d.tip
        BY <1>1, <2>4 DEF IsChain
      <4> QED BY <3>1, <3>3, <4>1
    <3>5. ASSUME NEW h \in 0..top, h \in N, 0 < h PROVE h - 1 \in N
      <4>1. SUFFICES ASSUME NEW x \in S, Height[x] = h - 1, h - 1 > Height[p] PROVE x \in U
        BY <3>1, <3>5
      <4>2. PICK y \in S : Height[y] = h
        BY <1>1, <3>1, <3>5, <4>1, NoGap
      <4>3. PICK i \in 1..r : y = R[i]
        BY <3>1, <3>5, <4>1, <4>2
      <4>4. ParentHash[y] = IF i = r THEN p ELSE R[i + 1]
        BY <2>2, <4>3
      <4>5. i # r => i + 1 \in 1..r
        BY <1>2
      <4>6. ParentHash[y] \in S
        BY <2>1, <4>4, <4>5
      <4>7. Height[ParentHash[y]] \in Nat /\ h = Height[ParentHash[y]] + 1
        BY <2>4, <4>2, <4>6, NumberingAssumption
      <4>8. ParentHash[y] = x
        BY <1>1, <4>1, <4>6, <4>7 DEF IsChain
      <4>9. i # r
        BY <3>1, <4>1, <4>4, <4>8
      <4> QED BY <4>4, <4>5, <4>8, <4>9
    <3> HIDE DEF N, top
    <3>6. \A h \in 0..top : h \in N
      BY <3>1, <3>4, <3>5, CountDown
    <3>7. Height[c] \in N
      BY <3>1, <3>6
    <3> QED BY <2>6, <3>7 DEF N
  <2>7. \A c \in S : c \in U <=> ~(Height[c] <= Height[p])
    <3>1. \A c \in U : Height[c] > Height[p]
      BY <2>5
    <3>2. Height[p] \in Nat
      BY <2>1, <2>4
    <3> HIDE DEF U
    <3> QED BY <2>4, <2>6, <3>1, <3>2
  <2> HIDE DEF U
  <2>8. S \ U = UpTo(S, p)
    BY <2>7 DEF UpTo
  <2> QED BY <2>3, <2>8 DEF U, R, S
<1> QED BY <1>3, <1>4

\* rollbackBlock on one of the blocks of the rollback.
LEMMA UndoneBy ==
    ASSUME NEW d, NEW t, Builds(d, t), NEW r, r = Len(t.rollback), NEW i \in 1..r,
           NEW b, b = t.rollback[i], NEW D, D = ChainStatements(UpTo(d.blocks, b)),
           NEW E, E = ChainStatements(UpTo(d.blocks, ParentHash[b]))
    PROVE  /\ UtxosUndone(UtxosOf(D), Height[b], 4) = UtxosOf(E)
           /\ ConvsUndone(ConvsOf(D), Height[b], 4) = ConvsOf(E)
<1> DEFINE S == d.blocks
           C == UpTo(S, b)
           B == UpTo(S, ParentHash[b])
<1>1. IsUpdate(t) /\ IsChain(S, d.tip)
  BY DEF Builds
<1>2. r \in Nat
  BY <1>1, UpdateLists
<1>3. d.tip # NoBlock
  BY <1>2, BuildShape
<1>4. b \in S /\ ParentHash[b] \in S
  BY <1>3, BuildShape, BuildDown
<1> HIDE DEF S
<1>5. IsChain(C, b)
  BY <1>1, <1>4, CutIsChain
<1>6. B = C \ {b} /\ b \in C /\ (\A c \in C \ {b} : Height[c] < Height[b])
  BY <1>1, <1>4, CutBelow
<1>7. C \in SUBSET Block /\ ValidChain(C)
  BY <1>5, ChainIsValid
<1>8. D = ChainStatements(C) /\ E = ChainStatements(B)
  BY DEF S
<1> HIDE DEF B, C
<1>9. UtxosUndone(UtxosOf(ChainStatements(C)), Height[b], 3) = UtxosOf(ChainStatements(C \ {b}))
  BY <1>6, <1>7, UndoBlock
<1>10. ConvsUndone(ConvsOf(ChainStatements(C)), Height[b], 4) = ConvsOf(ChainStatements(C \ {b}))
  BY <1>6, <1>7, UndoBlock
<1>11. \A U, h : UtxosUndone(U, h, 4) = UtxosUndone(U, h, 3)
  BY DEF UtxosUndone
<1> QED BY <1>6, <1>8, <1>9, <1>10, <1>11

\* The branch grows a chain on what stays.
LEMMA GrownChain ==
    ASSUME NEW d, NEW t, Builds(d, t), NEW a, a = Len(t.apply), NEW n \in 0..a
    PROVE  IsChain(GrownBy(d, t, n), TipBy(d, t, n))
<1> DEFINE N == {m \in 0..a : IsChain(GrownBy(d, t, m), TipBy(d, t, m))}
           A == t.apply
<1>1. IsUpdate(t) /\ IsChain(d.blocks, d.tip) /\ Connects(d.tip, t.rollback, A)
  BY DEF Builds, OnChain
<1>2. a \in Nat /\ 1 <= a /\ \A i \in 1..a : A[i] \in Block
  BY <1>1, UpdateLists
<1>3. 0 \in N
  <2>1. GrownBy(d, t, 0) = KeptBy(d, t)
    BY DEF GrownBy
  <2>2. CASE d.tip = NoBlock
    <3>1. KeptBy(d, t) = {} /\ TipBy(d, t, 0) = NoBlock
      BY <2>2 DEF KeptBy, TipBy
    <3>2. IsChain({}, NoBlock)
      BY DEF IsChain
    <3> QED BY <1>2, <2>1, <3>1, <3>2, SMTT(60)
  <2>3. CASE d.tip # NoBlock
    <3>1. ParentHash[A[1]] \in d.blocks
      BY <2>3, BuildShape
    <3>2. KeptBy(d, t) = UpTo(d.blocks, ParentHash[A[1]]) /\ TipBy(d, t, 0) = ParentHash[A[1]]
      BY <2>3 DEF KeptBy, TipBy
    <3>3. IsChain(KeptBy(d, t), TipBy(d, t, 0))
      BY <1>1, <3>1, <3>2, CutIsChain
    <3> QED BY <1>2, <2>1, <3>3
  <2> QED BY <2>2, <2>3
<1>4. ASSUME NEW m \in 0..a, m \in N, m < a PROVE m + 1 \in N
  <2> DEFINE S == GrownBy(d, t, m)
             p == TipBy(d, t, m)
             b == A[m + 1]
  <2>1. m + 1 \in 1..a /\ m + 1 \in 0..a /\ m + 1 > 0 /\ (m + 1) - 1 = m
    BY <1>2, <1>4
  <2>2. p # NoBlock => ParentHash[b] = p
    <3>1. CASE m = 0
      BY <3>1 DEF TipBy
    <3>2. CASE m # 0
      <4>1. p = A[m]
        BY <3>2 DEF TipBy
      <4>2. m + 1 \in 2..a
        BY <2>1, <3>2
      <4>3. ParentHash[A[m + 1]] = A[m]
        BY <1>1, <2>1, <4>2 DEF Connects
      <4> QED BY <4>1, <4>3
    <3> QED BY <3>1, <3>2
  <2>3. GrownBy(d, t, m + 1) = S \cup {b}
    <3>1. 1..(m + 1) = (1..m) \cup {m + 1}
      BY <2>1
    <3> QED BY <3>1 DEF GrownBy
  <2>4. TipBy(d, t, m + 1) = b
    BY <2>1 DEF TipBy
  <2>5. IsChain(S, p) /\ b \in Block
    BY <1>2, <1>4, <2>1
  <2> HIDE DEF S, p, b
  <2>6. IsChain(S \cup {b}, b)
    BY <2>2, <2>5, ChainGrows
  <2> QED BY <2>1, <2>3, <2>4, <2>6
<1>5. \A m \in 0..a : m \in N
  <2> HIDE DEF N
  <2> QED BY <1>2, <1>3, <1>4, CountUp
<1> QED BY <1>5

\* One block more of it.
LEMMA GrownOne ==
    ASSUME NEW d, NEW t, Builds(d, t), NEW a, a = Len(t.apply), NEW n \in 1..a,
           NEW b, b = t.apply[n], NEW C, C = GrownBy(d, t, n)
    PROVE  /\ b \in C /\ C \ {b} = GrownBy(d, t, n - 1)
           /\ C \in SUBSET Block /\ ValidChain(C)
           /\ \A c \in C \ {b} : Height[c] < Height[b]
<1> DEFINE S == GrownBy(d, t, n - 1)
           p == TipBy(d, t, n - 1)
<1>1. IsUpdate(t) /\ Connects(d.tip, t.rollback, t.apply)
  BY DEF Builds, OnChain
<1>2. a \in Nat /\ 1 <= a /\ \A i \in 1..a : t.apply[i] \in Block
  BY <1>1, UpdateLists
<1>3. n \in 0..a /\ n - 1 \in 0..a /\ n > 0
  BY <1>2
<1>4. IsChain(S, p) /\ IsChain(C, TipBy(d, t, n))
  BY <1>3, GrownChain
<1>5. C = S \cup {b}
  <2>1. 1..n = (1..(n - 1)) \cup {n}
    BY <1>2
  <2> QED BY <2>1 DEF GrownBy
<1>6. p # NoBlock => ParentHash[b] = p
  <2>1. CASE n = 1
    BY <2>1 DEF TipBy
  <2>2. CASE n # 1
    <3>1. n - 1 > 0 /\ n \in 2..a
      BY <1>2, <2>2
    <3>2. p = t.apply[n - 1]
      BY <3>1 DEF TipBy
    <3>3. ParentHash[t.apply[n]] = t.apply[n - 1]
      BY <1>1, <3>1 DEF Connects
    <3> QED BY <3>2, <3>3
  <2> QED BY <2>1, <2>2
<1>7. b \in Block
  BY <1>2
<1> HIDE DEF S, p
<1>8. (\A c \in S : Height[c] < Height[b]) /\ b \notin S
  BY <1>4, <1>6, <1>7, ChainGrows
<1>9. C \in SUBSET Block /\ ValidChain(C)
  BY <1>4, ChainIsValid
<1>10. C \ {b} = S
  BY <1>5, <1>8
<1> QED BY <1>5, <1>8, <1>9, <1>10 DEF S

\* An update a follower builds from its own window and that passes the checks
\* builds on the stored chain.
LEMMA BeginBuilds ==
    ASSUME NEW d, IsChain(d.blocks, d.tip), NEW M, M \subseteq Block, Above(M, d),
           NEW t, IsUpdate(t), t.bare = (d.tip = NoBlock), t.rollback \in Seq(M),
           Connects(d.tip, t.rollback, t.apply), ToSet(t.apply) \cap M = {},
           IF M = {} THEN t.rollback = <<>> /\ Len(t.apply) = 1 ELSE ParentHash[t.apply[1]] \in M
    PROVE  Builds(d, t) /\ (t.bare => M = {})
<1> DEFINE R == t.rollback
           A == t.apply
           r == Len(R)
           a == Len(A)
           S == d.blocks
           p == ParentHash[A[1]]
<1>1. /\ r \in Nat /\ a \in Nat /\ 1 <= a /\ DOMAIN R = 1..r /\ DOMAIN A = 1..a
      /\ \A i \in 1..a : A[i] \in Block
  BY UpdateLists
<1>2. \A i \in 1..r : R[i] \in M
  BY <1>1, ElementOfSeq
<1>3. S \subseteq Block /\ (\A c \in Block : Height[c] \in Nat) /\ (d.tip # NoBlock => d.tip \in S)
  BY HeightAssumption DEF IsChain
<1>4. R = <<>> <=> r = 0
  BY EmptySeq
<1>5. IsChain(S, d.tip) /\ Above(M, d) /\ M \subseteq Block /\ t.bare = (d.tip = NoBlock)
  OBVIOUS
<1>6. IF M = {} THEN r = 0 /\ a = 1 ELSE p \in M
  BY <1>4
<1>7. Connects(d.tip, R, A) /\ ToSet(A) \cap M = {} /\ IsUpdate(t) /\ R \in Seq(M)
  OBVIOUS
<1> HIDE DEF R, A, r, a, S, p
<1>8. \A i \in 1..r : R[i] = IF i = 1 THEN d.tip ELSE ParentHash[R[i - 1]]
  BY <1>1, <1>7 DEF Connects
<1>9. CASE d.tip = NoBlock
  <2>1. S = {}
    BY <1>5, <1>9 DEF IsChain, S
  <2>2. M = {}
    BY <1>5, <2>1 DEF Above, S
  <2>3. R = <<>> /\ a = 1
    BY <1>4, <1>6, <2>2
  <2>4. R \in Seq(S)
    BY <2>3, EmptySeq
  <2>5. OnChain(d, t)
    <3>1. ToSet(A) \cap S = {} /\ t.bare = TRUE
      BY <1>5, <1>9, <2>1
    <3> QED BY <1>7, <1>9, <2>4, <3>1 DEF OnChain, R, A, S
  <2>6. Builds(d, t)
    BY <1>5, <1>7, <2>3, <2>5 DEF Builds, R, A, a, S
  <2> QED BY <2>2, <2>6
<1>10. CASE d.tip # NoBlock
  <2>1. p = IF r = 0 THEN d.tip ELSE ParentHash[R[r]]
    <3>1. p = IF R = <<>> THEN d.tip ELSE ParentHash[R[Len(R)]]
      BY <1>7, <1>10 DEF Connects, p
    <3> QED BY <1>4, <3>1 DEF r
  <2>2. ASSUME NEW x \in S, ParentHash[x] \in M PROVE ParentHash[x] \in S
    <3>1. PICK c \in S : Height[c] <= Height[ParentHash[x]]
      BY <1>5, <2>2 DEF Above, S
    <3>2. Height[x] = Height[ParentHash[x]] + 1
      BY <1>3, <1>5, <2>2, NumberingAssumption
    <3>3. Below(S, x)
      BY <1>3, <1>5, <2>2, <3>1, <3>2 DEF Below
    <3> QED BY <1>5, <3>3 DEF IsChain
  <2>3. \A i \in 1..r : R[i] \in S
    <3> DEFINE N == {i \in 1..r : R[i] \in S}
    <3>1. SUFFICES ASSUME r # 0 PROVE \A i \in 1..r : i \in N
      BY <1>1
    <3>2. 1 \in N /\ 1 \in Nat
      BY <1>1, <1>3, <1>8, <1>10, <3>1
    <3>3. ASSUME NEW i \in 1..r, i \in N, i < r PROVE i + 1 \in N
      <4>1. i + 1 \in 1..r /\ i + 1 # 1 /\ (i + 1) - 1 = i
        BY <1>1, <3>3
      <4>2. R[i + 1] = ParentHash[R[i]]
        BY <1>8, <4>1
      <4>3. R[i + 1] \in M /\ R[i] \in S
        BY <1>2, <3>3, <4>1
      <4> QED BY <2>2, <4>1, <4>2, <4>3
    <3> HIDE DEF N
    <3> QED BY <1>1, <3>2, <3>3, CountUp
  <2>4. p \in S
    <3>1. CASE r = 0
      BY <1>3, <1>10, <2>1, <3>1
    <3>2. CASE r # 0
      <4>1. r \in 1..r
        BY <1>1, <3>2
      <4>2. R[r] \in S /\ R[r] \in M
        BY <1>2, <2>3, <4>1
      <4>3. p \in M
        BY <1>6, <4>2
      <4> QED BY <2>1, <2>2, <3>2, <4>2, <4>3
    <3> QED BY <3>1, <3>2
  <2>5. A[1] \notin S
    <3>1. SUFFICES ASSUME A[1] \in S PROVE FALSE
      OBVIOUS
    <3>2. Height[A[1]] = Height[p] + 1 /\ Height[p] \in Nat
      BY <1>3, <2>4, <3>1, NumberingAssumption DEF p
    <3>3. CASE r = 0
      BY <1>3, <1>5, <2>1, <3>1, <3>2, <3>3 DEF IsChain
    <3>4. CASE r # 0
      <4>1. r \in 1..r
        BY <1>1, <3>4
      <4>2. R[r] \in S /\ R[r] \in M /\ ParentHash[R[r]] = p
        BY <1>2, <2>1, <2>3, <3>4, <4>1
      <4>3. Height[R[r]] = Height[p] + 1
        BY <1>3, <2>4, <4>2, NumberingAssumption
      <4>4. A[1] = R[r]
        BY <1>5, <3>1, <3>2, <4>2, <4>3 DEF IsChain
      <4>5. A[1] \in ToSet(A)
        BY <1>1 DEF ToSet
      <4> QED BY <1>7, <4>2, <4>4, <4>5
    <3> QED BY <3>3, <3>4
  <2>6. \A i \in 1..a : A[i] \notin S /\ Height[A[i]] > Height[p]
    <3> DEFINE N == {i \in 1..a : A[i] \notin S /\ Height[A[i]] > Height[p]}
    <3>0. SUFFICES \A i \in 1..a : i \in N
      OBVIOUS
    <3>1. 1 \in N /\ 1 \in Nat
      <4>1. A[1] \in Block /\ p \in Block
        BY <1>1, <1>3, <2>4
      <4>2. Height[A[1]] = Height[p] + 1 /\ Height[p] \in Nat
        BY <1>3, <4>1, NumberingAssumption DEF p
      <4> QED BY <1>1, <2>5, <4>2
    <3>2. ASSUME NEW i \in 1..a, i \in N, i < a PROVE i + 1 \in N
      <4>1. i + 1 \in 1..a /\ i + 1 \in 2..a /\ (i + 1) - 1 = i
        BY <1>1, <3>2
      <4>2. ParentHash[A[i + 1]] = A[i]
        BY <1>7, <4>1 DEF Connects, a
      <4>3. A[i] \in Block /\ A[i + 1] \in Block
        BY <1>1, <4>1
      <4>4. Height[A[i + 1]] = Height[A[i]] + 1
        BY <4>2, <4>3, NumberingAssumption
      <4>5. Height[A[i + 1]] > Height[p]
        BY <1>3, <2>4, <3>2, <4>3, <4>4
      <4>6. A[i + 1] \in S => Below(S, A[i + 1])
        BY <1>3, <2>4, <4>3, <4>5 DEF Below
      <4>7. A[i + 1] \in S => A[i] \in S
        BY <1>5, <4>2, <4>6 DEF IsChain
      <4> QED BY <3>2, <4>1, <4>5, <4>7
    <3> HIDE DEF N
    <3> QED BY <1>1, <3>1, <3>2, CountUp
  <2>7. ToSet(A) \cap S = {}
    BY <1>1, <2>6 DEF ToSet
  <2>8. R \in Seq(S)
    <3>1. R \in [1..r -> S]
      <4>1. R \in [1..r -> M]
        BY <1>7, LenProperties DEF r
      <4> QED BY <2>3, <4>1
    <3> QED BY <1>1, <3>1, SeqDef
  <2>9. t.bare = FALSE
    BY <1>5, <1>10
  <2>10. OnChain(d, t)
    BY <1>7, <1>10, <2>4, <2>7, <2>8, <2>9 DEF OnChain, R, A, S, p
  <2>11. Builds(d, t)
    BY <1>5, <1>7, <2>9, <2>10 DEF Builds, S
  <2> QED BY <2>9, <2>11
<1> QED BY <1>9, <1>10

-----------------------------------------------------------------------------
(* The spine as an update sees it.                                         *)

LEMMA KnownPlaces ==
    ASSUME NEW t, IsUpdate(t), NEW r, NEW a, r = Len(t.rollback), a = Len(t.apply)
    PROVE  /\ \A i \in 1..r, m \in 1..4 : <<i, 1, m>> \in Places(t.code)
           /\ \A i \in 1..r : <<r + 1, 1, i>> \in Places(t.code)
           /\ \A i \in 1..a : <<r + 1, 1, r + i>> \in Places(t.code)
           /\ \A n \in 1..a : \A k, m, s : StatementAt(t.apply[n], k, m, s) =>
                  /\ <<r + 1 + n, k, m>> \in Places(t.code)
                  /\ StatementOf(t, <<r + 1 + n, k, m>>) = s
           /\ <<r + a + 2, 1, 1>> \in Places(t.code)
<1>1. ASSUME NEW i \in 1..r, NEW m \in 1..4 PROVE <<i, 1, m>> \in Places(t.code)
  <2>1. UndoAt(t, <<i, 1, m>>, RollbackBlock(t.rollback[i])[m])
    BY DEF UndoAt
  <2> QED BY <2>1, UpdatePlaces
<1>2. ASSUME NEW i \in 1..r PROVE <<r + 1, 1, i>> \in Places(t.code)
  <2>1. DeleteAt(t, <<r + 1, 1, i>>, [sql |-> "deleteBlock", b |-> t.rollback[i]])
    BY DEF DeleteAt
  <2> QED BY <2>1, UpdatePlaces
<1>3. ASSUME NEW i \in 1..a PROVE <<r + 1, 1, r + i>> \in Places(t.code)
  <2>1. StoreAt(t, <<r + 1, 1, r + i>>, [sql |-> "insertBlock", b |-> t.apply[i]])
    BY DEF StoreAt
  <2> QED BY <2>1, UpdatePlaces
<1>4. ASSUME NEW n \in 1..a, NEW k, NEW m, NEW s, StatementAt(t.apply[n], k, m, s)
      PROVE  <<r + 1 + n, k, m>> \in Places(t.code) /\ StatementOf(t, <<r + 1 + n, k, m>>) = s
  <2>1. DecodeAt(t, <<r + 1 + n, k, m>>, s)
    BY <1>4 DEF DecodeAt
  <2> QED BY <2>1, UpdatePlaces
<1>5. <<r + a + 2, 1, 1>> \in Places(t.code)
  <2>1. MoveAt(t, <<r + a + 2, 1, 1>>, [sql |-> "tip", b |-> t.apply[a]])
    BY DEF MoveAt
  <2> QED BY <2>1, UpdatePlaces
<1> QED BY <1>1, <1>2, <1>3, <1>4, <1>5

LEMMA SamePlace ==
    ASSUME NEW i, NEW j, NEW k, NEW x, NEW y, NEW z
    PROVE  <<i, j, k>> = <<x, y, z>> <=> i = x /\ j = y /\ k = z
OBVIOUS

\* Transaction t has run statement s, at place u, and is now t2.
Stepped(d, t, u, s, t2) ==
    /\ u \in NextPlace(t) /\ u \in Places(t.code) /\ s = StatementOf(t, u) /\ s.sql # "fail"
    /\ t2.todo = t.todo \ {u}
    /\ t2.code = t.code /\ t2.rollback = t.rollback /\ t2.apply = t.apply
    /\ IsDb(View(d, t)) /\ View(d, t2) = Exec(View(d, t), s)
    /\ t.todo \subseteq Places(t.code)
    /\ \A x \in t.todo, y \in Places(t.code) : Before(x, y) => y \in t.todo

\* What is stored of the spine, of the blocks S, when todo is still to run.
SpineOf(S, t, todo) ==
    LET r == Len(t.rollback)
        a == Len(t.apply)
    IN (S \ {t.rollback[i] : i \in {x \in 1..r : <<r + 1, 1, x>> \notin todo}})
       \cup {t.apply[i] : i \in {x \in 1..a : <<r + 1, 1, r + x>> \notin todo}}

LEMMA SpineStart ==
    ASSUME NEW d, NEW t, IsUpdate(t), t.todo = Places(t.code), View(d, t) = d
    PROVE  SpineView(d, t)
<1> DEFINE r == Len(t.rollback)
           a == Len(t.apply)
<1>1. /\ \A i \in 1..r : <<r + 1, 1, i>> \in Places(t.code)
      /\ \A i \in 1..a : <<r + 1, 1, r + i>> \in Places(t.code)
      /\ <<r + a + 2, 1, 1>> \in Places(t.code)
  BY KnownPlaces
<1>2. SpineOf(d.blocks, t, t.todo) = d.blocks
  BY <1>1 DEF SpineOf
<1> QED BY <1>1, <1>2 DEF SpineView, SpineOf

LEMMA SpineStep ==
    ASSUME NEW d, NEW t, Builds(d, t), NEW u, NEW s, NEW t2, Stepped(d, t, u, s, t2), SpineView(d, t)
    PROVE  SpineView(d, t2)
<1>0. PICK r, a : r = Len(t.rollback) /\ a = Len(t.apply)
  OBVIOUS
<1> DEFINE v == View(d, t)
           w == View(d, t2)
           end == <<r + a + 2, 1, 1>>
<1>1. IsUpdate(t)
  BY DEF Builds
<1>2. r \in Nat /\ a \in Nat /\ 1 <= a
  BY <1>0, <1>1, UpdateLists
<1>3. v.blocks = SpineOf(d.blocks, t, t.todo) /\ v.tip = IF end \in t.todo THEN d.tip ELSE t.apply[a]
  BY <1>0 DEF SpineView, SpineOf
<1>4. Sound(s)
  BY <1>1, UpdateSound DEF Stepped
<1>5. w.blocks = BlocksAfter(v.blocks, s) /\ w.tip = TipAfter(v.tip, s)
  BY <1>4, ExecTables DEF Stepped
<1>6. \A X, todo : SpineOf(X, t2, todo) = SpineOf(X, t, todo)
  BY DEF SpineOf, Stepped
<1>7. t2.todo = t.todo \ {u} /\ t2.rollback = t.rollback /\ t2.apply = t.apply
  BY DEF Stepped
<1>8. SUFFICES /\ w.blocks = SpineOf(d.blocks, t, t2.todo)
               /\ w.tip = IF end \in t2.todo THEN d.tip ELSE t.apply[a]
  <2>1. r = Len(t2.rollback) /\ a = Len(t2.apply)
    BY <1>0, <1>7
  <2>2. t2.apply[a] = t.apply[a]
    BY <1>7
  <2> HIDE DEF w, end
  <2>3. SpineView(d, t2) <=> /\ w.blocks = SpineOf(d.blocks, t2, t2.todo)
                            /\ w.tip = IF end \in t2.todo THEN d.tip ELSE t2.apply[a]
    BY <2>1 DEF SpineView, SpineOf, w, end
  <2> QED BY <1>6, <2>2, <2>3
<1>9. UndoAt(t, u, s) \/ DeleteAt(t, u, s) \/ StoreAt(t, u, s) \/ DecodeAt(t, u, s) \/ MoveAt(t, u, s)
  BY <1>1, UpdatePlaces DEF Stepped
<1> HIDE DEF v, w
<1>10. ASSUME \A x : u # <<r + 1, 1, x>>, s.sql \notin BlockSql
       PROVE  w.blocks = SpineOf(d.blocks, t, t2.todo)
  <2>1. w.blocks = v.blocks
    BY <1>5, <1>10 DEF BlocksAfter, BlockSql
  <2>2. SpineOf(d.blocks, t, t2.todo) = SpineOf(d.blocks, t, t.todo)
    <3>1. \A x : <<r + 1, 1, x>> \in t2.todo <=> <<r + 1, 1, x>> \in t.todo
      BY <1>7, <1>10
    <3> QED BY <1>0, <3>1 DEF SpineOf
  <2> QED BY <1>3, <2>1, <2>2
<1>11. ASSUME u # end, s.sql # "tip"
       PROVE  w.tip = IF end \in t2.todo THEN d.tip ELSE t.apply[a]
  <2>1. w.tip = v.tip
    BY <1>5, <1>11 DEF TipAfter
  <2>2. end \in t2.todo <=> end \in t.todo
    BY <1>7, <1>11
  <2> QED BY <1>3, <2>1, <2>2
<1>12. CASE UndoAt(t, u, s)
  <2>1. PICK i \in 1..r, m \in 1..4 : u = <<i, 1, m>> /\ s = RollbackBlock(t.rollback[i])[m]
    BY <1>0, <1>12 DEF UndoAt
  <2>2. s.sql \notin BlockSql /\ s.sql # "tip"
    BY <2>1, UndoSound DEF BlockSql
  <2>3. (\A x : u # <<r + 1, 1, x>>) /\ u # end
    BY <1>2, <2>1, SamePlace
  <2> QED BY <1>10, <1>11, <2>2, <2>3
<1>13. CASE DecodeAt(t, u, s)
  <2>1. PICK n \in 1..a : \E k, m : u = <<r + 1 + n, k, m>> /\ StatementAt(t.apply[n], k, m, s)
    BY <1>0, <1>13 DEF DecodeAt
  <2>2. PICK k, m : u = <<r + 1 + n, k, m>> /\ StatementAt(t.apply[n], k, m, s)
    BY <2>1
  <2>3. t.apply[n] \in Block /\ s.sql # "fail"
    BY <1>0, <1>1, UpdateLists DEF Stepped
  <2>4. s.sql \notin BlockSql /\ s.sql # "tip"
    BY <2>2, <2>3, BlockSound DEF BlockSql
  <2>5. (\A x : u # <<r + 1, 1, x>>) /\ u # end
    BY <1>2, <2>2, SamePlace
  <2> QED BY <1>10, <1>11, <2>4, <2>5
<1>14. CASE MoveAt(t, u, s)
  <2>1. u = end /\ s.sql = "tip" /\ s.b = t.apply[a]
    BY <1>0, <1>14 DEF MoveAt
  <2>2. \A x : u # <<r + 1, 1, x>>
    BY <1>2, <2>1, SamePlace
  <2>3. w.tip = t.apply[a] /\ end \notin t2.todo
    BY <1>5, <1>7, <2>1 DEF TipAfter
  <2> QED BY <1>10, <2>1, <2>2, <2>3 DEF BlockSql
<1>15. CASE DeleteAt(t, u, s)
  <2>1. PICK i \in 1..r : u = <<r + 1, 1, i>> /\ s = [sql |-> "deleteBlock", b |-> t.rollback[i]]
    BY <1>0, <1>15 DEF DeleteAt
  <2>2. u # end /\ s.sql # "tip"
    BY <1>2, <2>1, SamePlace
  <2>3. w.blocks = v.blocks \ {t.rollback[i]}
    BY <1>5, <2>1 DEF BlocksAfter
  <2>4. {x \in 1..r : <<r + 1, 1, x>> \notin t2.todo} = {x \in 1..r : <<r + 1, 1, x>> \notin t.todo} \cup {i}
    BY <1>7, <2>1, SamePlace
  <2>5. {x \in 1..a : <<r + 1, 1, r + x>> \notin t2.todo} = {x \in 1..a : <<r + 1, 1, r + x>> \notin t.todo}
    BY <1>2, <1>7, <2>1, SamePlace
  <2>6. \A x \in 1..a : t.apply[x] # t.rollback[i]
    BY <1>0, BuildShape
  <2>7. SpineOf(d.blocks, t, t2.todo) = SpineOf(d.blocks, t, t.todo) \ {t.rollback[i]}
    BY <1>0, <2>4, <2>5, <2>6 DEF SpineOf
  <2> QED BY <1>3, <1>11, <2>2, <2>3, <2>7
<1>16. CASE StoreAt(t, u, s)
  <2>1. PICK i \in 1..a : u = <<r + 1, 1, r + i>> /\ s = [sql |-> "insertBlock", b |-> t.apply[i]]
    BY <1>0, <1>16 DEF StoreAt
  <2>2. u # end /\ s.sql # "tip"
    BY <1>2, <2>1, SamePlace
  <2>3. w.blocks = v.blocks \cup {t.apply[i]}
    BY <1>5, <2>1 DEF BlocksAfter
  <2>4. {x \in 1..r : <<r + 1, 1, x>> \notin t2.todo} = {x \in 1..r : <<r + 1, 1, x>> \notin t.todo}
    BY <1>2, <1>7, <2>1, SamePlace
  <2>5. {x \in 1..a : <<r + 1, 1, r + x>> \notin t2.todo}
            = {x \in 1..a : <<r + 1, 1, r + x>> \notin t.todo} \cup {i}
    <3>1. \A x \in 1..a : <<r + 1, 1, r + x>> = u <=> x = i
      BY <1>2, <2>1, SamePlace
    <3> QED BY <1>7, <3>1
  <2>6. SpineOf(d.blocks, t, t2.todo) = SpineOf(d.blocks, t, t.todo) \cup {t.apply[i]}
    BY <1>0, <2>4, <2>5 DEF SpineOf
  <2> QED BY <1>3, <1>11, <2>2, <2>3, <2>6
<1> QED BY <1>9, <1>12, <1>13, <1>14, <1>15, <1>16

\* When all statements have run the update sees the chain it leads to.
LEMMA SpineDone ==
    ASSUME NEW d, NEW t, Builds(d, t), SpineView(d, t), t.todo = {}, NEW a, a = Len(t.apply)
    PROVE  /\ View(d, t).blocks = GrownBy(d, t, a) /\ View(d, t).tip = t.apply[a]
           /\ IsChain(View(d, t).blocks, View(d, t).tip)
<1>0. PICK r : r = Len(t.rollback)
  OBVIOUS
<1>1. IsUpdate(t)
  BY DEF Builds
<1>2. a \in Nat /\ 1 <= a
  BY <1>1, UpdateLists
<1>3. View(d, t).blocks = SpineOf(d.blocks, t, {}) /\ View(d, t).tip = t.apply[a]
  <2>1. View(d, t).blocks = SpineOf(d.blocks, t, t.todo)
    BY <1>0 DEF SpineView, SpineOf
  <2>2. View(d, t).tip = IF <<r + a + 2, 1, 1>> \in t.todo THEN d.tip ELSE t.apply[a]
    BY <1>0 DEF SpineView, SpineOf
  <2> QED BY <2>1, <2>2
<1>4. d.blocks \ {t.rollback[i] : i \in 1..r} = KeptBy(d, t)
  BY <1>0, RolledBack
<1>5. SpineOf(d.blocks, t, {}) = GrownBy(d, t, a)
  <2>1. {x \in 1..r : <<r + 1, 1, x>> \notin {}} = 1..r
    OBVIOUS
  <2>2. {x \in 1..a : <<r + 1, 1, r + x>> \notin {}} = 1..a
    OBVIOUS
  <2>3. SpineOf(d.blocks, t, {}) = (d.blocks \ {t.rollback[i] : i \in 1..r}) \cup {t.apply[i] : i \in 1..a}
    BY <1>0, <2>1, <2>2 DEF SpineOf
  <2> QED BY <1>4, <2>3 DEF GrownBy
<1>6. a \in 0..a /\ a > 0
  BY <1>2
<1>7. IsChain(GrownBy(d, t, a), TipBy(d, t, a))
  BY <1>6, GrownChain
<1>8. TipBy(d, t, a) = t.apply[a]
  BY <1>6 DEF TipBy
<1> QED BY <1>3, <1>5, <1>7, <1>8

-----------------------------------------------------------------------------
(* The tables as an update sees them.                                      *)

\* A place is a triple of numbers; which stage it is of says the rest.
IsPlace(t, u, i, j, k) ==
    /\ i \in Nat /\ j \in Nat /\ k \in Nat
    /\ u = <<i, j, k>> /\ 1 <= i
    /\ i <= Len(t.rollback) => j = 1 /\ k \in 1..4
    /\ \A n \in 1..Len(t.apply) :
           i = Len(t.rollback) + 1 + n => StatementAt(t.apply[n], j, k, StatementOf(t, u))

LEMMA PlaceNumbers ==
    ASSUME NEW t, IsUpdate(t), NEW u \in Places(t.code)
    PROVE  \E i, j, k : IsPlace(t, u, i, j, k)
<1>0. PICK r, a : r = Len(t.rollback) /\ a = Len(t.apply)
  OBVIOUS
<1> DEFINE s == StatementOf(t, u)
<1>1. r \in Nat /\ a \in Nat /\ 1 <= a /\ \A i \in 1..a : t.apply[i] \in Block
  BY <1>0, UpdateLists
<1>2. UndoAt(t, u, s) \/ DeleteAt(t, u, s) \/ StoreAt(t, u, s) \/ DecodeAt(t, u, s) \/ MoveAt(t, u, s)
  BY UpdatePlaces
<1> HIDE DEF s
<1>3. CASE UndoAt(t, u, s)
  <2>1. PICK i \in 1..r, m \in 1..4 : u = <<i, 1, m>>
    BY <1>0, <1>3 DEF UndoAt
  <2>2. i \in Nat /\ 1 \in Nat /\ m \in Nat /\ 1 <= i /\ \A n \in 1..a : i # r + 1 + n
    BY <1>1
  <2> QED BY <1>0, <2>1, <2>2 DEF IsPlace
<1>4. CASE DeleteAt(t, u, s)
  <2>1. PICK i \in 1..r : u = <<r + 1, 1, i>>
    BY <1>0, <1>4 DEF DeleteAt
  <2>2. r + 1 \in Nat /\ 1 \in Nat /\ i \in Nat /\ 1 <= r + 1 /\ ~(r + 1 <= r)
        /\ \A n \in 1..a : r + 1 # r + 1 + n
    BY <1>1
  <2> QED BY <1>0, <2>1, <2>2 DEF IsPlace
<1>5. CASE StoreAt(t, u, s)
  <2>1. PICK i \in 1..a : u = <<r + 1, 1, r + i>>
    BY <1>0, <1>5 DEF StoreAt
  <2>2. r + 1 \in Nat /\ 1 \in Nat /\ r + i \in Nat /\ 1 <= r + 1 /\ ~(r + 1 <= r)
        /\ \A n \in 1..a : r + 1 # r + 1 + n
    BY <1>1
  <2> QED BY <1>0, <2>1, <2>2 DEF IsPlace
<1>6. CASE DecodeAt(t, u, s)
  <2>1. PICK n \in 1..a : \E k, m : u = <<r + 1 + n, k, m>> /\ StatementAt(t.apply[n], k, m, s)
    BY <1>0, <1>6 DEF DecodeAt
  <2>2. PICK k, m : u = <<r + 1 + n, k, m>> /\ StatementAt(t.apply[n], k, m, s)
    BY <2>1
  <2>3. k \in Nat /\ m \in Nat
    BY <1>1, <2>2, Place
  <2>4. r + 1 + n \in Nat /\ 1 <= r + 1 + n /\ ~(r + 1 + n <= r)
        /\ \A x \in 1..a : r + 1 + n = r + 1 + x => x = n
    BY <1>1
  <2> QED BY <1>0, <2>2, <2>3, <2>4 DEF s, IsPlace
<1>7. CASE MoveAt(t, u, s)
  <2>1. u = <<r + a + 2, 1, 1>>
    BY <1>0, <1>7 DEF MoveAt
  <2>2. r + a + 2 \in Nat /\ 1 \in Nat /\ 1 <= r + a + 2 /\ ~(r + a + 2 <= r)
    BY <1>1
  <2>3. ASSUME NEW n \in 1..a PROVE r + a + 2 # r + 1 + n
    BY <1>1
  <2> QED BY <1>0, <2>1, <2>2, <2>3 DEF IsPlace
<1> QED BY <1>2, <1>3, <1>4, <1>5, <1>6, <1>7

\* Places stand one after the other.
LEMMA InOrder ==
    ASSUME NEW t, IsUpdate(t), NEW u \in Places(t.code), NEW v \in Places(t.code)
    PROVE  /\ u # v => Before(u, v) \/ Before(v, u)
           /\ Before(u, v) => u # v /\ ~Before(v, u)
<1>1. PICK i, j, k : IsPlace(t, u, i, j, k)
  BY PlaceNumbers
<1>2. PICK x, y, z : IsPlace(t, v, x, y, z)
  BY PlaceNumbers
<1>3. i \in Nat /\ j \in Nat /\ k \in Nat /\ x \in Nat /\ y \in Nat /\ z \in Nat
  BY <1>1, <1>2 DEF IsPlace
<1>4. u = <<i, j, k>> /\ v = <<x, y, z>>
  BY <1>1, <1>2 DEF IsPlace
<1> QED BY <1>3, <1>4 DEF Before

\* What is still to run when the next place is u: u and what comes after it.
LEMMA StillToRun ==
    ASSUME NEW d, NEW t, IsUpdate(t), NEW u, NEW s, NEW t2, Stepped(d, t, u, s, t2),
           NEW v \in Places(t.code)
    PROVE  /\ v \in t2.todo <=> Before(u, v)
           /\ v \in t.todo <=> ~Before(v, u)
<1>1. u \in Places(t.code) /\ u \in t.todo /\ (\A x \in t.todo : ~Before(x, u))
  BY DEF Stepped, NextPlace
<1>2. \A x \in t.todo, y \in Places(t.code) : Before(x, y) => y \in t.todo
  BY DEF Stepped
<1>3. t2.todo = t.todo \ {u}
  BY DEF Stepped
<1>4. u # v => Before(u, v) \/ Before(v, u)
  BY <1>1, InOrder
<1>5. Before(u, v) => u # v /\ ~Before(v, u)
  BY <1>1, InOrder
<1> QED BY <1>1, <1>2, <1>3, <1>4, <1>5

LEMMA InDecoded ==
    ASSUME NEW t, IsUpdate(t), NEW r, NEW a, r = Len(t.rollback), a = Len(t.apply), NEW s
    PROVE  s \in DecodedBy(t) <=>
               \E n \in 1..a : \E k, m : StatementAt(t.apply[n], k, m, s) /\ <<r + 1 + n, k, m>> \notin t.todo
<1>1. DOMAIN t.apply = 1..a
  BY UpdateLists
<1>2. ASSUME s \in DecodedBy(t)
      PROVE  \E n \in 1..a : \E k, m : StatementAt(t.apply[n], k, m, s) /\ <<r + 1 + n, k, m>> \notin t.todo
  <2>1. PICK n \in 1..a, u \in Places(t.code) \ t.todo : u[1] = r + 1 + n /\ s = StatementOf(t, u)
    BY <1>1, <1>2 DEF DecodedBy
  <2>2. PICK i, j, k : IsPlace(t, u, i, j, k)
    BY <2>1, PlaceNumbers
  <2>3. u = <<i, j, k>> /\ i = r + 1 + n
    BY <2>1, <2>2 DEF IsPlace
  <2>4. StatementAt(t.apply[n], j, k, s)
    BY <2>1, <2>2, <2>3 DEF IsPlace
  <2> QED BY <2>1, <2>3, <2>4
<1>3. ASSUME NEW n \in 1..a, NEW k, NEW m, StatementAt(t.apply[n], k, m, s), <<r + 1 + n, k, m>> \notin t.todo
      PROVE  s \in DecodedBy(t)
  <2> DEFINE u == <<r + 1 + n, k, m>>
  <2>1. u \in Places(t.code) /\ StatementOf(t, u) = s
    BY <1>3, KnownPlaces
  <2>2. u \in Places(t.code) \ t.todo /\ u[1] = r + 1 + n
    BY <1>3, <2>1
  <2> HIDE DEF u
  <2> QED BY <1>1, <2>1, <2>2 DEF DecodedBy
<1> QED BY <1>2, <1>3

\* Nothing is decoded before the rollback is done.
LEMMA NoneDecoded ==
    ASSUME NEW t, IsUpdate(t), NEW r, NEW a, r = Len(t.rollback), a = Len(t.apply),
           \A n \in 1..a : \A k, m : <<r + 1 + n, k, m>> \in Places(t.code) => <<r + 1 + n, k, m>> \in t.todo
    PROVE  DecodedBy(t) = {}
<1>1. ASSUME NEW s \in DecodedBy(t) PROVE FALSE
  <2>1. PICK n \in 1..a : \E k, m : StatementAt(t.apply[n], k, m, s) /\ <<r + 1 + n, k, m>> \notin t.todo
    BY InDecoded
  <2>2. PICK k, m : StatementAt(t.apply[n], k, m, s) /\ <<r + 1 + n, k, m>> \notin t.todo
    BY <2>1
  <2>3. <<r + 1 + n, k, m>> \in Places(t.code)
    BY <2>2, KnownPlaces
  <2> QED BY <2>2, <2>3
<1> QED BY <1>1

\* It is statement m of list k of the n-th block.
DecodesAt(t, u, s, n, k, m) ==
    n \in 1..Len(t.apply) /\ u = <<Len(t.rollback) + 1 + n, k, m>> /\ StatementAt(t.apply[n], k, m, s)

\* The decoding statements run before place k, m of block n of the branch.
LEMMA DecodedUpTo ==
    ASSUME NEW d, NEW t, IsUpdate(t), NEW u, NEW s, NEW t2, Stepped(d, t, u, s, t2),
           NEW n, NEW k, NEW m, DecodesAt(t, u, s, n, k, m), KeptBy(d, t) \subseteq Block
    PROVE  ChainStatements(KeptBy(d, t)) \cup DecodedBy(t)
               = ChainStatements(GrownBy(d, t, n - 1)) \cup Executed(t.apply[n], k, m)
<1> SUFFICES ASSUME NEW r, NEW a, r = Len(t.rollback), a = Len(t.apply),
                    n \in 1..a, u = <<r + 1 + n, k, m>>, StatementAt(t.apply[n], k, m, s)
             PROVE  ChainStatements(KeptBy(d, t)) \cup DecodedBy(t)
                        = ChainStatements(GrownBy(d, t, n - 1)) \cup Executed(t.apply[n], k, m)
  BY DEF DecodesAt
<1>0. ASSUME NEW v \in Places(t.code) PROVE v \in t.todo <=> ~Before(v, u)
  <2>1. Stepped(d, t, u, s, t2) /\ IsUpdate(t)
    OBVIOUS
  <2> QED BY ONLY <2>1, v \in Places(t.code), StillToRun
<1> DEFINE A == t.apply
           K == KeptBy(d, t)
           G == GrownBy(d, t, n - 1)
           Done(x) == \E i \in 1..a : \E p, q :
                         /\ StatementAt(A[i], p, q, x)
                         /\ i < n \/ (i = n /\ p <= k /\ (p < k \/ q < m))
<1>1. r \in Nat /\ a \in Nat /\ \A i \in 1..a : A[i] \in Block
  BY UpdateLists
<1>2. k \in Nat /\ m \in Nat
  BY <1>1, Place
<1>3. ASSUME NEW x, NEW i \in 1..a, NEW p, NEW q, StatementAt(A[i], p, q, x)
      PROVE  <<r + 1 + i, p, q>> \notin t.todo <=> i < n \/ (i = n /\ p <= k /\ (p < k \/ q < m))
  <2> DEFINE v == <<r + 1 + i, p, q>>
  <2>1. v \in Places(t.code)
    BY <1>3, KnownPlaces
  <2>2. v \in t.todo <=> ~Before(v, u)
    BY <1>0, <2>1
  <2>3. p \in Nat /\ q \in Nat
    BY <1>1, <1>3, Place
  <2>4. Before(v, u) <=> i < n \/ (i = n /\ p <= k /\ (p < k \/ q < m))
    BY <1>1, <1>2, <2>3, SMTT(60) DEF Before
  <2> QED BY <2>2, <2>4
<1>4. ASSUME NEW x PROVE x \in DecodedBy(t) <=> Done(x)
  <2>1. x \in DecodedBy(t) <=>
            \E i \in 1..a : \E p, q : StatementAt(A[i], p, q, x) /\ <<r + 1 + i, p, q>> \notin t.todo
    BY InDecoded
  <2>2. ASSUME NEW i \in 1..a
        PROVE  (\E p, q : StatementAt(A[i], p, q, x) /\ <<r + 1 + i, p, q>> \notin t.todo)
                   <=> \E p, q : /\ StatementAt(A[i], p, q, x)
                                 /\ i < n \/ (i = n /\ p <= k /\ (p < k \/ q < m))
    BY <1>3
  <2> QED BY <2>1, <2>2
<1>5. ASSUME NEW x PROVE x \in Executed(A[n], k, m) <=>
              \E p, q : StatementAt(A[n], p, q, x) /\ p <= k /\ (p < k \/ q < m)
  BY InExecuted
<1>6. ASSUME NEW x PROVE x \in ChainStatements(G) <=>
              x \in ChainStatements(K) \/ \E i \in 1..(n - 1) : \E p, q : StatementAt(A[i], p, q, x)
  <2>1. G = K \cup {A[i] : i \in 1..(n - 1)}
    BY DEF GrownBy
  <2>2. \A i \in 1..(n - 1) : A[i] \in Block
    BY <1>1
  <2>3. G \in SUBSET Block /\ K \in SUBSET Block
    BY <2>1, <2>2
  <2> HIDE DEF G, K, A
  <2>4. x \in ChainStatements(G) <=> \E c \in G : \E p, q : StatementAt(c, p, q, x)
    BY <2>3, InChain
  <2>5. x \in ChainStatements(K) <=> \E c \in K : \E p, q : StatementAt(c, p, q, x)
    BY <2>3, InChain
  <2> QED BY <2>1, <2>4, <2>5
<1>7. ASSUME NEW x
      PROVE  x \in ChainStatements(K) \/ Done(x) <=>
                 x \in ChainStatements(G) \/ x \in Executed(A[n], k, m)
  <2>1. \A i \in 1..a : i < n <=> i \in 1..(n - 1)
    BY <1>1
  <2>2. \A i \in 1..(n - 1) : i \in 1..a
    BY <1>1
  <2> HIDE DEF A, K, G
  <2> QED BY <1>5, <1>6, <2>1, <2>2
<1> HIDE DEF Done, K, G
<1>8. \A x : x \in ChainStatements(K) \cup DecodedBy(t) <=> x \in ChainStatements(G) \cup Executed(A[n], k, m)
  BY <1>4, <1>7
<1>9. ChainStatements(K) \cup DecodedBy(t) = ChainStatements(G) \cup Executed(A[n], k, m)
  BY <1>8
<1> QED BY <1>9 DEF K, G

\* The place of a statement of a block that is decoded.
LEMMA DecodePlace ==
    ASSUME NEW t, IsUpdate(t), NEW n \in 1..Len(t.apply), NEW k, NEW m, NEW s,
           StatementAt(t.apply[n], k, m, s)
    PROVE  StatementOf(t, <<Len(t.rollback) + 1 + n, k, m>>) = s
<1> DEFINE r == Len(t.rollback)
           a == Len(t.apply)
<1> QED BY KnownPlaces

\* Place u is none of a block that is decoded.
Elsewhen(t, u) == \A n \in 1..Len(t.apply) : u[1] # Len(t.rollback) + 1 + n

\* One more of them has run.
LEMMA DecodedMore ==
    ASSUME NEW d, NEW t, IsUpdate(t), NEW u, NEW s, NEW t2, Stepped(d, t, u, s, t2)
    PROVE  /\ DecodeAt(t, u, s) => DecodedBy(t2) = DecodedBy(t) \cup {s}
           /\ Elsewhen(t, u) => DecodedBy(t2) = DecodedBy(t)
<1>0. PICK r, a : r = Len(t.rollback) /\ a = Len(t.apply)
  OBVIOUS
<1>1. u \in t.todo /\ u \in Places(t.code) /\ s = StatementOf(t, u) /\ t2.todo = t.todo \ {u}
  BY DEF Stepped, NextPlace
<1>2. t2.code = t.code /\ t2.rollback = t.rollback /\ t2.apply = t.apply
  BY DEF Stepped
<1>3. IsUpdate(t2) /\ r = Len(t2.rollback) /\ a = Len(t2.apply)
  BY <1>0, <1>2 DEF IsUpdate
<1>4. \A x : x \in DecodedBy(t) <=>
          \E n \in 1..a : \E k, m : StatementAt(t.apply[n], k, m, x) /\ <<r + 1 + n, k, m>> \notin t.todo
  BY <1>0, InDecoded
<1>5. \A x : x \in DecodedBy(t2) <=>
          \E n \in 1..a : \E k, m : StatementAt(t.apply[n], k, m, x) /\ <<r + 1 + n, k, m>> \notin t2.todo
  BY <1>2, <1>3, InDecoded
<1>6. ASSUME DecodeAt(t, u, s) PROVE DecodedBy(t2) = DecodedBy(t) \cup {s}
  <2>1. PICK n \in 1..a : \E k, m : u = <<r + 1 + n, k, m>> /\ StatementAt(t.apply[n], k, m, s)
    BY <1>0, <1>6 DEF DecodeAt
  <2>2. PICK k, m : u = <<r + 1 + n, k, m>> /\ StatementAt(t.apply[n], k, m, s)
    BY <2>1
  <2>3. s \in DecodedBy(t2)
    BY <1>1, <1>5, <2>2
  <2>4. \A x : x \in DecodedBy(t) => x \in DecodedBy(t2)
    BY <1>1, <1>4, <1>5
  <2>5. ASSUME NEW x \in DecodedBy(t2), x \notin DecodedBy(t) PROVE x = s
    <3>1. PICK i \in 1..a : \E p, q : StatementAt(t.apply[i], p, q, x) /\ <<r + 1 + i, p, q>> \notin t2.todo
      BY <1>5
    <3>2. PICK p, q : StatementAt(t.apply[i], p, q, x) /\ <<r + 1 + i, p, q>> \notin t2.todo
      BY <3>1
    <3>3. <<r + 1 + i, p, q>> \in t.todo
      BY <1>4, <2>5, <3>2
    <3>4. <<r + 1 + i, p, q>> = u
      BY <1>1, <3>2, <3>3
    <3>5. StatementOf(t, <<r + 1 + i, p, q>>) = x
      BY <1>0, <3>2, DecodePlace
    <3> QED BY <1>1, <3>4, <3>5
  <2> QED BY <2>3, <2>4, <2>5
<1>7. ASSUME \A n \in 1..a : u[1] # r + 1 + n PROVE DecodedBy(t2) = DecodedBy(t)
  <2>1. \A n \in 1..a : \A k, m : <<r + 1 + n, k, m>> # u
    BY <1>7
  <2>2. \A x : x \in DecodedBy(t) <=> x \in DecodedBy(t2)
    BY <1>1, <1>4, <1>5, <2>1
  <2> QED BY <2>2
<1> QED BY <1>0, <1>6, <1>7 DEF Elsewhen

LEMMA KeptIsChain ==
    ASSUME NEW d, NEW t, Builds(d, t)
    PROVE  KeptBy(d, t) \subseteq Block /\ KeptBy(d, t) \subseteq d.blocks
BY DEF Builds, IsChain, KeptBy, UpTo

LEMMA BeforeIs ==
    ASSUME NEW i, NEW j, NEW k, NEW x, NEW y, NEW z
    PROVE  Before(<<i, j, k>>, <<x, y, z>>) <=> i < x \/ (i = x /\ j < y) \/ (i = x /\ j = y /\ k < z)
BY DEF Before

\* At its start.
LEMMA StartShape ==
    ASSUME NEW d, NEW t, Builds(d, t), t.todo = Places(t.code), NEW r, r = Len(t.rollback)
    PROVE  /\ \A i \in 1..r, m \in 1..4 :
                  <<i, 1, m>> \in NextPlace(t) => i = 1 /\ m = 1 /\ UpTo(d.blocks, t.rollback[i]) = d.blocks
           /\ ~Undoing(t) => ChainStatements(KeptBy(d, t)) \cup DecodedBy(t) = ChainStatements(d.blocks)
<1>0. PICK a : a = Len(t.apply)
  OBVIOUS
<1>1. IsUpdate(t) /\ IsChain(d.blocks, d.tip)
  BY DEF Builds
<1>2. r \in Nat /\ a \in Nat /\ 1 <= a
  BY <1>0, <1>1, UpdateLists
<1>3. \A i \in 1..r, m \in 1..4 : <<i, 1, m>> \in t.todo
  BY <1>0, <1>1, KnownPlaces
<1>4. r # 0 => d.tip # NoBlock /\ t.rollback[1] = d.tip
  <2>1. r # 0 => d.tip # NoBlock
    BY <1>0, BuildShape
  <2>2. d.tip # NoBlock /\ r > 0 => t.rollback[1] = d.tip
    BY BuildDown
  <2> QED BY <1>2, <2>1, <2>2
<1>5. r = 0 /\ d.tip # NoBlock => ParentHash[t.apply[1]] = d.tip
  BY BuildDown
<1>6. d.tip # NoBlock => UpTo(d.blocks, d.tip) = d.blocks
  BY <1>1, CutAtTip
<1>7. ASSUME NEW i \in 1..r, NEW m \in 1..4, <<i, 1, m>> \in NextPlace(t)
      PROVE  i = 1 /\ m = 1 /\ UpTo(d.blocks, t.rollback[i]) = d.blocks
  <2>1. 1 \in 1..r /\ 1 \in 1..4 /\ r # 0
    BY <1>2
  <2>2. ~Before(<<1, 1, 1>>, <<i, 1, m>>)
    BY <1>3, <1>7, <2>1 DEF NextPlace
  <2>3. i = 1 /\ m = 1
    BY <1>2, <2>2 DEF Before
  <2> QED BY <1>4, <1>6, <2>1, <2>3
<1>8. ASSUME ~Undoing(t) PROVE ChainStatements(KeptBy(d, t)) \cup DecodedBy(t) = ChainStatements(d.blocks)
  <2>1. r = 0
    <3>1. SUFFICES ASSUME r # 0 PROVE FALSE
      OBVIOUS
    <3>2. 1 \in 1..r /\ 1 \in 1..4
      BY <1>2, <3>1
    <3>3. <<1, 1, 1>> \in t.todo
      BY <1>3, <3>2
    <3>4. <<1, 1, 1>>[1] <= r
      BY <3>2
    <3> QED BY <1>8, <3>3, <3>4 DEF Undoing
  <2>2. KeptBy(d, t) = d.blocks
    <3>1. CASE d.tip = NoBlock
      BY <1>1, <3>1 DEF IsChain, KeptBy
    <3>2. CASE d.tip # NoBlock
      BY <1>5, <1>6, <2>1, <3>2 DEF KeptBy
    <3> QED BY <3>1, <3>2
  <2>3. DecodedBy(t) = {}
    BY <1>0, <1>1, NoneDecoded
  <2> QED BY <2>2, <2>3
<1> QED BY <1>7, <1>8

\* At its start an update sees the committed tables.
LEMMA TableStart ==
    ASSUME NEW d, NEW t, Builds(d, t), t.todo = Places(t.code), View(d, t) = d,
           Holds(d, ChainStatements(d.blocks))
    PROVE  TableView(d, t)
<1>0. PICK r : r = Len(t.rollback)
  OBVIOUS
<1>1. ASSUME NEW i \in 1..r, NEW m \in 1..4, <<i, 1, m>> \in NextPlace(t)
      PROVE  LET D == ChainStatements(UpTo(d.blocks, t.rollback[i]))
                 h == Height[t.rollback[i]]
             IN /\ View(d, t).utxos = UtxosUndone(UtxosOf(D), h, m - 1)
                /\ View(d, t).convs = ConvsUndone(ConvsOf(D), h, m - 1)
  <2>1. m = 1 /\ UpTo(d.blocks, t.rollback[i]) = d.blocks
    BY <1>0, <1>1, StartShape
  <2>2. m - 1 = 0
    BY <2>1
  <2>3. \A U, h : UtxosUndone(U, h, 0) = U
    BY DEF UtxosUndone
  <2>4. \A V, h : ConvsUndone(V, h, 0) = V
    BY DEF ConvsUndone
  <2> QED BY <2>1, <2>2, <2>3, <2>4 DEF Holds
<1>2. ASSUME ~Undoing(t) PROVE Holds(View(d, t), ChainStatements(KeptBy(d, t)) \cup DecodedBy(t))
  <2>1. ChainStatements(KeptBy(d, t)) \cup DecodedBy(t) = ChainStatements(d.blocks)
    BY <1>0, <1>2, StartShape
  <2> QED BY <2>1
<1> QED BY <1>0, <1>1, <1>2 DEF TableView

\* What is left to undo has its next place in a stage of the rollback.
LEMMA NotUndoing ==
    ASSUME NEW t, NEW i, NEW m, <<i, 1, m>> \in NextPlace(t), i <= Len(t.rollback)
    PROVE  Undoing(t)
BY DEF NextPlace, Undoing

\* A statement of rollbackBlock.
LEMMA UndoneOne ==
    ASSUME NEW d, IsDb(d), NEW U, NEW V, NEW b, NEW m \in 1..4, NEW s, s = RollbackBlock(b)[m],
           d.utxos = UtxosUndone(U, Height[b], m - 1), d.convs = ConvsUndone(V, Height[b], m - 1)
    PROVE  /\ Exec(d, s).utxos = UtxosUndone(U, Height[b], m)
           /\ Exec(d, s).convs = ConvsUndone(V, Height[b], m)
<1> DEFINE h == Height[b]
<1>1. Sound(s) /\ s.h = h
  BY UndoSound
<1>2. Exec(d, s).utxos = UtxosAfter(d.utxos, s) /\ Exec(d, s).convs = ConvsAfter(d.convs, s)
  BY <1>1, ExecTables
<1> HIDE DEF h
<1>3. CASE m = 1
  <2>1. s.sql = "untrim" /\ m - 1 = 0
    BY <1>3, UndoSound
  <2>2. UtxosAfter(d.utxos, s) = Untrim(d.utxos, h) /\ ConvsAfter(d.convs, s) = d.convs
    BY <1>1, <2>1 DEF UtxosAfter, ConvsAfter
  <2> QED BY <1>2, <1>3, <2>1, <2>2 DEF UtxosUndone, ConvsUndone, h
<1>4. CASE m = 2
  <2>1. s.sql = "unspend" /\ m - 1 = 1
    BY <1>4, UndoSound
  <2>2. UtxosAfter(d.utxos, s) = Unspend(d.utxos, h) /\ ConvsAfter(d.convs, s) = d.convs
    BY <1>1, <2>1 DEF UtxosAfter, ConvsAfter
  <2> QED BY <1>2, <1>4, <2>1, <2>2 DEF UtxosUndone, ConvsUndone, h
<1>5. CASE m = 3
  <2>1. s.sql = "uncreate" /\ m - 1 = 2
    BY <1>5, UndoSound
  <2>2. UtxosAfter(d.utxos, s) = DeleteCreated(d.utxos, h) /\ ConvsAfter(d.convs, s) = d.convs
    BY <1>1, <2>1 DEF UtxosAfter, ConvsAfter
  <2> QED BY <1>2, <1>5, <2>1, <2>2 DEF UtxosUndone, ConvsUndone, h
<1>6. CASE m = 4
  <2>1. s.sql = "unconv" /\ m - 1 = 3
    BY <1>6, UndoSound
  <2>2. UtxosAfter(d.utxos, s) = d.utxos /\ ConvsAfter(d.convs, s) = DeleteConv(d.convs, h)
    BY <1>1, <2>1 DEF UtxosAfter, ConvsAfter
  <2> QED BY <1>2, <1>6, <2>1, <2>2 DEF UtxosUndone, ConvsUndone, h
<1> QED BY <1>3, <1>4, <1>5, <1>6

\* After statement m of the rollback of its i-th block.
LEMMA UndoShape ==
    ASSUME NEW d, NEW t, Builds(d, t), NEW u, NEW s, NEW t2, Stepped(d, t, u, s, t2),
           NEW r, r = Len(t.rollback), NEW i \in 1..r, NEW m \in 1..4, u = <<i, 1, m>>,
           NEW b, b = t.rollback[i]
    PROVE  /\ \A x \in 1..r, y \in 1..4 :
                  <<x, 1, y>> \in NextPlace(t2) =>
                      \/ m < 4 /\ x = i /\ y = m + 1
                      \/ m = 4 /\ y = 1 /\ t.rollback[x] = ParentHash[b]
           /\ ~Undoing(t2) =>
                  /\ m = 4 /\ KeptBy(d, t2) = UpTo(d.blocks, ParentHash[b])
                  /\ DecodedBy(t2) = {}
<1>0. PICK a : a = Len(t.apply)
  OBVIOUS
<1>1. IsUpdate(t)
  BY DEF Builds
<1>2. r \in Nat /\ a \in Nat /\ 1 <= a
  BY <1>0, <1>1, UpdateLists
<1>4. d.tip # NoBlock
  BY <1>0, <1>2, BuildShape
<1>7. t2.code = t.code /\ t2.rollback = t.rollback /\ t2.apply = t.apply
  BY DEF Stepped
<1>8. \A x \in Places(t.code) : x \in t2.todo <=> Before(u, x)
  <2>1. Stepped(d, t, u, s, t2)
    OBVIOUS
  <2> QED BY ONLY <1>1, <2>1, StillToRun
<1>10. ParentHash[b] = IF i = r THEN ParentHash[t.apply[1]] ELSE t.rollback[i + 1]
  BY <1>4, BuildDown
<1>12. \A x \in 1..r, y \in 1..4 : <<x, 1, y>> \in Places(t.code)
  BY <1>0, <1>1, KnownPlaces
<1>13. ASSUME NEW x \in 1..r, NEW y \in 1..4, <<x, 1, y>> \in NextPlace(t2)
       PROVE  \/ m < 4 /\ x = i /\ y = m + 1
              \/ m = 4 /\ y = 1 /\ t.rollback[x] = ParentHash[b]
  <2>1. <<x, 1, y>> \in t2.todo /\ \A z \in t2.todo : ~Before(z, <<x, 1, y>>)
    BY <1>13 DEF NextPlace
  <2>2. Before(u, <<x, 1, y>>)
    BY <1>8, <1>12, <2>1
  <2>3. CASE m < 4
    <3>1. m + 1 \in 1..4
      BY <2>3
    <3>2. Before(u, <<i, 1, m + 1>>) /\ <<i, 1, m + 1>> \in Places(t.code)
      <4>1. Before(u, <<i, 1, m + 1>>)
        BY BeforeIs
      <4> QED BY <1>12, <3>1, <4>1
    <3>3. ~Before(<<i, 1, m + 1>>, <<x, 1, y>>)
      BY <1>8, <2>1, <3>2
    <3> QED BY <2>2, <2>3, <3>3, BeforeIs
  <2>4. CASE m = 4
    <3>1. i < x
      BY <1>2, <2>2, <2>4, BeforeIs
    <3>2. i + 1 \in 1..r /\ 1 \in 1..4 /\ i # r
      BY <1>2, <3>1
    <3>3. Before(u, <<i + 1, 1, 1>>) /\ <<i + 1, 1, 1>> \in Places(t.code)
      <4>1. Before(u, <<i + 1, 1, 1>>)
        BY <1>2, BeforeIs
      <4> QED BY <1>12, <3>2, <4>1
    <3>4. ~Before(<<i + 1, 1, 1>>, <<x, 1, y>>)
      BY <1>8, <2>1, <3>3
    <3>5. x = i + 1 /\ y = 1
      BY <1>2, <3>1, <3>4, BeforeIs
    <3> QED BY <1>10, <2>4, <3>2, <3>5
  <2> QED BY <2>3, <2>4
<1>14. ASSUME ~Undoing(t2)
       PROVE  m = 4 /\ KeptBy(d, t2) = UpTo(d.blocks, ParentHash[b]) /\ DecodedBy(t2) = {}
  <2>1. \A x \in 1..r, y \in 1..4 : ~Before(u, <<x, 1, y>>)
    <3>1. SUFFICES ASSUME NEW x \in 1..r, NEW y \in 1..4, Before(u, <<x, 1, y>>) PROVE FALSE
      OBVIOUS
    <3>2. <<x, 1, y>> \in t2.todo
      BY <1>8, <1>12, <3>1
    <3>3. <<x, 1, y>>[1] <= r
      BY <1>2
    <3> QED BY <1>7, <1>14, <3>2, <3>3 DEF Undoing
  <2>2. m = 4
    <3>1. SUFFICES ASSUME m # 4 PROVE FALSE
      OBVIOUS
    <3>2. m + 1 \in 1..4
      BY <3>1
    <3>3. Before(u, <<i, 1, m + 1>>)
      BY BeforeIs
    <3> QED BY <2>1, <3>2, <3>3
  <2>3. i = r
    <3>1. SUFFICES ASSUME i # r PROVE FALSE
      OBVIOUS
    <3>2. i + 1 \in 1..r /\ 1 \in 1..4
      BY <1>2, <3>1
    <3>3. Before(u, <<i + 1, 1, 1>>)
      BY <1>2, BeforeIs
    <3> QED BY <2>1, <3>2, <3>3
  <2>4. KeptBy(d, t2) = UpTo(d.blocks, ParentHash[b])
    BY <1>4, <1>7, <1>10, <2>3 DEF KeptBy
  <2>5. DecodedBy(t2) = {}
    <3>1. IsUpdate(t2) /\ r = Len(t2.rollback) /\ a = Len(t2.apply)
      BY <1>0, <1>1, <1>7 DEF IsUpdate
    <3>2. ASSUME NEW n \in 1..a, NEW k, NEW y, <<r + 1 + n, k, y>> \in Places(t2.code)
          PROVE  <<r + 1 + n, k, y>> \in t2.todo
      <4>1. Before(u, <<r + 1 + n, k, y>>)
        BY <1>2, BeforeIs
      <4> QED BY <1>7, <1>8, <3>2, <4>1
    <3> QED BY <3>1, <3>2, NoneDecoded
  <2> QED BY <2>2, <2>4, <2>5
<1> QED BY <1>13, <1>14

\* A statement of the rollback brings the tables a row nearer to those of the
\* part of the chain that stays.
LEMMA TableUndo ==
    ASSUME NEW d, NEW t, Builds(d, t), Decodable(ChainStatements(d.blocks)),
           NEW u, NEW s, NEW t2, Stepped(d, t, u, s, t2), TableView(d, t), UndoAt(t, u, s)
    PROVE  TableView(d, t2)
<1>0. PICK r : r = Len(t.rollback)
  OBVIOUS
<1> DEFINE v == View(d, t)
           w == View(d, t2)
           St(x) == ChainStatements(UpTo(d.blocks, x))
<1>1. PICK i \in 1..r, m \in 1..4 : u = <<i, 1, m>> /\ s = RollbackBlock(t.rollback[i])[m]
  BY <1>0 DEF UndoAt
<1>2. PICK b : b = t.rollback[i]
  OBVIOUS
<1> DEFINE h == Height[b]
           U == UtxosOf(St(b))
           V == ConvsOf(St(b))
<1>3. IsDb(v) /\ w = Exec(v, s) /\ u \in NextPlace(t)
  BY DEF Stepped
<1>4. t2.rollback = t.rollback /\ t2.apply = t.apply
  BY DEF Stepped
<1>5. v.utxos = UtxosUndone(U, h, m - 1) /\ v.convs = ConvsUndone(V, h, m - 1)
  BY <1>0, <1>1, <1>2, <1>3 DEF TableView
<1>6. /\ UtxosUndone(U, h, 4) = UtxosOf(St(ParentHash[b]))
      /\ ConvsUndone(V, h, 4) = ConvsOf(St(ParentHash[b]))
  <2>1. ASSUME NEW D, D = St(b), NEW E, E = St(ParentHash[b])
        PROVE  UtxosUndone(UtxosOf(D), h, 4) = UtxosOf(E) /\ ConvsUndone(ConvsOf(D), h, 4) = ConvsOf(E)
    BY <1>0, <1>2, <2>1, UndoneBy
  <2> QED BY <2>1
<1>7. w.utxos = UtxosUndone(U, h, m) /\ w.convs = ConvsUndone(V, h, m)
  <2> HIDE DEF v, w, U, V
  <2> QED BY <1>1, <1>2, <1>3, <1>5, UndoneOne DEF h
<1> HIDE DEF v, w, U, V, h
<1>8. /\ \A x \in 1..r, y \in 1..4 :
             <<x, 1, y>> \in NextPlace(t2) =>
                 \/ m < 4 /\ x = i /\ y = m + 1
                 \/ m = 4 /\ y = 1 /\ t.rollback[x] = ParentHash[b]
      /\ ~Undoing(t2) =>
             /\ m = 4 /\ KeptBy(d, t2) = UpTo(d.blocks, ParentHash[b])
             /\ DecodedBy(t2) = {}
  BY <1>0, <1>1, <1>2, UndoShape
<1>9. ASSUME NEW x \in 1..r, NEW y \in 1..4, <<x, 1, y>> \in NextPlace(t2)
      PROVE  /\ w.utxos = UtxosUndone(UtxosOf(St(t.rollback[x])), Height[t.rollback[x]], y - 1)
             /\ w.convs = ConvsUndone(ConvsOf(St(t.rollback[x])), Height[t.rollback[x]], y - 1)
  <2>1. \/ m < 4 /\ x = i /\ y = m + 1
        \/ m = 4 /\ y = 1 /\ t.rollback[x] = ParentHash[b]
    BY <1>8, <1>9
  <2>2. CASE m < 4 /\ x = i /\ y = m + 1
    <3>1. y - 1 = m
      BY <2>2
    <3> QED BY <1>2, <1>7, <2>2, <3>1 DEF U, V, h
  <2>3. CASE m = 4 /\ y = 1 /\ t.rollback[x] = ParentHash[b]
    <3>1. w.utxos = UtxosOf(St(t.rollback[x])) /\ w.convs = ConvsOf(St(t.rollback[x]))
      BY <1>6, <1>7, <2>3
    <3>2. y - 1 = 0
      BY <2>3
    <3>3. \A X, z : UtxosUndone(X, z, 0) = X /\ ConvsUndone(X, z, 0) = X
      BY DEF UtxosUndone, ConvsUndone
    <3> QED BY <3>1, <3>2, <3>3
  <2> QED BY <2>1, <2>2, <2>3
<1>10. ASSUME ~Undoing(t2)
       PROVE  Holds(w, ChainStatements(KeptBy(d, t2)) \cup DecodedBy(t2))
  <2>1. m = 4 /\ KeptBy(d, t2) = UpTo(d.blocks, ParentHash[b]) /\ DecodedBy(t2) = {}
    BY <1>8, <1>10
  <2>2. KeptBy(d, t2) = KeptBy(d, t)
    BY <1>4 DEF KeptBy
  <2>3. Decodable(ChainStatements(KeptBy(d, t2)))
    BY <2>2, KeptIsChain DEF Decodable, ChainStatements
  <2>4. w.utxos = UtxosOf(ChainStatements(KeptBy(d, t2))) /\ w.convs = ConvsOf(ChainStatements(KeptBy(d, t2)))
    BY <1>6, <1>7, <2>1
  <2>5. ChainStatements(KeptBy(d, t2)) \cup DecodedBy(t2) = ChainStatements(KeptBy(d, t2))
    BY <2>1
  <2> QED BY <2>3, <2>4, <2>5 DEF Holds
<1> QED BY <1>0, <1>4, <1>9, <1>10 DEF TableView, w

\* A later statement runs when the rollback is done.
LEMMA UndoingDone ==
    ASSUME NEW d, NEW t, IsUpdate(t), NEW u, NEW s, NEW t2, Stepped(d, t, u, s, t2),
           u[1] > Len(t.rollback)
    PROVE  ~Undoing(t) /\ ~Undoing(t2)
<1>0. PICK r : r = Len(t.rollback)
  OBVIOUS
<1>1. u \in Places(t.code) /\ (\A x \in t.todo : ~Before(x, u)) /\ t.todo \subseteq Places(t.code)
  BY DEF Stepped, NextPlace
<1>2. t2.todo = t.todo \ {u} /\ t2.rollback = t.rollback
  BY DEF Stepped
<1>3. r \in Nat
  BY <1>0, UpdateLists
<1>4. PICK i, j, k : IsPlace(t, u, i, j, k)
  BY <1>1, PlaceNumbers
<1>5. i \in Nat /\ u[1] = i
  BY <1>4 DEF IsPlace
<1>6. ASSUME NEW x \in t.todo, x[1] <= r PROVE FALSE
  <2>1. PICK y, z, q : IsPlace(t, x, y, z, q)
    BY <1>1, PlaceNumbers
  <2>2. y \in Nat /\ x[1] = y
    BY <2>1 DEF IsPlace
  <2>3. x[1] < u[1]
    BY <1>0, <1>3, <1>5, <1>6, <2>2
  <2> QED BY <1>1, <2>3 DEF Before
<1> QED BY <1>0, <1>2, <1>6 DEF Undoing

\* Then what counts is what the statements so far lead to.
LEMMA TableUp ==
    ASSUME NEW d, NEW t, ~Undoing(t)
    PROVE  TableView(d, t) <=> Holds(View(d, t), ChainStatements(KeptBy(d, t)) \cup DecodedBy(t))
<1>1. ASSUME NEW i \in 1..Len(t.rollback), NEW m \in 1..4, <<i, 1, m>> \in NextPlace(t) PROVE FALSE
  <2>1. CASE i <= Len(t.rollback)
    BY <1>1, <2>1, NotUndoing
  <2>2. CASE ~(i <= Len(t.rollback))
    BY <2>2
  <2> QED BY <2>1, <2>2
<1> QED BY <1>1 DEF TableView

\* A statement that touches neither table.
LEMMA SpineShape ==
    ASSUME NEW d, NEW t, Builds(d, t), NEW u, NEW s, NEW t2, Stepped(d, t, u, s, t2),
           DeleteAt(t, u, s) \/ StoreAt(t, u, s) \/ MoveAt(t, u, s)
    PROVE  /\ ~Undoing(t) /\ ~Undoing(t2)
           /\ View(d, t2).utxos = View(d, t).utxos /\ View(d, t2).convs = View(d, t).convs
           /\ KeptBy(d, t2) = KeptBy(d, t) /\ DecodedBy(t2) = DecodedBy(t)
<1>0. PICK r, a : r = Len(t.rollback) /\ a = Len(t.apply)
  OBVIOUS
<1> DEFINE v == View(d, t)
           w == View(d, t2)
<1>1. IsUpdate(t)
  BY DEF Builds
<1>2. r \in Nat /\ a \in Nat /\ 1 <= a
  BY <1>0, <1>1, UpdateLists
<1>3. (u[1] = r + 1 \/ u[1] = r + a + 2) /\ s.sql \in {"deleteBlock", "insertBlock", "tip"}
  <2>1. CASE DeleteAt(t, u, s)
    <3>1. PICK i \in 1..r : u = <<r + 1, 1, i>> /\ s = [sql |-> "deleteBlock", b |-> t.rollback[i]]
      BY <1>0, <2>1 DEF DeleteAt
    <3>2. u[1] = r + 1
      BY <3>1
    <3>3. s.sql = "deleteBlock"
      BY <3>1
    <3> QED BY <3>2, <3>3
  <2>2. CASE StoreAt(t, u, s)
    <3>1. PICK i \in 1..a : /\ u = <<r + 1, 1, r + i>>
                            /\ s = [sql |-> "insertBlock", b |-> t.apply[i]]
      BY <1>0, <2>2 DEF StoreAt
    <3>2. u[1] = r + 1
      BY <3>1
    <3>3. s.sql = "insertBlock"
      BY <3>1
    <3> QED BY <3>2, <3>3
  <2>3. CASE MoveAt(t, u, s)
    <3>1. u = <<r + a + 2, 1, 1>> /\ s = [sql |-> "tip", b |-> t.apply[a]]
      BY <1>0, <2>3 DEF MoveAt
    <3>2. u[1] = r + a + 2
      BY <3>1
    <3>3. s.sql = "tip"
      BY <3>1
    <3> QED BY <3>2, <3>3
  <2> QED BY <2>1, <2>2, <2>3
<1>4. s.sql \in {"deleteBlock", "insertBlock", "tip"}
  BY <1>3
<1>5. IsDb(v) /\ w = Exec(v, s) /\ t2.apply = t.apply
  BY DEF Stepped
<1>6. w.utxos = v.utxos /\ w.convs = v.convs
  <2>1. Sound(s)
    BY <1>4 DEF Sound, BlockSql
  <2>2. w.utxos = UtxosAfter(v.utxos, s) /\ w.convs = ConvsAfter(v.convs, s)
    BY <1>5, <2>1, ExecTables
  <2> HIDE DEF v, w
  <2>3. UtxosAfter(v.utxos, s) = v.utxos
    BY <1>4 DEF UtxosAfter
  <2>4. ConvsAfter(v.convs, s) = v.convs
    BY <1>4 DEF ConvsAfter
  <2> QED BY <2>2, <2>3, <2>4
<1>7. u[1] > r
  BY <1>2, <1>3
<1>8. ~Undoing(t) /\ ~Undoing(t2)
  BY <1>0, <1>1, <1>7, UndoingDone
<1>9. DecodedBy(t2) = DecodedBy(t)
  <2>1. \A n \in 1..a : u[1] # r + 1 + n
    BY <1>2, <1>3
  <2>2. Elsewhen(t, u)
    BY <1>0, <2>1 DEF Elsewhen
  <2> QED BY <1>1, <2>2, DecodedMore
<1>10. KeptBy(d, t2) = KeptBy(d, t)
  BY <1>5 DEF KeptBy
<1> QED BY <1>6, <1>8, <1>9, <1>10 DEF v, w

LEMMA TableSpine ==
    ASSUME NEW d, NEW t, Builds(d, t), NEW u, NEW s, NEW t2, Stepped(d, t, u, s, t2), TableView(d, t),
           DeleteAt(t, u, s) \/ StoreAt(t, u, s) \/ MoveAt(t, u, s)
    PROVE  TableView(d, t2)
<1>1. /\ ~Undoing(t) /\ ~Undoing(t2)
      /\ View(d, t2).utxos = View(d, t).utxos /\ View(d, t2).convs = View(d, t).convs
      /\ KeptBy(d, t2) = KeptBy(d, t) /\ DecodedBy(t2) = DecodedBy(t)
  BY SpineShape
<1>2. Holds(View(d, t), ChainStatements(KeptBy(d, t)) \cup DecodedBy(t))
  BY <1>1, TableUp
<1>3. Holds(View(d, t2), ChainStatements(KeptBy(d, t2)) \cup DecodedBy(t2))
  BY <1>1, <1>2 DEF Holds
<1> QED BY <1>1, <1>3, TableUp

\* A statement of applyBlock: where the update is.
LEMMA DecodeShape ==
    ASSUME NEW d, NEW t, IsUpdate(t), NEW u, NEW s, NEW t2, Stepped(d, t, u, s, t2), DecodeAt(t, u, s)
    PROVE  /\ ~Undoing(t) /\ ~Undoing(t2)
           /\ KeptBy(d, t2) = KeptBy(d, t) /\ DecodedBy(t2) = DecodedBy(t) \cup {s}
           /\ \E b \in Block : \E k, m : StatementAt(b, k, m, s)
<1>0. PICK r, a : r = Len(t.rollback) /\ a = Len(t.apply)
  OBVIOUS
<1>1. r \in Nat /\ a \in Nat /\ \A i \in 1..a : t.apply[i] \in Block
  BY <1>0, UpdateLists
<1>2. PICK n \in 1..a : \E k, m : u = <<r + 1 + n, k, m>> /\ StatementAt(t.apply[n], k, m, s)
  BY <1>0 DEF DecodeAt
<1>3. u[1] > r
  <2>1. u[1] = r + 1 + n
    BY <1>2
  <2> QED BY <1>1, <2>1
<1>4. ~Undoing(t) /\ ~Undoing(t2)
  BY <1>0, <1>3, UndoingDone
<1>5. DecodedBy(t2) = DecodedBy(t) \cup {s}
  BY DecodedMore
<1>6. KeptBy(d, t2) = KeptBy(d, t)
  BY DEF KeptBy, Stepped
<1>7. \E b \in Block : \E k, m : StatementAt(b, k, m, s)
  BY <1>1, <1>2
<1> QED BY <1>4, <1>5, <1>6, <1>7

\* A statement of applyBlock.
LEMMA TableDecode ==
    ASSUME NEW d, NEW t, Builds(d, t), NEW u, NEW s, NEW t2, Stepped(d, t, u, s, t2), TableView(d, t),
           DecodeAt(t, u, s)
    PROVE  TableView(d, t2)
<1>0. PICK r, a : r = Len(t.rollback) /\ a = Len(t.apply)
  OBVIOUS
<1> DEFINE v == View(d, t)
           w == View(d, t2)
           D == ChainStatements(KeptBy(d, t)) \cup DecodedBy(t)
<1>1. IsUpdate(t)
  BY DEF Builds
<1>2. r \in Nat /\ a \in Nat /\ 1 <= a
  BY <1>0, <1>1, UpdateLists
<1>3. PICK n \in 1..a : \E k, m : u = <<r + 1 + n, k, m>> /\ StatementAt(t.apply[n], k, m, s)
  BY <1>0 DEF DecodeAt
<1>4. PICK k, m : u = <<r + 1 + n, k, m>> /\ StatementAt(t.apply[n], k, m, s)
  BY <1>3
<1>5. IsDb(v) /\ w = Exec(v, s) /\ t2.apply = t.apply /\ s.sql # "fail"
  BY DEF Stepped
<1>7. /\ ~Undoing(t) /\ ~Undoing(t2)
      /\ KeptBy(d, t2) = KeptBy(d, t) /\ DecodedBy(t2) = DecodedBy(t) \cup {s}
  BY <1>1, DecodeShape
<1>8. Holds(v, D)
  BY <1>7, TableUp
<1> DEFINE b == t.apply[n]
           C == GrownBy(d, t, n)
<1>11. /\ b \in C /\ C \ {b} = GrownBy(d, t, n - 1)
       /\ C \in SUBSET Block /\ ValidChain(C)
       /\ \A c \in C \ {b} : Height[c] < Height[b]
  BY <1>0, GrownOne
<1>12. D = ChainStatements(GrownBy(d, t, n - 1)) \cup Executed(b, k, m)
  <2>1. KeptBy(d, t) \subseteq Block
    BY KeptIsChain
  <2>2. DecodesAt(t, u, s, n, k, m)
    BY <1>0, <1>4 DEF DecodesAt
  <2> QED BY <1>1, <2>1, <2>2, DecodedUpTo
<1>13. D = ChainStatements(C \ {b}) \cup Executed(b, k, m)
  BY <1>11, <1>12
<1>14. ChainStatements(KeptBy(d, t2)) \cup DecodedBy(t2) = D \cup {s}
  BY <1>7
<1>15. StatementAt(b, k, m, s)
  BY <1>4
<1> HIDE DEF v, w, D, b, C
<1>16. Decodes(v, Exec(v, s), D \cup {s})
  BY <1>5, <1>8, <1>11, <1>13, <1>15, DecodeStep
<1>17. Holds(w, ChainStatements(KeptBy(d, t2)) \cup DecodedBy(t2))
  BY <1>5, <1>14, <1>16 DEF Decodes
<1> QED BY <1>7, <1>17, TableUp DEF w

LEMMA TableStep ==
    ASSUME NEW d, NEW t, Builds(d, t), Decodable(ChainStatements(d.blocks)),
           NEW u, NEW s, NEW t2, Stepped(d, t, u, s, t2), TableView(d, t)
    PROVE  TableView(d, t2)
<1>1. IsUpdate(t)
  BY DEF Builds
<1>2. UndoAt(t, u, s) \/ DeleteAt(t, u, s) \/ StoreAt(t, u, s) \/ DecodeAt(t, u, s) \/ MoveAt(t, u, s)
  BY <1>1, UpdatePlaces DEF Stepped
<1>3. CASE UndoAt(t, u, s)
  BY <1>3, TableUndo
<1>4. CASE DeleteAt(t, u, s) \/ StoreAt(t, u, s) \/ MoveAt(t, u, s)
  BY <1>4, TableSpine
<1>5. CASE DecodeAt(t, u, s)
  BY <1>5, TableDecode
<1> QED BY <1>2, <1>3, <1>4, <1>5

\* When all statements have run.
LEMMA DoneShape ==
    ASSUME NEW d, NEW t, Builds(d, t), t.todo = {}, NEW a, a = Len(t.apply)
    PROVE  ~Undoing(t) /\ ChainStatements(KeptBy(d, t)) \cup DecodedBy(t) = ChainStatements(GrownBy(d, t, a))
<1>0. PICK r : r = Len(t.rollback)
  OBVIOUS
<1>1. IsUpdate(t)
  BY DEF Builds
<1>2. a \in Nat /\ \A i \in 1..a : t.apply[i] \in Block
  BY <1>1, UpdateLists
<1>3. ~Undoing(t)
  BY DEF Undoing
<1> DEFINE K == KeptBy(d, t)
           G == GrownBy(d, t, a)
<1>5. K \in SUBSET Block
  BY KeptIsChain
<1>6. G = K \cup {t.apply[i] : i \in 1..a} /\ G \in SUBSET Block
  BY <1>2, <1>5 DEF GrownBy
<1> HIDE DEF K, G
<1>7. ASSUME NEW x PROVE x \in ChainStatements(K) \cup DecodedBy(t) <=> x \in ChainStatements(G)
  <2>1. x \in ChainStatements(G) <=> \E c \in G : \E p, q : StatementAt(c, p, q, x)
    BY <1>6, InChain
  <2>2. x \in ChainStatements(K) <=> \E c \in K : \E p, q : StatementAt(c, p, q, x)
    BY <1>5, InChain
  <2>3. x \in DecodedBy(t) <=>
            \E n \in 1..a : \E p, q : StatementAt(t.apply[n], p, q, x) /\ <<r + 1 + n, p, q>> \notin t.todo
    BY <1>0, <1>1, InDecoded
  <2>4. x \in DecodedBy(t) <=> \E n \in 1..a : \E p, q : StatementAt(t.apply[n], p, q, x)
    BY <2>3
  <2>5. \A c : c \in G <=> c \in K \/ \E n \in 1..a : c = t.apply[n]
    BY <1>6
  <2>6. (\E c \in G : \E p, q : StatementAt(c, p, q, x)) <=>
            (\E c \in K : \E p, q : StatementAt(c, p, q, x))
            \/ \E n \in 1..a : \E p, q : StatementAt(t.apply[n], p, q, x)
    BY ONLY <2>5
  <2> QED BY ONLY <2>1, <2>2, <2>4, <2>6
<1>8. ChainStatements(K) \cup DecodedBy(t) = ChainStatements(G)
  BY <1>7
<1> QED BY <1>3, <1>8 DEF K, G

\* When all statements have run the update sees the tables of its chain.
LEMMA TableDone ==
    ASSUME NEW d, NEW t, Builds(d, t), TableView(d, t), t.todo = {}, NEW a, a = Len(t.apply)
    PROVE  Holds(View(d, t), ChainStatements(GrownBy(d, t, a)))
BY DoneShape, TableUp

-----------------------------------------------------------------------------
(* What a step means for one process.                                      *)

LEMMA NoTxnFacts ==
    ASSUME NEW S
    PROVE  TxnInv(S, NoTxn) /\ ~NoTxn.open /\ ~NoTxn.bare /\ NoTxn.locks = {}
<1>1. Places(NoTxn.code) = {}
  BY DEF NoTxn, Places
<1>2. IsTables(NoTxn.own) /\ NoTxn.own.utxos = {} /\ NoTxn.own.convs = {} /\ NoTxn.own.blocks = {}
  BY DEF NoTxn, EmptyDb, IsTables, IsDb
<1>3. NoTxn.own.tip = NoBlock /\ NoTxn.todo = {}
  BY DEF NoTxn, EmptyDb
<1>4. ~NoTxn.open /\ ~NoTxn.bare /\ NoTxn.locks = {}
  BY DEF NoTxn
<1>5. NoTxn = [code |-> NoTxn.code, todo |-> NoTxn.todo, locks |-> NoTxn.locks, own |-> NoTxn.own,
               rollback |-> NoTxn.rollback, apply |-> NoTxn.apply, bare |-> NoTxn.bare,
               open |-> NoTxn.open]
  BY DEF NoTxn
<1>6. NoTxn.open \in BOOLEAN /\ NoTxn.bare \in BOOLEAN
  BY DEF NoTxn
<1>7. TxnInv(S, NoTxn)
  BY <1>1, <1>2, <1>3, <1>5, <1>6 DEF TxnInv
<1> QED BY <1>4, <1>7

LEMMA NoTxnInvs ==
    ASSUME NEW d, NEW S, NEW M, NEW r
    PROVE  /\ M \subseteq S => IndexerInv(S, M, NoTxn)
           /\ Above(M, d) => SpineInv(d, M, NoTxn)
           /\ TableInv(d, NoTxn)
           /\ DOMAIN r = DOMAIN Idle /\ r.batch \in Seq(Block) => ToolInv(d, NoTxn, r)
<1>1. ~NoTxn.open /\ NoTxn.locks = {}
  BY NoTxnFacts
<1>2. Justified(d, NoTxn)
  BY <1>1 DEF Justified
<1> QED BY <1>1, <1>2 DEF IndexerInv, SpineInv, TableInv, Steady, ToolInv

\* The node's chains grow.
LEMMA TxnGrows ==
    ASSUME NEW S, NEW S2, S \subseteq S2, NEW t, TxnInv(S, t)
    PROVE  TxnInv(S2, t)
BY DEF TxnInv

LEMMA IndexerGrows ==
    ASSUME NEW S, NEW S2, S \subseteq S2, NEW M, NEW t, IndexerInv(S, M, t)
    PROVE  IndexerInv(S2, M, t)
BY DEF IndexerInv, UpdateInv

LEMMA IndexerUpdate ==
    ASSUME NEW S, NEW M, NEW t, IndexerInv(S, M, t), t.open
    PROVE  IsUpdate(t) /\ SoundCode(t)
<1>1. IsUpdate(t)
  BY DEF IndexerInv, UpdateInv, IsUpdate
<1> QED BY <1>1, UpdateSound DEF SoundCode

LEMMA ToolCode ==
    ASSUME NEW d, NEW t, NEW r, ToolInv(d, t, r), t.open, NEW b, b = r.batch[1]
    PROVE  b \in Block /\ t.code = <<ApplyBlock(b)>>
BY ElementOfSeq, EmptySeq, LenProperties DEF ToolInv

\* reconcile runs statements of the block, and they leave the spine alone.
LEMMA ToolSound ==
    ASSUME NEW d, NEW t, NEW r, ToolInv(d, t, r), t.open, NEW u \in Places(t.code),
           NEW s, s = StatementOf(t, u), s.sql # "fail"
    PROVE  /\ Sound(s) /\ s.sql \in {"spend", "insert", "conv", "sweep"}
           /\ \E k, m : StatementAt(r.batch[1], k, m, s)
<1>1. PICK b : b = r.batch[1]
  OBVIOUS
<1>2. b \in Block /\ t.code = <<ApplyBlock(b)>>
  BY <1>1, ToolCode
<1>3. PICK k, m : StatementAt(b, k, m, s)
  BY <1>2, ToolPlaces
<1>4. Sound(s) /\ s.sql \in {"spend", "insert", "conv", "sweep"}
  BY <1>2, <1>3, BlockSound
<1> QED BY <1>1, <1>3, <1>4

LEMMA ToolSoundCode ==
    ASSUME NEW d, NEW t, NEW r, ToolInv(d, t, r), t.open \/ t = NoTxn
    PROVE  SoundCode(t)
<1>1. CASE t.open
  BY <1>1, ToolSound DEF SoundCode
<1>2. CASE t = NoTxn
  BY <1>2 DEF SoundCode, NoTxn, Places
<1> QED BY <1>1, <1>2

LEMMA SpineLeft ==
    ASSUME NEW d, IsDb(d), NEW s, Sound(s), s.sql \in {"spend", "insert", "conv", "sweep"}
    PROVE  Exec(d, s).blocks = d.blocks /\ Exec(d, s).tip = d.tip
<1>1. Exec(d, s).blocks = BlocksAfter(d.blocks, s) /\ Exec(d, s).tip = TipAfter(d.tip, s)
  BY ExecTables
<1> QED BY <1>1 DEF BlocksAfter, TipAfter

\* A step that leaves the spine alone.
LEMMA SameSpine ==
    ASSUME NEW d, NEW e, e.blocks = d.blocks, e.tip = d.tip, NEW M, NEW t, SpineInv(d, M, t),
           t.open /\ t.bare => Justified(e, t)
    PROVE  SpineInv(e, M, t)
<1>1. View(e, t).blocks = View(d, t).blocks /\ View(e, t).tip = View(d, t).tip
  BY DEF View, Overlay
<1>2. SpineView(d, t) => SpineView(e, t)
  BY <1>1 DEF SpineView
<1>3. OnChain(d, t) => OnChain(e, t)
  BY DEF OnChain
<1>4. Steady(e, t) <=> Steady(d, t)
  BY DEF Steady
<1>5. Above(M, e)
  BY DEF Above, SpineInv
<1>6. t.open /\ t.bare => M = {} /\ FirstInv(e, t)
  BY DEF SpineInv, FirstInv
<1> QED BY <1>2, <1>3, <1>4, <1>5, <1>6 DEF SpineInv

\* With its lock on the tip alone a transaction sees what is committed.
LEMMA BeginView ==
    ASSUME NEW d, IsDb(d), NEW t, t.own = Locked(d, t.locks)
    PROVE  View(d, t) = d
<1>1. OwnKeys(t.own, t.locks)
  BY LockedAt
<1>2. ASSUME NEW k PROVE SameAt(View(d, t), d, k)
  <2>1. CASE k \notin t.locks
    BY <1>1, <2>1, CommitLeaves
  <2>2. CASE k \in t.locks
    <3>1. SameAt(View(d, t), t.own, k)
      BY <1>1, <2>2, OverlayAt DEF View
    <3>2. SameAt(t.own, d, k)
      BY <2>2, LockedAt
    <3> QED BY <3>1, <3>2, SameTrans
  <2> QED BY <2>1, <2>2
<1>3. IsDb(View(d, t))
  BY DEF View, Overlay, IsDb
<1> QED BY <1>2, <1>3, SameEverywhere

\* What an open update that builds on the chain has.
LEMMA SpineBuilds ==
    ASSUME NEW d, IsChain(d.blocks, d.tip), NEW S, NEW M, NEW t, IndexerInv(S, M, t),
           SpineInv(d, M, t), Steady(d, t)
    PROVE  Builds(d, t) /\ SpineView(d, t)
<1>1. t.open /\ IsUpdate(t)
  BY IndexerUpdate DEF Steady
<1>2. OnChain(d, t) /\ SpineView(d, t)
  BY DEF SpineInv
<1>3. t.bare => t.rollback = <<>> /\ Len(t.apply) = 1
  BY <1>1 DEF SpineInv, FirstInv
<1> QED BY <1>1, <1>2, <1>3 DEF Builds

-----------------------------------------------------------------------------
(* What a commit means for the chain and for the others.                   *)

LEMMA CommitGrows ==
    ASSUME NEW d, IsChain(d.blocks, d.tip), NEW S, NEW M, NEW t, IndexerInv(S, M, t),
           SpineInv(d, M, t), Steady(d, t), t.todo = {}, NEW e, e = View(d, t)
    PROVE  /\ IsChain(e.blocks, e.tip)
           /\ ToSet(t.apply) \subseteq e.blocks /\ e.blocks # {}
           /\ \A N \in SUBSET Block : Above(N, d) => Above(N, e)
<1>1. PICK a : a = Len(t.apply)
  OBVIOUS
<1>2. Builds(d, t) /\ SpineView(d, t)
  BY SpineBuilds
<1>3. e.blocks = GrownBy(d, t, a) /\ IsChain(e.blocks, e.tip)
  BY <1>1, <1>2, SpineDone
<1>4. IsUpdate(t)
  BY <1>2 DEF Builds
<1>5. a \in Nat /\ 1 <= a /\ DOMAIN t.apply = 1..a
  BY <1>1, <1>4, UpdateLists
<1>6. e.blocks = KeptBy(d, t) \cup {t.apply[i] : i \in 1..a}
  BY <1>3 DEF GrownBy
<1>7. ToSet(t.apply) \subseteq e.blocks
  BY <1>5, <1>6 DEF ToSet
<1>8. t.apply[1] \in e.blocks
  <2>1. 1 \in 1..a
    BY <1>5
  <2> QED BY <1>6, <2>1
<1>9. ASSUME NEW N \in SUBSET Block, Above(N, d) PROVE Above(N, e)
  <2>1. CASE d.tip = NoBlock
    <3>1. d.blocks = {}
      BY <2>1 DEF IsChain
    <3> QED BY <1>9, <3>1 DEF Above
  <2>2. CASE d.tip # NoBlock
    <3> DEFINE c0 == ParentHash[t.apply[1]]
    <3>1. c0 \in d.blocks
      BY <1>1, <1>2, <2>2, BuildShape
    <3>2. KeptBy(d, t) = UpTo(d.blocks, c0)
      BY <2>2 DEF KeptBy
    <3>3. d.blocks \subseteq Block
      BY DEF IsChain
    <3> HIDE DEF c0
    <3>4. \A c \in d.blocks : Height[c] \in Nat
      BY <3>3, HeightAssumption
    <3>5. c0 \in e.blocks
      BY <1>6, <3>1, <3>2, <3>4 DEF UpTo
    <3>6. \A c \in d.blocks : c \in e.blocks \/ ~(Height[c] <= Height[c0])
      BY <1>6, <3>2 DEF UpTo
    <3>7. ASSUME NEW b \in N PROVE \E c \in e.blocks : Height[c] <= Height[b]
      <4>1. PICK c \in d.blocks : Height[c] <= Height[b]
        BY <1>9 DEF Above
      <4>2. CASE c \in e.blocks
        BY <4>1, <4>2
      <4>3. CASE Height[c0] < Height[c]
        <5>1. Height[b] \in Nat
          BY HeightAssumption
        <5> QED BY <3>1, <3>4, <3>5, <4>1, <4>3, <5>1
      <4> QED BY <3>1, <3>4, <3>6, <4>2, <4>3
    <3> QED BY <3>7 DEF Above
  <2> QED BY <2>1, <2>2
<1> QED BY <1>3, <1>7, <1>8, <1>9

\* A commit that moves the chain finds no other update on it.
LEMMA OtherUpdate ==
    ASSUME NEW d, IsTables(d), IsChain(d.blocks, d.tip), NEW S, S \subseteq Block,
           NEW M, NEW t, TxnInv(S, t), IndexerInv(S, M, t), SpineInv(d, M, t), Steady(d, t), t.todo = {},
           NEW M2, NEW t2, TxnInv(S, t2), IndexerInv(S, M2, t2), SpineInv(d, M2, t2),
           t2.locks \cap t.locks = {}, NEW e, e = View(d, t)
    PROVE  ~Steady(e, t2) /\ SpineInv(e, M2, t2)
<1>1. e.blocks # {} /\ (Above(M2, d) => Above(M2, e))
  <2>1. M2 \in SUBSET Block
    BY DEF IndexerInv
  <2> QED BY <2>1, CommitGrows
<1>2. ASSUME Steady(e, t2) PROVE FALSE
  <2>1. t2.open /\ ~t2.bare
    BY <1>1, <1>2 DEF Steady
  <2>2. TipKey \in t2.locks
    BY <2>1 DEF IndexerInv, UpdateInv
  <2>3. OnChain(d, t2)
    BY <2>1 DEF SpineInv, Steady
  <2>4. d.tip # NoBlock /\ d.blocks # {}
    BY <2>1, <2>3 DEF OnChain
  <2>5. t.open /\ ~t.bare
    BY <2>4 DEF Steady
  <2>6. TipKey \in t.locks
    BY <2>5 DEF IndexerInv, UpdateInv
  <2> QED BY <2>2, <2>6
<1>3. ASSUME t2.open, t2.bare PROVE M2 = {} /\ FirstInv(e, t2)
  <2>1. M2 = {} /\ FirstInv(d, t2)
    BY <1>3 DEF SpineInv
  <2>2. SoundCode(t2)
    BY <1>3, IndexerUpdate
  <2>3. OwnKeys(t.own, t.locks) /\ IsTables(t.own)
    BY TxnKeys
  <2>4. Justified(d, t2)
    BY <2>1 DEF FirstInv
  <2>5. Justified(e, t2)
    BY <2>2, <2>3, <2>4, CommitJustified
  <2> QED BY <2>1, <2>5 DEF FirstInv
<1>4. Above(M2, d)
  BY DEF SpineInv
<1> QED BY <1>1, <1>2, <1>3, <1>4 DEF SpineInv

\* The statements of a first update.
LEMMA FirstStatements ==
    ASSUME NEW t, IsUpdate(t), t.rollback = <<>>, Len(t.apply) = 1, NEW b, b = t.apply[1],
           NEW u \in Places(t.code), NEW s, s = StatementOf(t, u)
    PROVE  \/ s = [sql |-> "insertBlock", b |-> b]
           \/ s = [sql |-> "tip", b |-> b]
           \/ \E k, m : StatementAt(b, k, m, s)
<1>0. Len(t.rollback) = 0
  BY EmptySeq
<1>1. UndoAt(t, u, s) \/ DeleteAt(t, u, s) \/ StoreAt(t, u, s) \/ DecodeAt(t, u, s) \/ MoveAt(t, u, s)
  BY UpdatePlaces
<1>2. ~UndoAt(t, u, s) /\ ~DeleteAt(t, u, s)
  BY <1>0 DEF UndoAt, DeleteAt
<1>3. CASE StoreAt(t, u, s)
  <2>1. PICK i \in 1..1 : s = [sql |-> "insertBlock", b |-> t.apply[i]]
    BY <1>3 DEF StoreAt
  <2>2. i = 1
    OBVIOUS
  <2> QED BY <2>1, <2>2
<1>4. CASE DecodeAt(t, u, s)
  <2>1. PICK n \in 1..1 : \E k, m : StatementAt(t.apply[n], k, m, s)
    BY <1>4 DEF DecodeAt
  <2>2. n = 1
    OBVIOUS
  <2> QED BY <2>1, <2>2
<1>5. CASE MoveAt(t, u, s)
  BY <1>5 DEF MoveAt
<1> QED BY <1>1, <1>2, <1>3, <1>4, <1>5

\* A first update of the only stored block leaves the spine alone, and on the
\* tables of that block it changes nothing.
LEMMA FirstAgain ==
    ASSUME NEW d, IsTables(d), IsChain(d.blocks, d.tip), NEW S, NEW M, NEW t, TxnInv(S, t),
           IndexerInv(S, M, t), t.open, FirstInv(d, t), NEW b, b = t.apply[1], d.blocks = {b},
           NEW e, e = View(d, t)
    PROVE  /\ e.blocks = d.blocks /\ e.tip = d.tip
           /\ Holds(d, ChainStatements(d.blocks)) => e = d
<1>1. IsUpdate(t) /\ SoundCode(t)
  BY IndexerUpdate
<1>2. IsDb(d) /\ OwnKeys(t.own, t.locks) /\ Justified(d, t)
  BY TxnKeys DEF IsTables, FirstInv
<1>3. t.rollback = <<>> /\ Len(t.apply) = 1
  BY DEF FirstInv
<1>4. d.tip = b /\ d.blocks \in SUBSET Block /\ b \in Block
  BY DEF IsChain
<1>5. ASSUME NEW u \in Places(t.code), NEW s, s = StatementOf(t, u), s.sql # "fail"
      PROVE  /\ Exec(d, s).blocks = d.blocks /\ Exec(d, s).tip = d.tip
             /\ Holds(d, ChainStatements(d.blocks)) => Exec(d, s) = d
  <2>1. \/ s = [sql |-> "insertBlock", b |-> b]
        \/ s = [sql |-> "tip", b |-> b]
        \/ \E k, m : StatementAt(b, k, m, s)
    BY <1>1, <1>3, <1>5, FirstStatements
  <2>2. CASE s = [sql |-> "insertBlock", b |-> b]
    <3>1. s.sql = "insertBlock" /\ s.b = b
      BY <2>2
    <3>2. Sound(s)
      BY <3>1 DEF Sound, BlockSql
    <3>3. Exec(d, s) = [d EXCEPT !.blocks = @ \cup {b}]
      BY <3>1 DEF Exec
    <3>4. d.blocks \cup {b} = d.blocks
      OBVIOUS
    <3>5. [d EXCEPT !.blocks = @ \cup {b}] = d
      BY <1>2, <3>4 DEF IsDb
    <3> QED BY <3>3, <3>5
  <2>3. CASE s = [sql |-> "tip", b |-> b]
    <3>1. s.sql = "tip" /\ s.b = b
      BY <2>3
    <3>2. Exec(d, s) = [d EXCEPT !.tip = b]
      BY <3>1 DEF Exec
    <3>3. [d EXCEPT !.tip = b] = d
      BY <1>2, <1>4 DEF IsDb
    <3> QED BY <3>2, <3>3
  <2>4. CASE \E k, m : StatementAt(b, k, m, s)
    <3>1. PICK k, m : StatementAt(b, k, m, s)
      BY <2>4
    <3>2. Sound(s) /\ s.sql \in {"spend", "insert", "conv", "sweep"}
      BY <1>4, <1>5, <3>1, BlockSound
    <3>3. Exec(d, s).blocks = d.blocks /\ Exec(d, s).tip = d.tip
      BY <1>2, <3>2, SpineLeft
    <3>4. Holds(d, ChainStatements(d.blocks)) => Exec(d, s) = d
      BY <1>2, <1>4, <1>5, <3>1, Reapplied
    <3> QED BY <3>3, <3>4
  <2> QED BY <2>1, <2>2, <2>3, <2>4
<1>6. View(d, t).blocks = d.blocks /\ View(d, t).tip = d.tip
  <2>1. \A u \in Places(t.code) :
            StatementOf(t, u).sql # "fail" =>
                /\ Exec(d, StatementOf(t, u)).blocks = d.blocks
                /\ Exec(d, StatementOf(t, u)).tip = d.tip
    BY <1>5
  <2> QED BY <1>2, <2>1, SpineToHold
<1>7. ASSUME Holds(d, ChainStatements(d.blocks)) PROVE e = d
  <2>1. \A u \in Places(t.code) : StatementOf(t, u).sql # "fail" => Exec(d, StatementOf(t, u)) = d
    BY <1>5, <1>7
  <2> QED BY <1>2, <2>1, NothingToHold
<1> QED BY <1>6, <1>7

\* reconcile's commits leave the spine alone; on the tables of a chain that
\* has the block its transaction holds nothing and changes nothing.
LEMMA ToolCommits ==
    ASSUME NEW d, IsTables(d), NEW S, NEW t, NEW r, TxnInv(S, t), ToolInv(d, t, r), t.open,
           NEW e, e = View(d, t)
    PROVE  /\ e.blocks = d.blocks /\ e.tip = d.tip
           /\ d.blocks \in SUBSET Block /\ Holds(d, ChainStatements(d.blocks)) /\ r.batch[1] \in d.blocks =>
                  e = d /\ t.locks = {}
<1>1. IsDb(d) /\ OwnKeys(t.own, t.locks) /\ Justified(d, t)
  BY TxnKeys DEF IsTables, ToolInv
<1>2. \A u \in Places(t.code) :
            StatementOf(t, u).sql # "fail" =>
                /\ Exec(d, StatementOf(t, u)).blocks = d.blocks
                /\ Exec(d, StatementOf(t, u)).tip = d.tip
  <2> TAKE u \in Places(t.code)
  <2> HAVE StatementOf(t, u).sql # "fail"
  <2>1. PICK s : s = StatementOf(t, u)
    OBVIOUS
  <2>2. Sound(s) /\ s.sql \in {"spend", "insert", "conv", "sweep"}
    BY <2>1, ToolSound
  <2> QED BY <1>1, <2>1, <2>2, SpineLeft
<1>3. View(d, t).blocks = d.blocks /\ View(d, t).tip = d.tip
  BY <1>1, <1>2, SpineToHold
<1>4. ASSUME d.blocks \in SUBSET Block, Holds(d, ChainStatements(d.blocks)), r.batch[1] \in d.blocks
      PROVE  e = d /\ t.locks = {}
  <2>1. \A u \in Places(t.code) : StatementOf(t, u).sql # "fail" => Exec(d, StatementOf(t, u)) = d
    <3> TAKE u \in Places(t.code)
    <3> HAVE StatementOf(t, u).sql # "fail"
    <3>1. PICK s, b : s = StatementOf(t, u) /\ b = r.batch[1]
      OBVIOUS
    <3>2. PICK k, m : StatementAt(b, k, m, s)
      BY <3>1, ToolSound
    <3>3. Exec(d, s) = d
      BY <1>1, <1>4, <3>1, <3>2, Reapplied
    <3> QED BY <3>1, <3>3
  <2> QED BY <1>1, <2>1, NothingToHold
<1> QED BY <1>3, <1>4

-----------------------------------------------------------------------------
(* What a statement, and the begin, mean for the process itself.           *)

\* An update stores blocks of S.
LEMMA UpdateStores ==
    ASSUME NEW S, NEW M, NEW t, IndexerInv(S, M, t), t.open, NEW u \in Places(t.code),
           NEW s, s = StatementOf(t, u), s.sql # "fail"
    PROVE  Stores(S, s)
<1> SUFFICES ASSUME s.sql \in {"insertBlock", "tip"} PROVE s.b \in S
  BY DEF Stores
<1>0. PICK r, a : r = Len(t.rollback) /\ a = Len(t.apply)
  OBVIOUS
<1>1. IsUpdate(t)
  BY IndexerUpdate
<1>2. a \in Nat /\ 1 <= a /\ DOMAIN t.apply = 1..a /\ \A i \in 1..a : t.apply[i] \in Block
  BY <1>0, <1>1, UpdateLists
<1>3. ToSet(t.apply) \subseteq S
  BY DEF IndexerInv, UpdateInv
<1>4. \A i \in 1..a : t.apply[i] \in S
  BY <1>2, <1>3 DEF ToSet
<1>5. UndoAt(t, u, s) \/ DeleteAt(t, u, s) \/ StoreAt(t, u, s) \/ DecodeAt(t, u, s) \/ MoveAt(t, u, s)
  BY <1>1, UpdatePlaces
<1>6. CASE UndoAt(t, u, s)
  <2>1. PICK i \in 1..r, m \in 1..4 : s = RollbackBlock(t.rollback[i])[m]
    BY <1>0, <1>6 DEF UndoAt
  <2>2. s.sql \in {"untrim", "unspend", "uncreate", "unconv"}
    BY <2>1, UndoSound
  <2> QED BY <2>2
<1>7. CASE DeleteAt(t, u, s)
  <2>1. PICK i : s = [sql |-> "deleteBlock", b |-> t.rollback[i]]
    BY <1>7 DEF DeleteAt
  <2>2. s.sql = "deleteBlock"
    BY <2>1
  <2> QED BY <2>2
<1>8. CASE StoreAt(t, u, s)
  <2>1. PICK i \in 1..a : s = [sql |-> "insertBlock", b |-> t.apply[i]]
    BY <1>0, <1>8 DEF StoreAt
  <2>2. s.b = t.apply[i]
    BY <2>1
  <2> QED BY <1>4, <2>2
<1>9. CASE DecodeAt(t, u, s)
  <2>1. PICK n \in 1..a : \E k, m : StatementAt(t.apply[n], k, m, s)
    BY <1>0, <1>9 DEF DecodeAt
  <2>2. PICK k, m : StatementAt(t.apply[n], k, m, s)
    BY <2>1
  <2>3. t.apply[n] \in Block
    BY <1>2
  <2>4. s.sql \in {"spend", "insert", "conv", "sweep", "fail"}
    BY <2>2, <2>3, StatementFacts
  <2> QED BY <2>4
<1>10. CASE MoveAt(t, u, s)
  <2>1. s = [sql |-> "tip", b |-> t.apply[a]]
    BY <1>0, <1>10 DEF MoveAt
  <2>2. s.b = t.apply[a]
    BY <2>1
  <2>3. a \in 1..a
    BY <1>2
  <2> QED BY <1>4, <2>2, <2>3
<1> QED BY <1>5, <1>6, <1>7, <1>8, <1>9, <1>10

LEMMA RunUpdate ==
    ASSUME NEW S, NEW d, IsTables(d), d.blocks \subseteq S, d.tip \in S \cup {NoBlock},
           NEW M, NEW t, TxnInv(S, t), IndexerInv(S, M, t), t.open,
           NEW u \in NextPlace(t), NEW s, s = StatementOf(t, u), s.sql # "fail",
           NEW t2, t2 = After(d, t, u)
    PROVE  /\ TxnInv(S, t2) /\ IndexerInv(S, M, t2)
           /\ t2.locks = t.locks \cup Changed(View(d, t), Exec(View(d, t), s))
           /\ Stepped(d, t, u, s, t2) /\ t2.bare = t.bare
           /\ IsChain(d.blocks, d.tip) /\ SpineInv(d, M, t) => SpineInv(d, M, t2)
           /\ IsChain(d.blocks, d.tip) /\ SpineInv(d, M, t)
              /\ Holds(d, ChainStatements(d.blocks)) /\ TableInv(d, t) => TableInv(d, t2)
<1>1. u \in Places(t.code) /\ t.todo \subseteq Places(t.code)
  BY DEF NextPlace, TxnInv
<1>2. IsUpdate(t)
  BY IndexerUpdate
<1>3. Sound(s)
  BY <1>1, <1>2, UpdateSound
<1>4. Stores(S, s)
  BY <1>1, UpdateStores
<1>5. /\ TxnInv(S, t2)
      /\ View(d, t2) = Exec(View(d, t), s)
      /\ t2.locks = t.locks \cup Changed(View(d, t), Exec(View(d, t), s))
      /\ t2.todo = t.todo \ {u}
      /\ t2.code = t.code /\ t2.rollback = t.rollback /\ t2.apply = t.apply
      /\ t2.bare = t.bare /\ t2.open = t.open
  <2>1. Ran(S, d, t, u, s, t2)
    BY <1>3, <1>4, RunTxn
  <2> QED BY <2>1 DEF Ran
<1>6. OwnKeys(t.own, t.locks) /\ IsTables(t.own)
  BY TxnKeys
<1>7. IsTables(View(d, t))
  BY <1>6, ViewTables
<1>8. Stepped(d, t, u, s, t2)
  <2>1. \A x \in t.todo, y \in Places(t.code) : Before(x, y) => y \in t.todo
    BY DEF TxnInv
  <2> QED BY <1>1, <1>5, <1>7, <2>1 DEF Stepped, IsTables
<1>9. IndexerInv(S, M, t2)
  BY <1>5 DEF IndexerInv, UpdateInv
<1>10. Steady(d, t2) <=> Steady(d, t)
  BY <1>5 DEF Steady
<1>11. ASSUME IsChain(d.blocks, d.tip), SpineInv(d, M, t) PROVE SpineInv(d, M, t2)
  <2>1. Above(M, d)
    BY <1>11 DEF SpineInv
  <2>2. ASSUME t2.bare PROVE M = {} /\ FirstInv(d, t2)
    <3>1. M = {} /\ FirstInv(d, t)
      BY <1>5, <1>11, <2>2 DEF SpineInv
    <3>2. Justified(d, t)
      BY <3>1 DEF FirstInv
    <3>3. Justified(d, t2)
      BY <1>1, <1>3, <1>5, <1>6, <3>2, RunJustified
    <3> QED BY <1>5, <3>1, <3>3 DEF FirstInv
  <2>3. ASSUME Steady(d, t2) PROVE OnChain(d, t2) /\ SpineView(d, t2)
    <3>1. Builds(d, t) /\ SpineView(d, t)
      BY <1>10, <1>11, <2>3, SpineBuilds
    <3>2. SpineView(d, t2)
      BY <1>8, <3>1, SpineStep
    <3>3. OnChain(d, t)
      BY <3>1 DEF Builds
    <3>4. OnChain(d, t2)
      BY <1>5, <3>3 DEF OnChain
    <3> QED BY <3>2, <3>4
  <2> QED BY <2>1, <2>2, <2>3 DEF SpineInv
<1>12. ASSUME IsChain(d.blocks, d.tip), SpineInv(d, M, t), Holds(d, ChainStatements(d.blocks)),
              TableInv(d, t)
       PROVE  TableInv(d, t2)
  <2> SUFFICES ASSUME Steady(d, t2) PROVE TableView(d, t2)
    BY DEF TableInv
  <2>1. Builds(d, t) /\ TableView(d, t)
    BY <1>10, <1>12, SpineBuilds DEF TableInv
  <2>2. Decodable(ChainStatements(d.blocks))
    BY <1>12 DEF Holds
  <2> QED BY <1>8, <2>1, <2>2, TableStep
<1> QED BY <1>5, <1>8, <1>9, <1>11, <1>12

LEMMA RunTool ==
    ASSUME NEW S, NEW d, IsTables(d), d.blocks \subseteq S, d.tip \in S \cup {NoBlock},
           NEW t, TxnInv(S, t), NEW r, ToolInv(d, t, r), t.open,
           NEW u \in NextPlace(t), NEW s, s = StatementOf(t, u), s.sql # "fail",
           NEW t2, t2 = After(d, t, u)
    PROVE  /\ TxnInv(S, t2) /\ ToolInv(d, t2, r)
           /\ t2.locks = t.locks \cup Changed(View(d, t), Exec(View(d, t), s))
<1>1. u \in Places(t.code)
  BY DEF NextPlace, TxnInv
<1>2. Sound(s) /\ s.sql \in {"spend", "insert", "conv", "sweep"}
  BY <1>1, ToolSound
<1>3. /\ TxnInv(S, t2)
      /\ t2.locks = t.locks \cup Changed(View(d, t), Exec(View(d, t), s))
      /\ t2.code = t.code /\ t2.bare = t.bare /\ t2.open = t.open
  <2>1. Stores(S, s)
    BY <1>2 DEF Stores
  <2>2. Ran(S, d, t, u, s, t2)
    BY <1>2, <2>1, RunTxn
  <2> QED BY <2>2 DEF Ran
<1>4. OwnKeys(t.own, t.locks) /\ IsTables(t.own) /\ Justified(d, t)
  BY TxnKeys DEF ToolInv
<1>5. Justified(d, t2)
  BY <1>1, <1>2, <1>3, <1>4, RunJustified
<1> QED BY <1>3, <1>5 DEF ToolInv

\* t is the transaction of that update as it begins.
Begun(d, L, rollback, apply, t) ==
    t = [code |-> Stages(rollback, apply), todo |-> Places(Stages(rollback, apply)), locks |-> L,
         own |-> Locked(d, L), rollback |-> rollback, apply |-> apply, bare |-> d.tip = NoBlock,
         open |-> TRUE]

Begins(S, d, M, L, t) ==
    /\ TxnInv(S, t) /\ IndexerInv(S, M, t) /\ t.locks = L
    /\ t.todo = Places(t.code) /\ t.bare = (d.tip = NoBlock) /\ View(d, t) = d
    /\ IsChain(d.blocks, d.tip) /\ Above(M, d) => Builds(d, t) /\ SpineInv(d, M, t)
    /\ IsChain(d.blocks, d.tip) /\ Above(M, d) /\ Holds(d, ChainStatements(d.blocks)) => TableInv(d, t)

LEMMA BeginUpdate ==
    ASSUME NEW S, S \subseteq Block, NEW d, IsTables(d), d.blocks \subseteq S, d.tip \in S \cup {NoBlock},
           NEW M, M \subseteq S, NEW rollback, rollback \in Seq(M),
           NEW apply, apply \in Seq(Block), ToSet(apply) \subseteq S \ M, Connects(d.tip, rollback, apply),
           IF M = {} THEN rollback = <<>> /\ Len(apply) = 1 ELSE ParentHash[apply[1]] \in M,
           NEW L, L = (IF d.tip = NoBlock THEN {} ELSE {TipKey}), NEW t, Begun(d, L, rollback, apply, t)
    PROVE  Begins(S, d, M, L, t)
<1> DEFINE code == Stages(rollback, apply)
<1>1. /\ t.code = code /\ t.todo = Places(code) /\ t.locks = L /\ t.own = Locked(d, L)
      /\ t.rollback = rollback /\ t.apply = apply /\ t.bare = (d.tip = NoBlock) /\ t.open = TRUE
  BY DEF Begun, code
<1>2. t = [code |-> t.code, todo |-> t.todo, locks |-> t.locks, own |-> t.own,
           rollback |-> t.rollback, apply |-> t.apply, bare |-> t.bare, open |-> t.open]
  BY DEF Begun, code
<1> HIDE DEF code
<1>3. TxnInv(S, t)
  <2>1. IsTables(t.own)
    BY <1>1, LockedTables
  <2>2. OwnKeys(t.own, t.locks)
    BY <1>1, LockedAt
  <2>3. t.own.blocks \subseteq S /\ t.own.tip \in S \cup {NoBlock}
    BY <1>1 DEF Locked
  <2>4. t.bare \in BOOLEAN /\ t.open \in BOOLEAN
    BY <1>1
  <2>5. t.todo = Places(t.code)
    BY <1>1
  <2> QED BY <1>1, <1>2, <2>1, <2>2, <2>3, <2>4, <2>5 DEF TxnInv, OwnKeys
<1>4. rollback \in Seq(Block) /\ apply # <<>>
  <2>1. M \subseteq Block
    OBVIOUS
  <2>2. rollback \in Seq(Block)
    BY <2>1
  <2> QED BY <2>2 DEF Connects
<1>5. IsUpdate(t)
  BY <1>1, <1>4 DEF IsUpdate, code
<1>6. IndexerInv(S, M, t)
  <2>1. ~t.bare => TipKey \in t.locks
    BY <1>1
  <2> QED BY <1>1, <1>4, <2>1 DEF IndexerInv, UpdateInv, code
<1>7. IsDb(d)
  BY DEF IsTables
<1>8. View(d, t) = d
  BY <1>1, <1>7, BeginView
<1>9. ASSUME IsChain(d.blocks, d.tip), Above(M, d)
      PROVE  Builds(d, t) /\ (t.bare => M = {})
  <2>1. M \subseteq Block /\ ToSet(t.apply) \cap M = {}
    BY <1>1
  <2>2. /\ t.bare = (d.tip = NoBlock) /\ t.rollback \in Seq(M)
        /\ Connects(d.tip, t.rollback, t.apply)
        /\ IF M = {} THEN t.rollback = <<>> /\ Len(t.apply) = 1 ELSE ParentHash[t.apply[1]] \in M
    BY <1>1
  <2> QED BY <1>5, <1>9, <2>1, <2>2, BeginBuilds
<1>10. ASSUME IsChain(d.blocks, d.tip), Above(M, d) PROVE SpineInv(d, M, t)
  <2>1. Builds(d, t) /\ (t.bare => M = {})
    BY <1>9, <1>10
  <2>2. SpineView(d, t)
    BY <1>1, <1>5, <1>8, SpineStart
  <2>3. OnChain(d, t)
    BY <2>1 DEF Builds
  <2>4. ASSUME t.bare PROVE FirstInv(d, t)
    <3>1. t.locks = {}
      BY <1>1, <2>4
    <3>2. t.rollback = <<>> /\ Len(t.apply) = 1
      BY <2>1, <2>4 DEF Builds
    <3> QED BY <3>1, <3>2 DEF FirstInv, Justified
  <2> QED BY <1>10, <2>1, <2>2, <2>3, <2>4 DEF SpineInv
<1>11. ASSUME IsChain(d.blocks, d.tip), Above(M, d), Holds(d, ChainStatements(d.blocks))
       PROVE  TableInv(d, t)
  <2>1. Builds(d, t)
    BY <1>9, <1>11
  <2>2. TableView(d, t)
    BY <1>1, <1>8, <1>11, <2>1, TableStart
  <2> QED BY <2>2 DEF TableInv
<1>12. t.todo = Places(t.code)
  BY <1>1
<1> QED BY <1>1, <1>3, <1>6, <1>8, <1>9, <1>10, <1>11, <1>12 DEF Begins

-----------------------------------------------------------------------------
(* The steps that commit nothing.                                          *)

\* What holds of the database and the transactions.
StoreInv == WritersInv /\ ChainInv /\ TablesInv

LEMMA TxnAt ==
    ASSUME NEW T, NEW p \in DOMAIN T, NEW t, NEW T2, T2 = [T EXCEPT ![p] = t]
    PROVE  /\ DOMAIN T2 = DOMAIN T /\ T2[p] = t
           /\ \A q \in DOMAIN T : q # p => T2[q] = T[q]
OBVIOUS

LEMMA ApartAfter ==
    ASSUME NEW T, Apart(T), NEW p \in DOMAIN T, NEW t, t.locks \cap Held(T, p) = {},
           NEW T2, T2 = [T EXCEPT ![p] = t]
    PROVE  Apart(T2)
<1>1. DOMAIN T2 = DOMAIN T /\ T2[p] = t /\ \A q \in DOMAIN T : q # p => T2[q] = T[q]
  OBVIOUS
<1>2. \A q \in DOMAIN T : q # p => t.locks \cap T[q].locks = {}
  BY DEF Held
<1>3. \A q, r \in DOMAIN T : q # r => T[q].locks \cap T[r].locks = {}
  BY DEF Apart
<1>4. ASSUME NEW q \in DOMAIN T, NEW r \in DOMAIN T, q # r PROVE T2[q].locks \cap T2[r].locks = {}
  <2>1. CASE q = p
    <3>1. T2[q] = t /\ T2[r] = T[r] /\ r # p
      BY <1>1, <1>4, <2>1
    <3> QED BY <1>2, <3>1
  <2>2. CASE r = p
    <3>1. T2[r] = t /\ T2[q] = T[q] /\ q # p
      BY <1>1, <1>4, <2>2
    <3>2. t.locks \cap T[q].locks = {}
      BY <1>2, <3>1
    <3> QED BY <3>1, <3>2
  <2>3. CASE q # p /\ r # p
    <3>1. T2[r] = T[r] /\ T2[q] = T[q]
      BY <1>1, <2>3
    <3> QED BY <1>3, <1>4, <3>1
  <2> QED BY <2>1, <2>2, <2>3
<1> QED BY <1>1, <1>4 DEF Apart

\* An indexer's transaction becomes t.
LEMMA IndexerTxn ==
    ASSUME StoreInv, NEW p \in DOMAIN mind, NEW t, txn' = [txn EXCEPT ![p] = t],
           TxnInv(seen, t), t.locks \cap Held(txn, p) = {}, IndexerInv(seen, mind[p], t),
           ~raced => SpineInv(db, mind[p], t),
           whole /\ ~raced /\ ~foreign => TableInv(db, t),
           UNCHANGED <<db, mind, nodeHead, seen, raced, rec, foreign, whole>>
    PROVE  StoreInv'
<1> USE DEF StoreInv
<1>1. p \in DOMAIN txn /\ p # Tool /\ DOMAIN mind = DOMAIN txn \ {Tool}
  BY DEF WritersInv
<1>2. DOMAIN txn' = DOMAIN txn /\ txn'[p] = t /\ \A q \in DOMAIN txn : q # p => txn'[q] = txn[q]
  BY <1>1, TxnAt
<1>3. Apart(txn')
  <2>1. Apart(txn)
    BY DEF WritersInv
  <2> QED BY <1>1, <2>1, ApartAfter
<1>4. \A q \in DOMAIN txn : TxnInv(seen, txn'[q])
  BY <1>1, <1>2 DEF WritersInv
<1>5. \A q \in DOMAIN mind : IndexerInv(seen, mind[q], txn'[q])
  BY <1>1, <1>2 DEF WritersInv
<1>6. IF Tool \in DOMAIN txn THEN ToolInv(db, txn'[Tool], rec) ELSE rec = Idle
  BY <1>1, <1>2 DEF WritersInv
<1>7. WritersInv'
  BY <1>1, <1>2, <1>3, <1>4, <1>5, <1>6 DEF WritersInv
<1>8. ChainInv'
  <2>1. ASSUME ~raced PROVE \A q \in DOMAIN mind : SpineInv(db, mind[q], txn'[q])
    BY <1>1, <1>2, <2>1 DEF ChainInv
  <2> QED BY <2>1 DEF ChainInv
<1>9. TablesInv'
  <2>1. ASSUME whole, ~raced, ~foreign PROVE \A q \in DOMAIN mind : TableInv(db, txn'[q])
    BY <1>1, <1>2, <2>1 DEF TablesInv
  <2> QED BY <2>1 DEF TablesInv
<1> QED BY <1>7, <1>8, <1>9

\* reconcile's transaction becomes t, and its locals rec'.
LEMMA ToolTxn ==
    ASSUME StoreInv, Tool \in DOMAIN txn, NEW t, txn' = [txn EXCEPT ![Tool] = t],
           TxnInv(seen, t), t.locks \cap Held(txn, Tool) = {}, ToolInv(db, t, rec'),
           UNCHANGED <<db, mind, nodeHead, seen, raced, foreign, whole>>
    PROVE  StoreInv'
<1> USE DEF StoreInv
<1>1. Tool \notin DOMAIN mind /\ DOMAIN mind = DOMAIN txn \ {Tool}
  BY DEF WritersInv
<1>2. DOMAIN txn' = DOMAIN txn /\ txn'[Tool] = t /\ \A q \in DOMAIN txn : q # Tool => txn'[q] = txn[q]
  BY TxnAt
<1>3. Apart(txn')
  <2>1. Apart(txn)
    BY DEF WritersInv
  <2> QED BY <2>1, ApartAfter
<1>4. \A q \in DOMAIN txn : TxnInv(seen, txn'[q])
  BY <1>2 DEF WritersInv
<1>5. \A q \in DOMAIN mind : txn'[q] = txn[q]
  BY <1>1, <1>2
<1>6. \A q \in DOMAIN mind : IndexerInv(seen, mind[q], txn'[q])
  BY <1>5 DEF WritersInv
<1>7. WritersInv'
  BY <1>1, <1>2, <1>3, <1>4, <1>6 DEF WritersInv
<1>8. ChainInv'
  BY <1>5 DEF ChainInv
<1>9. TablesInv'
  BY <1>5 DEF TablesInv
<1> QED BY <1>7, <1>8, <1>9

\* A transaction that ends.
LEMMA NothingHeld ==
    ASSUME NEW T, NEW p
    PROVE  NoTxn.locks \cap Held(T, p) = {}
BY NoTxnFacts

\* Facts about one process.
LEMMA OfProcess ==
    ASSUME WritersInv, NEW p \in DOMAIN mind
    PROVE  /\ p \in DOMAIN txn /\ p # Tool
           /\ TxnInv(seen, txn[p]) /\ IndexerInv(seen, mind[p], txn[p])
           /\ mind[p] \subseteq seen
BY DEF WritersInv, IndexerInv

LEMMA NodeAdvanceKeeps ==
    ASSUME StoreInv, NEW b \in Block, NodeAdvance(b), UNCHANGED <<rec, foreign, whole>>
    PROVE  StoreInv'
<1> USE DEF StoreInv
<1>1. UNCHANGED <<db, txn, mind, raced>> /\ seen' = seen \cup Ancestry[b] /\ nodeHead' = b
  BY DEF NodeAdvance
<1>2. Ancestry[b] \subseteq Block
  BY DEF Ancestry
<1>3. \A p \in DOMAIN txn : TxnInv(seen', txn[p])
  BY <1>1, TxnGrows DEF WritersInv
<1>4. \A p \in DOMAIN mind : IndexerInv(seen', mind[p], txn[p])
  BY <1>1, IndexerGrows DEF WritersInv
<1>5. WritersInv'
  BY <1>1, <1>2, <1>3, <1>4 DEF WritersInv
<1>6. ChainInv'
  BY <1>1 DEF ChainInv
<1>7. TablesInv'
  BY <1>1 DEF TablesInv
<1> QED BY <1>5, <1>6, <1>7

LEMMA LoadKeeps ==
    ASSUME StoreInv, NEW p \in DOMAIN mind, Load(p), UNCHANGED <<rec, foreign, whole>>
    PROVE  StoreInv'
<1> USE DEF StoreInv
<1>1. /\ ~txn[p].open /\ mind' = [mind EXCEPT ![p] = db.blocks]
      /\ UNCHANGED <<db, txn, nodeHead, seen, raced>>
  BY DEF Load
<1>2. DOMAIN mind' = DOMAIN mind /\ mind'[p] = db.blocks
      /\ \A q \in DOMAIN mind : q # p => mind'[q] = mind[q]
  BY <1>1, TxnAt
<1>3. \A q \in DOMAIN mind : IndexerInv(seen, mind'[q], txn[q])
  <2>1. IndexerInv(seen, db.blocks, txn[p])
    BY <1>1 DEF IndexerInv, WritersInv
  <2> QED BY <1>2, <2>1 DEF WritersInv
<1>4. WritersInv'
  BY <1>1, <1>2, <1>3 DEF WritersInv
<1>5. ASSUME ~raced PROVE \A q \in DOMAIN mind : SpineInv(db, mind'[q], txn[q])
  <2>1. Above(db.blocks, db)
    <3>1. \A c \in db.blocks : Height[c] \in Nat
      BY HeightAssumption DEF WritersInv
    <3> QED BY <3>1 DEF Above
  <2>2. SpineInv(db, db.blocks, txn[p])
    BY <1>1, <2>1 DEF SpineInv, Steady
  <2> QED BY <1>2, <1>5, <2>2 DEF ChainInv
<1>6. ChainInv'
  BY <1>1, <1>2, <1>5 DEF ChainInv
<1>7. TablesInv'
  BY <1>1, <1>2 DEF TablesInv
<1> QED BY <1>4, <1>6, <1>7

LEMMA AbortKeeps ==
    ASSUME StoreInv, NEW p \in DOMAIN mind, Abort(p), UNCHANGED <<rec, foreign, whole>>
    PROVE  StoreInv'
<1> USE DEF StoreInv
<1>1. txn' = [txn EXCEPT ![p] = NoTxn] /\ UNCHANGED <<db, mind, nodeHead, seen, raced>>
  BY DEF Abort
<1>2. TxnInv(seen, NoTxn) /\ NoTxn.locks \cap Held(txn, p) = {}
  BY NoTxnFacts, NothingHeld
<1>3. IndexerInv(seen, mind[p], NoTxn) /\ TableInv(db, NoTxn)
  BY OfProcess, NoTxnInvs
<1>4. ASSUME ~raced PROVE SpineInv(db, mind[p], NoTxn)
  <2>1. Above(mind[p], db)
    BY <1>4 DEF ChainInv, SpineInv
  <2> QED BY <2>1, NoTxnInvs
<1>5. StoreInv
  OBVIOUS
<1> HIDE DEF StoreInv
<1> QED BY <1>1, <1>2, <1>3, <1>4, <1>5, IndexerTxn

\* What Begin(p, _) makes p's transaction.
BegunBy(p, t) ==
    /\ txn' = [txn EXCEPT ![p] = t] /\ t.locks \cap Held(txn, p) = {}
    /\ Begins(seen, db, mind[p], TipLock(p), t)
    /\ UNCHANGED <<db, mind, nodeHead, seen, raced>>

LEMMA BeginTxn ==
    ASSUME StoreInv, NEW p \in DOMAIN mind, NEW apply \in Branches, Begin(p, apply)
    PROVE  \E t : BegunBy(p, t)
<1> DEFINE M == mind[p]
           rollback == IF M = {} THEN <<>> ELSE RollbackTo(M, ParentHash[apply[1]])
           L == TipLock(p)
           code == Stages(rollback, apply)
           t == [code |-> code, todo |-> Places(code), locks |-> L, own |-> Locked(db, L),
                 rollback |-> rollback, apply |-> apply, bare |-> db.tip = NoBlock, open |-> TRUE]
<1>1. /\ ToSet(apply) \subseteq seen \ M
      /\ IF M = {} THEN Len(apply) = 1 ELSE ParentHash[apply[1]] \in M
      /\ rollback \in Seq(M)
      /\ L \cap Held(txn, p) = {}
      /\ Connects(db.tip, rollback, apply)
      /\ txn' = [txn EXCEPT ![p] = t]
      /\ UNCHANGED <<db, mind, nodeHead, seen, raced>>
  BY DEF Begin
<1>2. apply \in Seq(Block)
  <2>1. apply \in UNION {[1..m -> Block] : m \in 0..MaxApply}
    BY DEF Branches, BoundedSeq, SeqOf
  <2>2. PICK m \in 0..MaxApply : apply \in [1..m -> Block]
    BY <2>1
  <2>3. m \in Nat
    BY MaxApplyAssumption
  <2> QED BY <2>2, <2>3, SeqDef
<1>3. L = (IF db.tip = NoBlock THEN {} ELSE {TipKey})
  BY DEF TipLock
<1>4. Begun(db, L, rollback, apply, t)
  BY DEF Begun
<1>5. IF M = {} THEN rollback = <<>> /\ Len(apply) = 1 ELSE ParentHash[apply[1]] \in M
  BY <1>1
<1>6. M \subseteq seen /\ seen \subseteq Block
  BY OfProcess DEF StoreInv, WritersInv
<1>7. IsTables(db) /\ db.blocks \subseteq seen /\ db.tip \in seen \cup {NoBlock}
  BY DEF StoreInv, WritersInv
<1> HIDE DEF rollback, L, code, t, M
<1>8. Begins(seen, db, M, L, t)
  BY <1>1, <1>2, <1>3, <1>4, <1>5, <1>6, <1>7, BeginUpdate
<1>9. t.locks = L
  BY <1>8 DEF Begins
<1>10. BegunBy(p, t)
  BY <1>1, <1>8, <1>9 DEF BegunBy, M, L
<1> QED BY <1>10

LEMMA BeginKeeps ==
    ASSUME StoreInv, NEW p \in DOMAIN mind, NEW apply \in Branches, Begin(p, apply),
           UNCHANGED <<rec, foreign, whole>>
    PROVE  StoreInv'
<1>1. PICK t : BegunBy(p, t)
  BY BeginTxn
<1>2. /\ txn' = [txn EXCEPT ![p] = t] /\ t.locks \cap Held(txn, p) = {}
      /\ Begins(seen, db, mind[p], TipLock(p), t)
      /\ UNCHANGED <<db, mind, nodeHead, seen, raced>>
  BY <1>1 DEF BegunBy
<1>3. /\ TxnInv(seen, t) /\ IndexerInv(seen, mind[p], t)
      /\ IsChain(db.blocks, db.tip) /\ Above(mind[p], db) => SpineInv(db, mind[p], t)
      /\ IsChain(db.blocks, db.tip) /\ Above(mind[p], db) /\ Holds(db, ChainStatements(db.blocks)) =>
             TableInv(db, t)
  BY <1>2 DEF Begins
<1>4. ASSUME ~raced PROVE IsChain(db.blocks, db.tip) /\ Above(mind[p], db)
  BY <1>4 DEF StoreInv, ChainInv, SpineInv
<1>5. ASSUME whole, ~raced, ~foreign PROVE Holds(db, ChainStatements(db.blocks))
  BY <1>5 DEF StoreInv, TablesInv
<1>6. ~raced => SpineInv(db, mind[p], t)
  BY <1>3, <1>4
<1>7. whole /\ ~raced /\ ~foreign => TableInv(db, t)
  BY <1>3, <1>4, <1>5
<1> QED BY <1>2, <1>3, <1>6, <1>7, IndexerTxn

\* A statement's keys are free when it runs.
LEMMA RunKeys ==
    ASSUME Apart(txn), NEW p \in DOMAIN txn, NEW u \in NextPlace(txn[p]),
           NEW s, s = StatementOf(txn[p], u), s.sql # "fail",
           Wanted(p) \cap Held(txn, p) = {},
           NEW L, L = txn[p].locks \cup Changed(View(db, txn[p]), Exec(View(db, txn[p]), s))
    PROVE  L \cap Held(txn, p) = {}
<1>1. Changed(View(db, txn[p]), Exec(View(db, txn[p]), s)) \subseteq Wants(db, txn[p], s)
  BY DEF Wants
<1>2. Wants(db, txn[p], s) \subseteq Wanted(p)
  BY DEF Wanted
<1>3. txn[p].locks \cap Held(txn, p) = {}
  BY DEF Apart, Held
<1> QED BY <1>1, <1>2, <1>3

LEMMA RunKeeps ==
    ASSUME StoreInv, NEW p \in DOMAIN mind, Run(p), UNCHANGED <<rec, foreign, whole>>
    PROVE  StoreInv'
<1>1. PICK u \in NextPlace(txn[p]) :
          /\ StatementOf(txn[p], u).sql # "fail"
          /\ Wanted(p) \cap Held(txn, p) = {}
          /\ txn' = [txn EXCEPT ![p] = After(db, txn[p], u)]
  BY DEF Run, RunStatement
<1>2. UNCHANGED <<db, mind, nodeHead, seen, raced>>
  BY DEF Run
<1>3. PICK s, t2 : s = StatementOf(txn[p], u) /\ t2 = After(db, txn[p], u)
  OBVIOUS
<1>4. /\ p \in DOMAIN txn /\ TxnInv(seen, txn[p]) /\ IndexerInv(seen, mind[p], txn[p])
      /\ IsTables(db) /\ db.blocks \subseteq seen /\ db.tip \in seen \cup {NoBlock} /\ Apart(txn)
  BY OfProcess DEF StoreInv, WritersInv
<1>5. txn[p].open
  <2>1. u \in txn[p].todo
    BY DEF NextPlace
  <2>2. NoTxn.todo = {}
    BY DEF NoTxn
  <2> QED BY <1>4, <2>1, <2>2 DEF TxnInv
<1>6. /\ TxnInv(seen, t2) /\ IndexerInv(seen, mind[p], t2)
      /\ t2.locks = txn[p].locks \cup Changed(View(db, txn[p]), Exec(View(db, txn[p]), s))
      /\ IsChain(db.blocks, db.tip) /\ SpineInv(db, mind[p], txn[p]) => SpineInv(db, mind[p], t2)
      /\ IsChain(db.blocks, db.tip) /\ SpineInv(db, mind[p], txn[p])
         /\ Holds(db, ChainStatements(db.blocks)) /\ TableInv(db, txn[p]) => TableInv(db, t2)
  BY <1>1, <1>3, <1>4, <1>5, RunUpdate
<1>7. t2.locks \cap Held(txn, p) = {}
  BY <1>1, <1>3, <1>4, <1>6, RunKeys
<1>8. ASSUME ~raced PROVE IsChain(db.blocks, db.tip) /\ SpineInv(db, mind[p], txn[p])
  BY <1>8 DEF StoreInv, ChainInv
<1>9. ASSUME whole, ~raced, ~foreign PROVE Holds(db, ChainStatements(db.blocks)) /\ TableInv(db, txn[p])
  BY <1>9 DEF StoreInv, TablesInv
<1>10. ~raced => SpineInv(db, mind[p], t2)
  BY <1>6, <1>8
<1>11. whole /\ ~raced /\ ~foreign => TableInv(db, t2)
  BY <1>6, <1>8, <1>9
<1> QED BY <1>1, <1>2, <1>3, <1>6, <1>7, <1>10, <1>11, IndexerTxn

-----------------------------------------------------------------------------
(* The steps that commit.                                                  *)

\* What is committed when process p commits, and what is left of it.
LEMMA CommitTxns ==
    ASSUME WritersInv, NEW p \in DOMAIN txn, NEW e, e = View(db, txn[p]), NEW T, T = [txn EXCEPT ![p] = NoTxn]
    PROVE  /\ IsTables(e) /\ e.blocks \subseteq seen /\ e.tip \in seen \cup {NoBlock}
           /\ DOMAIN T = DOMAIN txn /\ T[p] = NoTxn /\ \A q \in DOMAIN txn : q # p => T[q] = txn[q]
           /\ \A q \in DOMAIN txn : TxnInv(seen, T[q])
           /\ Apart(T)
<1>1. TxnInv(seen, txn[p]) /\ IsTables(db) /\ db.blocks \subseteq seen /\ db.tip \in seen \cup {NoBlock}
  BY DEF WritersInv
<1>2. IsTables(txn[p].own)
  BY <1>1, TxnKeys
<1>3. IsTables(e)
  BY <1>1, <1>2, ViewTables
<1>4. e.blocks \subseteq seen /\ e.tip \in seen \cup {NoBlock}
  BY <1>1, ViewSpine
<1>5. DOMAIN T = DOMAIN txn /\ T[p] = NoTxn /\ \A q \in DOMAIN txn : q # p => T[q] = txn[q]
  BY TxnAt
<1>6. \A q \in DOMAIN txn : TxnInv(seen, T[q])
  BY <1>5, NoTxnFacts DEF WritersInv
<1>7. Apart(T)
  <2>1. Apart(txn) /\ NoTxn.locks \cap Held(txn, p) = {}
    BY NothingHeld DEF WritersInv
  <2> QED BY <2>1, ApartAfter
<1> QED BY <1>3, <1>4, <1>5, <1>6, <1>7

\* reconcile's keys outlive the commit of an update.
LEMMA CommitTool ==
    ASSUME WritersInv, NEW p \in DOMAIN mind, Tool \in DOMAIN txn, NEW e, e = View(db, txn[p])
    PROVE  ToolInv(e, txn[Tool], rec)
<1>1. ToolInv(db, txn[Tool], rec) /\ TxnInv(seen, txn[Tool]) /\ IsTables(db)
  BY DEF WritersInv
<1>2. p \in DOMAIN txn /\ p # Tool /\ TxnInv(seen, txn[p])
  BY OfProcess
<1>3. txn[Tool].open \/ txn[Tool] = NoTxn
  BY <1>1 DEF TxnInv
<1>4. SoundCode(txn[Tool])
  BY <1>1, <1>3, ToolSoundCode
<1>5. txn[Tool].locks \cap txn[p].locks = {}
  BY <1>2 DEF WritersInv, Apart
<1>6. OwnKeys(txn[p].own, txn[p].locks) /\ IsTables(txn[p].own) /\ Justified(db, txn[Tool])
  BY <1>1, <1>2, TxnKeys DEF ToolInv
<1>7. Justified(e, txn[Tool])
  BY <1>1, <1>4, <1>5, <1>6, CommitJustified
<1> QED BY <1>1, <1>7 DEF ToolInv

LEMMA OneBlock ==
    ASSUME NEW s, s \in Seq(Block), Len(s) = 1
    PROVE  ToSet(s) = {s[1]}
<1>1. DOMAIN s = 1..1
  BY LenProperties
<1> QED BY <1>1 DEF ToSet

\* The spine after the commit of process p: it grows, or p was a first update
\* of the block that is stored already.
LEMMA CommitChain ==
    ASSUME StoreInv, ~raced, NEW p \in DOMAIN mind, NEW t, t = txn[p], t.open, t.todo = {},
           ~(t.bare /\ db.blocks \notin {{}, Goal(p)}), NEW e, e = View(db, t)
    PROVE  /\ IsChain(e.blocks, e.tip)
           /\ Above(mind[p], e) /\ Above(Goal(p), e)
           /\ \A q \in DOMAIN mind : q # p => SpineInv(e, mind[q], txn[q])
           /\ whole /\ ~foreign =>
                  /\ Holds(e, ChainStatements(e.blocks))
                  /\ \A q \in DOMAIN mind : q # p => TableInv(e, txn[q])
<1>1. /\ p \in DOMAIN txn /\ p # Tool /\ TxnInv(seen, t) /\ IndexerInv(seen, mind[p], t)
      /\ mind[p] \subseteq seen
  BY OfProcess DEF StoreInv
<1>2. IsTables(db) /\ seen \subseteq Block
  BY DEF StoreInv, WritersInv
<1>3. IsChain(db.blocks, db.tip) /\ SpineInv(db, mind[p], t)
  BY DEF StoreInv, ChainInv
<1>4. \A q \in DOMAIN mind : /\ TxnInv(seen, txn[q]) /\ IndexerInv(seen, mind[q], txn[q])
                             /\ SpineInv(db, mind[q], txn[q])
  BY OfProcess DEF StoreInv, ChainInv
<1>5. \A q \in DOMAIN mind : q # p => txn[q].locks \cap t.locks = {}
  BY <1>1 DEF StoreInv, WritersInv, Apart
<1>6. ASSUME whole, ~foreign PROVE Holds(db, ChainStatements(db.blocks)) /\ TableInv(db, t)
  BY <1>6 DEF StoreInv, TablesInv
<1>7. Goal(p) \subseteq mind[p] \cup ToSet(t.apply) /\ (mind[p] = {} => Goal(p) = ToSet(t.apply))
  BY DEF Goal
<1>8. IsUpdate(t)
  BY <1>1, IndexerUpdate
<1>9. CASE Steady(db, t)
  <2>1. /\ IsChain(e.blocks, e.tip)
        /\ ToSet(t.apply) \subseteq e.blocks /\ e.blocks # {}
        /\ \A N \in SUBSET Block : Above(N, db) => Above(N, e)
    BY <1>1, <1>3, <1>9, CommitGrows
  <2>2. Above(mind[p], e)
    <3>1. Above(mind[p], db) /\ mind[p] \in SUBSET Block
      BY <1>1, <1>2, <1>3 DEF SpineInv
    <3> QED BY <2>1, <3>1
  <2>3. Above(Goal(p), e)
    <3>1. \A b \in e.blocks : Height[b] \in Nat
      BY <2>1, HeightAssumption DEF IsChain
    <3>2. Above(ToSet(t.apply), e)
      BY <2>1, <3>1 DEF Above
    <3> QED BY <1>7, <2>2, <3>2 DEF Above
  <2>4. ASSUME NEW q \in DOMAIN mind, q # p PROVE ~Steady(e, txn[q]) /\ SpineInv(e, mind[q], txn[q])
    BY <1>1, <1>2, <1>3, <1>4, <1>5, <1>9, <2>4, OtherUpdate
  <2>5. ASSUME whole, ~foreign PROVE Holds(e, ChainStatements(e.blocks))
    <3>1. PICK a : a = Len(t.apply)
      OBVIOUS
    <3>2. Builds(db, t) /\ SpineView(db, t)
      BY <1>1, <1>3, <1>9, SpineBuilds
    <3>3. TableView(db, t)
      BY <1>6, <1>9, <2>5 DEF TableInv
    <3>4. Holds(View(db, t), ChainStatements(GrownBy(db, t, a)))
      BY <3>1, <3>2, <3>3, TableDone
    <3>5. View(db, t).blocks = GrownBy(db, t, a)
      BY <3>1, <3>2, SpineDone
    <3> QED BY <3>4, <3>5
  <2>6. \A q \in DOMAIN mind : q # p => TableInv(e, txn[q])
    BY <2>4 DEF TableInv
  <2> QED BY <2>1, <2>2, <2>3, <2>4, <2>5, <2>6
<1>10. CASE ~Steady(db, t)
  <2>1. t.bare /\ db.blocks # {}
    BY <1>10 DEF Steady
  <2>2. mind[p] = {} /\ FirstInv(db, t)
    BY <1>3, <2>1 DEF SpineInv
  <2>3. Len(t.apply) = 1 /\ t.apply \in Seq(Block)
    BY <1>8, <2>2 DEF FirstInv, IsUpdate
  <2>4. PICK b : b = t.apply[1]
    OBVIOUS
  <2>5. Goal(p) = {b}
    BY <1>7, <2>2, <2>3, <2>4, OneBlock
  <2>6. db.blocks = {b}
    BY <2>1, <2>5
  <2>7. /\ e.blocks = db.blocks /\ e.tip = db.tip
        /\ Holds(db, ChainStatements(db.blocks)) => e = db
    BY <1>1, <1>2, <1>3, <2>2, <2>4, <2>6, FirstAgain
  <2>8. Above(mind[p], e)
    BY <2>2 DEF Above
  <2>9. Above(Goal(p), e)
    <3>1. b \in Block
      BY <1>3, <2>6 DEF IsChain
    <3>2. Height[b] <= Height[b]
      BY <3>1, HeightAssumption
    <3> QED BY <2>5, <2>6, <2>7, <3>2 DEF Above
  <2>10. ASSUME NEW q \in DOMAIN mind, q # p PROVE SpineInv(e, mind[q], txn[q])
    <3>1. ASSUME txn[q].open, txn[q].bare PROVE Justified(e, txn[q])
      <4>1. FirstInv(db, txn[q])
        BY <1>4, <3>1 DEF SpineInv
      <4>2. Justified(db, txn[q])
        BY <4>1 DEF FirstInv
      <4>3. SoundCode(txn[q])
        BY <1>4, <3>1, IndexerUpdate
      <4>4. OwnKeys(t.own, t.locks) /\ IsTables(t.own)
        BY <1>1, TxnKeys
      <4>5. txn[q].locks \cap t.locks = {}
        BY <1>5, <2>10
      <4> QED BY <1>2, <4>2, <4>3, <4>4, <4>5, CommitJustified
    <3> QED BY <1>4, <2>7, <3>1, SameSpine
  <2>11. ASSUME whole, ~foreign
         PROVE  /\ Holds(e, ChainStatements(e.blocks))
                /\ \A q \in DOMAIN mind : q # p => TableInv(e, txn[q])
    <3>1. Holds(db, ChainStatements(db.blocks)) /\ e = db
      BY <1>6, <2>7, <2>11
    <3>2. \A q \in DOMAIN mind : TableInv(db, txn[q])
      BY <2>11 DEF StoreInv, TablesInv
    <3> QED BY <3>1, <3>2
  <2>12. IsChain(e.blocks, e.tip)
    BY <1>3, <2>7
  <2> QED BY <2>8, <2>9, <2>10, <2>11, <2>12
<1> QED BY <1>9, <1>10

LEMMA CommitKeeps ==
    ASSUME StoreInv, NEW p \in DOMAIN mind, Commit(p), UNCHANGED <<rec, foreign, whole>>
    PROVE  StoreInv'
<1>1. PICK t, e, T : t = txn[p] /\ e = View(db, t) /\ T = [txn EXCEPT ![p] = NoTxn]
  OBVIOUS
<1>2. t.open /\ t.todo = {} /\ db' = e /\ txn' = T /\ UNCHANGED <<nodeHead, seen>>
  BY <1>1 DEF Commit
<1>3. mind' \in {mind, [mind EXCEPT ![p] = Goal(p)]}
  BY DEF Commit
<1>4. raced' = (raced \/ (t.bare /\ db.blocks \notin {{}, Goal(p)}))
  BY <1>1 DEF Commit
<1>5. /\ DOMAIN mind' = DOMAIN mind /\ mind'[p] \in {mind[p], Goal(p)}
      /\ \A q \in DOMAIN mind : q # p => mind'[q] = mind[q]
  BY <1>3, TxnAt
<1>6. WritersInv /\ ChainInv /\ TablesInv
  BY DEF StoreInv
<1>7. /\ p \in DOMAIN txn /\ p # Tool /\ TxnInv(seen, t) /\ IndexerInv(seen, mind[p], t)
      /\ mind[p] \subseteq seen
  BY <1>1, <1>6, OfProcess
<1>8. /\ IsTables(e) /\ e.blocks \subseteq seen /\ e.tip \in seen \cup {NoBlock}
      /\ DOMAIN T = DOMAIN txn /\ T[p] = NoTxn /\ \A q \in DOMAIN txn : q # p => T[q] = txn[q]
      /\ \A q \in DOMAIN txn : TxnInv(seen, T[q])
      /\ Apart(T)
  BY <1>1, <1>6, <1>7, CommitTxns
<1>9. IF Tool \in DOMAIN txn THEN ToolInv(e, T[Tool], rec) ELSE rec = Idle
  <2>1. CASE Tool \in DOMAIN txn
    <3>1. ToolInv(e, txn[Tool], rec) /\ T[Tool] = txn[Tool]
      BY <1>1, <1>6, <1>7, <1>8, <2>1, CommitTool
    <3> QED BY <2>1, <3>1
  <2>2. CASE Tool \notin DOMAIN txn
    BY <1>6, <2>2 DEF WritersInv
  <2> QED BY <2>1, <2>2
<1>10. DOMAIN mind = DOMAIN txn \ {Tool}
  BY <1>6 DEF WritersInv
<1>11. Goal(p) \subseteq seen
  BY <1>1, <1>2, <1>7 DEF Goal, IndexerInv, UpdateInv
<1>12. \A q \in DOMAIN mind : IndexerInv(seen, mind'[q], T[q])
  <2>1. IndexerInv(seen, mind'[p], NoTxn)
    <3>1. mind'[p] \subseteq seen
      BY <1>5, <1>7, <1>11
    <3> QED BY <3>1, NoTxnInvs
  <2>2. \A q \in DOMAIN mind : q # p => IndexerInv(seen, mind[q], txn[q])
    BY <1>6 DEF WritersInv
  <2> QED BY <1>5, <1>8, <1>10, <2>1, <2>2
<1>13. WritersInv'
  <2>1. raced' \in BOOLEAN
    BY <1>4
  <2> QED BY <1>2, <1>5, <1>6, <1>8, <1>9, <1>10, <1>12, <2>1 DEF WritersInv
<1>14. ASSUME ~raced'
       PROVE  /\ IsChain(e.blocks, e.tip)
              /\ Above(mind[p], e) /\ Above(Goal(p), e)
              /\ \A q \in DOMAIN mind : q # p => SpineInv(e, mind[q], txn[q])
              /\ whole /\ ~foreign =>
                     /\ Holds(e, ChainStatements(e.blocks))
                     /\ \A q \in DOMAIN mind : q # p => TableInv(e, txn[q])
  <2>1. ~raced /\ ~(t.bare /\ db.blocks \notin {{}, Goal(p)})
    BY <1>4, <1>14
  <2> QED BY <1>1, <1>2, <2>1, CommitChain
<1>15. ChainInv'
  <2>1. ASSUME ~raced' PROVE \A q \in DOMAIN mind : SpineInv(e, mind'[q], T[q])
    <3>1. SpineInv(e, mind'[p], NoTxn)
      <4>1. Above(mind'[p], e)
        BY <1>5, <1>14, <2>1
      <4> QED BY <4>1, NoTxnInvs
    <3> QED BY <1>5, <1>8, <1>10, <1>14, <2>1, <3>1
  <2> QED BY <1>2, <1>5, <1>14, <2>1 DEF ChainInv
<1>16. TablesInv'
  <2>1. ASSUME whole, ~raced', ~foreign PROVE \A q \in DOMAIN mind : TableInv(e, T[q])
    <3>1. TableInv(e, NoTxn)
      BY NoTxnInvs
    <3> QED BY <1>8, <1>10, <1>14, <2>1, <3>1
  <2> QED BY <1>2, <1>5, <1>14, <2>1 DEF TablesInv
<1> QED BY <1>13, <1>15, <1>16 DEF StoreInv

-----------------------------------------------------------------------------
(* The ancestry of a block.                                                *)

LEMMA AncestryHas ==
    ASSUME NEW b \in Block
    PROVE  b \in Ancestry[b] /\ Ancestry[b] \in SUBSET Block /\ HasParents(Ancestry[b])
<1>1. Ancestry[b] = {c \in Block : \A S \in SUBSET Block : b \in S /\ HasParents(S) => c \in S}
  BY DEF Ancestry
<1>2. b \in Ancestry[b] /\ Ancestry[b] \in SUBSET Block
  BY <1>1
<1>3. ASSUME NEW c \in Ancestry[b], ParentHash[c] \in Block PROVE ParentHash[c] \in Ancestry[b]
  <2>1. ASSUME NEW S \in SUBSET Block, b \in S, HasParents(S) PROVE ParentHash[c] \in S
    <3>1. c \in S
      BY <1>1, <2>1
    <3> QED BY <1>3, <2>1, <3>1 DEF HasParents
  <2> QED BY <1>1, <1>3, <2>1
<1> QED BY <1>2, <1>3 DEF HasParents

LEMMA AncestryLeast ==
    ASSUME NEW b \in Block, NEW S \in SUBSET Block, b \in S, HasParents(S)
    PROVE  Ancestry[b] \subseteq S
BY DEF Ancestry

LEMMA AncestryBelow ==
    ASSUME NEW b \in Block, NEW c \in Ancestry[b]
    PROVE  c = b \/ Height[c] < Height[b]
<1> DEFINE S == {x \in Ancestry[b] : x = b \/ Height[x] < Height[b]}
<1>1. b \in Ancestry[b] /\ Ancestry[b] \in SUBSET Block /\ HasParents(Ancestry[b])
  BY AncestryHas
<1>2. b \in S /\ S \in SUBSET Block
  BY <1>1
<1>3. ASSUME NEW x \in S, ParentHash[x] \in Block PROVE ParentHash[x] \in S
  <2>1. x \in Block /\ x \in Ancestry[b] /\ (x = b \/ Height[x] < Height[b])
    BY <1>1
  <2>2. ParentHash[x] \in Ancestry[b]
    BY <1>1, <1>3, <2>1 DEF HasParents
  <2>3. Height[x] = Height[ParentHash[x]] + 1
    BY <1>3, <2>1, NumberingAssumption
  <2>4. Height[x] \in Nat /\ Height[ParentHash[x]] \in Nat /\ Height[b] \in Nat
    BY <1>3, <2>1, HeightAssumption
  <2>5. Height[ParentHash[x]] < Height[b]
    BY <2>1, <2>3, <2>4
  <2> QED BY <2>2, <2>5
<1>4. HasParents(S)
  BY <1>3 DEF HasParents
<1>5. Ancestry[b] \subseteq S
  BY <1>2, <1>4, AncestryLeast
<1> QED BY <1>5

\* A chain of the node has one block at a height.
LEMMA AncestryUnique ==
    ASSUME NEW b \in Block, NEW c \in Ancestry[b], NEW x \in Ancestry[b], Height[c] = Height[x]
    PROVE  c = x
<1> DEFINE A == Ancestry[b]
           S == {y \in A : \A z \in A : Height[z] = Height[y] => z = y}
<1>1. b \in A /\ A \in SUBSET Block /\ HasParents(A)
  BY AncestryHas
<1>2. \A y \in A : Height[y] \in Nat
  BY <1>1, HeightAssumption
<1>3. \A y \in A : y = b \/ Height[y] < Height[b]
  BY AncestryBelow
<1> HIDE DEF A
<1>4. b \in S /\ S \in SUBSET Block
  BY <1>1, <1>2, <1>3
<1>5. ASSUME NEW y \in S, ParentHash[y] \in Block, NEW z \in A,
             Height[z] = Height[ParentHash[y]], z # ParentHash[y]
      PROVE  FALSE
  <2> DEFINE Y == ParentHash[y]
  <2>1. y \in A /\ y \in Block /\ Y \in A
    BY <1>1, <1>5 DEF HasParents
  <2>2. Height[y] = Height[Y] + 1
    BY <1>5, <2>1, NumberingAssumption
  <2>3. \A v \in A : Height[v] = Height[y] => v = y
    OBVIOUS
  <2>4. z # b
    <3>1. Height[Y] < Height[b]
      BY <1>2, <1>3, <1>1, <2>1, <2>2
    <3> QED BY <1>1, <1>2, <1>5, <2>1, <3>1
  <2>5. ASSUME NEW v \in A \ {z}, ParentHash[v] \in Block PROVE ParentHash[v] \in A \ {z}
    <3>1. v \in Block /\ ParentHash[v] \in A
      BY <1>1, <2>5 DEF HasParents
    <3>2. ASSUME ParentHash[v] = z PROVE FALSE
      <4>1. Height[v] = Height[z] + 1
        BY <2>5, <3>1, <3>2, NumberingAssumption
      <4>2. v = y
        BY <1>5, <2>2, <2>3, <4>1
      <4> QED BY <1>5, <3>2, <4>2
    <3> QED BY <3>1, <3>2
  <2>6. A \ {z} \in SUBSET Block /\ b \in A \ {z} /\ HasParents(A \ {z})
    BY <1>1, <2>4, <2>5 DEF HasParents
  <2>7. A \subseteq A \ {z}
    BY <2>6, AncestryLeast DEF A
  <2> QED BY <1>5, <2>7
<1>6. ASSUME NEW y \in S, ParentHash[y] \in Block PROVE ParentHash[y] \in S
  <2>1. ParentHash[y] \in A
    BY <1>1, <1>6 DEF HasParents
  <2> QED BY <1>5, <1>6, <2>1
<1>7. HasParents(S)
  BY <1>6 DEF HasParents
<1>8. A \subseteq S
  BY <1>4, <1>7, AncestryLeast DEF A
<1>9. c \in A /\ x \in A
  BY DEF A
<1> QED BY <1>8, <1>9

\* What BlocksByRange finds at a height.
FoundAt(b, h, S) == S = {c \in Ancestry[b] : Height[c] = h}

LEMMA AtHeight ==
    ASSUME NEW b \in Block, NEW h, NEW S, FoundAt(b, h, S)
    PROVE  /\ S = {} \/ \E c \in Block : S = {c}
           /\ SetToSeq(S) \in Seq(S) /\ Len(SetToSeq(S)) = Cardinality(S)
           /\ Cardinality(S) \in {0, 1} /\ S \in SUBSET Block
<1>1. Ancestry[b] \in SUBSET Block
  BY AncestryHas
<1>0. S \subseteq Ancestry[b] /\ \A c \in S : Height[c] = h
  BY DEF FoundAt
<1>2. \A c, x \in S : c = x
  BY <1>0, AncestryUnique
<1>3. S = {} \/ \E c \in Block : S = {c}
  <2>1. CASE S # {}
    <3>1. PICK c : c \in S
      BY <2>1
    <3>2. S = {c} /\ c \in Block
      BY <1>0, <1>1, <1>2, <3>1
    <3> QED BY <3>2
  <2> QED BY <2>1
<1>4. PICK n : n = Cardinality(S)
  OBVIOUS
<1>5. n \in {0, 1} /\ \E f \in [1..n -> S] : IsInjective(f)
  <2>1. CASE S = {}
    <3>1. n = 0
      BY <1>4, <2>1, FS_EmptySet
    <3>2. [i \in 1..0 |-> i] \in [1..n -> S]
      BY <3>1
    <3>3. IsInjective([i \in 1..0 |-> i])
      BY DEF IsInjective
    <3> QED BY <3>1, <3>2, <3>3
  <2>2. CASE \E c \in Block : S = {c}
    <3>1. PICK c \in Block : S = {c}
      BY <2>2
    <3>2. n = 1
      BY <1>4, <3>1, FS_Singleton
    <3>3. [i \in 1..1 |-> c] \in [1..n -> S]
      BY <3>1, <3>2
    <3>4. IsInjective([i \in 1..1 |-> c])
      BY DEF IsInjective
    <3> QED BY <3>2, <3>3, <3>4
  <2> QED BY <1>3, <2>1, <2>2
<1>6. SetToSeq(S) \in [1..n -> S]
  BY <1>4, <1>5 DEF SetToSeq
<1>7. n \in Nat
  BY <1>5
<1>8. SetToSeq(S) \in Seq(S)
  BY <1>6, <1>7, SeqDef
<1>9. Len(SetToSeq(S)) = n
  BY <1>6, <1>7, <1>8, LenProperties
<1> QED BY <1>0, <1>1, <1>3, <1>4, <1>5, <1>8, <1>9

-----------------------------------------------------------------------------
(* The steps of reconcile.                                                 *)

\* A step of the pass that leaves the database and the transactions alone.
LEMMA ReadKeeps ==
    ASSUME StoreInv, Tool \in DOMAIN txn, DOMAIN rec' = DOMAIN Idle, rec'.batch \in Seq(Block),
           txn[Tool].open => rec'.pc = "fetch" /\ rec'.batch # <<>> /\ rec'.batch[1] = rec.batch[1],
           UNCHANGED <<db, txn, mind, nodeHead, seen, raced, foreign, whole>>
    PROVE  StoreInv'
<1> USE DEF StoreInv
<1>1. ToolInv(db, txn[Tool], rec')
  BY DEF WritersInv, ToolInv
<1>2. WritersInv'
  BY <1>1 DEF WritersInv
<1>3. ChainInv'
  BY DEF ChainInv
<1>4. TablesInv'
  BY DEF TablesInv
<1> QED BY <1>2, <1>3, <1>4

\* A pass is under way only where there is a tool.
LEMMA ToolRuns ==
    ASSUME WritersInv, Tool \in DOMAIN txn \/ rec # Idle
    PROVE  /\ Tool \in DOMAIN txn /\ ToolInv(db, txn[Tool], rec) /\ TxnInv(seen, txn[Tool])
           /\ DOMAIN rec = DOMAIN Idle /\ rec.batch \in Seq(Block)
           /\ txn[Tool].open => rec.pc = "fetch" /\ rec.batch # <<>>
BY DEF WritersInv, ToolInv

LEMMA IdleFacts ==
    /\ Idle.pc = "idle" /\ Idle.batch = <<>> /\ Idle.batch \in Seq(Block)
    /\ \A x : LET r == [Idle EXCEPT !.pc = x]
              IN DOMAIN r = DOMAIN Idle /\ r.pc = x /\ r.batch = <<>> /\ r.batch \in Seq(Block)
<1>1. Idle.pc = "idle" /\ Idle.batch = <<>> /\ Idle.batch \in Seq(Block)
  BY EmptySeq DEF Idle
<1>2. ASSUME NEW x
      PROVE  LET r == [Idle EXCEPT !.pc = x]
             IN DOMAIN r = DOMAIN Idle /\ r.pc = x /\ r.batch = <<>> /\ r.batch \in Seq(Block)
  BY EmptySeq DEF Idle
<1> QED BY <1>1, <1>2

LEMMA StartKeeps ==
    ASSUME StoreInv, NEW n, Start(n)
    PROVE  StoreInv'
<1>1. Tool \in DOMAIN txn /\ Ended /\ UNCHANGED <<db, txn, mind, nodeHead, seen, raced, foreign, whole>>
  BY DEF Start, Elsewhere, mixed
<1>2. ~txn[Tool].open
  BY <1>1, ToolRuns DEF StoreInv, Ended
<1>3. DOMAIN rec' = DOMAIN Idle /\ rec'.batch = <<>>
  BY DEF Start, Idle
<1>4. rec'.batch \in Seq(Block)
  BY <1>3, EmptySeq
<1> QED BY <1>1, <1>2, <1>3, <1>4, ReadKeeps

LEMMA FetchKeeps ==
    ASSUME StoreInv, Fetch
    PROVE  StoreInv'
<1>0. PICK S, s : S = {c \in Ancestry[nodeHead] : Height[c] = rec.next} /\ s = SetToSeq(S)
  OBVIOUS
<1>1. /\ rec.pc = "fetch" /\ UNCHANGED <<db, txn, mind, nodeHead, seen, raced, foreign, whole>>
      /\ rec' = [rec EXCEPT !.next = @ + 1, !.batch = @ \o s]
  BY <1>0 DEF Fetch, Elsewhere, mixed, Canonical
<1>2. /\ Tool \in DOMAIN txn /\ DOMAIN rec = DOMAIN Idle /\ rec.batch \in Seq(Block)
      /\ txn[Tool].open => rec.pc = "fetch" /\ rec.batch # <<>>
  BY <1>1, ToolRuns, IdleFacts DEF StoreInv
<1>3. nodeHead \in Block
  BY DEF StoreInv, WritersInv
<1>4. s \in Seq(S) /\ S \in SUBSET Block
  <2>1. SetToSeq(S) \in Seq(S) /\ S \in SUBSET Block
    <3>1. FoundAt(nodeHead, rec.next, S)
      BY <1>0 DEF FoundAt
    <3> QED BY <1>3, <3>1, AtHeight
  <2> QED BY <1>0, <2>1
<1>5. s \in Seq(Block)
  BY <1>4
<1>6. "batch" \in DOMAIN rec /\ "next" \in DOMAIN rec /\ "pc" \in DOMAIN rec
  BY <1>2 DEF Idle
<1>7. rec'.batch = rec.batch \o s /\ DOMAIN rec' = DOMAIN Idle /\ rec'.pc = rec.pc
  BY <1>1, <1>2, <1>6
<1>8. rec.batch \o s \in Seq(Block)
  BY <1>2, <1>5
<1>9. ASSUME rec.batch # <<>> PROVE (rec.batch \o s)[1] = rec.batch[1] /\ rec.batch \o s # <<>>
  BY <1>2, <1>5, <1>9
<1> QED BY <1>1, <1>2, <1>7, <1>8, <1>9, ReadKeeps

\* The steps after the backfill, and between its batches.
LEMMA PassKeeps ==
    ASSUME StoreInv, NextBatch \/ Sample \/ (\E a \in rec.addrs : AskNode(a)) \/ Compare \/ Finish
    PROVE  StoreInv'
<1>1. UNCHANGED <<db, txn, mind, nodeHead, seen, raced, foreign, whole>>
  BY DEF NextBatch, Sample, AskNode, Compare, Finish, Elsewhere, mixed
<1>2. rec.pc \in {"fetch", "sample", "node", "db"} /\ (rec.pc = "fetch" => rec.batch = <<>>)
  BY DEF NextBatch, Sample, AskNode, Compare, Finish
<1>3. /\ Tool \in DOMAIN txn /\ DOMAIN rec = DOMAIN Idle /\ rec.batch \in Seq(Block)
      /\ txn[Tool].open => rec.pc = "fetch" /\ rec.batch # <<>>
  BY <1>2, ToolRuns, IdleFacts DEF StoreInv
<1>4. ~txn[Tool].open
  BY <1>2, <1>3
<1>5. DOMAIN rec' = DOMAIN rec /\ rec'.batch \in {rec.batch, <<>>}
  <2>1. CASE NextBatch
    BY <2>1 DEF NextBatch
  <2>2. CASE Sample
    <3>1. CASE \E S : rec' = [rec EXCEPT !.pc = "node", !.addrs = S]
      BY <3>1
    <3>2. CASE rec' = [Idle EXCEPT !.pc = "failed"]
      BY <1>3, <3>2, IdleFacts
    <3> QED BY <2>2, <3>1, <3>2 DEF Sample
  <2>3. CASE \E a \in rec.addrs : AskNode(a)
    <3>1. PICK a : AskNode(a)
      BY <2>3
    <3>2. CASE rec' = [rec EXCEPT !.addrs = @ \ {a}]
      BY <3>2
    <3>3. CASE rec' = [rec EXCEPT !.addrs = @ \ {a}, !.pc = "db", !.addr = {a}, !.nodeSet = NodeUnspent(a)]
      BY <3>3
    <3> QED BY <3>1, <3>2, <3>3 DEF AskNode
  <2>4. CASE Compare
    BY <2>4 DEF Compare
  <2>5. CASE Finish
    BY <2>5 DEF Finish
  <2> QED BY <2>1, <2>2, <2>3, <2>4, <2>5
<1>6. rec'.batch \in Seq(Block)
  BY <1>3, <1>5, EmptySeq
<1> QED BY <1>1, <1>3, <1>4, <1>5, <1>6, ReadKeeps

LEMMA FailKeeps ==
    ASSUME StoreInv, Fail
    PROVE  StoreInv'
<1>1. /\ ~Ended /\ rec' = [Idle EXCEPT !.pc = "failed"] /\ txn' = [txn EXCEPT ![Tool] = NoTxn]
      /\ UNCHANGED <<db, mind, nodeHead, seen, raced, foreign, whole>>
  BY DEF Fail, Elsewhere, mixed
<1>2. Tool \in DOMAIN txn
  BY <1>1, ToolRuns, IdleFacts DEF StoreInv, Ended
<1>3. DOMAIN rec' = DOMAIN Idle /\ rec'.batch \in Seq(Block)
  BY <1>1, IdleFacts
<1>4. ToolInv(db, NoTxn, rec')
  BY <1>3, NoTxnInvs
<1>5. TxnInv(seen, NoTxn) /\ NoTxn.locks \cap Held(txn, Tool) = {}
  BY NoTxnFacts, NothingHeld
<1> QED BY <1>1, <1>2, <1>4, <1>5, ToolTxn

LEMMA ApplyBeginKeeps ==
    ASSUME StoreInv, ApplyBegin
    PROVE  StoreInv'
<1>1. PICK code, t : /\ code = <<ApplyBlock(rec.batch[1])>>
                     /\ t = [NoTxn EXCEPT !.code = code, !.todo = Places(code), !.open = TRUE]
  OBVIOUS
<1>2. /\ rec.pc = "fetch" /\ rec.batch # <<>> /\ txn' = [txn EXCEPT ![Tool] = t]
      /\ UNCHANGED <<db, mind, nodeHead, seen, raced, foreign, whole, rec>>
  BY <1>1 DEF ApplyBegin, Elsewhere, mixed
<1>3. Tool \in DOMAIN txn /\ DOMAIN rec = DOMAIN Idle /\ rec.batch \in Seq(Block)
  BY <1>2, ToolRuns, IdleFacts DEF StoreInv
<1>4. t = [code |-> code, todo |-> Places(code), locks |-> {}, own |-> EmptyDb,
           rollback |-> <<>>, apply |-> <<>>, bare |-> FALSE, open |-> TRUE]
  BY <1>1 DEF NoTxn
<1>5. /\ t.code = code /\ t.todo = Places(code) /\ t.locks = {} /\ t.own = EmptyDb
      /\ t.bare = FALSE /\ t.open = TRUE
  BY <1>4
<1>6. TxnInv(seen, t)
  <2>1. t = [code |-> t.code, todo |-> t.todo, locks |-> t.locks, own |-> t.own,
             rollback |-> t.rollback, apply |-> t.apply, bare |-> t.bare, open |-> t.open]
    BY <1>4
  <2>2. /\ IsTables(EmptyDb) /\ EmptyDb.utxos = {} /\ EmptyDb.convs = {} /\ EmptyDb.blocks = {}
        /\ EmptyDb.tip = NoBlock
    BY DEF EmptyDb, IsTables, IsDb
  <2>3. t.open \in BOOLEAN /\ t.bare \in BOOLEAN /\ t.open
    BY <1>5
  <2>4. t.todo = Places(t.code)
    BY <1>5
  <2> QED BY <1>5, <2>1, <2>2, <2>3, <2>4 DEF TxnInv
<1>7. Justified(db, t)
  BY <1>5 DEF Justified
<1>8. ToolInv(db, t, rec')
  BY <1>1, <1>2, <1>3, <1>5, <1>7 DEF ToolInv
<1>9. t.locks \cap Held(txn, Tool) = {}
  BY <1>5
<1> QED BY <1>2, <1>3, <1>6, <1>8, <1>9, ToolTxn

LEMMA ApplyRunKeeps ==
    ASSUME StoreInv, ApplyRun
    PROVE  StoreInv'
<1>1. PICK u \in NextPlace(txn[Tool]) :
          /\ StatementOf(txn[Tool], u).sql # "fail"
          /\ Wanted(Tool) \cap Held(txn, Tool) = {}
          /\ txn' = [txn EXCEPT ![Tool] = After(db, txn[Tool], u)]
  BY DEF ApplyRun, RunStatement
<1>2. rec.pc = "fetch" /\ UNCHANGED <<db, mind, nodeHead, seen, raced, foreign, whole, rec>>
  BY DEF ApplyRun, Elsewhere, mixed
<1>3. PICK s, t2 : s = StatementOf(txn[Tool], u) /\ t2 = After(db, txn[Tool], u)
  OBVIOUS
<1>4. Tool \in DOMAIN txn /\ TxnInv(seen, txn[Tool]) /\ ToolInv(db, txn[Tool], rec)
  BY <1>2, ToolRuns, IdleFacts DEF StoreInv
<1>5. IsTables(db) /\ db.blocks \subseteq seen /\ db.tip \in seen \cup {NoBlock} /\ Apart(txn)
  BY DEF StoreInv, WritersInv
<1>6. txn[Tool].open
  <2>1. u \in txn[Tool].todo
    BY DEF NextPlace
  <2>2. NoTxn.todo = {}
    BY DEF NoTxn
  <2> QED BY <1>4, <2>1, <2>2 DEF TxnInv
<1>7. /\ TxnInv(seen, t2) /\ ToolInv(db, t2, rec)
      /\ t2.locks = txn[Tool].locks \cup Changed(View(db, txn[Tool]), Exec(View(db, txn[Tool]), s))
  <2>1. PICK t, d, r : t = txn[Tool] /\ d = db /\ r = rec
    OBVIOUS
  <2>2. /\ IsTables(d) /\ d.blocks \subseteq seen /\ d.tip \in seen \cup {NoBlock}
        /\ TxnInv(seen, t) /\ ToolInv(d, t, r) /\ t.open
        /\ u \in NextPlace(t) /\ s = StatementOf(t, u) /\ s.sql # "fail" /\ t2 = After(d, t, u)
    BY <1>1, <1>3, <1>4, <1>5, <1>6, <2>1
  <2>3. /\ TxnInv(seen, t2) /\ ToolInv(d, t2, r)
        /\ t2.locks = t.locks \cup Changed(View(d, t), Exec(View(d, t), s))
    BY <2>2, RunTool
  <2> QED BY <2>1, <2>3
<1>8. t2.locks \cap Held(txn, Tool) = {}
  BY <1>1, <1>3, <1>4, <1>5, <1>7, RunKeys
<1> QED BY <1>1, <1>2, <1>3, <1>4, <1>7, <1>8, ToolTxn

LEMMA ApplyCommitKeeps ==
    ASSUME StoreInv, ApplyCommit
    PROVE  StoreInv'
<1>1. PICK t, e, T : t = txn[Tool] /\ e = View(db, t) /\ T = [txn EXCEPT ![Tool] = NoTxn]
  OBVIOUS
<1>2. /\ rec.pc = "fetch" /\ t.open /\ db' = e /\ txn' = T
      /\ rec' = [rec EXCEPT !.batch = Tail(@)]
      /\ foreign' = (foreign \/ rec.batch[1] \notin db.blocks)
      /\ UNCHANGED <<mind, nodeHead, seen, raced, whole>>
  BY <1>1 DEF ApplyCommit
<1>3. WritersInv /\ ChainInv /\ TablesInv
  BY DEF StoreInv
<1>4. /\ Tool \in DOMAIN txn /\ TxnInv(seen, t) /\ ToolInv(db, t, rec)
      /\ DOMAIN rec = DOMAIN Idle /\ rec.batch \in Seq(Block) /\ rec.batch # <<>>
  BY <1>1, <1>2, <1>3, ToolRuns, IdleFacts
<1>5. /\ IsTables(e) /\ e.blocks \subseteq seen /\ e.tip \in seen \cup {NoBlock}
      /\ DOMAIN T = DOMAIN txn /\ T[Tool] = NoTxn /\ \A q \in DOMAIN txn : q # Tool => T[q] = txn[q]
      /\ \A q \in DOMAIN txn : TxnInv(seen, T[q])
      /\ Apart(T)
  BY <1>1, <1>3, <1>4, CommitTxns
<1>6. IsTables(db) /\ DOMAIN mind = DOMAIN txn \ {Tool} /\ db.blocks \in SUBSET Block
  BY <1>3 DEF WritersInv
<1>7. \A q \in DOMAIN mind : T[q] = txn[q]
  BY <1>5, <1>6
<1>8. ToolInv(e, NoTxn, rec')
  <2>1. "batch" \in DOMAIN rec
    BY <1>4 DEF Idle
  <2>2. rec'.batch = Tail(rec.batch) /\ DOMAIN rec' = DOMAIN Idle
    BY <1>2, <1>4, <2>1
  <2>3. Tail(rec.batch) \in Seq(Block)
    BY <1>4
  <2> QED BY <2>2, <2>3, NoTxnInvs
<1>9. WritersInv'
  <2>1. foreign' \in BOOLEAN
    BY <1>2
  <2>2. \A q \in DOMAIN mind : IndexerInv(seen, mind[q], T[q])
    BY <1>3, <1>7 DEF WritersInv
  <2> QED BY <1>2, <1>3, <1>4, <1>5, <1>6, <1>8, <2>1, <2>2 DEF WritersInv
<1>10. /\ e.blocks = db.blocks /\ e.tip = db.tip
       /\ Holds(db, ChainStatements(db.blocks)) /\ rec.batch[1] \in db.blocks => e = db
  BY <1>1, <1>2, <1>4, <1>6, ToolCommits
<1>11. ASSUME ~raced, NEW q \in DOMAIN mind PROVE SpineInv(e, mind[q], T[q])
  <2>1. /\ TxnInv(seen, txn[q]) /\ IndexerInv(seen, mind[q], txn[q])
        /\ SpineInv(db, mind[q], txn[q]) /\ q \in DOMAIN txn /\ q # Tool
    BY <1>3, <1>11, OfProcess DEF ChainInv
  <2>2. ASSUME txn[q].open, txn[q].bare PROVE Justified(e, txn[q])
    <3>1. FirstInv(db, txn[q])
      BY <2>1, <2>2 DEF SpineInv
    <3>2. Justified(db, txn[q])
      BY <3>1 DEF FirstInv
    <3>3. SoundCode(txn[q])
      BY <2>1, <2>2, IndexerUpdate
    <3>4. OwnKeys(t.own, t.locks) /\ IsTables(t.own)
      BY <1>4, TxnKeys
    <3>5. txn[q].locks \cap t.locks = {}
      BY <1>1, <1>3, <1>4, <2>1 DEF WritersInv, Apart
    <3> QED BY <1>1, <1>6, <3>2, <3>3, <3>4, <3>5, CommitJustified
  <2>3. SpineInv(e, mind[q], txn[q])
    BY <1>10, <2>1, <2>2, SameSpine
  <2> QED BY <1>7, <2>3
<1>12. ChainInv'
  BY <1>2, <1>3, <1>10, <1>11 DEF ChainInv
<1>13. TablesInv'
  <2>1. ASSUME whole, ~raced, ~foreign'
        PROVE  Holds(e, ChainStatements(e.blocks)) /\ \A q \in DOMAIN mind : TableInv(e, T[q])
    <3>1. ~foreign /\ rec.batch[1] \in db.blocks
      BY <1>2, <2>1
    <3>2. Holds(db, ChainStatements(db.blocks)) /\ \A q \in DOMAIN mind : TableInv(db, txn[q])
      BY <1>3, <2>1, <3>1 DEF TablesInv
    <3>3. e = db
      BY <1>10, <3>1, <3>2
    <3> QED BY <1>7, <3>2, <3>3
  <2> QED BY <1>2, <2>1 DEF TablesInv
<1> QED BY <1>9, <1>12, <1>13 DEF StoreInv

-----------------------------------------------------------------------------
(* The invariant holds.                                                    *)

\* The statements of a block without a refused field can all run.
LEMMA NoFailure ==
    ASSUME NEW C \in SUBSET Block, \A b \in C : ~Undecodable(b)
    PROVE  Decodable(ChainStatements(C))
<1>1. ASSUME NEW s \in ChainStatements(C) PROVE s.sql # "fail"
  <2>1. PICK b \in C : \E k, m : StatementAt(b, k, m, s)
    BY InChain
  <2>2. PICK k, m : StatementAt(b, k, m, s)
    BY <2>1
  <2>3. k \in DOMAIN ApplyBlock(b) /\ m \in DOMAIN ApplyBlock(b)[k] /\ s = ApplyBlock(b)[k][m] /\ b \in Block
    BY <2>2 DEF StatementAt
  <2>4. SpendAt(b, k, m, s) \/ QiInsertAt(b, k, m, s) \/ ConvAt(b, k, m, s)
        \/ EtxInsertAt(b, k, m, s) \/ SweepAt(b, k, m, s) \/ FailAt(b, k, m, s)
    BY <2>3, AtPlace
  <2>5. ~FailAt(b, k, m, s)
    BY DEF FailAt, Undecodable, Refused, ToSet
  <2>6. SpendAt(b, k, m, s) => s.sql = "spend"
    BY DEF SpendAt
  <2>7. QiInsertAt(b, k, m, s) => s.sql = "insert"
    BY DEF QiInsertAt
  <2>8. ConvAt(b, k, m, s) => s.sql = "conv"
    BY DEF ConvAt
  <2>9. EtxInsertAt(b, k, m, s) => s.sql = "insert"
    BY DEF EtxInsertAt
  <2>10. SweepAt(b, k, m, s) => s.sql = "sweep"
    BY DEF SweepAt
  <2> QED BY <2>4, <2>5, <2>6, <2>7, <2>8, <2>9, <2>10
<1> QED BY <1>1 DEF Decodable

\* What the tables hold is what the stored chain determines.
LEMMA HoldsMatches ==
    ASSUME NEW d, IsChain(d.blocks, d.tip)
    PROVE  /\ Holds(d, ChainStatements(d.blocks)) => TablesMatch(d)
           /\ TablesMatch(d) /\ (\A b \in d.blocks : ~Undecodable(b)) => Holds(d, ChainStatements(d.blocks))
<1>1. d.blocks \in SUBSET Block /\ ValidChain(d.blocks)
  BY ChainIsValid
<1>2. ASSUME Decodable(ChainStatements(d.blocks))
      PROVE  /\ UtxosOf(ChainStatements(d.blocks)) = ExpectedUtxos(d.blocks)
             /\ ConvsOf(ChainStatements(d.blocks)) = ExpectedConvs(d.blocks)
  BY <1>1, <1>2, UtxosOfChain, ConvsOfChain
<1>3. (\A b \in d.blocks : ~Undecodable(b)) => Decodable(ChainStatements(d.blocks))
  BY <1>1, NoFailure
<1> QED BY <1>2, <1>3 DEF Holds, TablesMatch

LEMMA InitHolds ==
    ASSUME ReconcileInit
    PROVE  StoreInv
<1>1. IsTables(db) /\ IsChain(db.blocks, db.tip)
  BY StoredAssumption DEF ReconcileInit
<1>2. nodeHead \in Block /\ db.blocks \subseteq Ancestry[nodeHead] /\ seen = Ancestry[nodeHead]
  BY DEF ReconcileInit
<1>3. seen \subseteq Block /\ db.blocks \subseteq seen /\ db.tip \in seen \cup {NoBlock}
  BY <1>1, <1>2, AncestryHas DEF IsChain
<1>4. PICK running \in kSubset(MaxRunning, Process \cup {Tool}) :
          txn = [p \in running |-> NoTxn] /\ mind = [p \in running \ {Tool} |-> db.blocks]
  BY DEF ReconcileInit
<1>5. running # {}
  <2>1. Cardinality(running) = MaxRunning
    BY DEF kSubset
  <2> QED BY <2>1, FS_EmptySet, MaxRunningAssumption
<1>6. DOMAIN txn = running /\ DOMAIN mind = running \ {Tool}
  BY <1>4
<1>7. \A p \in DOMAIN txn : txn[p] = NoTxn
  BY <1>4
<1>8. \A p \in DOMAIN mind : txn[p] = NoTxn /\ mind[p] = db.blocks
  BY <1>4
<1>9. raced = FALSE /\ foreign = FALSE /\ rec = Idle
      /\ whole = (TablesMatch(db) /\ \A b \in db.blocks : ~Undecodable(b))
  BY DEF ReconcileInit
<1>10. Apart(txn)
  BY <1>7, NoTxnFacts DEF Apart
<1>11. WritersInv
  <2>1. ToolInv(db, NoTxn, rec)
    BY <1>9, IdleFacts, NoTxnInvs
  <2>2. \A p \in DOMAIN txn : TxnInv(seen, txn[p])
    BY <1>7, NoTxnFacts
  <2>3. \A p \in DOMAIN mind : IndexerInv(seen, mind[p], txn[p])
    BY <1>3, <1>8, NoTxnInvs
  <2>4. IF Tool \in DOMAIN txn THEN ToolInv(db, txn[Tool], rec) ELSE rec = Idle
    BY <1>7, <1>9, <2>1
  <2>5. raced \in BOOLEAN /\ foreign \in BOOLEAN /\ whole \in BOOLEAN
    BY <1>9
  <2>6. DOMAIN txn # {} /\ DOMAIN mind = DOMAIN txn \ {Tool}
    BY <1>5, <1>6
  <2> QED BY <1>1, <1>2, <1>3, <1>10, <2>2, <2>3, <2>4, <2>5, <2>6 DEF WritersInv
<1>12. ChainInv
  <2>1. Above(db.blocks, db)
    <3>1. \A c \in db.blocks : Height[c] \in Nat
      BY <1>3, HeightAssumption
    <3> QED BY <3>1 DEF Above
  <2>2. \A p \in DOMAIN mind : SpineInv(db, mind[p], txn[p])
    BY <1>8, <2>1, NoTxnInvs
  <2> QED BY <1>1, <2>2 DEF ChainInv
<1>13. TablesInv
  <2>1. \A p \in DOMAIN mind : TableInv(db, txn[p])
    BY <1>8, NoTxnInvs
  <2>2. whole => Holds(db, ChainStatements(db.blocks))
    BY <1>1, <1>9, HoldsMatches
  <2> QED BY <2>1, <2>2 DEF TablesInv
<1> QED BY <1>11, <1>12, <1>13 DEF StoreInv

LEMMA NextKeeps ==
    ASSUME StoreInv, [ReconcileNext]_recvars
    PROVE  StoreInv'
<1>1. CASE ApplyBegin
  BY <1>1, ApplyBeginKeeps
<1>2. CASE ApplyRun
  BY <1>2, ApplyRunKeeps
<1>3. CASE ApplyCommit
  BY <1>3, ApplyCommitKeeps
<1>4. CASE Fail
  BY <1>4, FailKeeps
<1>5. ASSUME NEW n \in NBlocks, Start(n) PROVE StoreInv'
  BY <1>5, StartKeeps
<1>6. CASE Fetch
  BY <1>6, FetchKeeps
<1>7. CASE NextBatch \/ Sample \/ (\E a \in rec.addrs : AskNode(a)) \/ Compare \/ Finish
  BY <1>7, PassKeeps
<1>8. CASE Others
  <2>1. UNCHANGED <<rec, foreign, whole>>
    BY <1>8 DEF Others, mixed
  <2>2. ASSUME NEW b \in Block, NodeAdvance(b) PROVE StoreInv'
    BY <2>1, <2>2, NodeAdvanceKeeps
  <2>3. ASSUME NEW p \in DOMAIN mind, WriterStep(p) PROVE StoreInv'
    <3>1. CASE Load(p)
      BY <2>1, <3>1, LoadKeeps
    <3>2. CASE Run(p)
      BY <2>1, <3>2, RunKeeps
    <3>3. CASE Commit(p)
      BY <2>1, <3>3, CommitKeeps
    <3>4. CASE Abort(p)
      BY <2>1, <3>4, AbortKeeps
    <3>5. ASSUME NEW s \in Branches, Begin(p, s) PROVE StoreInv'
      BY <2>1, <3>5, BeginKeeps
    <3> QED BY <2>3, <3>1, <3>2, <3>3, <3>4, <3>5 DEF WriterStep
  <2> QED BY <1>8, <2>2, <2>3 DEF Others
<1>9. CASE UNCHANGED recvars
  <2>1. UNCHANGED <<db, txn, mind, nodeHead, seen, raced, rec, foreign, whole>>
    BY <1>9 DEF recvars, wvars
  <2> QED BY <2>1 DEF StoreInv, WritersInv, ChainInv, TablesInv
<1> QED BY <1>1, <1>2, <1>3, <1>4, <1>5, <1>6, <1>7, <1>8, <1>9
        DEF ReconcileNext, ReconcileStep, Applying, Reading

-----------------------------------------------------------------------------
(* Heights and sums.                                                       *)

LEMMA SomeLeast ==
    ASSUME NEW S \in SUBSET Nat, S # {}
    PROVE  \E m \in S : \A y \in S : m <= y
<1> DEFINE R == {ss \in Nat \X Nat : ss[1] < ss[2]}
<1>1. IsWellFoundedOn(R, Nat)
  BY NatLessThanWellFounded DEF OpToRel
<1>2. \A x, y \in Nat : x < y => <<x, y>> \in R
  OBVIOUS
<1> HIDE DEF R
<1>3. \E m \in S : \A y \in S : ~(<<y, m>> \in R)
  BY <1>1, WFMin
<1>4. PICK m \in S : \A y \in S : ~(<<y, m>> \in R)
  BY <1>3
<1>5. ASSUME NEW y \in S PROVE m <= y
  <2>1. m \in Nat /\ y \in Nat
    OBVIOUS
  <2>2. ~(y < m)
    BY <1>2, <1>4, <2>1
  <2> QED BY <2>1, <2>2
<1> QED BY <1>5

LEMMA LeastIn ==
    ASSUME NEW S, S \in SUBSET Nat, S # {}
    PROVE  Min(S) \in S /\ \A y \in S : Min(S) <= y
<1>1. \E m \in S : \A y \in S : m <= y
  BY SomeLeast
<1> QED BY <1>1, Zenon DEF Min

LEMMA GreatestIn ==
    ASSUME NEW S, S \in SUBSET Nat, S # {}, NEW n \in Nat, \A y \in S : y <= n
    PROVE  Max(S) \in S /\ \A y \in S : y <= Max(S)
<1> DEFINE T == {n - y : y \in S}
<1>1. T \in SUBSET Nat /\ T # {}
  <2>1. \A y \in S : n - y \in Nat
    OBVIOUS
  <2> QED BY <2>1
<1>2. PICK x : x \in T /\ \A z \in T : x <= z
  BY <1>1, LeastIn, Zenon
<1>3. PICK m \in S : x = n - m
  BY <1>2
<1>4. \A y \in S : y <= m
  <2>1. ASSUME NEW y \in S PROVE y <= m
    <3>1. n - y \in T
      OBVIOUS
    <3>2. n - m <= n - y
      BY <1>2, <1>3, <3>1
    <3>3. y \in Nat /\ m \in Nat
      OBVIOUS
    <3> QED BY <3>2, <3>3
  <2> QED BY <2>1
<1>5. \A y \in S : m >= y
  BY <1>4
<1> QED BY <1>5 DEF Max

\* uint64 arithmetic stays in its range.
LEMMA WrapRange ==
    ASSUME NEW n \in Int
    PROVE  Wrap(n) \in 0..(2 * TwoTo63 - 1)
<1>1. PICK m : m = 2 * TwoTo63
  OBVIOUS
<1>2. m \in Nat \ {0}
  BY <1>1, ReconcileAssumption
<1>3. n % m \in 0..(m - 1)
  BY <1>2
<1> QED BY <1>1, <1>3 DEF Wrap

LEMMA EndRange ==
    ASSUME NEW h \in Nat, NEW maxH \in Nat
    PROVE  End(h, maxH) \in Nat /\ End(h, maxH) <= h + Batch /\ End(h, maxH) <= maxH + 1
<1>0. PICK S : S = {h + Batch, maxH + 1}
  OBVIOUS
<1>1. S \in SUBSET Nat /\ S # {}
  BY <1>0, ReconcileAssumption
<1>2. Min(S) \in S /\ \A y \in S : Min(S) <= y
  BY <1>1, LeastIn, Zenon
<1>3. End(h, maxH) = Min(S)
  BY <1>0 DEF End
<1> QED BY <1>0, <1>1, <1>2, <1>3

\* The range of a pass.
LEMMA StoredRange ==
    ASSUME NEW S \in SUBSET Block, S # {}, NEW n \in Nat, \A b \in S : Height[b] <= n
    PROVE  /\ Max(Heights(S)) \in Nat
           /\ Min(Heights(S)) \in Nat /\ Min(Heights(S)) < TwoTo63
<1>0. PICK H : H = Heights(S)
  OBVIOUS
<1>1. H \in SUBSET Nat /\ H # {} /\ (\A y \in H : y <= n)
  BY <1>0, HeightAssumption DEF Heights
<1>2. Max(H) \in H
  BY <1>1, GreatestIn, Zenon
<1>3. Min(H) \in H
  BY <1>1, LeastIn, Zenon
<1>4. \A y \in H : y < TwoTo63
  BY <1>0, ReconcileAssumption DEF Heights
<1> QED BY <1>0, <1>1, <1>2, <1>3, <1>4

LEMMA FromRange ==
    ASSUME NEW hi \in Nat, NEW lo \in Nat, lo < TwoTo63, NEW n \in Nat
    PROVE  From(hi, lo, n) \in 0..(2 * TwoTo63 - 1)
<1>1. Wrap(hi - n + 1) \in 0..(2 * TwoTo63 - 1)
  <2>1. hi - n + 1 \in Int
    OBVIOUS
  <2> QED BY <2>1, WrapRange
<1>2. lo \in 0..(2 * TwoTo63 - 1)
  BY ReconcileAssumption
<1> QED BY <1>1, <1>2 DEF From

-----------------------------------------------------------------------------
(* The locals of a pass.                                                   *)

LEMMA IdlePass ==
    /\ PassInv(Idle)
    /\ PassInv([Idle EXCEPT !.pc = "failed"])
<1>1. ASSUME NEW x \in {"idle", "failed"}, NEW r, r = [Idle EXCEPT !.pc = x] PROVE PassInv(r)
  <2>1. r = [pc |-> x, n |-> 0, minH |-> 0, maxH |-> 0, from |-> 0, next |-> 0, end |-> 0,
             batch |-> <<>>, addrs |-> {}, addr |-> {}, nodeSet |-> {}, mismatches |-> 0]
    BY <1>1 DEF Idle
  <2>2. /\ r.pc = x /\ r.maxH = 0 /\ r.from = 0 /\ r.next = 0 /\ r.end = 0
        /\ r.batch = <<>> /\ r.addrs = {} /\ r.mismatches = 0
    BY <2>1
  <2>3. IsFiniteSet({}) /\ Cardinality({}) = 0
    BY FS_EmptySet
  <2>4. Len(r.batch) = 0 /\ DOMAIN r.batch = {}
    BY <2>2
  <2>5. 0 \in 0..(2 * TwoTo63 - 1) /\ 0 <= Batch /\ 0 <= SampleLimit /\ Batch \in Nat
    BY ReconcileAssumption
  <2>6. /\ r.from \in 0..(2 * TwoTo63 - 1) /\ {r.next, r.end, r.maxH, r.mismatches} \subseteq Nat
        /\ r.from <= r.next /\ r.end <= r.maxH + 1 /\ ~(r.mismatches > 0)
    BY <2>2, <2>5
  <2>7. Len(r.batch) <= Batch /\ Len(r.batch) + r.end <= Batch + r.next
    BY <2>2, <2>4, <2>5
  <2>8. r.pc # "mismatch" /\ IsFiniteSet(r.addrs) /\ Cardinality(r.addrs) <= SampleLimit
    BY <1>1, <2>2, <2>3, <2>5
  <2> QED BY <2>2, <2>4, <2>6, <2>7, <2>8 DEF PassInv
<1>2. Idle = [Idle EXCEPT !.pc = "idle"]
  BY DEF Idle
<1>3. PICK r : r = [Idle EXCEPT !.pc = "idle"]
  OBVIOUS
<1>4. PICK s : s = [Idle EXCEPT !.pc = "failed"]
  OBVIOUS
<1>5. PassInv(r) /\ PassInv(s)
  BY <1>1, <1>3, <1>4
<1> QED BY <1>2, <1>3, <1>4, <1>5

LEMMA StartPass ==
    ASSUME StoreInv, SeenInv, NEW n \in NBlocks, Start(n)
    PROVE  PassInv(rec')
<1>1. CASE db.blocks = {}
  <2>1. rec' = [Idle EXCEPT !.pc = "failed"]
    BY <1>1 DEF Start
  <2> QED BY <2>1, IdlePass
<1>2. CASE db.blocks # {}
  <2>1. PICK lo, hi, f, e : /\ lo = Min(Heights(db.blocks)) /\ hi = Max(Heights(db.blocks))
                            /\ f = From(hi, lo, n) /\ e = End(f, hi)
    OBVIOUS
  <2>2. rec' = [Idle EXCEPT !.pc = "fetch", !.n = n, !.minH = lo, !.maxH = hi,
                            !.from = f, !.next = f, !.end = e]
    BY <1>2, <2>1 DEF Start
  <2>3. PICK t \in seen : \A c \in seen : Height[c] <= Height[t]
    BY DEF SeenInv
  <2>4. db.blocks \in SUBSET Block /\ t \in Block /\ \A b \in db.blocks : Height[b] <= Height[t]
    BY <2>3 DEF StoreInv, WritersInv
  <2>5. Height[t] \in Nat /\ n \in Nat
    BY <2>4, HeightAssumption, ReconcileAssumption
  <2>6. hi \in Nat /\ lo \in Nat /\ lo < TwoTo63
    <3>1. /\ Max(Heights(db.blocks)) \in Nat
          /\ Min(Heights(db.blocks)) \in Nat /\ Min(Heights(db.blocks)) < TwoTo63
      BY <1>2, <2>4, <2>5, StoredRange
    <3> QED BY <2>1, <3>1, Zenon
  <2>7. f \in 0..(2 * TwoTo63 - 1)
    BY <2>1, <2>5, <2>6, FromRange
  <2>8. f \in Nat
    BY <2>7, ReconcileAssumption
  <2>9. e \in Nat /\ e <= f + Batch /\ e <= hi + 1
    BY <2>1, <2>6, <2>8, EndRange
  <2>10. rec' = [pc |-> "fetch", n |-> n, minH |-> lo, maxH |-> hi, from |-> f, next |-> f, end |-> e,
                 batch |-> <<>>, addrs |-> {}, addr |-> {}, nodeSet |-> {}, mismatches |-> 0]
    BY <2>2 DEF Idle
  <2>11. /\ rec'.pc = "fetch" /\ rec'.maxH = hi /\ rec'.from = f /\ rec'.next = f /\ rec'.end = e
         /\ rec'.batch = <<>> /\ rec'.addrs = {} /\ rec'.mismatches = 0
    BY <2>10
  <2>12. IsFiniteSet({}) /\ Cardinality({}) = 0
    BY FS_EmptySet
  <2>13. Len(rec'.batch) = 0 /\ DOMAIN rec'.batch = {}
    BY <2>11
  <2> QED BY <2>6, <2>7, <2>8, <2>9, <2>11, <2>12, <2>13, ReconcileAssumption DEF PassInv
<1> QED BY <1>1, <1>2

\* A fetched block, if there is one, joins the batch.
LEMMA FetchPass ==
    ASSUME StoreInv, PassInv(rec), Fetch
    PROVE  PassInv(rec')
<1>0. PICK S, s : S = {c \in Ancestry[nodeHead] : Height[c] = rec.next} /\ s = SetToSeq(S)
  OBVIOUS
<1>1. rec.pc = "fetch" /\ rec.next < rec.end /\ rec' = [rec EXCEPT !.next = @ + 1, !.batch = @ \o s]
  BY <1>0 DEF Fetch, Canonical
<1>2. DOMAIN rec = DOMAIN Idle /\ rec.batch \in Seq(Block)
  BY <1>1, ToolRuns, IdleFacts DEF StoreInv
<1>3. nodeHead \in Block
  BY DEF StoreInv, WritersInv
<1>4. s \in Seq(S) /\ Len(s) = Cardinality(S) /\ Cardinality(S) \in {0, 1} /\ S \in SUBSET Block
  <2>1. FoundAt(nodeHead, rec.next, S)
    BY <1>0 DEF FoundAt
  <2>2. /\ SetToSeq(S) \in Seq(S) /\ Len(SetToSeq(S)) = Cardinality(S)
        /\ Cardinality(S) \in {0, 1} /\ S \in SUBSET Block
    BY <1>3, <2>1, AtHeight
  <2> QED BY <1>0, <2>2
<1>5. s \in Seq(Block) /\ Len(s) \in {0, 1}
  BY <1>4
<1>6. PICK z : z = rec.batch \o s
  OBVIOUS
<1>7. /\ "batch" \in DOMAIN rec /\ "next" \in DOMAIN rec
  BY <1>2 DEF Idle
<1>8. /\ rec'.batch = z /\ rec'.next = rec.next + 1
      /\ rec'.from = rec.from /\ rec'.end = rec.end /\ rec'.maxH = rec.maxH
      /\ rec'.mismatches = rec.mismatches /\ rec'.addrs = rec.addrs /\ rec'.pc = rec.pc
  BY <1>1, <1>6, <1>7
<1>9. /\ rec.from \in Nat /\ rec.next \in Nat /\ rec.end \in Nat /\ rec.maxH \in Nat /\ Batch \in Nat
      /\ Len(rec.batch) \in Nat
  BY <1>2, ReconcileAssumption DEF PassInv
<1>10. z \in Seq(Block) /\ Len(z) = Len(rec.batch) + Len(s)
  BY <1>2, <1>5, <1>6
<1>11. Len(z) <= Batch /\ Len(z) + rec.end <= Batch + rec.next + 1
  <2>1. Len(rec.batch) + rec.end <= Batch + rec.next
    BY DEF PassInv
  <2>2. PICK l, k, e, x : l = Len(rec.batch) /\ k = Len(s) /\ e = rec.end /\ x = rec.next
    OBVIOUS
  <2>3. /\ l \in Nat /\ k \in {0, 1} /\ e \in Nat /\ x \in Nat /\ Batch \in Nat
        /\ l + e <= Batch + x /\ x < e /\ Len(z) = l + k
    BY <1>1, <1>5, <1>9, <1>10, <2>1, <2>2
  <2>4. l + k <= Batch /\ l + k + e <= Batch + x + 1
    BY <2>3
  <2> QED BY <2>2, <2>3, <2>4
<1>12. ASSUME NEW i \in DOMAIN z PROVE rec.from <= Height[z[i]] /\ Height[z[i]] <= rec.maxH
  <2>1. i \in 1..Len(z)
    BY <1>10
  <2>2. CASE i \in 1..Len(rec.batch)
    <3>1. z[i] = rec.batch[i] /\ i \in DOMAIN rec.batch
      BY <1>2, <1>5, <1>6, <2>2
    <3> QED BY <3>1 DEF PassInv
  <2>3. CASE i = Len(rec.batch) + 1 /\ Len(s) = 1
    <3>1. z[i] = s[1]
      BY <1>2, <1>5, <1>6, <2>3
    <3>2. s[1] \in S
      <4>1. s \in Seq(S) /\ Len(s) = 1
        BY <1>4, <2>3
      <4> QED BY <4>1
    <3>3. Height[z[i]] = rec.next
      BY <1>0, <3>1, <3>2
    <3>4. rec.from <= rec.next /\ rec.end <= rec.maxH + 1
      BY DEF PassInv
    <3>5. PICK f, x, e, m : f = rec.from /\ x = rec.next /\ e = rec.end /\ m = rec.maxH
      OBVIOUS
    <3>6. f \in Nat /\ x \in Nat /\ e \in Nat /\ m \in Nat /\ f <= x /\ e <= m + 1 /\ x < e
      BY <1>1, <1>9, <3>4, <3>5
    <3>7. f <= x /\ x <= m
      BY <3>6
    <3> QED BY <3>3, <3>5, <3>7
  <2>4. i \in 1..Len(rec.batch) \/ (i = Len(rec.batch) + 1 /\ Len(s) = 1)
    <3>1. PICK l, k : l = Len(rec.batch) /\ k = Len(s)
      OBVIOUS
    <3>2. l \in Nat /\ k \in {0, 1} /\ i \in 1..(l + k)
      BY <1>5, <1>9, <1>10, <2>1, <3>1
    <3>3. i \in 1..l \/ (i = l + 1 /\ k = 1)
      BY <3>2
    <3> QED BY <3>1, <3>3
  <2> QED BY <2>2, <2>3, <2>4
<1>13. rec.from <= rec.next + 1 /\ rec.next + 1 <= rec.end /\ rec.next + 1 \in Nat
  <2>1. rec.from <= rec.next
    BY DEF PassInv
  <2> QED BY <1>1, <1>9, <2>1
<1>14. /\ rec'.from \in 0..(2 * TwoTo63 - 1)
       /\ {rec'.next, rec'.end, rec'.maxH, rec'.mismatches} \subseteq Nat
       /\ rec'.from <= rec'.next /\ rec'.end <= rec'.maxH + 1 /\ rec'.next <= rec'.end
  BY <1>8, <1>13 DEF PassInv
<1>15. Len(rec'.batch) <= Batch /\ Len(rec'.batch) + rec'.end <= Batch + rec'.next
  <2>1. Batch + (rec.next + 1) = Batch + rec.next + 1
    BY <1>9
  <2> QED BY <1>8, <1>11, <2>1
<1>16. \A i \in DOMAIN rec'.batch : rec'.from <= Height[rec'.batch[i]] /\ Height[rec'.batch[i]] <= rec'.maxH
  BY <1>8, <1>12
<1>17. /\ IsFiniteSet(rec'.addrs) /\ Cardinality(rec'.addrs) <= SampleLimit
       /\ rec'.mismatches > 0 => rec'.pc \in {"node", "db", "mismatch"}
       /\ rec'.pc = "mismatch" => rec'.mismatches > 0
  BY <1>8 DEF PassInv
<1> QED BY <1>14, <1>15, <1>16, <1>17 DEF PassInv

LEMMA ApplyCommitPass ==
    ASSUME StoreInv, PassInv(rec), ApplyCommit
    PROVE  PassInv(rec')
<1>1. rec.pc = "fetch" /\ txn[Tool].open /\ rec' = [rec EXCEPT !.batch = Tail(@)]
  BY DEF ApplyCommit
<1>2. DOMAIN rec = DOMAIN Idle /\ rec.batch \in Seq(Block) /\ rec.batch # <<>>
  BY <1>1, ToolRuns, IdleFacts DEF StoreInv
<1>3. PICK z : z = Tail(rec.batch)
  OBVIOUS
<1>4. "batch" \in DOMAIN rec
  BY <1>2 DEF Idle
<1>5. /\ rec'.batch = z /\ rec'.next = rec.next
      /\ rec'.from = rec.from /\ rec'.end = rec.end /\ rec'.maxH = rec.maxH
      /\ rec'.mismatches = rec.mismatches /\ rec'.addrs = rec.addrs /\ rec'.pc = rec.pc
  BY <1>1, <1>3, <1>4
<1>6. z \in Seq(Block) /\ Len(z) = Len(rec.batch) - 1 /\ Len(rec.batch) \in Nat
  BY <1>2, <1>3
<1>7. \A i \in DOMAIN z : z[i] = rec.batch[i + 1] /\ i + 1 \in DOMAIN rec.batch
  BY <1>2, <1>3, <1>6
<1>8. rec.next \in Nat /\ rec.end \in Nat /\ Batch \in Nat
  BY ReconcileAssumption DEF PassInv
<1>9. Len(z) <= Batch /\ Len(z) + rec.end <= Batch + rec.next
  <2>1. Len(rec.batch) <= Batch /\ Len(rec.batch) + rec.end <= Batch + rec.next
    BY DEF PassInv
  <2>2. PICK l, e, x : l = Len(rec.batch) /\ e = rec.end /\ x = rec.next
    OBVIOUS
  <2>3. /\ l \in Nat /\ e \in Nat /\ x \in Nat /\ Batch \in Nat
        /\ l <= Batch /\ l + e <= Batch + x /\ Len(z) = l - 1
    BY <1>6, <1>8, <2>1, <2>2
  <2>4. l - 1 <= Batch /\ l - 1 + e <= Batch + x
    BY <2>3
  <2> QED BY <2>2, <2>3, <2>4
<1> QED BY <1>2, <1>5, <1>7, <1>9 DEF PassInv

LEMMA NextBatchPass ==
    ASSUME StoreInv, PassInv(rec), NextBatch
    PROVE  PassInv(rec')
<1>1. rec.pc = "fetch" /\ rec.batch = <<>>
  BY DEF NextBatch
<1>2. DOMAIN rec = DOMAIN Idle
  BY <1>1, ToolRuns, IdleFacts DEF StoreInv
<1>3. "end" \in DOMAIN rec /\ "pc" \in DOMAIN rec
  BY <1>2 DEF Idle
<1>4. rec.next \in Nat /\ rec.maxH \in Nat /\ Batch \in Nat
  BY ReconcileAssumption DEF PassInv
<1>5. CASE rec' = [rec EXCEPT !.end = End(rec.next, rec.maxH)]
  <2>1. PICK e : e = End(rec.next, rec.maxH)
    OBVIOUS
  <2>2. e \in Nat /\ e <= rec.next + Batch /\ e <= rec.maxH + 1
    BY <1>4, <2>1, EndRange
  <2>3. /\ rec'.batch = <<>> /\ rec'.next = rec.next
        /\ rec'.from = rec.from /\ rec'.end = e /\ rec'.maxH = rec.maxH
        /\ rec'.mismatches = rec.mismatches /\ rec'.addrs = rec.addrs /\ rec'.pc = rec.pc
    BY <1>1, <1>3, <1>5, <2>1
  <2>4. Len(<<>>) = 0 /\ DOMAIN <<>> = {}
    OBVIOUS
  <2>5. Len(rec'.batch) <= Batch /\ Len(rec'.batch) + e <= Batch + rec.next
    BY <1>4, <2>2, <2>3, <2>4
  <2> QED BY <1>1, <2>2, <2>3, <2>4, <2>5 DEF PassInv
<1>6. CASE rec' = [rec EXCEPT !.pc = "sample"]
  <2>1. /\ rec'.batch = rec.batch /\ rec'.next = rec.next
        /\ rec'.from = rec.from /\ rec'.end = rec.end /\ rec'.maxH = rec.maxH
        /\ rec'.mismatches = rec.mismatches /\ rec'.addrs = rec.addrs /\ rec'.pc = "sample"
    BY <1>3, <1>6
  <2>2. ~(rec.mismatches > 0)
    BY <1>1 DEF PassInv
  <2> QED BY <2>1, <2>2 DEF PassInv
<1> QED BY <1>5, <1>6 DEF NextBatch

\* A step after the backfill.
LEMMA LaterPass ==
    ASSUME NEW r, NEW s, PassInv(r),
           s.from = r.from /\ s.next = r.next /\ s.end = r.end /\ s.maxH = r.maxH /\ s.batch = r.batch,
           IsFiniteSet(s.addrs) /\ Cardinality(s.addrs) <= SampleLimit,
           s.mismatches \in Nat, s.mismatches > 0 => s.pc \in {"node", "db", "mismatch"},
           s.pc = "mismatch" => s.mismatches > 0
    PROVE  PassInv(s)
BY DEF PassInv

LEMMA VerifyPass ==
    ASSUME StoreInv, PassInv(rec), Sample \/ (\E a \in rec.addrs : AskNode(a)) \/ Compare \/ Finish
    PROVE  PassInv(rec')
<1>1. rec.pc \in {"sample", "node", "db"}
  BY DEF Sample, AskNode, Compare, Finish
<1>2. DOMAIN rec = DOMAIN Idle
  BY <1>1, ToolRuns, IdleFacts DEF StoreInv
<1>3. /\ "pc" \in DOMAIN rec /\ "addrs" \in DOMAIN rec /\ "addr" \in DOMAIN rec
      /\ "nodeSet" \in DOMAIN rec /\ "mismatches" \in DOMAIN rec
  BY <1>2 DEF Idle
<1>4. /\ rec.mismatches \in Nat /\ IsFiniteSet(rec.addrs) /\ Cardinality(rec.addrs) <= SampleLimit
      /\ rec.pc = "sample" => ~(rec.mismatches > 0)
  BY DEF PassInv
<1>5. CASE Sample
  <2>1. CASE rec' = [Idle EXCEPT !.pc = "failed"]
    BY <2>1, IdlePass
  <2>2. ASSUME NEW S, IsFiniteSet(S), Cardinality(S) <= SampleLimit,
               rec' = [rec EXCEPT !.pc = "node", !.addrs = S]
        PROVE  PassInv(rec')
    <3>1. /\ rec'.from = rec.from /\ rec'.next = rec.next /\ rec'.end = rec.end /\ rec'.maxH = rec.maxH
          /\ rec'.batch = rec.batch /\ rec'.mismatches = rec.mismatches /\ rec'.pc = "node" /\ rec'.addrs = S
      BY <1>3, <2>2
    <3>2. rec.pc = "sample"
      BY <1>5 DEF Sample
    <3>3. /\ IsFiniteSet(rec'.addrs) /\ Cardinality(rec'.addrs) <= SampleLimit
          /\ rec'.mismatches \in Nat /\ ~(rec'.mismatches > 0) /\ rec'.pc # "mismatch"
      BY <1>4, <2>2, <3>1, <3>2
    <3> QED BY <3>1, <3>3, LaterPass
  <2> QED BY <1>5, <2>1, <2>2 DEF Sample
<1>6. ASSUME NEW a \in rec.addrs, AskNode(a) PROVE PassInv(rec')
  <2>1. PICK A : A = rec.addrs \ {a}
    OBVIOUS
  <2>2. IsFiniteSet(A) /\ Cardinality(A) <= SampleLimit
    <3>1. IsFiniteSet(A) /\ Cardinality(A) = Cardinality(rec.addrs) - 1
      BY <1>4, <1>6, <2>1, FS_RemoveElement
    <3>2. Cardinality(rec.addrs) \in Nat
      BY <1>4, FS_CardinalityType
    <3> QED BY <1>4, <3>1, <3>2, ReconcileAssumption
  <2>3. /\ rec'.from = rec.from /\ rec'.next = rec.next /\ rec'.end = rec.end /\ rec'.maxH = rec.maxH
        /\ rec'.batch = rec.batch /\ rec'.mismatches = rec.mismatches /\ rec'.pc \in {"node", "db"}
        /\ rec'.addrs = A
    <3>0. rec.pc = "node"
      BY <1>6 DEF AskNode
    <3>1. CASE rec' = [rec EXCEPT !.addrs = @ \ {a}]
      BY <1>3, <2>1, <3>0, <3>1
    <3>2. CASE rec' = [rec EXCEPT !.addrs = @ \ {a}, !.pc = "db", !.addr = {a}, !.nodeSet = NodeUnspent(a)]
      BY <1>3, <2>1, <3>2
    <3> QED BY <1>6, <3>1, <3>2 DEF AskNode
  <2>4. rec'.mismatches \in Nat /\ (rec'.mismatches > 0 => rec'.pc \in {"node", "db", "mismatch"})
        /\ rec'.pc # "mismatch"
    BY <1>4, <2>3
  <2>5. IsFiniteSet(rec'.addrs) /\ Cardinality(rec'.addrs) <= SampleLimit
    BY <2>2, <2>3
  <2> QED BY <2>3, <2>4, <2>5, LaterPass
<1>7. CASE Compare
  <2>1. PICK k \in {0, 1} : rec' = [rec EXCEPT !.pc = "node", !.addr = {}, !.nodeSet = {}, !.mismatches = @ + k]
    BY <1>7 DEF Compare
  <2>2. /\ rec'.from = rec.from /\ rec'.next = rec.next /\ rec'.end = rec.end /\ rec'.maxH = rec.maxH
        /\ rec'.batch = rec.batch /\ rec'.addrs = rec.addrs /\ rec'.pc = "node"
        /\ rec'.mismatches = rec.mismatches + k
    BY <1>3, <2>1
  <2>3. rec'.mismatches \in Nat
    BY <1>4, <2>2
  <2> QED BY <1>4, <2>2, <2>3, LaterPass
<1>8. CASE Finish
  <2>1. /\ rec'.from = rec.from /\ rec'.next = rec.next /\ rec'.end = rec.end /\ rec'.maxH = rec.maxH
        /\ rec'.batch = rec.batch /\ rec'.addrs = rec.addrs /\ rec'.mismatches = rec.mismatches
        /\ rec'.pc = IF rec.mismatches > 0 THEN "mismatch" ELSE "ok"
    BY <1>3, <1>8 DEF Finish
  <2> QED BY <1>4, <2>1, LaterPass
<1> QED BY <1>5, <1>6, <1>7, <1>8

-----------------------------------------------------------------------------
(* The comparison with the node.                                           *)

\* Above a stored block the node's chain is the stored one.
LEMMA StoredAbove ==
    ASSUME NEW S, NEW t \in Block, IsChain(S, t), NEW b \in S, NEW c \in Ancestry[t],
           Height[b] <= Height[c]
    PROVE  c \in S
<1> DEFINE A == Ancestry[t]
           T == {x \in A : x \in S \/ Height[x] < Height[b]}
<1>1. t \in A /\ A \in SUBSET Block /\ HasParents(A)
  BY AncestryHas
<1>2. /\ S \subseteq Block /\ t \in S
      /\ \A x \in S : Below(S, x) => ParentHash[x] \in S
  BY NoBlockAssumption DEF IsChain
<1>3. \A x \in Block : Height[x] \in Nat
  BY HeightAssumption
<1> HIDE DEF A
<1>4. ASSUME NEW x \in T, ParentHash[x] \in Block PROVE ParentHash[x] \in T
  <2>1. x \in A /\ x \in Block /\ ParentHash[x] \in A
    BY <1>1, <1>4 DEF HasParents
  <2>2. Height[x] = Height[ParentHash[x]] + 1
    BY <1>4, <2>1, NumberingAssumption
  <2>3. Height[x] \in Nat /\ Height[ParentHash[x]] \in Nat /\ Height[b] \in Nat
    BY <1>2, <1>3, <1>4, <2>1
  <2>4. CASE Height[ParentHash[x]] < Height[b]
    BY <2>1, <2>4
  <2>5. CASE ~(Height[ParentHash[x]] < Height[b])
    <3>1. Height[b] < Height[x]
      BY <2>2, <2>3, <2>5
    <3>2. ~(Height[x] < Height[b])
      BY <2>3, <3>1
    <3>3. x \in S
      BY <3>2
    <3>4. Below(S, x)
      BY <3>1 DEF Below
    <3> QED BY <1>2, <2>1, <3>3, <3>4
  <2> QED BY <2>4, <2>5
<1>5. T \in SUBSET Block /\ t \in T /\ HasParents(T)
  BY <1>1, <1>2, <1>4 DEF HasParents
<1>6. A \subseteq T
  BY <1>5, AncestryLeast DEF A
<1>7. c \in A /\ c \in Block /\ b \in Block
  BY <1>1, <1>2 DEF A
<1>8. ~(Height[c] < Height[b])
  BY <1>3, <1>7
<1> QED BY <1>6, <1>7, <1>8

\* A created output is trimmed, if at all, above the block that creates it.
LEMMA CreatedRow ==
    ASSUME NEW b \in Block, NEW r \in Creates(b)
    PROVE  /\ r.created = Height[b]
           /\ r.deadline = Null \/ (r.deadline \in Nat /\ r.deadline > Height[b])
<1>1. PICK i \in DOMAIN Body[b] : r \in QiRows(Body[b][i], Height[b]) \cup EtxRows(Body[b][i], Height[b])
  BY DEF Creates, ToSet
<1>2. WellFormed(Body[b][i]) /\ Height[b] \in Nat
  BY BodyAssumption, HeightAssumption
<1>3. PICK t : t = Body[b][i]
  OBVIOUS
<1>4. PICK j, lock : j \in DOMAIN t.outs /\ r = OutputRow(t, j, lock, Height[b]) /\ (IsQiTx(t) \/ IsEtx(t))
  BY <1>1, <1>3 DEF QiRows, EtxRows
<1>5. TrimDepth[t.outs[j].denom] \in Nat
  BY <1>2, <1>3, <1>4 DEF WellFormed
<1>6. PICK d : d = NullIfZero(TrimDeadline(t.outs[j].denom, Height[b]))
  OBVIOUS
<1>7. r.created = Height[b] /\ r.deadline = d
  BY <1>4, <1>6 DEF OutputRow, NewRow
<1>8. d = Null \/ (d \in Nat /\ d > Height[b])
  BY <1>2, <1>5, <1>6 DEF NullIfZero, TrimDeadline
<1> QED BY <1>7, <1>8

\* Chains with the same spenders of an output, and a block at its deadline or
\* none, say the same of it.
LEMMA FateSame ==
    ASSUME NEW r, NEW S, NEW A,
           {c \in S : Spends(c, r.op) /\ Height[c] >= r.created}
               = {c \in A : Spends(c, r.op) /\ Height[c] >= r.created},
           r.deadline # Null => ((\E c \in S : Height[c] = r.deadline) <=> (\E c \in A : Height[c] = r.deadline))
    PROVE  Fate(r, S) = Fate(r, A)
<1> DEFINE Of(C) == {c \in C : Spends(c, r.op) /\ Height[c] >= r.created}
<1>1. Of(S) = Of(A)
  OBVIOUS
<1>2. ASSUME NEW C
      PROVE  Fate(r, C) = LET spender == CHOOSE c \in Of(C) : TRUE
                              due == r.lock = 0 /\ r.deadline # Null /\ \E c \in C : Height[c] = r.deadline
                          IN IF Of(C) # {}
                             THEN [r EXCEPT !.spent = Height[spender],
                                            !.spentTx = (CHOOSE x \in ToSet(Body[spender]) :
                                                             IsQiTx(x) /\ r.op \in ToSet(x.ins)).hash]
                             ELSE IF due THEN [r EXCEPT !.trimmed = r.deadline] ELSE r
  BY Zenon DEF Fate
<1> HIDE DEF Of
<1>3. CASE Of(S) # {}
  BY <1>1, <1>2, <1>3, ZenonT(60)
<1>4. CASE Of(S) = {}
  BY <1>1, <1>2, <1>4, Zenon
<1> QED BY <1>3, <1>4

\* The stored chain and the node's say the same of a stored block's outputs.
LEMMA SameFateOnNode ==
    ASSUME NEW S, NEW t \in Block, IsChain(S, t), S \subseteq Ancestry[t], NEW b \in S, NEW r \in Creates(b)
    PROVE  Fate(r, S) = Fate(r, Ancestry[t])
<1> DEFINE A == Ancestry[t]
           Of(C) == {c \in C : Spends(c, r.op) /\ Height[c] >= r.created}
<1>1. b \in Block /\ A \in SUBSET Block
  BY AncestryHas DEF IsChain
<1>2. /\ r.created = Height[b]
      /\ r.deadline = Null \/ (r.deadline \in Nat /\ r.deadline > Height[b])
  BY <1>1, CreatedRow
<1>3. \A c \in A : Height[c] \in Nat
  BY <1>1, HeightAssumption
<1>4. Height[b] \in Nat
  BY <1>1, HeightAssumption
<1>5. \A c \in A : Height[b] <= Height[c] => c \in S
  BY StoredAbove
<1>6. S \subseteq A
  OBVIOUS
<1> HIDE DEF A
<1>7. Of(S) = Of(A)
  BY <1>2, <1>3, <1>4, <1>5, <1>6
<1>8. r.deadline # Null => ((\E c \in S : Height[c] = r.deadline) <=> (\E c \in A : Height[c] = r.deadline))
  BY <1>2, <1>3, <1>4, <1>5, <1>6
<1> QED BY <1>7, <1>8, FateSame DEF A

\* What the node has of address a when its head is t.
NodeHas(t, a) == {r.op : r \in {s \in LiveIn(ExpectedUtxos(Ancestry[t])) : Owner[s.op] = a}}

LEMMA NodeHasUnspent ==
    \A a : NodeUnspent(a) = NodeHas(nodeHead, a)
BY DEF NodeUnspent, NodeHas, Canonical

\* An address is counted because the tables have an unspent output that the
\* stored chain does not.
LEMMA PhantomOnly ==
    ASSUME NEW d, NEW t \in Block, IsChain(d.blocks, t), d.blocks \subseteq Ancestry[t], NEW A, NEW N,
           N = UNION {NodeHas(t, a) : a \in A},
           NEW r \in LiveIn(d.utxos), Owner[r.op] \in A, r.op \notin N
    PROVE  r \notin ExpectedUtxos(d.blocks)
<1> SUFFICES ASSUME r \in ExpectedUtxos(d.blocks) PROVE FALSE
  OBVIOUS
<1>1. PICK b, q : b \in d.blocks /\ q \in Creates(b) /\ r = Fate(q, d.blocks)
  BY DEF ExpectedUtxos
<1>2. r = Fate(q, Ancestry[t])
  BY <1>1, SameFateOnNode
<1>3. b \in Ancestry[t]
  BY <1>1
<1>4. r \in ExpectedUtxos(Ancestry[t])
  BY <1>1, <1>2, <1>3 DEF ExpectedUtxos
<1>5. r \in LiveIn(ExpectedUtxos(Ancestry[t]))
  BY <1>4 DEF LiveIn
<1>6. r.op \in NodeHas(t, Owner[r.op])
  BY <1>5 DEF NodeHas
<1> QED BY <1>6

\* The alarm's invariant, of the variables it is about.
Alarm(d, R, h, q, r) ==
    q /\ h = d.tip =>
        /\ r.pc = "db" => r.nodeSet = UNION {NodeHas(h, a) : a \in r.addr}
        /\ ~R /\ r.mismatches > 0 => LiveIn(d.utxos) \ ExpectedUtxos(d.blocks) # {}

Calm(d, h, P, T) == d.blocks \subseteq Ancestry[h] /\ \A p \in P : ~T[p].open

LEMMA AlarmIs == AlarmInv <=> (quiet => Calm(db, nodeHead, DOMAIN mind, txn)) /\ Alarm(db, raced, nodeHead, quiet, rec)
<1>1. Still <=> Calm(db, nodeHead, DOMAIN mind, txn)
  BY DEF Still, Calm, Canonical
<1>2. UNION {NodeUnspent(a) : a \in rec.addr} = UNION {NodeHas(nodeHead, a) : a \in rec.addr}
  BY NodeHasUnspent
<1> QED BY <1>1, <1>2 DEF AlarmInv, Alarm

LEMMA AlarmIsNext ==
    AlarmInv' <=> (quiet' => Calm(db', nodeHead', DOMAIN mind', txn')) /\ Alarm(db', raced', nodeHead', quiet', rec')
<1>1. Still' <=> Calm(db', nodeHead', DOMAIN mind', txn')
  BY DEF Still, Calm, Canonical
<1>2. ASSUME NEW a PROVE NodeUnspent(a)' = NodeHas(nodeHead', a)
  BY DEF NodeUnspent, NodeHas, Canonical, LiveIn, ExpectedUtxos
<1>3. UNION {NodeUnspent(a)' : a \in rec'.addr} = UNION {NodeHas(nodeHead', a) : a \in rec'.addr}
  BY <1>2
<1> QED BY <1>1, <1>3 DEF AlarmInv, Alarm

\* A step of the tool leaves the index still.
LEMMA ToolCalm ==
    ASSUME WritersInv, AlarmInv, db'.blocks = db.blocks,
           UNCHANGED <<nodeHead, mind, quiet>>, txn' = txn \/ \E t : txn' = [txn EXCEPT ![Tool] = t]
    PROVE  quiet' => Calm(db', nodeHead', DOMAIN mind', txn')
<1>1. DOMAIN mind = DOMAIN txn \ {Tool}
  BY DEF WritersInv
<1>2. \A p \in DOMAIN mind : txn'[p] = txn[p]
  BY <1>1
<1>3. quiet => Calm(db, nodeHead, DOMAIN mind, txn)
  BY AlarmIs
<1> QED BY <1>2, <1>3 DEF Calm

\* No address is compared yet.
LEMMA NoAlarm ==
    ASSUME NEW d, NEW R, NEW h, NEW q, NEW r, PassInv(r), r.pc \notin {"node", "db", "mismatch"}
    PROVE  Alarm(d, R, h, q, r)
BY DEF Alarm, PassInv

LEMMA ApplyingAlarm ==
    ASSUME StoreInv, PassInv(rec), AlarmInv, PassInv(rec'), ApplyBegin \/ ApplyRun \/ ApplyCommit \/ Fail
    PROVE  AlarmInv'
<1>1. WritersInv
  BY DEF StoreInv
<1>2. CASE ApplyBegin \/ ApplyRun
  <2>1. rec.pc = "fetch" /\ UNCHANGED <<db, mind, nodeHead, raced, quiet, rec>>
    BY <1>2 DEF ApplyBegin, ApplyRun, Elsewhere
  <2>2. \E t : txn' = [txn EXCEPT ![Tool] = t]
    BY <1>2 DEF ApplyBegin, ApplyRun, RunStatement
  <2>3. rec'.pc = "fetch"
    BY <2>1
  <2>4. quiet' => Calm(db', nodeHead', DOMAIN mind', txn')
    BY <1>1, <2>1, <2>2, ToolCalm
  <2>5. Alarm(db', raced', nodeHead', quiet', rec')
    BY <2>3, NoAlarm
  <2> QED BY <2>4, <2>5, AlarmIsNext
<1>3. CASE ApplyCommit
  <2>1. /\ rec.pc = "fetch" /\ txn[Tool].open /\ db' = View(db, txn[Tool]) /\ rec' = [rec EXCEPT !.batch = Tail(@)]
        /\ txn' = [txn EXCEPT ![Tool] = NoTxn] /\ UNCHANGED <<mind, nodeHead, raced, quiet>>
    BY <1>3 DEF ApplyCommit
  <2>2. TxnInv(seen, txn[Tool]) /\ ToolInv(db, txn[Tool], rec) /\ DOMAIN rec = DOMAIN Idle /\ IsTables(db)
    BY <1>1, <2>1, ToolRuns, IdleFacts DEF WritersInv
  <2>3. db'.blocks = db.blocks
    BY <2>1, <2>2, ToolCommits
  <2>4. rec'.pc = "fetch"
    BY <2>1
  <2>5. quiet' => Calm(db', nodeHead', DOMAIN mind', txn')
    BY <1>1, <2>1, <2>3, ToolCalm
  <2>6. Alarm(db', raced', nodeHead', quiet', rec')
    BY <2>4, NoAlarm
  <2> QED BY <2>5, <2>6, AlarmIsNext
<1>4. CASE Fail
  <2>1. /\ rec' = [Idle EXCEPT !.pc = "failed"]
        /\ txn' = [txn EXCEPT ![Tool] = NoTxn] /\ UNCHANGED <<db, mind, nodeHead, raced, quiet>>
    BY <1>4 DEF Fail, Elsewhere
  <2>2. rec'.pc = "failed"
    BY <2>1, IdleFacts
  <2>3. quiet' => Calm(db', nodeHead', DOMAIN mind', txn')
    BY <1>1, <2>1, ToolCalm
  <2>4. Alarm(db', raced', nodeHead', quiet', rec')
    BY <2>2, NoAlarm
  <2> QED BY <2>3, <2>4, AlarmIsNext
<1> QED BY <1>2, <1>3, <1>4

LEMMA StartAlarm ==
    ASSUME StoreInv, PassInv(rec'), NEW n, Start(n)
    PROVE  AlarmInv'
<1>1. UNCHANGED <<db, txn, mind, nodeHead, raced>> /\ quiet' = Still
  BY DEF Start, Elsewhere
<1>2. rec'.pc \in {"failed", "fetch"}
  BY DEF Start, Idle
<1>3. Alarm(db', raced', nodeHead', quiet', rec')
  BY <1>2, NoAlarm
<1>4. Still => Calm(db, nodeHead, DOMAIN mind, txn)
  BY DEF Still, Calm, Canonical
<1> QED BY <1>1, <1>3, <1>4, AlarmIsNext

\* The steps that leave the database and the transactions alone.
LEMMA ReadingAlarm ==
    ASSUME StoreInv, PassInv(rec), AlarmInv, PassInv(rec'), UNCHANGED <<db, txn, mind, nodeHead, raced, quiet>>,
           Alarm(db, raced, nodeHead, quiet, rec')
    PROVE  AlarmInv'
<1>1. quiet' => Calm(db', nodeHead', DOMAIN mind', txn')
  BY ToolCalm DEF StoreInv
<1>2. Alarm(db', raced', nodeHead', quiet', rec')
  OBVIOUS
<1> QED BY <1>1, <1>2, AlarmIsNext

LEMMA PassAlarm ==
    ASSUME StoreInv, PassInv(rec), AlarmInv, PassInv(rec'),
           Fetch \/ NextBatch \/ Sample \/ (\E a \in rec.addrs : AskNode(a)) \/ Compare \/ Finish
    PROVE  AlarmInv'
<1>1. UNCHANGED <<db, txn, mind, nodeHead, raced, quiet>>
  BY DEF Fetch, NextBatch, Sample, AskNode, Compare, Finish, Elsewhere
<1>2. rec.pc \in {"fetch", "sample", "node", "db"}
  BY DEF Fetch, NextBatch, Sample, AskNode, Compare, Finish
<1>3. DOMAIN rec = DOMAIN Idle
  BY <1>2, ToolRuns, IdleFacts DEF StoreInv
<1>4. /\ "pc" \in DOMAIN rec /\ "addrs" \in DOMAIN rec /\ "addr" \in DOMAIN rec
      /\ "nodeSet" \in DOMAIN rec /\ "mismatches" \in DOMAIN rec
  BY <1>3 DEF Idle
<1>5. Alarm(db, raced, nodeHead, quiet, rec)
  BY AlarmIs
<1>6. CASE Fetch \/ NextBatch
  <2>1. rec'.pc \in {"fetch", "sample"}
    BY <1>4, <1>6 DEF Fetch, NextBatch
  <2>2. Alarm(db, raced, nodeHead, quiet, rec')
    BY <2>1, NoAlarm
  <2> QED BY <1>1, <2>2, ReadingAlarm
<1>7. CASE Sample
  <2>1. CASE rec' = [Idle EXCEPT !.pc = "failed"]
    <3>1. rec'.pc = "failed"
      BY <2>1, IdleFacts
    <3>2. Alarm(db, raced, nodeHead, quiet, rec')
      BY <3>1, NoAlarm
    <3> QED BY <1>1, <3>2, ReadingAlarm
  <2>2. ASSUME NEW S, rec' = [rec EXCEPT !.pc = "node", !.addrs = S] PROVE AlarmInv'
    <3>1. rec'.pc = "node" /\ rec'.mismatches = rec.mismatches
      BY <1>4, <2>2
    <3>2. ~(rec.mismatches > 0)
      BY <1>7 DEF Sample, PassInv
    <3>3. Alarm(db, raced, nodeHead, quiet, rec')
      BY <3>1, <3>2 DEF Alarm
    <3> QED BY <1>1, <3>3, ReadingAlarm
  <2> QED BY <1>7, <2>1, <2>2 DEF Sample
<1>8. ASSUME NEW a \in rec.addrs, AskNode(a) PROVE AlarmInv'
  <2>1. rec.pc = "node"
    BY <1>8 DEF AskNode
  <2>2. CASE rec' = [rec EXCEPT !.addrs = @ \ {a}]
    <3>1. rec'.pc = "node" /\ rec'.mismatches = rec.mismatches
      BY <1>4, <2>1, <2>2
    <3>2. Alarm(db, raced, nodeHead, quiet, rec')
      BY <1>5, <3>1 DEF Alarm
    <3> QED BY <1>1, <3>2, ReadingAlarm
  <2>3. CASE rec' = [rec EXCEPT !.addrs = @ \ {a}, !.pc = "db", !.addr = {a}, !.nodeSet = NodeUnspent(a)]
    <3>1. rec'.addr = {a} /\ rec'.nodeSet = NodeHas(nodeHead, a) /\ rec'.mismatches = rec.mismatches
      BY <1>4, <2>3, NodeHasUnspent
    <3>2. rec'.nodeSet = UNION {NodeHas(nodeHead, x) : x \in rec'.addr}
      BY <3>1
    <3>3. Alarm(db, raced, nodeHead, quiet, rec')
      BY <1>5, <3>1, <3>2 DEF Alarm
    <3> QED BY <1>1, <3>3, ReadingAlarm
  <2> QED BY <1>8, <2>2, <2>3 DEF AskNode
<1>9. CASE Compare
  <2>1. PICK only : only = OnlyDB(rec.nodeSet, DbUnspent(rec.addr))
    OBVIOUS
  <2>2. rec.pc = "db" /\ rec' = [rec EXCEPT !.pc = "node", !.addr = {}, !.nodeSet = {},
                                            !.mismatches = @ + IF only # {} THEN 1 ELSE 0]
    BY <1>9, <2>1 DEF Compare
  <2>3. rec'.pc = "node" /\ rec'.mismatches = rec.mismatches + IF only # {} THEN 1 ELSE 0
    BY <1>4, <2>2
  <2>4. ASSUME quiet, nodeHead = db.tip, ~raced, only # {}
        PROVE  LiveIn(db.utxos) \ ExpectedUtxos(db.blocks) # {}
    <3>1. PICK op : op \in DbUnspent(rec.addr) /\ op \notin rec.nodeSet
      BY <2>1, <2>4 DEF OnlyDB
    <3>2. PICK r \in LiveIn(db.utxos) : Owner[r.op] \in rec.addr /\ r.op = op
      BY <3>1 DEF DbUnspent
    <3>3. rec.nodeSet = UNION {NodeHas(nodeHead, a) : a \in rec.addr}
      BY <1>5, <2>2, <2>4 DEF Alarm
    <3>4. IsChain(db.blocks, nodeHead) /\ nodeHead \in Block
      BY <2>4 DEF StoreInv, ChainInv, WritersInv
    <3>5. db.blocks \subseteq Ancestry[nodeHead]
      BY <2>4, AlarmIs DEF Calm
    <3>6. r \notin ExpectedUtxos(db.blocks)
      BY <3>1, <3>2, <3>3, <3>4, <3>5, PhantomOnly
    <3> QED BY <3>2, <3>6
  <2>5. rec.mismatches \in Nat
    BY DEF PassInv
  <2>6. rec'.mismatches > 0 => rec.mismatches > 0 \/ only # {}
    BY <2>3, <2>5
  <2>7. Alarm(db, raced, nodeHead, quiet, rec')
    BY <1>5, <2>3, <2>4, <2>6 DEF Alarm
  <2> QED BY <1>1, <2>7, ReadingAlarm
<1>10. CASE Finish
  <2>1. rec'.pc \in {"mismatch", "ok"} /\ rec'.mismatches = rec.mismatches
    BY <1>4, <1>10 DEF Finish
  <2>2. Alarm(db, raced, nodeHead, quiet, rec')
    BY <1>5, <2>1 DEF Alarm
  <2> QED BY <1>1, <2>2, ReadingAlarm
<1> QED BY <1>6, <1>7, <1>8, <1>9, <1>10

\* While a pass is quiet no indexer takes a step that matters to it, and a
\* node that moves leaves the stored tip for good.
LEMMA OthersAlarm ==
    ASSUME StoreInv, AlarmInv, Others
    PROVE  AlarmInv'
<1>1. quiet' = (quiet /\ Still') /\ rec' = rec
  BY DEF Others
<1>2. Still' => Calm(db', nodeHead', DOMAIN mind', txn')
  BY DEF Still, Calm, Canonical
<1>3. quiet' => Calm(db', nodeHead', DOMAIN mind', txn')
  BY <1>1, <1>2
<1>4. /\ quiet => Calm(db, nodeHead, DOMAIN mind, txn)
      /\ Alarm(db, raced, nodeHead, quiet, rec)
  BY AlarmIs
<1>5. WritersInv
  BY DEF StoreInv
<1> SUFFICES ASSUME quiet', nodeHead' = db'.tip PROVE Alarm(db', raced', nodeHead', quiet', rec')
  BY <1>3, AlarmIsNext DEF Alarm
<1>6. quiet
  BY <1>1
<1>7. ASSUME NEW b \in Block, NodeAdvance(b) PROVE FALSE
  <2>1. nodeHead' = b /\ db' = db /\ b \notin seen
    BY <1>7 DEF NodeAdvance
  <2>2. db.tip \in seen \cup {NoBlock}
    BY <1>5 DEF WritersInv
  <2> QED BY <1>7, <2>1, <2>2, NoBlockAssumption
<1>8. ASSUME NEW p \in DOMAIN mind, WriterStep(p) PROVE UNCHANGED <<db, nodeHead, raced>>
  <2>1. p \in DOMAIN txn /\ TxnInv(seen, txn[p]) /\ DOMAIN mind = DOMAIN txn \ {Tool}
    BY <1>5, <1>8 DEF WritersInv
  <2>2. ~txn[p].open
    BY <1>4, <1>6, <1>8 DEF Calm
  <2>3. CASE Load(p)
    BY <2>3 DEF Load
  <2>4. CASE Run(p)
    BY <2>4 DEF Run
  <2>5. CASE Commit(p) \/ Abort(p)
    BY <2>2, <2>5 DEF Commit, Abort
  <2>6. ASSUME NEW s \in Branches, Begin(p, s) PROVE UNCHANGED <<db, nodeHead, raced>>
    BY <2>6 DEF Begin
  <2> QED BY <1>8, <2>3, <2>4, <2>5, <2>6 DEF WriterStep
<1>9. UNCHANGED <<db, nodeHead, raced>>
  BY <1>7, <1>8 DEF Others
<1>10. quiet' = quiet
  BY <1>1, <1>6
<1> QED BY <1>1, <1>4, <1>9, <1>10

-----------------------------------------------------------------------------
(* What every step keeps of the pass and of the comparison.                *)

LEMMA SeenKeeps ==
    ASSUME WritersInv, SeenInv, seen' = seen \/ \E b \in Block : NodeAdvance(b)
    PROVE  SeenInv'
<1>1. CASE seen' = seen
  BY <1>1 DEF SeenInv
<1>2. ASSUME NEW b \in Block, NodeAdvance(b) PROVE SeenInv'
  <2>1. seen' = seen \cup Ancestry[b]
    BY <1>2 DEF NodeAdvance
  <2>2. PICK t \in seen : \A c \in seen : Height[c] <= Height[t]
    BY DEF SeenInv
  <2>3. seen \subseteq Block /\ b \in Ancestry[b] /\ Ancestry[b] \subseteq Block
    BY AncestryHas DEF WritersInv
  <2>4. \A c \in seen \cup Ancestry[b] : Height[c] \in Nat
    BY <2>3, HeightAssumption
  <2>5. \A c \in Ancestry[b] : Height[c] <= Height[b]
    <3>1. \A c \in Ancestry[b] : c = b \/ Height[c] < Height[b]
      BY AncestryBelow
    <3> QED BY <2>3, <2>4, <3>1
  <2>6. CASE Height[b] <= Height[t]
    <3>1. \A c \in seen' : Height[c] <= Height[t]
      BY <2>1, <2>2, <2>3, <2>4, <2>5, <2>6
    <3> QED BY <2>1, <3>1 DEF SeenInv
  <2>7. CASE ~(Height[b] <= Height[t])
    <3>1. \A c \in seen' : Height[c] <= Height[b]
      BY <2>1, <2>2, <2>3, <2>4, <2>5, <2>7
    <3> QED BY <2>1, <2>3, <3>1 DEF SeenInv
  <2> QED BY <2>6, <2>7
<1> QED BY <1>1, <1>2

LEMMA PassStep ==
    ASSUME StoreInv, SeenInv, PassInv(rec), [ReconcileNext]_recvars
    PROVE  PassInv(rec')
<1>1. CASE ApplyBegin \/ ApplyRun \/ Others \/ UNCHANGED recvars
  <2>1. rec' = rec
    BY <1>1 DEF ApplyBegin, ApplyRun, Others, recvars
  <2> QED BY <2>1
<1>2. CASE ApplyCommit
  BY <1>2, ApplyCommitPass
<1>3. CASE Fail
  <2>1. rec' = [Idle EXCEPT !.pc = "failed"]
    BY <1>3 DEF Fail
  <2> QED BY <2>1, IdlePass
<1>4. ASSUME NEW n \in NBlocks, Start(n) PROVE PassInv(rec')
  BY <1>4, StartPass
<1>5. CASE Fetch
  BY <1>5, FetchPass
<1>6. CASE NextBatch
  BY <1>6, NextBatchPass
<1>7. CASE Sample \/ (\E a \in rec.addrs : AskNode(a)) \/ Compare \/ Finish
  BY <1>7, VerifyPass
<1> QED BY <1>1, <1>2, <1>3, <1>4, <1>5, <1>6, <1>7 DEF ReconcileNext, ReconcileStep, Applying, Reading

LEMMA AlarmStep ==
    ASSUME StoreInv, PassInv(rec), PassInv(rec'), AlarmInv, [ReconcileNext]_recvars
    PROVE  AlarmInv'
<1>1. CASE ApplyBegin \/ ApplyRun \/ ApplyCommit \/ Fail
  BY <1>1, ApplyingAlarm
<1>2. ASSUME NEW n \in NBlocks, Start(n) PROVE AlarmInv'
  BY <1>2, StartAlarm
<1>3. CASE Fetch \/ NextBatch \/ Sample \/ (\E a \in rec.addrs : AskNode(a)) \/ Compare \/ Finish
  BY <1>3, PassAlarm
<1>4. CASE Others
  BY <1>4, OthersAlarm
<1>5. CASE UNCHANGED recvars
  <2>1. UNCHANGED <<db, txn, mind, nodeHead, raced, quiet, rec>>
    BY <1>5 DEF recvars, wvars
  <2>2. Alarm(db, raced, nodeHead, quiet, rec) /\ (quiet => Calm(db, nodeHead, DOMAIN mind, txn))
    BY AlarmIs
  <2> QED BY <2>1, <2>2, AlarmIsNext
<1> QED BY <1>1, <1>2, <1>3, <1>4, <1>5 DEF ReconcileNext, ReconcileStep, Applying, Reading

LEMMA SeenStep ==
    ASSUME WritersInv, SeenInv, [ReconcileNext]_recvars
    PROVE  SeenInv'
<1>1. CASE ReconcileStep
  <2>1. seen' = seen
    BY <1>1 DEF ReconcileStep, Applying, Reading, ApplyBegin, ApplyRun, ApplyCommit, Fail, Start, Fetch,
                NextBatch, Sample, AskNode, Compare, Finish, Elsewhere
  <2> QED BY <2>1, SeenKeeps
<1>2. CASE Others
  <2>1. ASSUME NEW p \in DOMAIN mind, WriterStep(p) PROVE seen' = seen
    BY <2>1 DEF WriterStep, Load, Run, Commit, Abort, Begin
  <2> QED BY <1>2, <2>1, SeenKeeps DEF Others
<1>3. CASE UNCHANGED recvars
  <2>1. seen' = seen
    BY <1>3 DEF recvars, wvars
  <2> QED BY <2>1, SeenKeeps
<1> QED BY <1>1, <1>2, <1>3 DEF ReconcileNext

LEMMA InitPass ==
    ASSUME ReconcileInit
    PROVE  SeenInv /\ PassInv(rec) /\ AlarmInv
<1>1. nodeHead \in Block /\ seen = Ancestry[nodeHead] /\ rec = Idle /\ quiet = FALSE
  BY DEF ReconcileInit
<1>2. SeenInv
  <2>1. nodeHead \in seen /\ seen \subseteq Block
    BY <1>1, AncestryHas
  <2>2. \A c \in seen : c = nodeHead \/ Height[c] < Height[nodeHead]
    BY <1>1, AncestryBelow
  <2>3. \A c \in seen : Height[c] \in Nat
    BY <2>1, HeightAssumption
  <2>4. \A c \in seen : Height[c] <= Height[nodeHead]
    BY <2>1, <2>2, <2>3
  <2> QED BY <2>1, <2>4 DEF SeenInv
<1>3. PassInv(rec)
  BY <1>1, IdlePass
<1>4. AlarmInv
  BY <1>1 DEF AlarmInv
<1> QED BY <1>2, <1>3, <1>4

-----------------------------------------------------------------------------
(* Rows that stem from statements.                                         *)

LEMMA EndedMore ==
    ASSUME NEW r, NEW D, NEW E, D \subseteq E, EndedBy(r, D)
    PROVE  EndedBy(r, E)
BY DEF EndedBy, SpendsOf, DueIn

LEMMA StemsMore ==
    ASSUME NEW r, NEW D, NEW E, D \subseteq E, Stems(r, D)
    PROVE  Stems(r, E)
<1>1. EndedBy(r, E)
  BY EndedMore DEF Stems
<1>2. RowsIn(D) \subseteq RowsIn(E)
  BY DEF RowsIn
<1> QED BY <1>1, <1>2 DEF Stems

\* A spend or a sweep ends a row or leaves it.
LEMMA EndedRow ==
    ASSUME NEW r, IsRow(r), NEW s, s.sql \in {"spend", "sweep"}, NEW x, x = RowAfter(r, s),
           NEW D, EndedBy(r, D)
    PROVE  SameOutput(r, x) /\ EndedBy(x, D \cup {s})
<1>1. CASE x = r
  BY <1>1, EndedMore DEF SameOutput
<1>2. CASE x # r /\ s.sql = "spend"
  <2>1. Live(r) /\ r.op = s.op /\ x = [r EXCEPT !.spent = s.h, !.spentTx = s.tx]
    BY <1>2 DEF RowAfter
  <2>2. /\ x.op = r.op /\ x.created = r.created /\ x.deadline = r.deadline /\ x.lock = r.lock
        /\ x.spent = s.h /\ x.trimmed = r.trimmed
    BY <2>1 DEF IsRow
  <2>3. s \in SpendsOf(x.op, D \cup {s})
    BY <1>2, <2>1, <2>2 DEF SpendsOf
  <2>4. x.trimmed = Null
    BY <2>1, <2>2 DEF Live
  <2> QED BY <2>2, <2>3, <2>4 DEF SameOutput, EndedBy
<1>3. CASE x # r /\ s.sql = "sweep"
  <2>1. Live(r) /\ r.deadline = s.h /\ r.lock = 0 /\ x = [r EXCEPT !.trimmed = s.h]
    BY <1>3 DEF RowAfter
  <2>2. /\ x.op = r.op /\ x.created = r.created /\ x.deadline = r.deadline /\ x.lock = r.lock
        /\ x.trimmed = s.h /\ x.spent = r.spent
    BY <2>1 DEF IsRow
  <2>3. DueIn(x, D \cup {s})
    BY <1>3, <2>1, <2>2 DEF DueIn
  <2>4. x.spent = Null
    BY <2>1, <2>2 DEF Live
  <2> QED BY <2>1, <2>2, <2>3, <2>4 DEF SameOutput, EndedBy
<1> QED BY <1>1, <1>2, <1>3

RowsStem(U, D) == \A r \in U : IsRow(r) /\ Stems(r, D)

\* A statement of applyBlock that can run.
Applied(s) == s.sql \in {"spend", "insert", "conv", "sweep"} /\ (s.sql = "insert" => Fresh(s.row))

\* It leaves rows that stem from it too.
LEMMA StemsAfter ==
    ASSUME NEW U, NEW s, Applied(s), NEW D, RowsStem(U, D)
    PROVE  \A r \in UtxosAfter(U, s) : Stems(r, D \cup {s})
<1>0. /\ s.sql \in {"spend", "insert", "conv", "sweep"} /\ (s.sql = "insert" => Fresh(s.row))
      /\ \A r \in U : IsRow(r) /\ Stems(r, D)
  BY DEF Applied, RowsStem
<1>1. SUFFICES ASSUME NEW x \in UtxosAfter(U, s) PROVE Stems(x, D \cup {s})
  OBVIOUS
<1>2. CASE x \in U
  BY <1>0, <1>2, StemsMore
<1>3. CASE x \notin U /\ s.sql \in {"spend", "sweep"}
  <2>1. x \in {RowAfter(r, s) : r \in U}
    BY <1>1, <1>3, UpdateRows DEF UpdateSql
  <2>2. PICK r \in U : x = RowAfter(r, s)
    BY <2>1
  <2>3. IsRow(r) /\ Stems(r, D)
    BY <1>0
  <2>4. SameOutput(r, x) /\ EndedBy(x, D \cup {s})
    BY <1>3, <2>2, <2>3, EndedRow DEF Stems
  <2>5. PICK q \in RowsIn(D) : SameOutput(q, r)
    BY <2>3 DEF Stems
  <2>6. q \in RowsIn(D \cup {s}) /\ SameOutput(q, x)
    BY <2>4, <2>5 DEF SameOutput, RowsIn
  <2> QED BY <2>4, <2>6 DEF Stems
<1>4. CASE x \notin U /\ s.sql = "insert"
  <2>1. x = s.row
    BY <1>1, <1>4 DEF UtxosAfter, Insert
  <2>2. x \in RowsIn(D \cup {s}) /\ SameOutput(x, x)
    BY <1>4, <2>1 DEF RowsIn, SameOutput
  <2>3. x.spent = Null /\ x.trimmed = Null
    BY <1>0, <1>4, <2>1, FreshRow
  <2> QED BY <2>2, <2>3 DEF Stems, EndedBy
<1>5. CASE s.sql = "conv"
  BY <1>0, <1>1, <1>5, StemsMore DEF UtxosAfter
<1> QED BY <1>0, <1>2, <1>3, <1>4, <1>5

\* What untrim and unspend make of a row.
LEMMA ReopenedRow ==
    ASSUME NEW r, IsRow(r), NEW s, s.sql \in {"untrim", "unspend"}, s.h # Null, NEW x, x = RowAfter(r, s)
    PROVE  /\ SameOutput(r, x)
           /\ x.spent = Null \/ x.spent = r.spent
           /\ x.trimmed = Null \/ x.trimmed = r.trimmed
           /\ s.sql = "untrim" => x.trimmed # s.h
           /\ s.sql = "unspend" => x.spent # s.h
<1>1. CASE x = r
  BY <1>1 DEF SameOutput, RowAfter
<1>2. CASE x # r /\ s.sql = "untrim"
  <2>1. x = [r EXCEPT !.trimmed = Null]
    BY <1>2 DEF RowAfter
  <2> QED BY <1>2, <2>1 DEF IsRow, SameOutput
<1>3. CASE x # r /\ s.sql = "unspend"
  <2>1. x = [r EXCEPT !.spent = Null, !.spentTx = NoTx]
    BY <1>3 DEF RowAfter
  <2> QED BY <1>3, <2>1 DEF IsRow, SameOutput
<1> QED BY <1>1, <1>2, <1>3

LEMMA ReopenedStems ==
    ASSUME NEW r, NEW x, SameOutput(r, x), x.spent = Null \/ x.spent = r.spent,
           x.trimmed = Null \/ x.trimmed = r.trimmed, NEW D, Stems(r, D)
    PROVE  Stems(x, D)
<1>1. PICK q \in RowsIn(D) : SameOutput(q, r)
  BY DEF Stems
<1>2. SameOutput(q, x)
  BY <1>1 DEF SameOutput
<1>3. EndedBy(x, D)
  BY DEF Stems, EndedBy, SameOutput, SpendsOf, DueIn
<1> QED BY <1>1, <1>2, <1>3 DEF Stems

\* One statement of rollbackBlock.
LEMMA UndoRows ==
    ASSUME NEW U, \A r \in U : IsRow(r), NEW b \in Block, NEW h, h = Height[b],
           NEW m \in 1..4, NEW s, s = RollbackBlock(b)[m],
           NEW D, \A r \in U : Stems(r, D) /\ Cleared(r, h, m - 1)
    PROVE  \A r \in UtxosAfter(U, s) : Stems(r, D) /\ Cleared(r, h, m)
<1>1. SUFFICES ASSUME NEW x \in UtxosAfter(U, s) PROVE Stems(x, D) /\ Cleared(x, h, m)
  OBVIOUS
<1>2. /\ s.h = h /\ (m = 1 => s.sql = "untrim") /\ (m = 2 => s.sql = "unspend")
      /\ (m = 3 => s.sql = "uncreate") /\ (m = 4 => s.sql = "unconv")
  BY UndoSound
<1>3. h # Null
  BY HeightAssumption DEF Null
<1>4. CASE m \in {1, 2}
  <2>1. s.sql \in {"untrim", "unspend"}
    BY <1>2, <1>4
  <2>2. x \in {RowAfter(r, s) : r \in U}
    BY <1>1, <2>1, UpdateRows DEF UpdateSql
  <2>3. PICK r \in U : x = RowAfter(r, s)
    BY <2>2
  <2>4. IsRow(r) /\ Stems(r, D) /\ Cleared(r, h, m - 1)
    OBVIOUS
  <2>5. /\ SameOutput(r, x)
        /\ x.spent = Null \/ x.spent = r.spent
        /\ x.trimmed = Null \/ x.trimmed = r.trimmed
        /\ s.sql = "untrim" => x.trimmed # s.h
        /\ s.sql = "unspend" => x.spent # s.h
    BY <1>2, <1>3, <2>1, <2>3, <2>4, ReopenedRow
  <2>6. Stems(x, D)
    BY <2>4, <2>5, ReopenedStems
  <2>7. CASE m = 1
    <3>1. x.trimmed # h
      BY <1>2, <2>5, <2>7
    <3>2. Cleared(x, h, 1)
      BY <3>1 DEF Cleared
    <3> QED BY <2>6, <2>7, <3>2
  <2>8. CASE m = 2
    <3>1. Cleared(r, h, 1)
      BY <2>4, <2>8
    <3>2. x.trimmed # h /\ x.spent # h
      BY <1>2, <1>3, <2>5, <2>8, <3>1 DEF Cleared
    <3>3. Cleared(x, h, 2)
      BY <3>2 DEF Cleared
    <3> QED BY <2>6, <2>8, <3>3
  <2> QED BY <1>4, <2>7, <2>8
<1>5. CASE m = 3
  <2>1. x \in U /\ x.created # h
    BY <1>1, <1>2, <1>5 DEF UtxosAfter, DeleteCreated
  <2>2. Stems(x, D) /\ Cleared(x, h, 2)
    BY <1>5, <2>1
  <2> QED BY <1>5, <2>1, <2>2 DEF Cleared
<1>6. CASE m = 4
  <2>1. x \in U
    BY <1>1, <1>2, <1>6 DEF UtxosAfter
  <2>2. Stems(x, D) /\ Cleared(x, h, 3)
    BY <1>6, <2>1
  <2> QED BY <1>6, <2>2 DEF Cleared
<1> QED BY <1>4, <1>5, <1>6

\* A row that the four statements have left does not stem from the block.
LEMMA ClearedStems ==
    ASSUME NEW C \in SUBSET Block, NEW b \in C, \A c \in C \ {b} : Height[c] < Height[b],
           NEW r, Stems(r, ChainStatements(C)), Cleared(r, Height[b], 4)
    PROVE  Stems(r, ChainStatements(C \ {b}))
<1> DEFINE D == ChainStatements(C)
           E == ChainStatements(C \ {b})
<1>1. r.trimmed # Height[b] /\ r.spent # Height[b] /\ r.created # Height[b]
  BY DEF Cleared
<1>2. ASSUME NEW x \in D, NEW h, h # Height[b],
             (x.sql \in {"spend", "sweep"} /\ x.h = h) \/ (x.sql = "insert" /\ x.row.created = h)
      PROVE  x \in E
  <2>1. PICK c \in C : \E i, j : StatementAt(c, i, j, x)
    BY <1>2, InChain
  <2>2. PICK i, j : StatementAt(c, i, j, x)
    BY <2>1
  <2>3. h = Height[c]
    BY <1>2, <2>2, StatementFacts
  <2>4. c \in C \ {b} /\ C \ {b} \in SUBSET Block
    BY <1>2, <2>3
  <2> QED BY <2>2, <2>4, InChain
<1>3. PICK q \in RowsIn(D) : SameOutput(q, r)
  BY DEF Stems
<1>4. q \in RowsIn(E)
  <2>1. PICK x \in D : x.sql = "insert" /\ x.row = q
    BY <1>3 DEF RowsIn
  <2>2. x.row.created = r.created
    BY <1>3, <2>1 DEF SameOutput
  <2>3. x \in E
    BY <1>1, <1>2, <2>1, <2>2
  <2> QED BY <2>1, <2>3 DEF RowsIn
<1>5. EndedBy(r, D)
  BY DEF Stems
<1>6. r.spent = Null \/ \E s \in SpendsOf(r.op, E) : s.h = r.spent
  <2>1. SUFFICES ASSUME r.spent # Null PROVE \E s \in SpendsOf(r.op, E) : s.h = r.spent
    OBVIOUS
  <2>2. PICK s \in SpendsOf(r.op, D) : s.h = r.spent
    BY <1>5, <2>1 DEF EndedBy
  <2>3. s \in D /\ s.sql = "spend" /\ s.op = r.op
    BY <2>2 DEF SpendsOf
  <2>4. s \in E
    BY <1>1, <1>2, <2>2, <2>3
  <2> QED BY <2>2, <2>3, <2>4 DEF SpendsOf
<1>7. r.trimmed = Null \/ (r.trimmed = r.deadline /\ DueIn(r, E))
  <2>1. SUFFICES ASSUME r.trimmed # Null PROVE r.trimmed = r.deadline /\ DueIn(r, E)
    OBVIOUS
  <2>2. r.trimmed = r.deadline /\ DueIn(r, D)
    BY <1>5, <2>1 DEF EndedBy
  <2>3. PICK s \in D : s.sql = "sweep" /\ s.h = r.deadline
    BY <2>2 DEF DueIn
  <2>4. s \in E
    BY <1>1, <1>2, <2>2, <2>3
  <2> QED BY <2>2, <2>3, <2>4 DEF DueIn
<1> QED BY <1>3, <1>4, <1>6, <1>7 DEF Stems, EndedBy

-----------------------------------------------------------------------------
(* The rows an update sees stem from what it has left and decoded.         *)

LEMMA StemUp ==
    ASSUME NEW d, NEW t, ~Undoing(t)
    PROVE  StemView(d, t) <=>
               \A r \in View(d, t).utxos : Stems(r, ChainStatements(KeptBy(d, t)) \cup DecodedBy(t))
<1>1. ASSUME NEW i \in 1..Len(t.rollback), NEW m \in 1..4, <<i, 1, m>> \in NextPlace(t) PROVE FALSE
  <2>1. CASE i <= Len(t.rollback)
    BY <1>1, <2>1, NotUndoing
  <2>2. CASE ~(i <= Len(t.rollback))
    BY <2>2
  <2> QED BY <2>1, <2>2
<1> QED BY <1>1 DEF StemView

LEMMA StemStart ==
    ASSUME NEW d, NEW t, Builds(d, t), t.todo = Places(t.code), View(d, t) = d,
           \A x \in d.utxos : Stems(x, ChainStatements(d.blocks))
    PROVE  StemView(d, t)
<1>0. PICK r : r = Len(t.rollback)
  OBVIOUS
<1>1. ASSUME NEW i \in 1..r, NEW m \in 1..4, <<i, 1, m>> \in NextPlace(t), NEW x \in View(d, t).utxos
      PROVE  /\ Stems(x, ChainStatements(UpTo(d.blocks, t.rollback[i])))
             /\ Cleared(x, Height[t.rollback[i]], m - 1)
  <2>1. m = 1 /\ UpTo(d.blocks, t.rollback[i]) = d.blocks
    BY <1>0, <1>1, StartShape
  <2>2. m - 1 = 0
    BY <2>1
  <2>3. Cleared(x, Height[t.rollback[i]], 0)
    BY DEF Cleared
  <2> QED BY <1>1, <2>1, <2>2, <2>3
<1>2. ASSUME ~Undoing(t), NEW x \in View(d, t).utxos
      PROVE  Stems(x, ChainStatements(KeptBy(d, t)) \cup DecodedBy(t))
  <2>1. ChainStatements(KeptBy(d, t)) \cup DecodedBy(t) = ChainStatements(d.blocks)
    BY <1>0, <1>2, StartShape
  <2> QED BY <1>2, <2>1
<1> QED BY <1>0, <1>1, <1>2 DEF StemView

\* A statement of the rollback.
LEMMA StemUndo ==
    ASSUME NEW d, NEW t, Builds(d, t), IsTables(View(d, t)), NEW u, NEW s, NEW t2,
           Stepped(d, t, u, s, t2), StemView(d, t), UndoAt(t, u, s)
    PROVE  StemView(d, t2)
<1>0. PICK r : r = Len(t.rollback)
  OBVIOUS
<1> DEFINE v == View(d, t)
           w == View(d, t2)
           St(x) == ChainStatements(UpTo(d.blocks, x))
<1>1. PICK i \in 1..r, m \in 1..4 : u = <<i, 1, m>> /\ s = RollbackBlock(t.rollback[i])[m]
  BY <1>0 DEF UndoAt
<1>2. PICK b : b = t.rollback[i]
  OBVIOUS
<1>3. PICK h : h = Height[b]
  OBVIOUS
<1>4. w = Exec(v, s) /\ u \in NextPlace(t)
  BY DEF Stepped
<1>5. t2.rollback = t.rollback /\ t2.apply = t.apply
  BY DEF Stepped
<1>6. \A x \in v.utxos : Stems(x, St(b)) /\ Cleared(x, h, m - 1)
  BY <1>0, <1>1, <1>2, <1>3, <1>4 DEF StemView
<1>7. IsChain(d.blocks, d.tip) /\ b \in d.blocks /\ ParentHash[b] \in d.blocks
  <2>1. IsUpdate(t) /\ IsChain(d.blocks, d.tip)
    BY DEF Builds
  <2>2. r \in Nat
    BY <1>0, <2>1, UpdateLists
  <2>3. d.tip # NoBlock /\ b \in d.blocks
    BY <1>0, <1>2, <2>2, BuildShape
  <2>4. ParentHash[b] \in d.blocks
    BY <1>0, <1>2, <2>3, BuildDown
  <2> QED BY <2>1, <2>3, <2>4
<1>8. b \in Block
  BY <1>7 DEF IsChain
<1>9. \A x \in w.utxos : Stems(x, St(b)) /\ Cleared(x, h, m)
  <2>1. Sound(s)
    BY <1>1, UndoSound
  <2>2. IsDb(v) /\ \A x \in v.utxos : IsRow(x)
    BY DEF IsTables
  <2> HIDE DEF v, w, St
  <2>3. w.utxos = UtxosAfter(v.utxos, s)
    BY <1>4, <2>1, <2>2, ExecTables
  <2>4. \A x \in UtxosAfter(v.utxos, s) : Stems(x, St(b)) /\ Cleared(x, h, m)
    BY <1>1, <1>2, <1>3, <1>6, <1>8, <2>2, UndoRows
  <2> QED BY <2>3, <2>4
<1>10. m = 4 => \A x \in w.utxos : Stems(x, St(ParentHash[b]))
  <2> HIDE DEF w
  <2>1. SUFFICES ASSUME m = 4, NEW x \in w.utxos PROVE Stems(x, St(ParentHash[b]))
    OBVIOUS
  <2>2. PICK C : C = UpTo(d.blocks, b)
    OBVIOUS
  <2>3. UpTo(d.blocks, ParentHash[b]) = C \ {b} /\ b \in C /\ \A c \in C \ {b} : Height[c] < Height[b]
    BY <1>7, <2>2, CutBelow
  <2>4. C \in SUBSET Block
    BY <1>7, <2>2 DEF IsChain, UpTo
  <2>5. Stems(x, ChainStatements(C)) /\ Cleared(x, Height[b], 4)
    BY <1>3, <1>9, <2>1, <2>2
  <2>6. Stems(x, ChainStatements(C \ {b}))
    BY <2>3, <2>4, <2>5, ClearedStems
  <2> QED BY <2>3, <2>6
<1> HIDE DEF v, w
<1>11. /\ \A x \in 1..r, y \in 1..4 :
              <<x, 1, y>> \in NextPlace(t2) =>
                  \/ m < 4 /\ x = i /\ y = m + 1
                  \/ m = 4 /\ y = 1 /\ t.rollback[x] = ParentHash[b]
       /\ ~Undoing(t2) =>
              /\ m = 4 /\ KeptBy(d, t2) = UpTo(d.blocks, ParentHash[b])
              /\ DecodedBy(t2) = {}
  BY <1>0, <1>1, <1>2, UndoShape
<1>12. ASSUME NEW x \in 1..r, NEW y \in 1..4, <<x, 1, y>> \in NextPlace(t2), NEW z \in w.utxos
       PROVE  Stems(z, St(t.rollback[x])) /\ Cleared(z, Height[t.rollback[x]], y - 1)
  <2>1. \/ m < 4 /\ x = i /\ y = m + 1
        \/ m = 4 /\ y = 1 /\ t.rollback[x] = ParentHash[b]
    BY <1>11, <1>12
  <2>2. CASE m < 4 /\ x = i /\ y = m + 1
    <3>1. y - 1 = m
      BY <2>2
    <3> QED BY <1>2, <1>3, <1>9, <1>12, <2>2, <3>1
  <2>3. CASE m = 4 /\ y = 1 /\ t.rollback[x] = ParentHash[b]
    <3>1. Stems(z, St(t.rollback[x]))
      BY <1>10, <1>12, <2>3
    <3>2. y - 1 = 0
      BY <2>3
    <3>3. Cleared(z, Height[t.rollback[x]], 0)
      BY DEF Cleared
    <3> QED BY <3>1, <3>2, <3>3
  <2> QED BY <2>1, <2>2, <2>3
<1>13. ASSUME ~Undoing(t2), NEW z \in w.utxos
       PROVE  Stems(z, ChainStatements(KeptBy(d, t2)) \cup DecodedBy(t2))
  <2>1. m = 4 /\ KeptBy(d, t2) = UpTo(d.blocks, ParentHash[b]) /\ DecodedBy(t2) = {}
    BY <1>11, <1>13
  <2>2. ChainStatements(KeptBy(d, t2)) \cup DecodedBy(t2) = St(ParentHash[b])
    BY <2>1
  <2> QED BY <1>10, <1>13, <2>1, <2>2
<1> QED BY <1>0, <1>5, <1>12, <1>13 DEF StemView, w

LEMMA StemStep ==
    ASSUME NEW d, NEW t, Builds(d, t), IsTables(View(d, t)), NEW u, NEW s, NEW t2,
           Stepped(d, t, u, s, t2), StemView(d, t)
    PROVE  StemView(d, t2)
<1>1. IsUpdate(t)
  BY DEF Builds
<1>2. UndoAt(t, u, s) \/ DeleteAt(t, u, s) \/ StoreAt(t, u, s) \/ DecodeAt(t, u, s) \/ MoveAt(t, u, s)
  BY <1>1, UpdatePlaces DEF Stepped
<1>3. CASE UndoAt(t, u, s)
  BY <1>3, StemUndo
<1>4. CASE DeleteAt(t, u, s) \/ StoreAt(t, u, s) \/ MoveAt(t, u, s)
  <2>1. /\ ~Undoing(t) /\ ~Undoing(t2)
        /\ View(d, t2).utxos = View(d, t).utxos /\ View(d, t2).convs = View(d, t).convs
        /\ KeptBy(d, t2) = KeptBy(d, t) /\ DecodedBy(t2) = DecodedBy(t)
    BY <1>4, SpineShape
  <2>2. \A r \in View(d, t).utxos : Stems(r, ChainStatements(KeptBy(d, t)) \cup DecodedBy(t))
    BY <2>1, StemUp
  <2> QED BY <2>1, <2>2, StemUp
<1>5. CASE DecodeAt(t, u, s)
  <2>1. /\ ~Undoing(t) /\ ~Undoing(t2)
        /\ KeptBy(d, t2) = KeptBy(d, t) /\ DecodedBy(t2) = DecodedBy(t) \cup {s}
        /\ \E b \in Block : \E k, m : StatementAt(b, k, m, s)
    BY <1>1, <1>5, DecodeShape
  <2>2. s.sql # "fail" /\ View(d, t2) = Exec(View(d, t), s)
    BY DEF Stepped
  <2>3. PICK b \in Block : \E k, m : StatementAt(b, k, m, s)
    BY <2>1
  <2>4. Sound(s) /\ Applied(s)
    BY <2>2, <2>3, BlockSound, StatementFacts DEF Applied
  <2>5. PICK D : D = ChainStatements(KeptBy(d, t)) \cup DecodedBy(t)
    OBVIOUS
  <2>6. PICK v : v = View(d, t)
    OBVIOUS
  <2>7. \A r \in v.utxos : Stems(r, D)
    BY <2>1, <2>5, <2>6, StemUp
  <2>8. IsDb(v) /\ \A r \in v.utxos : IsRow(r)
    BY <2>6 DEF IsTables
  <2>9. View(d, t2).utxos = UtxosAfter(v.utxos, s)
    BY <2>2, <2>4, <2>6, <2>8, ExecTables
  <2>10. \A r \in UtxosAfter(v.utxos, s) : Stems(r, D \cup {s})
    <3>1. RowsStem(v.utxos, D)
      BY <2>7, <2>8 DEF RowsStem
    <3> QED BY <2>4, <3>1, StemsAfter
  <2>11. ChainStatements(KeptBy(d, t2)) \cup DecodedBy(t2) = D \cup {s}
    BY <2>1, <2>5
  <2> QED BY <2>1, <2>9, <2>10, <2>11, StemUp
<1> QED BY <1>2, <1>3, <1>4, <1>5

\* When all statements have run the rows stem from the update's chain.
LEMMA StemDone ==
    ASSUME NEW d, NEW t, Builds(d, t), StemView(d, t), t.todo = {}, NEW a, a = Len(t.apply)
    PROVE  \A r \in View(d, t).utxos : Stems(r, ChainStatements(GrownBy(d, t, a)))
<1>1. ~Undoing(t) /\ ChainStatements(KeptBy(d, t)) \cup DecodedBy(t) = ChainStatements(GrownBy(d, t, a))
  BY DoneShape
<1> QED BY <1>1, StemUp

-----------------------------------------------------------------------------
(* The rows reconcile sees.                                                *)

LEMMA RemadeStep ==
    ASSUME NEW d, NEW t, NEW t2, NEW E, NEW s \in E, Applied(s), Sound(s), IsTables(View(d, t)),
           RemadeView(d, t, E), View(d, t2) = Exec(View(d, t), s)
    PROVE  RemadeView(d, t2, E)
<1>1. PICK v : v = View(d, t)
  OBVIOUS
<1>2. IsDb(v) /\ \A r \in v.utxos : IsRow(r)
  BY <1>1 DEF IsTables
<1>3. View(d, t2).utxos = UtxosAfter(v.utxos, s)
  BY <1>1, <1>2, ExecTables
<1>4. \A r \in v.utxos :
          r \in d.utxos \/ ((\E q \in d.utxos \cup RowsIn(E) : SameOutput(q, r)) /\ EndedBy(r, E))
  BY <1>1 DEF RemadeView
<1>5. SUFFICES ASSUME NEW x \in UtxosAfter(v.utxos, s)
               PROVE  \/ x \in d.utxos
                      \/ (\E q \in d.utxos \cup RowsIn(E) : SameOutput(q, x)) /\ EndedBy(x, E)
  BY <1>3 DEF RemadeView
<1>6. CASE x \in v.utxos
  BY <1>4, <1>6
<1>7. s.sql \in {"spend", "insert", "conv", "sweep"} /\ (s.sql = "insert" => Fresh(s.row))
  BY DEF Applied
<1>8. CASE x \notin v.utxos /\ s.sql \in {"spend", "sweep"}
  <2>1. x \in {RowAfter(r, s) : r \in v.utxos}
    BY <1>5, <1>8, UpdateRows DEF UpdateSql
  <2>2. PICK r \in v.utxos : x = RowAfter(r, s)
    BY <2>1
  <2>3. IsRow(r) /\ x # r
    BY <1>2, <1>8
  <2>4. Live(r)
    BY <1>8, <2>2, <2>3 DEF RowAfter
  <2>5. EndedBy(r, E)
    BY <2>4 DEF EndedBy, Live
  <2>6. SameOutput(r, x) /\ EndedBy(x, E \cup {s})
    BY <1>8, <2>2, <2>3, <2>5, EndedRow
  <2>7. E \cup {s} = E
    OBVIOUS
  <2>8. \E q \in d.utxos \cup RowsIn(E) : SameOutput(q, r)
    BY <1>4, <2>2 DEF SameOutput
  <2>9. \E q \in d.utxos \cup RowsIn(E) : SameOutput(q, x)
    BY <2>6, <2>8 DEF SameOutput
  <2> QED BY <2>6, <2>7, <2>9
<1>9. CASE x \notin v.utxos /\ s.sql = "insert"
  <2>1. x = s.row
    BY <1>5, <1>9 DEF UtxosAfter, Insert
  <2>2. x \in RowsIn(E) /\ SameOutput(x, x)
    BY <1>9, <2>1 DEF RowsIn, SameOutput
  <2>3. x.spent = Null /\ x.trimmed = Null
    BY <1>7, <1>9, <2>1, FreshRow
  <2> QED BY <2>2, <2>3 DEF EndedBy
<1>10. CASE s.sql = "conv"
  BY <1>5, <1>6, <1>10 DEF UtxosAfter
<1> QED BY <1>6, <1>7, <1>8, <1>9, <1>10

\* Rows of one key are versions of one output.
LEMMA SameKey ==
    ASSUME NEW q, NEW r, SameOutput(q, r)
    PROVE  UtxoKey(q) = UtxoKey(r)
BY DEF SameOutput, UtxoKey

\* A commit of another process, which holds other keys.
LEMMA RemadeLater ==
    ASSUME NEW d, NEW t, NEW E, OwnKeys(t.own, t.locks), RemadeView(d, t, E),
           NEW e, \A k \in t.locks : SameAt(e, d, k)
    PROVE  RemadeView(e, t, E)
<1>1. SUFFICES ASSUME NEW x \in View(e, t).utxos
               PROVE  \/ x \in e.utxos
                      \/ (\E q \in e.utxos \cup RowsIn(E) : SameOutput(q, x)) /\ EndedBy(x, E)
  BY DEF RemadeView
<1>2. CASE x \in e.utxos
  BY <1>2
<1>3. CASE x \notin e.utxos
  <2>1. x \in t.own.utxos
    BY <1>1, <1>3 DEF View, Overlay
  <2>2. UtxoKey(x) \in t.locks /\ x \in View(d, t).utxos
    BY <2>1 DEF OwnKeys, View, Overlay
  <2>3. \A q : UtxoKey(q) = UtxoKey(x) => (q \in e.utxos <=> q \in d.utxos)
    BY <2>2 DEF SameAt
  <2>4. x \notin d.utxos
    BY <1>3, <2>3
  <2>5. (\E q \in d.utxos \cup RowsIn(E) : SameOutput(q, x)) /\ EndedBy(x, E)
    BY <2>2, <2>4 DEF RemadeView
  <2>6. PICK q \in d.utxos \cup RowsIn(E) : SameOutput(q, x)
    BY <2>5
  <2>7. q \in e.utxos \cup RowsIn(E)
    BY <2>3, <2>6, SameKey
  <2> QED BY <2>5, <2>6, <2>7
<1> QED BY <1>2, <1>3

\* A row that statements of the chain have remade stems from the chain.
LEMMA RemadeDone ==
    ASSUME NEW d, NEW t, NEW E, RemadeView(d, t, E), NEW D, E \subseteq D,
           \A x \in d.utxos : Stems(x, D)
    PROVE  \A x \in View(d, t).utxos : Stems(x, D)
<1>1. SUFFICES ASSUME NEW x \in View(d, t).utxos PROVE Stems(x, D)
  OBVIOUS
<1>2. CASE x \in d.utxos
  BY <1>2
<1>3. CASE x \notin d.utxos
  <2>1. (\E q \in d.utxos \cup RowsIn(E) : SameOutput(q, x)) /\ EndedBy(x, E)
    BY <1>1, <1>3 DEF RemadeView
  <2>2. PICK q \in d.utxos \cup RowsIn(E) : SameOutput(q, x)
    BY <2>1
  <2>3. EndedBy(x, D)
    BY <2>1, EndedMore
  <2>4. CASE q \in RowsIn(E)
    <3>1. q \in RowsIn(D)
      BY <2>4 DEF RowsIn
    <3> QED BY <2>2, <2>3, <3>1 DEF Stems
  <2>5. CASE q \in d.utxos
    <3>1. PICK y \in RowsIn(D) : SameOutput(y, q)
      BY <2>5 DEF Stems
    <3>2. SameOutput(y, x)
      BY <2>2, <3>1 DEF SameOutput
    <3> QED BY <2>3, <3>1, <3>2 DEF Stems
  <2> QED BY <2>4, <2>5
<1> QED BY <1>2, <1>3

\* One transaction goes on, and nothing is committed.
LEMMA StemTxn ==
    ASSUME NEW d, NEW T, NEW r, StemInv(d, T, r), NEW p \in DOMAIN T, NEW t, NEW T2, T2 = [T EXCEPT ![p] = t],
           NEW r2,
           p # Tool /\ t.open => StemView(d, t),
           p = Tool /\ t.open => RemadeView(d, t, BlockStatements[r2.batch[1]]),
           p # Tool /\ Tool \in DOMAIN T /\ T[Tool].open => r2.batch[1] = r.batch[1]
    PROVE  StemInv(d, T2, r2)
<1>1. DOMAIN T2 = DOMAIN T /\ T2[p] = t /\ \A q \in DOMAIN T : q # p => T2[q] = T[q]
  BY TxnAt
<1>2. \A x \in d.utxos : Stems(x, ChainStatements(d.blocks))
  BY DEF StemInv
<1>3. ASSUME NEW q \in DOMAIN T2 \ {Tool}, T2[q].open PROVE StemView(d, T2[q])
  <2>1. CASE q = p
    BY <1>1, <1>3, <2>1
  <2>2. CASE q # p
    BY <1>1, <1>3, <2>2 DEF StemInv
  <2> QED BY <2>1, <2>2
<1>4. ASSUME Tool \in DOMAIN T2, T2[Tool].open PROVE RemadeView(d, T2[Tool], BlockStatements[r2.batch[1]])
  <2>1. CASE Tool = p
    BY <1>1, <1>4, <2>1
  <2>2. CASE Tool # p
    <3>1. T2[Tool] = T[Tool] /\ Tool \in DOMAIN T
      BY <1>1, <1>4, <2>2
    <3>2. RemadeView(d, T[Tool], BlockStatements[r.batch[1]])
      BY <1>4, <3>1 DEF StemInv
    <3>3. r2.batch[1] = r.batch[1]
      BY <1>4, <2>2, <3>1
    <3> QED BY <3>1, <3>2, <3>3
  <2> QED BY <2>1, <2>2
<1> QED BY <1>2, <1>3, <1>4 DEF StemInv

-----------------------------------------------------------------------------
(* Steps of an index that is decoded in part.                              *)

\* Process p's update runs statement s at place u.
Advances(p, u, s, t2) ==
    /\ txn' = [txn EXCEPT ![p] = t2] /\ db' = db
    /\ Stepped(db, txn[p], u, s, t2) /\ t2.bare = txn[p].bare /\ txn[p].open

LEMMA RunAdvances ==
    ASSUME StoreInv, NEW p \in DOMAIN mind, Run(p)
    PROVE  \E u, s, t2 : Advances(p, u, s, t2)
<1>1. PICK u \in NextPlace(txn[p]) :
          /\ StatementOf(txn[p], u).sql # "fail"
          /\ Wanted(p) \cap Held(txn, p) = {}
          /\ txn' = [txn EXCEPT ![p] = After(db, txn[p], u)]
  BY DEF Run, RunStatement
<1>2. UNCHANGED <<db, mind, nodeHead, seen, raced>>
  BY DEF Run
<1>3. PICK s, t2 : s = StatementOf(txn[p], u) /\ t2 = After(db, txn[p], u)
  OBVIOUS
<1>4. /\ p \in DOMAIN txn /\ TxnInv(seen, txn[p]) /\ IndexerInv(seen, mind[p], txn[p])
      /\ IsTables(db) /\ db.blocks \subseteq seen /\ db.tip \in seen \cup {NoBlock}
  BY OfProcess DEF StoreInv, WritersInv
<1>5. txn[p].open
  <2>1. u \in txn[p].todo
    BY DEF NextPlace
  <2>2. NoTxn.todo = {}
    BY DEF NoTxn
  <2> QED BY <1>4, <2>1, <2>2 DEF TxnInv
<1>6. Stepped(db, txn[p], u, s, t2) /\ t2.bare = txn[p].bare
  BY <1>1, <1>3, <1>4, <1>5, RunUpdate
<1>7. Advances(p, u, s, t2)
  BY <1>1, <1>2, <1>3, <1>5, <1>6 DEF Advances
<1> QED BY <1>7

\* reconcile's transaction runs statement s of its block.
Reapplies(u, s, t2) ==
    /\ txn' = [txn EXCEPT ![Tool] = t2] /\ db' = db /\ Tool \in DOMAIN txn /\ txn[Tool].open
    /\ u \in NextPlace(txn[Tool]) /\ s = StatementOf(txn[Tool], u) /\ s.sql # "fail"
    /\ Ran(seen, db, txn[Tool], u, s, t2)
    /\ Sound(s) /\ s.sql \in {"spend", "insert", "conv", "sweep"}
    /\ rec.batch[1] \in Block /\ \E k, m : StatementAt(rec.batch[1], k, m, s)

LEMMA ApplyReapplies ==
    ASSUME StoreInv, ApplyRun
    PROVE  \E u, s, t2 : Reapplies(u, s, t2)
<1>1. PICK u \in NextPlace(txn[Tool]) :
          /\ StatementOf(txn[Tool], u).sql # "fail"
          /\ Wanted(Tool) \cap Held(txn, Tool) = {}
          /\ txn' = [txn EXCEPT ![Tool] = After(db, txn[Tool], u)]
  BY DEF ApplyRun, RunStatement
<1>2. rec.pc = "fetch" /\ UNCHANGED <<db, mind, nodeHead, seen, raced, foreign, whole, rec>>
  BY DEF ApplyRun, Elsewhere, mixed
<1>3. PICK t, s, t2 : t = txn[Tool] /\ s = StatementOf(txn[Tool], u) /\ t2 = After(db, txn[Tool], u)
  OBVIOUS
<1>4. Tool \in DOMAIN txn /\ TxnInv(seen, t) /\ ToolInv(db, t, rec)
  BY <1>2, <1>3, ToolRuns, IdleFacts DEF StoreInv
<1>5. IsTables(db) /\ db.blocks \subseteq seen /\ db.tip \in seen \cup {NoBlock}
  BY DEF StoreInv, WritersInv
<1>6. u \in t.todo
  BY <1>3 DEF NextPlace
<1>7. t.open
  <2>2. NoTxn.todo = {}
    BY DEF NoTxn
  <2> QED BY <1>4, <1>6, <2>2 DEF TxnInv
<1>8. u \in Places(t.code) /\ u \in NextPlace(t) /\ s.sql # "fail" /\ s = StatementOf(t, u)
  BY <1>1, <1>3, <1>4, <1>6 DEF TxnInv
<1>9. /\ Sound(s) /\ s.sql \in {"spend", "insert", "conv", "sweep"}
      /\ \E k, m : StatementAt(rec.batch[1], k, m, s)
  BY <1>4, <1>7, <1>8, ToolSound
<1>10. Stores(seen, s)
  BY <1>9 DEF Stores
<1>11. Ran(seen, db, t, u, s, t2)
  BY <1>3, <1>4, <1>5, <1>7, <1>8, <1>9, <1>10, RunTxn
<1>12. rec.batch[1] \in Block
  BY <1>4, <1>7, ToolCode
<1>13. Reapplies(u, s, t2)
  BY <1>1, <1>2, <1>3, <1>4, <1>7, <1>8, <1>9, <1>11, <1>12 DEF Reapplies
<1> QED BY <1>13

\* reconcile begins with the next block of its batch.
LEMMA ApplyBegins ==
    ASSUME StoreInv, ApplyBegin
    PROVE  \E t : /\ txn' = [txn EXCEPT ![Tool] = t] /\ Tool \in DOMAIN txn
                  /\ t.open /\ ~t.bare /\ View(db, t) = db
                  /\ t.code = <<ApplyBlock(rec.batch[1])>> /\ t.todo = Places(t.code)
                  /\ rec.pc = "fetch" /\ rec.batch # <<>> /\ ~txn[Tool].open /\ rec.next >= rec.end
                  /\ UNCHANGED <<db, mind, nodeHead, seen, raced, foreign, crossed, whole, rec, quiet>>
<1>1. PICK code, t : /\ code = <<ApplyBlock(rec.batch[1])>>
                     /\ t = [NoTxn EXCEPT !.code = code, !.todo = Places(code), !.open = TRUE]
  OBVIOUS
<1>2. /\ rec.pc = "fetch" /\ rec.batch # <<>> /\ txn' = [txn EXCEPT ![Tool] = t]
      /\ ~txn[Tool].open /\ rec.next >= rec.end
      /\ UNCHANGED <<db, mind, nodeHead, seen, raced, foreign, crossed, whole, rec, quiet>>
  BY <1>1 DEF ApplyBegin, Elsewhere, mixed
<1>3. Tool \in DOMAIN txn
  BY <1>2, ToolRuns, IdleFacts DEF StoreInv
<1>4. t = [code |-> code, todo |-> Places(code), locks |-> {}, own |-> EmptyDb,
           rollback |-> <<>>, apply |-> <<>>, bare |-> FALSE, open |-> TRUE]
  BY <1>1 DEF NoTxn
<1>5. /\ t.code = code /\ t.todo = Places(code) /\ t.locks = {} /\ t.own = EmptyDb
      /\ ~t.bare /\ t.open
  BY <1>4
<1>6. View(db, t) = db
  <2>1. IsDb(db)
    BY DEF StoreInv, WritersInv, IsTables
  <2> QED BY <1>5, <2>1 DEF View, Overlay, EmptyDb, IsDb
<1> QED BY <1>1, <1>2, <1>3, <1>5, <1>6

\* A transaction that changes keeps on having a row to lock.
LEMMA SettledTxn ==
    ASSUME SettledInv, NEW p \in DOMAIN txn, NEW t, ~whole /\ ~raced => ~t.bare,
           txn' = [txn EXCEPT ![p] = t], db'.blocks = db.blocks, UNCHANGED <<raced, whole>>
    PROVE  SettledInv'
BY TxnAt DEF SettledInv

LEMMA SettledStep ==
    ASSUME StoreInv, SettledInv, [ReconcileNext]_recvars
    PROVE  SettledInv'
<1>0. ~NoTxn.bare
  BY NoTxnFacts
<1>1. CASE ApplyBegin
  BY <1>1, ApplyBegins, SettledTxn
<1>2. CASE ApplyRun
  <2>1. PICK u, s, t2 : Reapplies(u, s, t2)
    BY <1>2, ApplyReapplies
  <2>2. t2.bare = txn[Tool].bare /\ Tool \in DOMAIN txn /\ txn' = [txn EXCEPT ![Tool] = t2] /\ db' = db
    BY <2>1 DEF Reapplies, Ran
  <2>3. UNCHANGED <<raced, whole>>
    BY <1>2 DEF ApplyRun, Elsewhere
  <2>4. ~whole /\ ~raced => ~t2.bare
    BY <2>2 DEF SettledInv
  <2> QED BY <2>2, <2>3, <2>4, SettledTxn
<1>3. CASE ApplyCommit
  <2>1. /\ rec.pc = "fetch" /\ txn[Tool].open /\ txn' = [txn EXCEPT ![Tool] = NoTxn]
        /\ db' = View(db, txn[Tool]) /\ UNCHANGED <<raced, whole>>
    BY <1>3 DEF ApplyCommit
  <2>2. Tool \in DOMAIN txn /\ TxnInv(seen, txn[Tool]) /\ ToolInv(db, txn[Tool], rec)
    BY <2>1, ToolRuns, IdleFacts DEF StoreInv
  <2>3. IsTables(db)
    BY DEF StoreInv, WritersInv
  <2>4. db'.blocks = db.blocks
    BY <2>1, <2>2, <2>3, ToolCommits
  <2> QED BY <1>0, <2>1, <2>2, <2>4, SettledTxn
<1>4. CASE Fail
  <2>1. ~Ended /\ txn' = [txn EXCEPT ![Tool] = NoTxn] /\ UNCHANGED <<db, raced, whole>>
    BY <1>4 DEF Fail, Elsewhere
  <2>2. Tool \in DOMAIN txn
    BY <2>1, ToolRuns, IdleFacts DEF StoreInv, Ended
  <2> QED BY <1>0, <2>1, <2>2, SettledTxn
<1>5. CASE UNCHANGED <<db, txn, raced, whole>>
  BY <1>5 DEF SettledInv
<1>6. ASSUME NEW p \in DOMAIN mind, WriterStep(p), whole' = whole PROVE SettledInv'
  <2>0. /\ p \in DOMAIN txn /\ p # Tool /\ TxnInv(seen, txn[p]) /\ IndexerInv(seen, mind[p], txn[p])
    BY <1>6, OfProcess DEF StoreInv
  <2>1. CASE Load(p)
    BY <1>5, <1>6, <2>1 DEF Load
  <2>2. CASE Run(p)
    <3>1. PICK u, s, t2 : Advances(p, u, s, t2)
      BY <1>6, <2>2, RunAdvances
    <3>2. t2.bare = txn[p].bare /\ txn' = [txn EXCEPT ![p] = t2] /\ db' = db
      BY <3>1 DEF Advances
    <3>3. raced' = raced
      BY <2>2 DEF Run
    <3>4. ~whole /\ ~raced => ~t2.bare
      BY <2>0, <3>2 DEF SettledInv
    <3> QED BY <1>6, <2>0, <3>2, <3>3, <3>4, SettledTxn
  <2>3. CASE Commit(p)
    <3>1. /\ txn[p].open /\ txn[p].todo = {} /\ db' = View(db, txn[p]) /\ txn' = [txn EXCEPT ![p] = NoTxn]
          /\ raced' = (raced \/ (txn[p].bare /\ db.blocks \notin {{}, Goal(p)}))
      BY <2>3 DEF Commit
    <3>2. SUFFICES ASSUME ~whole, ~raced' PROVE db'.blocks # {} /\ \A q \in DOMAIN txn' : ~txn'[q].bare
      BY <1>6 DEF SettledInv
    <3>3. ~raced
      BY <3>1, <3>2
    <3>4. \A q \in DOMAIN txn : ~txn[q].bare
      BY <3>2, <3>3 DEF SettledInv
    <3>5. IsChain(db.blocks, db.tip) /\ SpineInv(db, mind[p], txn[p])
      BY <1>6, <3>3 DEF StoreInv, ChainInv
    <3>6. Steady(db, txn[p])
      BY <2>0, <3>1, <3>4 DEF Steady
    <3>7. db'.blocks # {}
      BY <2>0, <3>1, <3>5, <3>6, CommitGrows
    <3> QED BY <1>0, <2>0, <3>1, <3>4, <3>7, TxnAt
  <2>4. CASE Abort(p)
    <3>1. txn' = [txn EXCEPT ![p] = NoTxn] /\ UNCHANGED <<db, raced>>
      BY <2>4 DEF Abort
    <3> QED BY <1>0, <1>6, <2>0, <3>1, SettledTxn
  <2>5. ASSUME NEW b \in Branches, Begin(p, b) PROVE SettledInv'
    <3>1. PICK t : BegunBy(p, t)
      BY <1>6, <2>5, BeginTxn
    <3>2. txn' = [txn EXCEPT ![p] = t] /\ t.bare = (db.tip = NoBlock) /\ UNCHANGED <<db, raced>>
      BY <3>1 DEF BegunBy, Begins
    <3>3. ASSUME ~whole, ~raced PROVE ~t.bare
      <4>1. db.blocks # {} /\ IsChain(db.blocks, db.tip)
        BY <3>3 DEF SettledInv, StoreInv, ChainInv
      <4> QED BY <3>2, <4>1 DEF IsChain
    <3> QED BY <1>6, <2>0, <3>2, <3>3, SettledTxn
  <2> QED BY <1>6, <2>1, <2>2, <2>3, <2>4, <2>5 DEF WriterStep
<1>7. CASE Others
  <2>1. whole' = whole
    BY <1>7 DEF Others
  <2>2. ASSUME NEW b \in Block, NodeAdvance(b) PROVE SettledInv'
    BY <1>5, <2>1, <2>2 DEF NodeAdvance
  <2> QED BY <1>6, <1>7, <2>1, <2>2 DEF Others
<1>8. CASE Reading
  <2>1. UNCHANGED <<db, txn, raced, whole>>
    BY <1>8 DEF Reading, Start, Fetch, NextBatch, Sample, AskNode, Compare, Finish, Elsewhere
  <2> QED BY <1>5, <2>1
<1>9. CASE UNCHANGED recvars
  <2>1. UNCHANGED <<db, txn, raced, whole>>
    BY <1>9 DEF recvars, wvars
  <2> QED BY <1>5, <2>1
<1> QED BY <1>1, <1>2, <1>3, <1>4, <1>7, <1>8, <1>9 DEF ReconcileNext, ReconcileStep, Applying

LEMMA SettledInit ==
    ASSUME ReconcileInit
    PROVE  SettledInv
<1>1. /\ db \in StoredDbs
      /\ whole = (TablesMatch(db) /\ \A b \in db.blocks : ~Undecodable(b))
      /\ \E R : txn = [p \in R |-> NoTxn]
  BY DEF ReconcileInit
<1>2. \A p \in DOMAIN txn : ~txn[p].bare
  BY <1>1, NoTxnFacts
<1>3. ASSUME db.blocks = {} PROVE whole
  <2>1. ChainStatements({}) = {} /\ RowsIn({}) = {}
    BY DEF ChainStatements, RowsIn
  <2>2. db.convs = {} /\ \A r \in db.utxos : Stems(r, {})
    BY <1>1, <1>3, <2>1, StemAssumption
  <2>3. db.utxos = {}
    BY <2>1, <2>2 DEF Stems
  <2>4. ExpectedUtxos({}) = {} /\ ExpectedConvs({}) = {}
    BY DEF ExpectedUtxos, ExpectedConvs
  <2> QED BY <1>1, <1>3, <2>2, <2>3, <2>4 DEF TablesMatch
<1> QED BY <1>2, <1>3 DEF SettledInv

-----------------------------------------------------------------------------
(* The rows keep stemming from the stored chain.                           *)

LEMMA StemSame ==
    ASSUME NEW d, NEW T, NEW r, NEW r2, StemInv(d, T, r),
           Tool \in DOMAIN T /\ T[Tool].open => r2.batch[1] = r.batch[1]
    PROVE  StemInv(d, T, r2)
BY DEF StemInv

LEMMA StemsRead ==
    ASSUME StoreInv, StemsInv, Reading
    PROVE  StemsInv'
<1>1. UNCHANGED <<db, txn, raced, whole, foreign, crossed>>
  BY DEF Reading, Start, Fetch, NextBatch, Sample, AskNode, Compare, Finish, Elsewhere, mixed
<1>2. ASSUME Tool \in DOMAIN txn, txn[Tool].open PROVE rec'.batch[1] = rec.batch[1]
  <2>1. rec.pc = "fetch" /\ rec.batch # <<>> /\ rec.batch \in Seq(Block) /\ DOMAIN rec = DOMAIN Idle
    BY <1>2, ToolRuns DEF StoreInv
  <2>2. Fetch
    BY <2>1 DEF Reading, Start, NextBatch, Sample, AskNode, Compare, Finish, Ended
  <2>3. PICK S, s : S = {c \in Ancestry[nodeHead] : Height[c] = rec.next} /\ s = SetToSeq(S)
    OBVIOUS
  <2>4. rec' = [rec EXCEPT !.next = @ + 1, !.batch = @ \o s]
    BY <2>2, <2>3 DEF Fetch, Canonical
  <2>5. s \in Seq(S) /\ S \in SUBSET Block
    <3>1. FoundAt(nodeHead, rec.next, S)
      BY <2>3 DEF FoundAt
    <3>2. nodeHead \in Block
      BY DEF StoreInv, WritersInv
    <3>3. SetToSeq(S) \in Seq(S) /\ S \in SUBSET Block
      BY <3>1, <3>2, AtHeight
    <3> QED BY <2>3, <3>3
  <2>6. s \in Seq(Block)
    BY <2>5
  <2>7. "batch" \in DOMAIN rec
    BY <2>1 DEF Idle
  <2>8. rec'.batch = rec.batch \o s
    BY <2>4, <2>7
  <2> QED BY <2>1, <2>6, <2>8
<1>3. ASSUME StemInv(db, txn, rec) PROVE StemInv(db, txn, rec')
  BY <1>2, <1>3, StemSame
<1> QED BY <1>1, <1>3 DEF StemsInv

\* One transaction goes on, and nothing is committed.
LEMMA StemsTxn ==
    ASSUME StemsInv, NEW p \in DOMAIN txn, NEW t, txn' = [txn EXCEPT ![p] = t], db' = db,
           UNCHANGED <<raced, whole, foreign, crossed>>,
           p # Tool /\ t.open /\ ~whole /\ ~raced /\ ~foreign /\ ~crossed => StemView(db, t),
           p = Tool /\ t.open /\ ~whole /\ ~raced /\ ~foreign /\ ~crossed =>
               RemadeView(db, t, BlockStatements[rec'.batch[1]]),
           p # Tool => rec' = rec
    PROVE  StemsInv'
<1> SUFFICES ASSUME ~whole, ~raced, ~foreign, ~crossed PROVE StemInv(db, txn', rec')
  BY DEF StemsInv
<1>1. StemInv(db, txn, rec)
  BY DEF StemsInv
<1>2. p # Tool /\ t.open => StemView(db, t)
  OBVIOUS
<1>3. p = Tool /\ t.open => RemadeView(db, t, BlockStatements[rec'.batch[1]])
  OBVIOUS
<1> QED BY <1>1, <1>2, <1>3, StemTxn

LEMMA StemsTool ==
    ASSUME StoreInv, StemsInv, ApplyBegin \/ ApplyRun \/ Fail
    PROVE  StemsInv'
<1>1. CASE ApplyBegin
  <2>1. PICK t : /\ txn' = [txn EXCEPT ![Tool] = t] /\ Tool \in DOMAIN txn /\ View(db, t) = db
                 /\ UNCHANGED <<db, raced, foreign, crossed, whole, rec>>
    BY <1>1, ApplyBegins
  <2>2. RemadeView(db, t, BlockStatements[rec'.batch[1]])
    BY <2>1 DEF RemadeView
  <2> QED BY <2>1, <2>2, StemsTxn
<1>2. CASE ApplyRun
  <2>1. PICK u, s, t2 : Reapplies(u, s, t2)
    BY <1>2, ApplyReapplies
  <2>2. UNCHANGED <<raced, foreign, crossed, whole, rec>>
    BY <1>2 DEF ApplyRun, Elsewhere, mixed
  <2>3. PICK t, E : t = txn[Tool] /\ E = BlockStatements[rec.batch[1]]
    OBVIOUS
  <2>4. /\ txn' = [txn EXCEPT ![Tool] = t2] /\ db' = db /\ Tool \in DOMAIN txn /\ t.open
        /\ View(db, t2) = Exec(View(db, t), s) /\ s.sql # "fail"
        /\ Sound(s) /\ s.sql \in {"spend", "insert", "conv", "sweep"}
        /\ rec.batch[1] \in Block /\ \E k, m : StatementAt(rec.batch[1], k, m, s)
    BY <2>1, <2>3 DEF Reapplies, Ran
  <2>5. s \in E
    BY <2>3, <2>4, InBlock
  <2>6. Applied(s)
    BY <2>4, StatementFacts DEF Applied
  <2>7. IsTables(View(db, t))
    <3>1. IsTables(db) /\ TxnInv(seen, t)
      BY <2>3, <2>4 DEF StoreInv, WritersInv
    <3>2. IsTables(t.own)
      BY <3>1, TxnKeys
    <3> QED BY <3>1, <3>2, ViewTables
  <2>8. ASSUME ~whole, ~raced, ~foreign, ~crossed PROVE RemadeView(db, t2, E)
    <3>1. RemadeView(db, t, E)
      BY <2>3, <2>4, <2>8 DEF StemsInv, StemInv
    <3> QED BY <2>4, <2>5, <2>6, <2>7, <3>1, RemadeStep
  <2> QED BY <2>2, <2>3, <2>4, <2>8, StemsTxn
<1>3. CASE Fail
  <2>1. /\ ~Ended /\ txn' = [txn EXCEPT ![Tool] = NoTxn]
        /\ UNCHANGED <<db, raced, foreign, crossed, whole>>
    BY <1>3 DEF Fail, Elsewhere, mixed
  <2>2. Tool \in DOMAIN txn
    BY <2>1, ToolRuns, IdleFacts DEF StoreInv, Ended
  <2>3. ~NoTxn.open
    BY NoTxnFacts
  <2> QED BY <2>1, <2>2, <2>3, StemsTxn
<1> QED BY <1>1, <1>2, <1>3

\* reconcile's block is a stored one, and nobody else has been at it.
LEMMA StemsCommitTool ==
    ASSUME StoreInv, StemsInv, ApplyCommit
    PROVE  StemsInv'
<1>1. /\ rec.pc = "fetch" /\ txn[Tool].open /\ txn' = [txn EXCEPT ![Tool] = NoTxn]
      /\ db' = View(db, txn[Tool]) /\ UNCHANGED <<mind, raced, whole>>
      /\ foreign' = (foreign \/ rec.batch[1] \notin db.blocks)
      /\ crossed' = (crossed \/ \E p \in DOMAIN mind : txn[p].open)
  BY DEF ApplyCommit
<1>2. Tool \in DOMAIN txn /\ TxnInv(seen, txn[Tool]) /\ ToolInv(db, txn[Tool], rec)
  BY <1>1, ToolRuns, IdleFacts DEF StoreInv
<1>3. IsTables(db) /\ DOMAIN mind = DOMAIN txn \ {Tool} /\ db.blocks \in SUBSET Block
  BY DEF StoreInv, WritersInv
<1>4. db'.blocks = db.blocks
  BY <1>1, <1>2, <1>3, ToolCommits
<1>5. SUFFICES ASSUME ~whole, ~raced, ~foreign', ~crossed' PROVE StemInv(db', txn', rec')
  BY <1>1 DEF StemsInv
<1>6. ~foreign /\ ~crossed /\ rec.batch[1] \in db.blocks /\ \A p \in DOMAIN mind : ~txn[p].open
  BY <1>1, <1>5
<1>7. StemInv(db, txn, rec)
  BY <1>5, <1>6 DEF StemsInv
<1>8. DOMAIN txn' = DOMAIN txn /\ txn'[Tool] = NoTxn /\ \A q \in DOMAIN txn : q # Tool => txn'[q] = txn[q]
  BY <1>1, <1>2, TxnAt
<1>9. \A x \in db'.utxos : Stems(x, ChainStatements(db'.blocks))
  <2>1. PICK D, E, d, t : D = ChainStatements(db.blocks) /\ E = BlockStatements[rec.batch[1]] /\ d = db /\ t = txn[Tool]
    OBVIOUS
  <2>2. E \subseteq D
    BY <1>6, <2>1 DEF ChainStatements
  <2>3. RemadeView(d, t, E) /\ \A x \in d.utxos : Stems(x, D)
    BY <1>1, <1>2, <1>7, <2>1 DEF StemInv
  <2>4. \A x \in View(d, t).utxos : Stems(x, D)
    BY <2>2, <2>3, RemadeDone
  <2> QED BY <1>1, <1>4, <2>1, <2>4
<1> QED BY <1>3, <1>6, <1>8, <1>9, NoTxnFacts DEF StemInv

\* Only one update is open at a time, as each holds the lock on meta.tip.
LEMMA AloneOpen ==
    ASSUME StoreInv, SettledInv, ~whole, ~raced, NEW p \in DOMAIN mind, NEW q \in DOMAIN mind,
           txn[p].open, txn[q].open
    PROVE  p = q
<1>1. /\ p \in DOMAIN txn /\ IndexerInv(seen, mind[p], txn[p])
      /\ q \in DOMAIN txn /\ IndexerInv(seen, mind[q], txn[q])
  BY OfProcess DEF StoreInv
<1>2. ~txn[p].bare /\ ~txn[q].bare
  BY <1>1 DEF SettledInv
<1>3. TipKey \in txn[p].locks /\ TipKey \in txn[q].locks
  BY <1>1, <1>2 DEF IndexerInv, UpdateInv
<1> QED BY <1>1, <1>3 DEF StoreInv, WritersInv, Apart

LEMMA StemsCommit ==
    ASSUME StoreInv, SettledInv, StemsInv, NEW p \in DOMAIN mind, Commit(p),
           UNCHANGED <<rec, foreign, crossed, whole>>
    PROVE  StemsInv'
<1>1. PICK t, d, e : t = txn[p] /\ d = db /\ e = View(d, t)
  OBVIOUS
<1>2. /\ t.open /\ t.todo = {} /\ db' = e /\ txn' = [txn EXCEPT ![p] = NoTxn]
      /\ raced' = (raced \/ (t.bare /\ d.blocks \notin {{}, Goal(p)}))
  BY <1>1 DEF Commit
<1>3. /\ p \in DOMAIN txn /\ p # Tool /\ TxnInv(seen, t) /\ IndexerInv(seen, mind[p], t)
  BY <1>1, OfProcess DEF StoreInv
<1>4. SUFFICES ASSUME ~whole, ~raced', ~foreign, ~crossed PROVE StemInv(e, txn', rec)
  BY <1>2 DEF StemsInv
<1>5. ~raced /\ StemInv(d, txn, rec) /\ ~t.bare
  BY <1>1, <1>2, <1>3, <1>4 DEF StemsInv, SettledInv
<1>6. Steady(d, t) /\ IsChain(d.blocks, d.tip) /\ SpineInv(d, mind[p], t)
  BY <1>1, <1>2, <1>5 DEF Steady, StoreInv, ChainInv
<1>7. Builds(d, t) /\ SpineView(d, t)
  BY <1>3, <1>6, SpineBuilds
<1>8. PICK a : a = Len(t.apply)
  OBVIOUS
<1>9. e.blocks = GrownBy(d, t, a)
  BY <1>1, <1>2, <1>7, <1>8, SpineDone
<1>10. StemView(d, t)
  BY <1>1, <1>2, <1>3, <1>5 DEF StemInv
<1>11. \A x \in e.utxos : Stems(x, ChainStatements(e.blocks))
  BY <1>1, <1>2, <1>7, <1>8, <1>9, <1>10, StemDone
<1>12. DOMAIN txn' = DOMAIN txn /\ txn'[p] = NoTxn /\ \A q \in DOMAIN txn : q # p => txn'[q] = txn[q]
  BY <1>2, <1>3, TxnAt
<1>13. DOMAIN mind = DOMAIN txn \ {Tool} /\ Apart(txn)
  BY DEF StoreInv, WritersInv
<1>14. \A q \in DOMAIN txn \ {Tool} : ~txn'[q].open
  <2> SUFFICES ASSUME NEW q \in DOMAIN txn \ {Tool}, txn'[q].open PROVE FALSE
    OBVIOUS
  <2>1. q # p
    BY <1>12, NoTxnFacts
  <2>2. txn[q].open
    BY <1>12, <2>1
  <2> QED BY <1>1, <1>2, <1>4, <1>5, <1>13, <2>1, <2>2, AloneOpen
<1>15. ASSUME Tool \in DOMAIN txn, txn[Tool].open
       PROVE  RemadeView(e, txn[Tool], BlockStatements[rec.batch[1]])
  <2>1. PICK c, E : c = txn[Tool] /\ E = BlockStatements[rec.batch[1]]
    OBVIOUS
  <2>2. RemadeView(d, c, E)
    BY <1>5, <1>15, <2>1 DEF StemInv
  <2>3. TxnInv(seen, c)
    BY <1>15, <2>1 DEF StoreInv, WritersInv
  <2>4. OwnKeys(c.own, c.locks) /\ OwnKeys(t.own, t.locks)
    BY <1>3, <2>3, TxnKeys
  <2>5. c.locks \cap t.locks = {}
    BY <1>1, <1>3, <1>13, <1>15, <2>1 DEF Apart
  <2>6. \A k \in c.locks : SameAt(e, d, k)
    BY <1>1, <2>4, <2>5, CommitLeaves
  <2>7. RemadeView(e, c, E)
    BY <2>2, <2>4, <2>6, RemadeLater
  <2> QED BY <2>1, <2>7
<1> QED BY <1>3, <1>11, <1>12, <1>14, <1>15 DEF StemInv

LEMMA StemsWriter ==
    ASSUME StoreInv, SettledInv, StemsInv, NEW p \in DOMAIN mind, WriterStep(p),
           UNCHANGED <<rec, foreign, crossed, whole>>
    PROVE  StemsInv'
<1>0. /\ p \in DOMAIN txn /\ p # Tool /\ TxnInv(seen, txn[p]) /\ IndexerInv(seen, mind[p], txn[p])
  BY OfProcess DEF StoreInv
<1>1. CASE Load(p)
  <2>1. UNCHANGED <<db, txn, raced>>
    BY <1>1 DEF Load
  <2> QED BY <2>1 DEF StemsInv
<1>2. CASE Run(p)
  <2>1. PICK u, s, t2 : Advances(p, u, s, t2)
    BY <1>2, RunAdvances
  <2>2. PICK t : t = txn[p]
    OBVIOUS
  <2>3. /\ txn' = [txn EXCEPT ![p] = t2] /\ db' = db /\ Stepped(db, t, u, s, t2) /\ t.open
    BY <2>1, <2>2 DEF Advances
  <2>4. raced' = raced
    BY <1>2 DEF Run
  <2>5. ASSUME ~whole, ~raced, ~foreign, ~crossed PROVE StemView(db, t2)
    <3>1. StemView(db, t) /\ ~t.bare
      BY <1>0, <2>2, <2>3, <2>5 DEF StemsInv, StemInv, SettledInv
    <3>2. Steady(db, t) /\ IsChain(db.blocks, db.tip) /\ SpineInv(db, mind[p], t)
      BY <2>2, <2>3, <2>5, <3>1 DEF Steady, StoreInv, ChainInv
    <3>3. Builds(db, t)
      BY <1>0, <2>2, <3>2, SpineBuilds
    <3>4. IsTables(View(db, t))
      <4>1. IsTables(db) /\ IsTables(t.own)
        BY <1>0, <2>2, TxnKeys DEF StoreInv, WritersInv
      <4> QED BY <4>1, ViewTables
    <3> QED BY <2>3, <3>1, <3>3, <3>4, StemStep
  <2> QED BY <1>0, <2>3, <2>4, <2>5, StemsTxn
<1>3. CASE Commit(p)
  BY <1>3, StemsCommit
<1>4. CASE Abort(p)
  <2>1. txn' = [txn EXCEPT ![p] = NoTxn] /\ UNCHANGED <<db, raced>>
    BY <1>4 DEF Abort
  <2>2. ~NoTxn.open
    BY NoTxnFacts
  <2> QED BY <1>0, <2>1, <2>2, StemsTxn
<1>5. ASSUME NEW b \in Branches, Begin(p, b) PROVE StemsInv'
  <2>1. PICK t : BegunBy(p, t)
    BY <1>5, BeginTxn
  <2>2. /\ txn' = [txn EXCEPT ![p] = t] /\ UNCHANGED <<db, raced>>
        /\ t.todo = Places(t.code) /\ View(db, t) = db
        /\ IsChain(db.blocks, db.tip) /\ Above(mind[p], db) => Builds(db, t)
    BY <2>1 DEF BegunBy, Begins
  <2>3. ASSUME ~whole, ~raced, ~foreign, ~crossed PROVE StemView(db, t)
    <3>1. IsChain(db.blocks, db.tip) /\ Above(mind[p], db)
      BY <2>3 DEF StoreInv, ChainInv, SpineInv
    <3>2. \A x \in db.utxos : Stems(x, ChainStatements(db.blocks))
      BY <2>3 DEF StemsInv, StemInv
    <3> QED BY <2>2, <3>1, <3>2, StemStart
  <2> QED BY <1>0, <2>2, <2>3, StemsTxn
<1> QED BY <1>1, <1>2, <1>3, <1>4, <1>5 DEF WriterStep

LEMMA StemsStep ==
    ASSUME StoreInv, SettledInv, StemsInv, [ReconcileNext]_recvars
    PROVE  StemsInv'
<1>1. CASE ApplyBegin \/ ApplyRun \/ Fail
  BY <1>1, StemsTool
<1>2. CASE ApplyCommit
  BY <1>2, StemsCommitTool
<1>3. CASE Reading
  BY <1>3, StemsRead
<1>4. CASE Others
  <2>1. UNCHANGED <<rec, foreign, crossed, whole>>
    BY <1>4 DEF Others, mixed
  <2>2. ASSUME NEW b \in Block, NodeAdvance(b) PROVE StemsInv'
    BY <2>1, <2>2 DEF NodeAdvance, StemsInv
  <2>3. ASSUME NEW p \in DOMAIN mind, WriterStep(p) PROVE StemsInv'
    BY <2>1, <2>3, StemsWriter
  <2> QED BY <1>4, <2>2, <2>3 DEF Others
<1>5. CASE UNCHANGED recvars
  <2>1. UNCHANGED <<db, txn, rec, raced, foreign, crossed, whole>>
    BY <1>5 DEF recvars, wvars
  <2> QED BY <2>1 DEF StemsInv
<1> QED BY <1>1, <1>2, <1>3, <1>4, <1>5 DEF ReconcileNext, ReconcileStep, Applying

LEMMA StemsInit ==
    ASSUME ReconcileInit
    PROVE  StemsInv
<1>1. db \in StoredDbs /\ \E R : txn = [p \in R |-> NoTxn]
  BY DEF ReconcileInit
<1>2. \A p \in DOMAIN txn : ~txn[p].open
  BY <1>1, NoTxnFacts
<1> QED BY <1>1, <1>2, StemAssumption DEF StemsInv, StemInv

-----------------------------------------------------------------------------
(* What a quiet pass has been through is decoded.                          *)

\* The blocks of S from height lo to below hi.
Slice(S, lo, hi) == {b \in S : lo <= Height[b] /\ Height[b] < hi}

\* The statements transaction t has run.
RunIn(t) == {StatementOf(t, u) : u \in Places(t.code) \ t.todo}

LEMMA RunByIs ==
    ASSUME NEW d, NEW t, NEW r
    PROVE  RunBy(d, t, r) = ChainStatements(Slice(d.blocks, r.from, r.next - Len(r.batch))) \cup RunIn(t)
BY DEF RunBy, Slice, RunIn

\* The places of reconcile's transaction are those of its block.
LEMMA ToolPlace ==
    ASSUME NEW t, NEW b \in Block, t.code = <<ApplyBlock(b)>>, NEW u, NEW s
    PROVE  u \in Places(t.code) /\ s = StatementOf(t, u) <=>
               \E k, m : u = <<1, k, m>> /\ StatementAt(b, k, m, s)
<1>1. DOMAIN t.code = {1} /\ t.code[1] = ApplyBlock(b)
  BY OneList
<1>2. u \in Places(t.code) <=>
          \E k \in DOMAIN ApplyBlock(b) : \E m \in DOMAIN ApplyBlock(b)[k] : u = <<1, k, m>>
  BY <1>1, InPlaces
<1>3. ASSUME NEW k, NEW m, u = <<1, k, m>> PROVE StatementOf(t, u) = ApplyBlock(b)[k][m]
  BY <1>1, <1>3 DEF StatementOf
<1> QED BY <1>2, <1>3 DEF StatementAt

LEMMA NoneRun == RunIn(NoTxn) = {}
<1>1. Places(<<>>) = {}
  BY DEF Places
<1> QED BY <1>1 DEF RunIn, NoTxn

LEMMA AllRun ==
    ASSUME NEW t, NEW b \in Block, t.code = <<ApplyBlock(b)>>, t.todo = {}
    PROVE  RunIn(t) = BlockStatements[b]
<1>1. ASSUME NEW s PROVE s \in RunIn(t) <=> \E u : u \in Places(t.code) /\ s = StatementOf(t, u)
  BY DEF RunIn
<1>2. ASSUME NEW s PROVE s \in RunIn(t) <=> s \in BlockStatements[b]
  <2>1. ASSUME s \in RunIn(t) PROVE s \in BlockStatements[b]
    BY <1>1, <2>1, ToolPlace, InBlock
  <2>2. ASSUME s \in BlockStatements[b] PROVE s \in RunIn(t)
    <3>1. PICK k, m : StatementAt(b, k, m, s)
      BY <2>2, InBlock
    <3>2. PICK u : u = <<1, k, m>>
      OBVIOUS
    <3>3. u \in Places(t.code) /\ s = StatementOf(t, u)
      BY <3>1, <3>2, ToolPlace
    <3> QED BY <1>1, <3>3
  <2> QED BY <2>1, <2>2
<1> QED BY <1>2

\* The next statement, and those before it.
LEMMA RunSoFar ==
    ASSUME NEW S, NEW t, TxnInv(S, t), NEW b \in Block, t.code = <<ApplyBlock(b)>>,
           NEW u \in NextPlace(t), NEW s, s = StatementOf(t, u)
    PROVE  \E k, m : StatementAt(b, k, m, s) /\ RunIn(t) \subseteq Executed(b, k, m)
<1>1. /\ u \in t.todo /\ u \in Places(t.code)
      /\ \A v \in Places(t.code) : Before(u, v) => v \in t.todo
  BY DEF NextPlace, TxnInv
<1>2. PICK k, m : u = <<1, k, m>> /\ StatementAt(b, k, m, s)
  BY <1>1, ToolPlace
<1>3. ASSUME NEW x \in RunIn(t) PROVE x \in Executed(b, k, m)
  <2>1. PICK v \in Places(t.code) : v \notin t.todo /\ x = StatementOf(t, v)
    BY DEF RunIn
  <2>2. PICK i, j : v = <<1, i, j>> /\ StatementAt(b, i, j, x)
    BY <2>1, ToolPlace
  <2>3. ~Before(u, v) /\ u # v
    BY <1>1, <2>1
  <2>4. ~Before(<<1, k, m>>, <<1, i, j>>) /\ ~(k = i /\ m = j)
    BY <1>2, <2>2, <2>3
  <2>5. ~(k < i) /\ ~(k = i /\ m < j)
    BY <2>4, BeforeIs
  <2>6. k \in Nat /\ m \in Nat /\ i \in Nat /\ j \in Nat
    BY <1>2, <2>2, Place
  <2>7. i <= k /\ (i < k \/ j < m)
    BY <2>4, <2>5, <2>6
  <2> QED BY <2>2, <2>7, InExecuted
<1> QED BY <1>2, <1>3

LEMMA RunMore ==
    ASSUME NEW t, NEW t2, NEW u \in Places(t.code), u \in t.todo, t.todo \subseteq Places(t.code),
           NEW s, s = StatementOf(t, u), t2.code = t.code, t2.todo = t.todo \ {u}
    PROVE  RunIn(t2) = RunIn(t) \cup {s}
<1>1. Places(t2.code) \ t2.todo = (Places(t.code) \ t.todo) \cup {u}
  OBVIOUS
<1>2. \A v : StatementOf(t2, v) = StatementOf(t, v)
  BY DEF StatementOf
<1> QED BY <1>1, <1>2 DEF RunIn

-----------------------------------------------------------------------------
(* A statement, run where its like may have run before.                    *)

\* What is inserted has not been ended.
LEMMA NotEnded ==
    ASSUME NEW C \in SUBSET Block, ValidChain(C), NEW b \in C, \A c \in C \ {b} : Height[c] < Height[b],
           NEW k, NEW m, NEW s, StatementAt(b, k, m, s), s.sql = "insert",
           NEW D, D \subseteq ChainStatements(C \ {b}) \cup Executed(b, k, m)
    PROVE  SpendsOf(s.row.op, D) = {} /\ ~DueIn(s.row, D)
<1>0. k \in Nat /\ m \in Nat /\ b \in Block
  BY Place
<1>1. ASSUME NEW x \in D
      PROVE  \E c \in C : \E i, j : StatementAt(c, i, j, x) /\ EarlierIn(C, b, k, m, c, i, j)
  BY <1>1, RanBefore
<1>2. ASSUME NEW x \in SpendsOf(s.row.op, D) PROVE FALSE
  <2>1. x \in D /\ x.sql = "spend" /\ x.op = s.row.op
    BY DEF SpendsOf
  <2>0. PICK c \in C : \E i, j : StatementAt(c, i, j, x) /\ EarlierIn(C, b, k, m, c, i, j)
    BY <1>1, <2>1
  <2>2. PICK i, j : StatementAt(c, i, j, x) /\ EarlierIn(C, b, k, m, c, i, j)
    BY <2>0
  <2>3. c \in Block /\ i \in Nat
    BY <2>2, Place
  <2>4. Height[b] < Height[c] \/ (c = b /\ k < i)
    BY <2>1, <2>2, MadeBeforeSpent
  <2> QED BY <1>0, <2>2, <2>3, <2>4, NotEarlier
<1>3. ASSUME DueIn(s.row, D) PROVE FALSE
  <2>1. PICK x \in D : x.sql = "sweep" /\ x.h = s.row.deadline
    BY <1>3 DEF DueIn
  <2>0. PICK c \in C : \E i, j : StatementAt(c, i, j, x) /\ EarlierIn(C, b, k, m, c, i, j)
    BY <1>1
  <2>2. PICK i, j : StatementAt(c, i, j, x) /\ EarlierIn(C, b, k, m, c, i, j)
    BY <2>0
  <2>3. c \in Block /\ i \in Nat
    BY <2>2, Place
  <2>4. x.h = Height[c]
    BY <2>1, <2>2, <2>3, StatementFacts
  <2>5. Height[c] <= Height[b] /\ Height[c] \in Nat /\ Height[b] \in Nat
    BY <1>0, <2>2, <2>3, NotEarlier, HeightAssumption
  <2>6. s.row.deadline = Null \/ (s.row.deadline \in Nat /\ s.row.deadline > Height[b])
    BY <1>0, StatementFacts
  <2> QED BY <2>1, <2>4, <2>5, <2>6 DEF Null
<1> QED BY <1>2, <1>3

\* A spend or a sweep leaves no unspent row that it ends.
LEMMA EndsRow ==
    ASSUME NEW r, IsRow(r), NEW s, s.sql \in {"spend", "sweep"}, s.h # Null, NEW x, x = RowAfter(r, s), Live(x)
    PROVE  x = r /\ (s.sql = "spend" => r.op # s.op) /\ (s.sql = "sweep" => ~(r.lock = 0 /\ s.h = r.deadline))
<1>1. CASE x = r
  <2>1. CASE s.sql = "spend" /\ r.op = s.op
    <3>1. x = [r EXCEPT !.spent = s.h, !.spentTx = s.tx]
      BY <1>1, <2>1 DEF RowAfter
    <3>2. x.spent = s.h
      BY <3>1 DEF IsRow
    <3> QED BY <3>2 DEF Live
  <2>2. CASE s.sql = "sweep" /\ r.lock = 0 /\ s.h = r.deadline
    <3>1. x = [r EXCEPT !.trimmed = s.h]
      BY <1>1, <2>2 DEF RowAfter
    <3>2. x.trimmed = s.h
      BY <3>1 DEF IsRow
    <3> QED BY <3>2 DEF Live
  <2> QED BY <1>1, <2>1, <2>2
<1>2. CASE x # r
  <2>1. CASE s.sql = "spend"
    <3>1. x = [r EXCEPT !.spent = s.h, !.spentTx = s.tx]
      BY <1>2, <2>1 DEF RowAfter
    <3>2. x.spent = s.h
      BY <3>1 DEF IsRow
    <3> QED BY <3>2 DEF Live
  <2>2. CASE s.sql = "sweep"
    <3>1. x = [r EXCEPT !.trimmed = s.h]
      BY <1>2, <2>2 DEF RowAfter
    <3>2. x.trimmed = s.h
      BY <3>1 DEF IsRow
    <3> QED BY <3>2 DEF Live
  <2> QED BY <2>1, <2>2
<1> QED BY <1>1, <1>2

IsRows(U) == \A r \in U : IsRow(r)

\* A statement of block b when everything in D has been caught up with.
LEMMA CatchUp ==
    ASSUME NEW C \in SUBSET Block, ValidChain(C), NEW b \in C, \A c \in C \ {b} : Height[c] < Height[b],
           NEW k, NEW m, NEW s, StatementAt(b, k, m, s), s.sql # "fail",
           NEW D, D \subseteq ChainStatements(C \ {b}) \cup Executed(b, k, m),
           NEW U, IsRows(U), NEW h, CaughtUp(U, D, h)
    PROVE  CaughtUp(UtxosAfter(U, s), D \cup {s}, h)
<1> DEFINE E == D \cup {s}
           V == UtxosAfter(U, s)
<1>0. b \in Block
  OBVIOUS
<1>1. /\ \A q \in RowsIn(D) : \E r \in U : r.op = q.op /\ r.created = q.created
      /\ \A r \in U : Live(r) /\ r.created >= h => SpendsOf(r.op, D) = {} /\ ~DueIn(r, D)
  BY DEF CaughtUp
<1>2. /\ s.sql \in {"spend", "insert", "conv", "sweep"}
      /\ s.sql \in {"spend", "sweep"} => s.h # Null
  BY <1>0, StatementFacts, HeightAssumption DEF Null
<1>3. CASE s.sql \in {"spend", "sweep"}
  <2>1. V = {RowAfter(r, s) : r \in U}
    BY <1>3, UpdateRows DEF UpdateSql
  <2>2. RowsIn(E) = RowsIn(D)
    BY <1>3 DEF RowsIn
  <2>3. ASSUME NEW q \in RowsIn(E) PROVE \E x \in V : x.op = q.op /\ x.created = q.created
    <3>1. PICK r \in U : r.op = q.op /\ r.created = q.created
      BY <1>1, <2>2
    <3>2. IsRow(r)
      BY DEF IsRows
    <3>3. PICK x : x = RowAfter(r, s)
      OBVIOUS
    <3>4. UtxoKey(x) = UtxoKey(r)
      BY <1>3, <3>2, <3>3, UpdateKeepsKey DEF UpdateSql
    <3> QED BY <2>1, <3>1, <3>3, <3>4 DEF UtxoKey
  <2>4. ASSUME NEW x \in V, Live(x), x.created >= h PROVE SpendsOf(x.op, E) = {} /\ ~DueIn(x, E)
    <3>1. PICK r \in U : x = RowAfter(r, s)
      BY <2>1
    <3>2. IsRow(r)
      BY DEF IsRows
    <3>3. x = r /\ (s.sql = "spend" => r.op # s.op) /\ (s.sql = "sweep" => ~(r.lock = 0 /\ s.h = r.deadline))
      BY <1>2, <1>3, <2>4, <3>1, <3>2, EndsRow
    <3>4. SpendsOf(r.op, D) = {} /\ ~DueIn(r, D)
      BY <1>1, <2>4, <3>3
    <3>5. SpendsOf(r.op, E) = {}
      BY <3>3, <3>4 DEF SpendsOf
    <3>6. ~DueIn(r, E)
      BY <3>3, <3>4 DEF DueIn
    <3> QED BY <3>3, <3>5, <3>6
  <2> QED BY <2>3, <2>4 DEF CaughtUp
<1>4. CASE s.sql = "conv"
  <2>1. V = U /\ RowsIn(E) = RowsIn(D)
    BY <1>4 DEF UtxosAfter, RowsIn
  <2>2. \A r : SpendsOf(r.op, E) = SpendsOf(r.op, D) /\ (DueIn(r, E) <=> DueIn(r, D))
    BY <1>4 DEF SpendsOf, DueIn
  <2> QED BY <1>1, <2>1, <2>2 DEF CaughtUp
<1>5. CASE s.sql = "insert"
  <2>1. V = Insert(U, s.row)
    BY <1>5 DEF UtxosAfter
  <2>2. U \subseteq V /\ V \subseteq U \cup {s.row} /\ \E r \in V : r.op = s.row.op /\ r.created = s.row.created
    BY <2>1 DEF Insert
  <2>3. RowsIn(E) = RowsIn(D) \cup {s.row}
    BY <1>5 DEF RowsIn
  <2>4. \A r : SpendsOf(r.op, E) = SpendsOf(r.op, D) /\ (DueIn(r, E) <=> DueIn(r, D))
    BY <1>5 DEF SpendsOf, DueIn
  <2>5. SpendsOf(s.row.op, D) = {} /\ ~DueIn(s.row, D)
    BY <1>5, NotEnded
  <2>6. \A q \in RowsIn(E) : \E r \in V : r.op = q.op /\ r.created = q.created
    BY <1>1, <2>2, <2>3
  <2>7. \A r \in V : Live(r) /\ r.created >= h => SpendsOf(r.op, D) = {} /\ ~DueIn(r, D)
    BY <1>1, <2>2, <2>5
  <2> QED BY <2>4, <2>6, <2>7 DEF CaughtUp
<1> QED BY <1>2, <1>3, <1>4, <1>5

-----------------------------------------------------------------------------
(* The steps of a quiet pass.                                              *)

\* The heights of a stored chain.
LEMMA HeightsOfChain ==
    ASSUME NEW S, NEW t, IsChain(S, t), S # {}, NEW lo, NEW hi, lo = Min(Heights(S)), hi = Max(Heights(S))
    PROVE  /\ lo \in Nat /\ hi \in Nat /\ lo <= hi /\ hi < TwoTo63
           /\ \A b \in S : Height[b] \in Nat /\ lo <= Height[b] /\ Height[b] <= hi
           /\ \A n \in Nat : lo <= n /\ n <= hi => \E b \in S : Height[b] = n
<1>1. S \subseteq Block /\ t \in S /\ \A b \in S : Height[b] <= Height[t]
  BY DEF IsChain
<1>2. Heights(S) \in SUBSET Nat /\ Heights(S) # {}
  BY <1>1, HeightAssumption DEF Heights
<1>3. PICK H : H = Heights(S)
  OBVIOUS
<1>4. H \in SUBSET Nat /\ H # {} /\ Height[t] \in Nat /\ \A y \in H : y <= Height[t]
  BY <1>1, <1>2, <1>3, HeightAssumption DEF Heights
<1>5. lo \in H /\ \A y \in H : lo <= y
  <2>1. Min(H) \in H /\ \A y \in H : Min(H) <= y
    BY <1>4, LeastIn
  <2> QED BY <1>3, <2>1
<1>6. hi \in H /\ \A y \in H : y <= hi
  <2>1. Max(H) \in H /\ \A y \in H : y <= Max(H)
    BY <1>4, GreatestIn
  <2> QED BY <1>3, <2>1
<1>7. \A b \in S : Height[b] \in H
  BY <1>3 DEF Heights
<1>8. PICK c \in S : Height[c] = lo
  BY <1>3, <1>5 DEF Heights
<1>9. PICK x \in S : Height[x] = hi
  BY <1>3, <1>6 DEF Heights
<1>10. hi = Height[t] /\ hi < TwoTo63
  <2>1. hi <= Height[t] /\ Height[t] <= hi /\ hi \in Nat
    BY <1>1, <1>4, <1>6, <1>7
  <2>2. Height[x] < TwoTo63
    BY <1>1, ReconcileAssumption
  <2> QED BY <1>4, <1>9, <2>1, <2>2
<1>11. ASSUME NEW n \in Nat, lo <= n, n <= hi PROVE \E b \in S : Height[b] = n
  <2>1. CASE n = lo
    BY <1>8, <2>1
  <2>2. CASE lo < n
    BY <1>8, <1>10, <1>11, <2>2, NoGap
  <2>3. lo \in Nat
    BY <1>4, <1>5
  <2> QED BY <1>11, <2>1, <2>2, <2>3
<1> QED BY <1>4, <1>5, <1>6, <1>7, <1>10, <1>11

LEMMA OnlyElement ==
    ASSUME NEW B, NEW s, s \in Seq(B), Len(s) = 1
    PROVE  s[1] \in B
OBVIOUS

\* The node serves the stored block of a height in the range.
LEMMA FetchesStored ==
    ASSUME NEW S, NEW t, IsChain(S, t), S # {}, NEW lo, NEW hi, lo = Min(Heights(S)), hi = Max(Heights(S)),
           NEW h \in Block, S \subseteq Ancestry[h], NEW n \in Nat, lo <= n, n <= hi,
           NEW F, FoundAt(h, n, F), NEW s, s = SetToSeq(F)
    PROVE  \E b \in S : Height[b] = n /\ s \in Seq(Block) /\ Len(s) = 1 /\ s[1] = b
<1>1. PICK b \in S : Height[b] = n
  BY HeightsOfChain
<1>2. F = {b}
  BY <1>1, AncestryUnique DEF FoundAt
<1>3. s \in Seq(F) /\ Len(s) = Cardinality(F) /\ F \in SUBSET Block
  <2>1. SetToSeq(F) \in Seq(F) /\ Len(SetToSeq(F)) = Cardinality(F) /\ F \in SUBSET Block
    BY AtHeight
  <2> QED BY <2>1
<1>4. Cardinality({b}) = 1
  BY FS_Singleton
<1>5. Len(s) = 1 /\ s \in Seq({b}) /\ s \in Seq(Block)
  BY <1>2, <1>3, <1>4
<1>6. s[1] = b
  <2>1. PICK B : B = {b}
    OBVIOUS
  <2>2. s \in Seq(B) /\ Len(s) = 1
    BY <1>5, <2>1
  <2>3. s[1] \in B
    BY <2>2, OnlyElement
  <2> QED BY <2>1, <2>3
<1> QED BY <1>1, <1>5, <1>6

LEMMA FromAbove ==
    ASSUME NEW hi \in Nat, NEW lo \in Nat, NEW n \in Nat
    PROVE  lo <= From(hi, lo, n)
<1>1. Wrap(hi - n + 1) \in Nat
  BY WrapRange, ReconcileAssumption
<1> QED BY <1>1 DEF From

\* The places of the pass that its progress is measured by stay.
LEMMA ProgressSame ==
    ASSUME NEW d, NEW t, NEW r, NEW r2, ProgressInv(d, t, r), r.pc \notin {"idle", "failed"},
           r2.n = r.n, r2.minH = r.minH, r2.maxH = r.maxH, r2.from = r.from, r2.next = r.next,
           r2.batch = r.batch,
           r2.pc # "fetch" => r.batch = <<>> /\ r.next > r.maxH,
           r2.pc \in {"node", "db", "ok", "mismatch"} => IsBigint(r.from)
    PROVE  ProgressInv(d, t, r2)
<1>1. RunBy(d, t, r2) = RunBy(d, t, r)
  BY DEF RunBy
<1> QED BY <1>1 DEF ProgressInv

LEMMA ProgressFailed ==
    ASSUME NEW d, NEW t, NEW r, r.pc \in {"idle", "failed"}
    PROVE  ProgressInv(d, t, r)
BY DEF ProgressInv

LEMMA PassFields ==
    ASSUME WritersInv, rec # Idle
    PROVE  \A f \in {"pc", "n", "minH", "maxH", "from", "next", "end", "batch", "addrs", "addr",
                     "nodeSet", "mismatches"} : f \in DOMAIN rec
<1>1. DOMAIN rec = DOMAIN Idle
  BY ToolRuns
<1> QED BY <1>1 DEF Idle

\* The steps after the backfill, and between its batches.
LEMMA QuietPass ==
    ASSUME StoreInv, PassInv(rec), QuietInv, quiet, ~raced, Tool \in DOMAIN txn,
           NextBatch \/ Sample \/ (\E a \in rec.addrs : AskNode(a)) \/ Compare \/ Finish
    PROVE  ProgressInv(db, txn[Tool], rec')
<1>1. PICK d, t : d = db /\ t = txn[Tool]
  OBVIOUS
<1>2. ProgressInv(d, t, rec)
  BY <1>1 DEF QuietInv
<1>3. rec.pc \in {"fetch", "sample", "node", "db"}
  BY DEF NextBatch, Sample, AskNode, Compare, Finish
<1>4. rec # Idle
  BY <1>3, IdleFacts
<1>5. \A f \in {"pc", "n", "minH", "maxH", "from", "next", "end", "batch", "addrs", "addr",
                "nodeSet", "mismatches"} : f \in DOMAIN rec
  BY <1>4, PassFields DEF StoreInv
<1>6. rec.pc # "fetch" => rec.batch = <<>> /\ rec.next > rec.maxH
  BY <1>2, <1>3 DEF ProgressInv
<1>7. rec.pc \in {"node", "db"} => IsBigint(rec.from)
  BY <1>2, <1>3 DEF ProgressInv
<1>8. CASE NextBatch
  <2>1. /\ rec.pc = "fetch" /\ rec.batch = <<>>
        /\ rec' = IF rec.next <= rec.maxH THEN [rec EXCEPT !.end = End(rec.next, rec.maxH)]
                  ELSE [rec EXCEPT !.pc = "sample"]
    BY <1>8 DEF NextBatch
  <2>2. rec.next \in Nat /\ rec.maxH \in Nat
    BY DEF PassInv
  <2>3. CASE rec.next <= rec.maxH
    <3>1. rec' = [rec EXCEPT !.end = End(rec.next, rec.maxH)]
      BY <2>1, <2>3
    <3>2. /\ rec'.n = rec.n /\ rec'.minH = rec.minH /\ rec'.maxH = rec.maxH /\ rec'.from = rec.from
          /\ rec'.next = rec.next /\ rec'.batch = rec.batch /\ rec'.pc = "fetch"
      BY <1>5, <2>1, <3>1
    <3> QED BY <1>1, <1>2, <1>3, <3>2, ProgressSame
  <2>4. CASE ~(rec.next <= rec.maxH)
    <3>1. rec' = [rec EXCEPT !.pc = "sample"]
      BY <2>1, <2>4
    <3>2. /\ rec'.n = rec.n /\ rec'.minH = rec.minH /\ rec'.maxH = rec.maxH /\ rec'.from = rec.from
          /\ rec'.next = rec.next /\ rec'.batch = rec.batch /\ rec'.pc = "sample"
      BY <1>5, <3>1
    <3>3. rec.next > rec.maxH
      BY <2>2, <2>4
    <3> QED BY <1>1, <1>2, <1>3, <2>1, <3>2, <3>3, ProgressSame
  <2> QED BY <2>3, <2>4
<1>9. CASE Sample
  <2>1. CASE IsBigint(rec.from) /\ \E S : rec' = [rec EXCEPT !.pc = "node", !.addrs = S]
    <3>1. PICK S : rec' = [rec EXCEPT !.pc = "node", !.addrs = S]
      BY <2>1
    <3>2. /\ rec'.n = rec.n /\ rec'.minH = rec.minH /\ rec'.maxH = rec.maxH /\ rec'.from = rec.from
          /\ rec'.next = rec.next /\ rec'.batch = rec.batch
      BY <1>5, <3>1
    <3>3. rec.batch = <<>> /\ rec.next > rec.maxH
      BY <1>6, <1>9 DEF Sample
    <3> QED BY <1>1, <1>2, <1>3, <2>1, <3>2, <3>3, ProgressSame
  <2>2. CASE rec' = [Idle EXCEPT !.pc = "failed"]
    <3>1. rec'.pc = "failed"
      BY <2>2, IdleFacts
    <3> QED BY <3>1, ProgressFailed
  <2> QED BY <1>9, <2>1, <2>2 DEF Sample
<1>10. CASE \E a \in rec.addrs : AskNode(a)
  <2>1. PICK a : AskNode(a)
    BY <1>10
  <2>2. rec.pc = "node"
    BY <2>1 DEF AskNode
  <2>3. /\ rec'.n = rec.n /\ rec'.minH = rec.minH /\ rec'.maxH = rec.maxH /\ rec'.from = rec.from
        /\ rec'.next = rec.next /\ rec'.batch = rec.batch
    <3>1. CASE rec' = [rec EXCEPT !.addrs = @ \ {a}]
      BY <1>5, <3>1
    <3>2. CASE rec' = [rec EXCEPT !.addrs = @ \ {a}, !.pc = "db", !.addr = {a}, !.nodeSet = NodeUnspent(a)]
      BY <1>5, <3>2
    <3> QED BY <2>1, <3>1, <3>2 DEF AskNode
  <2> QED BY <1>1, <1>2, <1>3, <1>6, <1>7, <2>2, <2>3, ProgressSame
<1>11. CASE Compare
  <2>1. PICK v : rec' = [rec EXCEPT !.pc = "node", !.addr = {}, !.nodeSet = {}, !.mismatches = v]
    BY <1>11 DEF Compare
  <2>2. rec.pc = "db"
    BY <1>11 DEF Compare
  <2>3. /\ rec'.n = rec.n /\ rec'.minH = rec.minH /\ rec'.maxH = rec.maxH /\ rec'.from = rec.from
        /\ rec'.next = rec.next /\ rec'.batch = rec.batch
    BY <1>5, <2>1
  <2> QED BY <1>1, <1>2, <1>3, <1>6, <1>7, <2>2, <2>3, ProgressSame
<1>12. CASE Finish
  <2>1. PICK v : rec' = [rec EXCEPT !.pc = v]
    BY <1>12 DEF Finish
  <2>2. rec.pc = "node"
    BY <1>12 DEF Finish
  <2>3. /\ rec'.n = rec.n /\ rec'.minH = rec.minH /\ rec'.maxH = rec.maxH /\ rec'.from = rec.from
        /\ rec'.next = rec.next /\ rec'.batch = rec.batch
    BY <1>5, <2>1
  <2> QED BY <1>1, <1>2, <1>3, <1>6, <1>7, <2>2, <2>3, ProgressSame
<1> QED BY <1>8, <1>9, <1>10, <1>11, <1>12

LEMMA QuietStart ==
    ASSUME StoreInv, SeenInv, NEW n \in NBlocks, Start(n), ~raced
    PROVE  ProgressInv(db, txn[Tool], rec')
<1>1. /\ Tool \in DOMAIN txn /\ Ended
      /\ rec' = IF db.blocks = {} THEN [Idle EXCEPT !.pc = "failed"]
                ELSE LET lo == Min(Heights(db.blocks))
                         hi == Max(Heights(db.blocks))
                         f == From(hi, lo, n)
                     IN [Idle EXCEPT !.pc = "fetch", !.n = n, !.minH = lo, !.maxH = hi,
                                     !.from = f, !.next = f, !.end = End(f, hi)]
  BY DEF Start
<1>2. txn[Tool] = NoTxn
  <2>1. TxnInv(seen, txn[Tool]) /\ (txn[Tool].open => rec.pc = "fetch")
    BY <1>1, ToolRuns DEF StoreInv
  <2> QED BY <1>1, <2>1 DEF Ended, TxnInv
<1>3. CASE db.blocks = {}
  <2>1. rec' = [Idle EXCEPT !.pc = "failed"]
    BY <1>1, <1>3
  <2>2. rec'.pc = "failed"
    BY <2>1, IdleFacts
  <2> QED BY <2>2, ProgressFailed
<1>4. CASE db.blocks # {}
  <2>1. PICK lo, hi : lo = Min(Heights(db.blocks)) /\ hi = Max(Heights(db.blocks))
    OBVIOUS
  <2>2. PICK f, x : f = From(hi, lo, n) /\ x = End(f, hi)
    OBVIOUS
  <2>3. rec' = [Idle EXCEPT !.pc = "fetch", !.n = n, !.minH = lo, !.maxH = hi,
                            !.from = f, !.next = f, !.end = x]
    BY <1>1, <1>4, <2>1, <2>2
  <2>4. /\ rec'.pc = "fetch" /\ rec'.n = n /\ rec'.minH = lo /\ rec'.maxH = hi /\ rec'.from = f
        /\ rec'.next = f /\ rec'.batch = <<>>
    BY <2>3 DEF Idle
  <2>5. IsChain(db.blocks, db.tip)
    BY DEF StoreInv, ChainInv
  <2>6. lo \in Nat /\ hi \in Nat /\ lo < TwoTo63 /\ n \in Nat
    BY <1>4, <2>1, <2>5, HeightsOfChain, ReconcileAssumption
  <2>7. f \in Nat
    BY <2>2, <2>6, FromRange, ReconcileAssumption
  <2>8. RunBy(db, NoTxn, rec') = {}
    <3>1. Len(<<>>) = 0
      OBVIOUS
    <3>2. Slice(db.blocks, f, f) = {}
      <4>1. \A b \in db.blocks : Height[b] \in Nat
        BY <2>5, HeightAssumption DEF IsChain
      <4> QED BY <2>7, <4>1 DEF Slice
    <3>3. rec'.next - Len(rec'.batch) = f
      BY <2>4, <2>7, <3>1
    <3>4. ChainStatements({}) = {}
      BY DEF ChainStatements
    <3> QED BY <2>4, <3>2, <3>3, <3>4, RunByIs, NoneRun
  <2>9. CaughtUp(View(db, NoTxn).utxos, {}, f) /\ Decodable({})
    BY DEF CaughtUp, Decodable, RowsIn, SpendsOf, DueIn
  <2> QED BY <1>2, <1>4, <2>1, <2>2, <2>4, <2>8, <2>9 DEF ProgressInv
<1> QED BY <1>3, <1>4

LEMMA ConcatOne ==
    ASSUME NEW B, NEW q, q \in Seq(B), NEW s, s \in Seq(B), Len(s) = 1, NEW l, l = Len(q)
    PROVE  /\ q \o s \in Seq(B) /\ Len(q \o s) = l + 1
           /\ \A i \in 1..l : (q \o s)[i] = q[i]
           /\ (q \o s)[l + 1] = s[1]
<1>1. l \in Nat
  OBVIOUS
<1>2. /\ q \o s \in Seq(B) /\ Len(q \o s) = l + 1
      /\ \A i \in 1..(l + 1) : (q \o s)[i] = IF i <= l THEN q[i] ELSE s[i - l]
  BY ConcatProperties
<1>3. l + 1 \in 1..(l + 1) /\ ~(l + 1 <= l) /\ l + 1 - l = 1 /\ \A i \in 1..l : i \in 1..(l + 1) /\ i <= l
  BY <1>1
<1> QED BY <1>2, <1>3

LEMMA QuietFetch ==
    ASSUME StoreInv, PassInv(rec), AlarmInv, QuietInv, quiet, ~raced, Tool \in DOMAIN txn, Fetch
    PROVE  ProgressInv(db, txn[Tool], rec')
<1>0. PICK F, s, d, t, r, r2 : F = {c \in Ancestry[nodeHead] : Height[c] = rec.next} /\ s = SetToSeq(F)
                     /\ d = db /\ t = txn[Tool] /\ r = rec /\ r2 = rec'
  OBVIOUS
<1>1. r.pc = "fetch" /\ r.next < r.end /\ r2 = [r EXCEPT !.next = @ + 1, !.batch = @ \o s]
  BY <1>0 DEF Fetch, Canonical
<1>2. ProgressInv(d, t, r)
  BY <1>0 DEF QuietInv
<1>3. /\ d.blocks # {} /\ r.minH = Min(Heights(d.blocks)) /\ r.maxH = Max(Heights(d.blocks))
      /\ r.n \in NBlocks /\ r.from = From(r.maxH, r.minH, r.n)
      /\ \A i \in DOMAIN r.batch :
             r.batch[i] \in d.blocks /\ Height[r.batch[i]] = r.next - Len(r.batch) + i - 1
      /\ CaughtUp(View(d, t).utxos, RunBy(d, t, r), r.from) /\ Decodable(RunBy(d, t, r))
  BY <1>1, <1>2 DEF ProgressInv
<1>4. /\ IsChain(d.blocks, d.tip) /\ d.blocks \subseteq Ancestry[nodeHead] /\ nodeHead \in Block
  BY <1>0 DEF StoreInv, ChainInv, WritersInv, AlarmInv, Still, Canonical
<1>5. /\ r.from \in Nat /\ r.next \in Nat /\ r.end \in Nat /\ r.maxH \in Nat
      /\ r.from <= r.next /\ r.end <= r.maxH + 1
  BY <1>0, ReconcileAssumption DEF PassInv
<1>6. r.minH \in Nat /\ r.minH <= r.from
  <2>1. r.minH \in Nat
    BY <1>3, <1>4, HeightsOfChain
  <2>2. r.n \in Nat
    BY <1>3, ReconcileAssumption
  <2> QED BY <1>3, <1>5, <2>1, <2>2, FromAbove
<1>7. r.minH <= r.next /\ r.next <= r.maxH
  BY <1>1, <1>5, <1>6
<1>8. PICK b \in d.blocks : Height[b] = r.next /\ s \in Seq(Block) /\ Len(s) = 1 /\ s[1] = b
  <2>1. FoundAt(nodeHead, r.next, F)
    BY <1>0 DEF FoundAt
  <2>2. PICK lo, hi, m, S, z : lo = r.minH /\ hi = r.maxH /\ m = r.next /\ S = d.blocks /\ z = d.tip
    OBVIOUS
  <2>3. /\ IsChain(S, z) /\ S # {} /\ lo = Min(Heights(S)) /\ hi = Max(Heights(S))
        /\ nodeHead \in Block /\ S \subseteq Ancestry[nodeHead] /\ m \in Nat /\ lo <= m /\ m <= hi
        /\ FoundAt(nodeHead, m, F) /\ s = SetToSeq(F)
    BY <1>0, <1>3, <1>4, <1>5, <1>7, <2>1, <2>2
  <2>4. \E b \in S : Height[b] = m /\ s \in Seq(Block) /\ Len(s) = 1 /\ s[1] = b
    BY <2>3, FetchesStored
  <2> QED BY <2>2, <2>4
<1>9. r.batch \in Seq(Block) /\ r # Idle
  BY <1>0, <1>1, ToolRuns, IdleFacts DEF StoreInv
<1>10. /\ r2.pc = r.pc /\ r2.n = r.n /\ r2.minH = r.minH /\ r2.maxH = r.maxH /\ r2.from = r.from
       /\ r2.next = r.next + 1 /\ r2.batch = r.batch \o s
  <2>1. \A f \in {"pc", "n", "minH", "maxH", "from", "next", "end", "batch", "addrs", "addr",
                  "nodeSet", "mismatches"} : f \in DOMAIN r
    BY <1>0, <1>9, PassFields DEF StoreInv
  <2> QED BY <1>1, <2>1
<1>11. PICK l : l = Len(r.batch)
  OBVIOUS
<1>12. l \in Nat /\ DOMAIN r.batch = 1..l
  BY <1>9, <1>11, LenProperties
<1>13. Len(r2.batch) = l + 1 /\ DOMAIN r2.batch = 1..(l + 1)
  <2>1. r.batch \o s \in Seq(Block) /\ Len(r.batch \o s) = l + 1
    BY <1>8, <1>9, <1>11, ConcatOne
  <2> QED BY <1>10, <1>12, <2>1, LenProperties
<1>14. r2.next - Len(r2.batch) = r.next - l
  BY <1>5, <1>10, <1>12, <1>13
<1>15. RunBy(d, t, r2) = RunBy(d, t, r)
  BY <1>10, <1>11, <1>14, RunByIs
<1>16. ASSUME NEW i \in DOMAIN r2.batch
       PROVE  r2.batch[i] \in d.blocks /\ Height[r2.batch[i]] = r2.next - Len(r2.batch) + i - 1
  <2>1. i \in 1..(l + 1)
    BY <1>13
  <2>2. CASE i <= l
    <3>1. i \in DOMAIN r.batch
      BY <1>12, <2>1, <2>2
    <3>2. (r.batch \o s)[i] = r.batch[i]
      BY <1>8, <1>9, <1>11, <2>1, <2>2
    <3> QED BY <1>3, <1>10, <1>11, <1>14, <3>1, <3>2
  <2>3. CASE i = l + 1
    <3>1. (r.batch \o s)[i] = s[1]
      BY <1>8, <1>9, <1>11, <2>3, ConcatOne
    <3>2. r.next - l + i - 1 = r.next
      BY <1>5, <1>12, <2>3
    <3> QED BY <1>8, <1>10, <1>14, <3>1, <3>2
  <2> QED BY <1>12, <2>1, <2>2, <2>3
<1>17. ProgressInv(d, t, r2)
  BY <1>1, <1>3, <1>10, <1>15, <1>16 DEF ProgressInv
<1> QED BY <1>0, <1>17

LEMMA QuietBegin ==
    ASSUME StoreInv, QuietInv, quiet, ~raced, Tool \in DOMAIN txn, ApplyBegin
    PROVE  ProgressInv(db, txn'[Tool], rec')
<1>1. PICK t : /\ txn' = [txn EXCEPT ![Tool] = t]
               /\ t.open /\ View(db, t) = db /\ t.todo = Places(t.code) /\ ~txn[Tool].open
               /\ rec.pc = "fetch" /\ rec' = rec
  BY ApplyBegins
<1>2. txn[Tool] = NoTxn /\ IsDb(db)
  BY <1>1 DEF StoreInv, WritersInv, TxnInv, IsTables
<1>3. ProgressInv(db, NoTxn, rec)
  BY <1>2 DEF QuietInv
<1>4. RunIn(t) = {}
  BY <1>1 DEF RunIn
<1>5. RunBy(db, t, rec) = RunBy(db, NoTxn, rec)
  BY <1>4, RunByIs, NoneRun
<1>6. View(db, NoTxn) = db
  BY <1>2 DEF View, Overlay, NoTxn, EmptyDb, IsDb
<1>7. ProgressInv(db, t, rec)
  BY <1>1, <1>3, <1>5, <1>6 DEF ProgressInv
<1>8. txn'[Tool] = t
  BY <1>1
<1> QED BY <1>1, <1>7, <1>8

LEMMA QuietRun ==
    ASSUME StoreInv, PassInv(rec), QuietInv, quiet, ~raced, ApplyRun
    PROVE  ProgressInv(db, txn'[Tool], rec')
<1>1. PICK u, s, t2 : Reapplies(u, s, t2)
  BY ApplyReapplies
<1>2. PICK d, t, r, b : d = db /\ t = txn[Tool] /\ r = rec /\ b = r.batch[1]
  OBVIOUS
<1>3. /\ txn' = [txn EXCEPT ![Tool] = t2] /\ Tool \in DOMAIN txn /\ t.open
      /\ u \in NextPlace(t) /\ s = StatementOf(t, u) /\ s.sql # "fail" /\ Sound(s)
      /\ View(d, t2) = Exec(View(d, t), s) /\ t2.todo = t.todo \ {u} /\ t2.code = t.code
      /\ u \in Places(t.code)
  BY <1>1, <1>2 DEF Reapplies, Ran
<1>4. rec.pc = "fetch" /\ rec' = rec
  BY DEF ApplyRun
<1>5. /\ TxnInv(seen, t) /\ ToolInv(d, t, r) /\ r.batch # <<>> /\ r.batch \in Seq(Block)
  BY <1>2, <1>3, ToolRuns DEF StoreInv
<1>6. b \in Block /\ t.code = <<ApplyBlock(b)>>
  BY <1>2, <1>3, <1>5, ToolCode
<1>7. PICK k, m : StatementAt(b, k, m, s) /\ RunIn(t) \subseteq Executed(b, k, m)
  BY <1>3, <1>5, <1>6, RunSoFar
<1>8. ProgressInv(d, t, r)
  BY <1>2, <1>3 DEF QuietInv
<1>9. /\ \A i \in DOMAIN r.batch :
             r.batch[i] \in d.blocks /\ Height[r.batch[i]] = r.next - Len(r.batch) + i - 1
      /\ CaughtUp(View(d, t).utxos, RunBy(d, t, r), r.from) /\ Decodable(RunBy(d, t, r))
  BY <1>2, <1>4, <1>8 DEF ProgressInv
<1>10. PICK n : n = r.next - Len(r.batch)
  OBVIOUS
<1>11. b \in d.blocks /\ Height[b] = n
  <2>1. Len(r.batch) \in Nat /\ 1 \in DOMAIN r.batch
    BY <1>5
  <2>2. r.next \in Nat
    BY <1>2 DEF PassInv
  <2>3. b \in d.blocks /\ Height[b] = r.next - Len(r.batch) + 1 - 1
    BY <1>2, <1>9, <2>1
  <2> QED BY <1>10, <2>1, <2>2, <2>3
<1>12. PICK C, D : C = UpTo(d.blocks, b) /\ D = RunBy(d, t, r)
  OBVIOUS
<1>13. IsChain(d.blocks, d.tip) /\ IsTables(d)
  BY <1>2 DEF StoreInv, ChainInv, WritersInv
<1>14. /\ C \in SUBSET Block /\ ValidChain(C) /\ b \in C /\ \A c \in C \ {b} : Height[c] < Height[b]
  <2>1. IsChain(C, b)
    BY <1>11, <1>12, <1>13, CutIsChain
  <2>2. C \in SUBSET Block /\ ValidChain(C)
    BY <2>1, ChainIsValid
  <2>3. b # NoBlock
    BY <1>6, NoBlockAssumption
  <2>4. /\ b \in C /\ \A c \in C : Height[c] <= Height[b]
        /\ \A c, x \in C : Height[c] = Height[x] => c = x
    BY <2>1, <2>3 DEF IsChain
  <2>5. \A c \in C : Height[c] \in Nat
    BY <2>2, HeightAssumption
  <2> QED BY <2>2, <2>4, <2>5
<1>15. D \subseteq ChainStatements(C \ {b}) \cup Executed(b, k, m)
  <2>1. D = ChainStatements(Slice(d.blocks, r.from, n)) \cup RunIn(t)
    BY <1>10, <1>12, RunByIs
  <2>2. Slice(d.blocks, r.from, n) \subseteq C \ {b}
    <3>1. \A c \in d.blocks : Height[c] \in Nat
      BY <1>13, HeightAssumption DEF IsChain
    <3> QED BY <1>11, <1>12, <3>1 DEF Slice, UpTo
  <2>3. ChainStatements(Slice(d.blocks, r.from, n)) \subseteq ChainStatements(C \ {b})
    BY <2>2 DEF ChainStatements
  <2> QED BY <1>7, <2>1, <2>3
<1>16. PICK U : U = View(d, t).utxos
  OBVIOUS
<1>17. IsTables(View(d, t))
  <2>1. IsTables(t.own)
    BY <1>5, TxnKeys
  <2> QED BY <1>13, <2>1, ViewTables
<1>18. IsRows(U) /\ View(d, t2).utxos = UtxosAfter(U, s)
  <2>1. IsDb(View(d, t))
    BY <1>17 DEF IsTables
  <2>2. Exec(View(d, t), s).utxos = UtxosAfter(View(d, t).utxos, s)
    BY <1>3, <2>1, ExecTables
  <2> QED BY <1>3, <1>16, <1>17, <2>2 DEF IsTables, IsRows
<1>19. CaughtUp(UtxosAfter(U, s), D \cup {s}, r.from)
  <2>1. PICK h : h = r.from
    OBVIOUS
  <2>2. CaughtUp(U, D, h)
    BY <1>9, <1>12, <1>16, <2>1
  <2>3. CaughtUp(UtxosAfter(U, s), D \cup {s}, h)
    BY <1>3, <1>7, <1>14, <1>15, <1>18, <2>2, CatchUp
  <2> QED BY <2>1, <2>3
<1>20. RunBy(d, t2, r) = D \cup {s}
  <2>1. u \in t.todo /\ t.todo \subseteq Places(t.code)
    BY <1>3, <1>5 DEF NextPlace, TxnInv
  <2>2. RunIn(t2) = RunIn(t) \cup {s}
    BY <1>3, <2>1, RunMore
  <2>3. RunBy(d, t, r) = ChainStatements(Slice(d.blocks, r.from, n)) \cup RunIn(t)
    BY <1>10, RunByIs
  <2>4. RunBy(d, t2, r) = ChainStatements(Slice(d.blocks, r.from, n)) \cup RunIn(t2)
    BY <1>10, RunByIs
  <2> QED BY <1>12, <2>2, <2>3, <2>4
<1>21. Decodable(D \cup {s})
  BY <1>3, <1>9, <1>12 DEF Decodable
<1>22. ProgressInv(d, t2, r)
  BY <1>8, <1>18, <1>19, <1>20, <1>21 DEF ProgressInv
<1>23. txn'[Tool] = t2
  BY <1>3
<1> QED BY <1>2, <1>4, <1>22, <1>23

LEMMA QuietCommit ==
    ASSUME StoreInv, PassInv(rec), QuietInv, quiet, ~raced, ApplyCommit
    PROVE  ProgressInv(db', txn'[Tool], rec')
<1>1. PICK d, t, r, b, e, r2 : d = db /\ t = txn[Tool] /\ r = rec /\ b = r.batch[1] /\ e = View(d, t) /\ r2 = rec'
  OBVIOUS
<1>2. /\ r.pc = "fetch" /\ t.open /\ t.todo = {} /\ db' = e /\ txn' = [txn EXCEPT ![Tool] = NoTxn]
      /\ r2 = [r EXCEPT !.batch = Tail(@)]
  BY <1>1 DEF ApplyCommit
<1>3. /\ Tool \in DOMAIN txn /\ TxnInv(seen, t) /\ ToolInv(d, t, r) /\ r.batch # <<>>
      /\ r.batch \in Seq(Block) /\ r # Idle
  BY <1>1, <1>2, ToolRuns, IdleFacts DEF StoreInv
<1>4. b \in Block /\ t.code = <<ApplyBlock(b)>>
  BY <1>1, <1>2, <1>3, ToolCode
<1>5. IsTables(d) /\ IsChain(d.blocks, d.tip)
  BY <1>1 DEF StoreInv, WritersInv, ChainInv
<1>6. e.blocks = d.blocks
  BY <1>1, <1>2, <1>3, <1>5, ToolCommits
<1>7. ProgressInv(d, t, r)
  BY <1>1, <1>3 DEF QuietInv
<1>8. /\ d.blocks # {} /\ r.minH = Min(Heights(d.blocks)) /\ r.maxH = Max(Heights(d.blocks))
      /\ r.n \in NBlocks /\ r.from = From(r.maxH, r.minH, r.n)
      /\ \A i \in DOMAIN r.batch :
             r.batch[i] \in d.blocks /\ Height[r.batch[i]] = r.next - Len(r.batch) + i - 1
      /\ CaughtUp(View(d, t).utxos, RunBy(d, t, r), r.from) /\ Decodable(RunBy(d, t, r))
  BY <1>2, <1>7 DEF ProgressInv
<1>9. /\ r2.pc = r.pc /\ r2.n = r.n /\ r2.minH = r.minH /\ r2.maxH = r.maxH /\ r2.from = r.from
      /\ r2.next = r.next /\ r2.batch = Tail(r.batch)
  <2>1. \A f \in {"pc", "n", "minH", "maxH", "from", "next", "end", "batch", "addrs", "addr",
                  "nodeSet", "mismatches"} : f \in DOMAIN r
    BY <1>1, <1>3, PassFields DEF StoreInv
  <2> QED BY <1>2, <2>1
<1>10. PICK l : l = Len(r.batch)
  OBVIOUS
<1>11. l \in Nat /\ 1 <= l /\ DOMAIN r.batch = 1..l
  BY <1>3, <1>10, LenProperties
<1>12. /\ Len(r2.batch) = l - 1 /\ DOMAIN r2.batch = 1..(l - 1)
       /\ \A i \in 1..(l - 1) : r2.batch[i] = r.batch[i + 1]
  BY <1>3, <1>9, <1>10, <1>11
<1>13. r.next \in Nat /\ r.from \in Nat
  BY <1>1, ReconcileAssumption DEF PassInv
<1>14. PICK n : n = r.next - l
  OBVIOUS
<1>15. n \in Int /\ r2.next - Len(r2.batch) = n + 1
  BY <1>9, <1>11, <1>12, <1>13, <1>14
<1>16. ASSUME NEW i \in DOMAIN r2.batch
       PROVE  r2.batch[i] \in e.blocks /\ Height[r2.batch[i]] = r2.next - Len(r2.batch) + i - 1
  <2>1. i \in 1..(l - 1) /\ i + 1 \in DOMAIN r.batch
    BY <1>11, <1>12
  <2>2. r.batch[i + 1] \in d.blocks /\ Height[r.batch[i + 1]] = r.next - Len(r.batch) + (i + 1) - 1
    BY <1>8, <2>1
  <2>3. r.next - Len(r.batch) + (i + 1) - 1 = r2.next - Len(r2.batch) + i - 1
    BY <1>10, <1>13, <1>14, <1>15, <2>1
  <2> QED BY <1>6, <1>12, <2>1, <2>2, <2>3
<1>17. b \in d.blocks /\ Height[b] = n
  <2>1. 1 \in DOMAIN r.batch
    BY <1>11
  <2>2. b \in d.blocks /\ Height[b] = r.next - Len(r.batch) + 1 - 1
    BY <1>1, <1>8, <2>1
  <2> QED BY <1>10, <1>14, <1>15, <2>2
<1>18. r.from <= n
  <2>1. r.from <= Height[r.batch[1]]
    BY <1>1, <1>11 DEF PassInv
  <2> QED BY <1>1, <1>17, <2>1
<1>19. Slice(d.blocks, r.from, n + 1) = Slice(d.blocks, r.from, n) \cup {b}
  <2>1. \A c \in d.blocks : Height[c] \in Nat /\ (Height[c] = n => c = b)
    BY <1>5, <1>17, HeightAssumption DEF IsChain
  <2> QED BY <1>13, <1>15, <1>17, <1>18, <2>1 DEF Slice
<1>20. RunIn(t) = BlockStatements[b]
  BY <1>2, <1>4, AllRun
<1>21. RunBy(e, NoTxn, r2) = RunBy(d, t, r)
  <2>1. PICK S, f : S = d.blocks /\ f = r.from
    OBVIOUS
  <2>2. RunBy(d, t, r) = ChainStatements(Slice(S, f, n)) \cup BlockStatements[b]
    BY <1>10, <1>14, <1>20, <2>1, RunByIs
  <2>3. RunBy(e, NoTxn, r2) = ChainStatements(Slice(e.blocks, r2.from, r2.next - Len(r2.batch))) \cup {}
    BY RunByIs, NoneRun
  <2>4. RunBy(e, NoTxn, r2) = ChainStatements(Slice(S, f, n + 1))
    BY <1>6, <1>9, <1>15, <2>1, <2>3
  <2>5. ChainStatements(Slice(S, f, n) \cup {b}) = ChainStatements(Slice(S, f, n)) \cup BlockStatements[b]
    BY DEF ChainStatements
  <2> QED BY <1>19, <2>1, <2>2, <2>4, <2>5
<1>22. View(e, NoTxn) = e
  <2>1. IsTables(e)
    <3>1. IsTables(t.own)
      BY <1>3, TxnKeys
    <3> QED BY <1>1, <1>5, <3>1, ViewTables
  <2>2. IsDb(e)
    BY <2>1 DEF IsTables
  <2> QED BY <2>2 DEF View, Overlay, NoTxn, EmptyDb, IsDb
<1>23. ProgressInv(e, NoTxn, r2)
  BY <1>1, <1>2, <1>6, <1>8, <1>9, <1>16, <1>21, <1>22 DEF ProgressInv
<1>24. txn'[Tool] = NoTxn
  BY <1>2, <1>3
<1> QED BY <1>1, <1>2, <1>23, <1>24

\* A step of the others ends the pass's quiet, or is none that writes.
LEMMA QuietOthers ==
    ASSUME StoreInv, AlarmInv, Others, quiet'
    PROVE  quiet /\ UNCHANGED <<db, txn, rec, raced>>
<1>1. quiet /\ Still' /\ rec' = rec
  BY DEF Others
<1>2. \A p \in DOMAIN mind : ~txn[p].open
  BY <1>1 DEF AlarmInv, Still
<1>3. ASSUME NEW b \in Block, NodeAdvance(b) PROVE UNCHANGED <<db, txn, raced>>
  BY <1>3 DEF NodeAdvance
<1>4. ASSUME NEW p \in DOMAIN mind, WriterStep(p) PROVE UNCHANGED <<db, txn, raced>>
  <2>1. CASE Load(p)
    BY <2>1 DEF Load
  <2>2. CASE Run(p)
    <3>1. PICK u, s, t2 : Advances(p, u, s, t2)
      BY <2>2, <1>4, RunAdvances
    <3> QED BY <1>2, <1>4, <3>1 DEF Advances
  <2>3. CASE Commit(p) \/ Abort(p)
    BY <1>2, <1>4, <2>3 DEF Commit, Abort
  <2>4. ASSUME NEW a \in Branches, Begin(p, a) PROVE FALSE
    <3>1. p \in DOMAIN txn
      BY <1>4, OfProcess DEF StoreInv
    <3>2. txn'[p].open /\ mind' = mind
      BY <2>4, <3>1 DEF Begin
    <3> QED BY <1>1, <1>4, <3>2 DEF Still
  <2> QED BY <1>4, <2>1, <2>2, <2>3, <2>4 DEF WriterStep
<1> QED BY <1>1, <1>3, <1>4 DEF Others

LEMMA QuietStep ==
    ASSUME StoreInv, SeenInv, PassInv(rec), AlarmInv, QuietInv, [ReconcileNext]_recvars
    PROVE  QuietInv'
<1> SUFFICES ASSUME quiet', ~raced', Tool \in DOMAIN txn' PROVE ProgressInv(db', txn'[Tool], rec')
  BY DEF QuietInv
<1>1. CASE ApplyBegin
  <2>1. db' = db /\ raced' = raced /\ quiet' = quiet /\ rec.pc = "fetch"
    BY <1>1 DEF ApplyBegin, Elsewhere
  <2>2. Tool \in DOMAIN txn
    BY <2>1, ToolRuns, IdleFacts DEF StoreInv
  <2> QED BY <1>1, <2>1, <2>2, QuietBegin
<1>2. CASE ApplyRun
  <2>1. db' = db /\ raced' = raced /\ quiet' = quiet
    BY <1>2 DEF ApplyRun, Elsewhere
  <2> QED BY <1>2, <2>1, QuietRun
<1>3. CASE ApplyCommit
  <2>1. raced' = raced /\ quiet' = quiet
    BY <1>3 DEF ApplyCommit
  <2> QED BY <1>3, <2>1, QuietCommit
<1>4. CASE Fail
  <2>1. rec' = [Idle EXCEPT !.pc = "failed"]
    BY <1>4 DEF Fail
  <2>2. rec'.pc = "failed"
    BY <2>1, IdleFacts
  <2> QED BY <2>2, ProgressFailed
<1>5. ASSUME NEW n \in NBlocks, Start(n) PROVE ProgressInv(db', txn'[Tool], rec')
  <2>1. db' = db /\ raced' = raced /\ txn' = txn
    BY <1>5 DEF Start, Elsewhere
  <2> QED BY <1>5, <2>1, QuietStart
<1>6. CASE Fetch
  <2>1. db' = db /\ raced' = raced /\ txn' = txn /\ quiet' = quiet
    BY <1>6 DEF Fetch, Elsewhere
  <2> QED BY <1>6, <2>1, QuietFetch
<1>7. CASE NextBatch \/ Sample \/ (\E a \in rec.addrs : AskNode(a)) \/ Compare \/ Finish
  <2>1. db' = db /\ raced' = raced /\ txn' = txn /\ quiet' = quiet
    BY <1>7 DEF NextBatch, Sample, AskNode, Compare, Finish, Elsewhere
  <2> QED BY <1>7, <2>1, QuietPass
<1>8. CASE Others
  <2>1. quiet /\ UNCHANGED <<db, txn, rec, raced>>
    BY <1>8, QuietOthers
  <2> QED BY <2>1 DEF QuietInv
<1>9. CASE UNCHANGED recvars
  <2>1. UNCHANGED <<db, txn, rec, raced, quiet>>
    BY <1>9 DEF recvars, wvars
  <2> QED BY <2>1 DEF QuietInv
<1> QED BY <1>1, <1>2, <1>3, <1>4, <1>5, <1>6, <1>7, <1>8, <1>9
        DEF ReconcileNext, ReconcileStep, Applying, Reading

LEMMA QuietInit ==
    ASSUME ReconcileInit
    PROVE  QuietInv
BY DEF ReconcileInit, QuietInv

-----------------------------------------------------------------------------
(* A quiet pass that has come to its end.                                  *)

\* What D says of an output that it makes.
LEMMA LiveFate ==
    ASSUME NEW q, Fresh(q), NEW D, Timed(D)
    PROVE  Live(Became(q, D)) <=> SpendsOf(q.op, D) = {} /\ ~DueIn(q, D)
<1>1. CASE SpendsOf(q.op, D) # {}
  <2>1. PICK s : s = OneOf(SpendsOf(q.op, D))
    OBVIOUS
  <2>2. s \in SpendsOf(q.op, D)
    BY <1>1, <2>1, OneOfOne
  <2>3. s.h # Null
    BY <2>2 DEF SpendsOf, Timed
  <2>4. Became(q, D) = [q EXCEPT !.spent = s.h, !.spentTx = s.tx]
    BY <1>1, <2>1 DEF Became
  <2>5. Became(q, D).spent = s.h
    BY <2>4, SpentRow
  <2> QED BY <1>1, <2>3, <2>5 DEF Live
<1>2. CASE SpendsOf(q.op, D) = {} /\ DueIn(q, D)
  <2>1. PICK s \in D : s.sql = "sweep" /\ s.h = q.deadline
    BY <1>2 DEF DueIn
  <2>2. q.deadline # Null
    BY <2>1 DEF Timed
  <2>3. Became(q, D) = [q EXCEPT !.trimmed = q.deadline]
    BY <1>2 DEF Became
  <2>4. Became(q, D).trimmed = q.deadline
    BY <2>3, TrimmedRow
  <2> QED BY <1>2, <2>2, <2>4 DEF Live
<1>3. CASE SpendsOf(q.op, D) = {} /\ ~DueIn(q, D)
  <2>1. Became(q, D) = q
    BY <1>3 DEF Became
  <2> QED BY <1>3, <2>1, FreshRow DEF Live
<1> QED BY <1>1, <1>2, <1>3

\* The node's and the stored chain's verdict on an output made at or above h
\* needs only the blocks from there on.
LEMMA FateAbove ==
    ASSUME NEW C \in SUBSET Block, NEW h \in Nat, NEW A, A = {b \in C : Height[b] >= h},
           NEW q, q.created \in Nat, q.created >= h,
           q.deadline = Null \/ (q.deadline \in Nat /\ q.deadline >= h)
    PROVE  Fate(q, C) = Fate(q, A)
<1>1. \A b \in C : Height[b] \in Nat
  BY HeightAssumption
<1>2. {b \in C : Spends(b, q.op) /\ Height[b] >= q.created} = {b \in A : Spends(b, q.op) /\ Height[b] >= q.created}
  BY <1>1
<1>3. q.deadline # Null => ((\E b \in C : Height[b] = q.deadline) <=> (\E b \in A : Height[b] = q.deadline))
  BY <1>1
<1> QED BY <1>2, <1>3, FateSame

\* The blocks of C from height h on.
Since(C, h) == {b \in C : Height[b] >= h}

\* A row is made by a block of its height.
LEMMA MadeSince ==
    ASSUME NEW C \in SUBSET Block, NEW h \in Nat, NEW q \in RowsIn(ChainStatements(C)), q.created >= h
    PROVE  \E s : \E c \in Since(C, h) : \E i, j :
               StatementAt(c, i, j, s) /\ s.sql = "insert" /\ s.row = q /\ q.created = Height[c]
<1>1. PICK s \in ChainStatements(C) : s.sql = "insert" /\ s.row = q
  BY DEF RowsIn
<1>2. PICK c \in C : \E i, j : StatementAt(c, i, j, s)
  BY InChain
<1>3. PICK i, j : StatementAt(c, i, j, s)
  BY <1>2
<1>4. c \in Block
  OBVIOUS
<1>5. q.created = Height[c]
  BY <1>1, <1>3, <1>4, StatementFacts
<1>6. c \in Since(C, h)
  BY <1>5 DEF Since
<1> QED BY <1>1, <1>3, <1>5, <1>6

\* Row x of an output made since height h is unspent just if the statements
\* since then say so.
LEMMA Verdict ==
    ASSUME NEW C \in SUBSET Block, ValidChain(C), NEW h \in Nat,
           NEW G, G = ChainStatements(C), NEW D, D = ChainStatements(Since(C, h)),
           NEW U, CaughtUp(U, D, h), NEW x \in U, x.created >= h,
           NEW q \in RowsIn(G), SameOutput(q, x), EndedBy(x, G)
    PROVE  q \in RowsIn(D) /\ (Live(x) <=> Live(Became(q, D)))
<1>0. /\ q.op = x.op /\ q.created = x.created /\ q.deadline = x.deadline /\ q.lock = x.lock
  BY DEF SameOutput
<1>1. PICK s : \E c \in Since(C, h) : \E i, j :
               StatementAt(c, i, j, s) /\ s.sql = "insert" /\ s.row = q /\ q.created = Height[c]
  BY <1>0, MadeSince
<1>2. PICK c \in Since(C, h) : \E i, j :
               StatementAt(c, i, j, s) /\ s.sql = "insert" /\ s.row = q /\ q.created = Height[c]
  BY <1>1
<1>3. PICK i, j : StatementAt(c, i, j, s) /\ s.sql = "insert" /\ s.row = q /\ q.created = Height[c]
  BY <1>2
<1>4. c \in C /\ c \in Block /\ Height[c] >= h /\ Since(C, h) \in SUBSET Block
  BY DEF Since
<1>5. s \in D
  BY <1>3, <1>4, InChain
<1>6. q \in RowsIn(D)
  BY <1>3, <1>5 DEF RowsIn
<1>7. Timed(D) /\ Fresh(q)
  BY <1>4, <1>6, SomeOfChain
<1>8. Live(Became(q, D)) <=> SpendsOf(q.op, D) = {} /\ ~DueIn(q, D)
  BY <1>7, LiveFate
<1>9. \A b \in C : Height[b] \in Nat
  BY HeightAssumption
<1>10. ASSUME NEW y \in G, NEW b \in C, \E k, m : StatementAt(b, k, m, y), Height[b] >= Height[c] PROVE y \in D
  <2>1. b \in Since(C, h)
    BY <1>4, <1>9, <1>10 DEF Since
  <2> QED BY <1>4, <1>10, <2>1, InChain
<1>11. ASSUME Live(x) PROVE SpendsOf(q.op, D) = {} /\ ~DueIn(q, D)
  <2>1. SpendsOf(x.op, D) = {} /\ ~DueIn(x, D)
    BY <1>11 DEF CaughtUp
  <2>2. DueIn(q, D) <=> DueIn(x, D)
    BY <1>0 DEF DueIn
  <2> QED BY <1>0, <2>1, <2>2
<1>12. ASSUME SpendsOf(q.op, D) = {}, ~DueIn(q, D) PROVE Live(x)
  <2>1. x.spent = Null
    <3> SUFFICES ASSUME x.spent # Null PROVE FALSE
      OBVIOUS
    <3>1. PICK y \in SpendsOf(x.op, G) : y.h = x.spent
      BY DEF EndedBy
    <3>2. y \in G /\ y.sql = "spend" /\ y.op = q.op
      BY <1>0, <3>1 DEF SpendsOf
    <3>3. PICK b \in C : \E k, m : StatementAt(b, k, m, y)
      BY <3>2, InChain
    <3>4. PICK k, m : StatementAt(b, k, m, y)
      BY <3>3
    <3>5. Height[c] < Height[b] \/ b = c
      BY <1>3, <1>4, <3>2, <3>4, MadeBeforeSpent
    <3>6. y \in D
      BY <1>4, <1>9, <1>10, <3>2, <3>3, <3>5
    <3> QED BY <1>12, <3>2, <3>6 DEF SpendsOf
  <2>2. x.trimmed = Null
    <3> SUFFICES ASSUME x.trimmed # Null PROVE FALSE
      OBVIOUS
    <3>1. DueIn(x, G)
      BY DEF EndedBy
    <3>2. PICK y \in G : y.sql = "sweep" /\ y.h = q.deadline
      BY <1>0, <3>1 DEF DueIn
    <3>3. PICK b \in C : \E k, m : StatementAt(b, k, m, y)
      BY <3>2, InChain
    <3>4. b \in Block /\ y.h = Height[b]
      BY <3>2, <3>3, StatementFacts
    <3>5. q.deadline = Null \/ (q.deadline \in Nat /\ q.deadline > Height[c])
      BY <1>3, <1>4, StatementFacts
    <3>6. Height[b] >= Height[c]
      BY <1>4, <1>9, <3>2, <3>4, <3>5 DEF Null
    <3>7. y \in D
      BY <1>10, <3>2, <3>3, <3>6
    <3>8. q.lock = 0
      BY <1>0, <3>1 DEF DueIn
    <3> QED BY <1>12, <3>2, <3>7, <3>8 DEF DueIn
  <2> QED BY <2>1, <2>2 DEF Live
<1> QED BY <1>6, <1>8, <1>11, <1>12

LEMMA CreatedFresh ==
    ASSUME NEW b \in Block, NEW r \in Creates(b)
    PROVE  Fresh(r)
<1>1. PICK t \in ToSet(Body[b]) : r \in QiRows(t, Height[b]) \cup EtxRows(t, Height[b])
  BY DEF Creates
<1>2. \E j, lock : r = OutputRow(t, j, lock, Height[b])
  BY <1>1 DEF QiRows, EtxRows
<1> QED BY <1>2 DEF OutputRow, NewRow, Fresh

LEMMA FateKeys ==
    ASSUME NEW r, Fresh(r), NEW C
    PROVE  Fate(r, C).op = r.op /\ Fate(r, C).created = r.created
<1>1. \/ \E x, y : Fate(r, C) = [r EXCEPT !.spent = x, !.spentTx = y]
      \/ \E x : Fate(r, C) = [r EXCEPT !.trimmed = x]
      \/ Fate(r, C) = r
  BY DEF Fate
<1>2. CASE \E x, y : Fate(r, C) = [r EXCEPT !.spent = x, !.spentTx = y]
  <2>1. PICK x, y : Fate(r, C) = [r EXCEPT !.spent = x, !.spentTx = y]
    BY <1>2
  <2> QED BY <2>1, SpentRow
<1>3. CASE \E x : Fate(r, C) = [r EXCEPT !.trimmed = x]
  <2>1. PICK x : Fate(r, C) = [r EXCEPT !.trimmed = x]
    BY <1>3
  <2> QED BY <2>1, TrimmedRow
<1> QED BY <1>1, <1>2, <1>3

\* When the statements of all blocks from height h on have been caught up
\* with, the outputs made since then are the ones the chain expects.
LEMMA BackfillRows ==
    ASSUME NEW C, NEW z, IsChain(C, z), NEW h \in Nat, NEW U,
           NEW G, G = ChainStatements(C), NEW D, D = ChainStatements(Since(C, h)),
           CaughtUp(U, D, h), Decodable(D), \A x \in U : Stems(x, G)
    PROVE  OutputsSince(h, U) = OutputsSince(h, ExpectedUtxos(C))
<1>1. C \in SUBSET Block /\ ValidChain(C)
  BY ChainIsValid
<1>2. PICK A : A = Since(C, h)
  OBVIOUS
<1>3. A \in SUBSET Block /\ A \subseteq C /\ ValidChain(A)
  BY <1>1, <1>2 DEF Since, ValidChain
<1>4. RowsIn(D) = UNION {Creates(b) : b \in A}
  BY <1>2, <1>3, RowsOfChain
<1>5. ASSUME NEW q \in RowsIn(D), q.created >= h
      PROVE  /\ Fate(q, C) = Became(q, D) /\ Fate(q, C) \in ExpectedUtxos(C)
             /\ Fate(q, C).op = q.op /\ Fate(q, C).created = q.created
  <2>1. PICK b \in A : q \in Creates(b)
    BY <1>4
  <2>2. b \in C /\ b \in Block /\ Height[b] \in Nat
    BY <1>3, HeightAssumption
  <2>3. /\ q.created = Height[b]
        /\ q.deadline = Null \/ (q.deadline \in Nat /\ q.deadline > Height[b])
    BY <2>1, <2>2, CreatedRow
  <2>4. Fate(q, C) = Fate(q, A)
    <3>1. A = {c \in C : Height[c] >= h}
      BY <1>2 DEF Since
    <3>2. q.created \in Nat /\ (q.deadline = Null \/ (q.deadline \in Nat /\ q.deadline >= h))
      BY <1>5, <2>2, <2>3
    <3> QED BY <1>1, <1>5, <3>1, <3>2, FateAbove
  <2>5. Became(q, D) = Fate(q, A)
    BY <1>2, <1>3, <1>5, FateOfChain
  <2>6. Fate(q, C) \in ExpectedUtxos(C)
    BY <2>1, <2>2 DEF ExpectedUtxos
  <2>7. Fate(q, C).op = q.op /\ Fate(q, C).created = q.created
    BY <2>1, <2>2, CreatedFresh, FateKeys
  <2> QED BY <2>4, <2>5, <2>6, <2>7
<1>6. ASSUME NEW x \in U, x.created >= h
      PROVE  \E y \in ExpectedUtxos(C) : y.op = x.op /\ y.created = x.created /\ (Live(y) <=> Live(x))
  <2>1. PICK q \in RowsIn(G) : SameOutput(q, x)
    BY DEF Stems
  <2>2. EndedBy(x, G)
    BY DEF Stems
  <2>3. q \in RowsIn(D) /\ (Live(x) <=> Live(Became(q, D)))
    BY <1>1, <1>6, <2>1, <2>2, Verdict
  <2>4. q.op = x.op /\ q.created = x.created
    BY <2>1 DEF SameOutput
  <2> QED BY <1>5, <1>6, <2>3, <2>4
<1>7. ASSUME NEW y \in ExpectedUtxos(C), y.created >= h
      PROVE  \E x \in U : y.op = x.op /\ y.created = x.created /\ (Live(y) <=> Live(x))
  <2>1. PICK q \in UNION {Creates(b) : b \in C} : y = Fate(q, C)
    BY DEF ExpectedUtxos
  <2>2. PICK b \in C : q \in Creates(b)
    BY <2>1
  <2>3. b \in Block /\ Height[b] \in Nat
    BY <1>1, HeightAssumption
  <2>4. y.op = q.op /\ y.created = q.created /\ q.created = Height[b]
    BY <2>1, <2>2, <2>3, CreatedFresh, FateKeys, CreatedRow
  <2>5. b \in A
    BY <1>2, <1>7, <2>4 DEF Since
  <2>6. q \in RowsIn(D) /\ q.created >= h
    BY <1>4, <1>7, <2>2, <2>4, <2>5
  <2>7. PICK x \in U : x.op = q.op /\ x.created = q.created
    BY <2>6 DEF CaughtUp
  <2>8. PICK p \in RowsIn(G) : SameOutput(p, x)
    BY DEF Stems
  <2>9. p = q
    <3>1. p.op = q.op
      BY <2>7, <2>8 DEF SameOutput
    <3>2. PICK s \in G : s.sql = "insert" /\ s.row = p
      BY DEF RowsIn
    <3>3. PICK v \in D : v.sql = "insert" /\ v.row = q
      BY <2>6 DEF RowsIn
    <3>4. PICK c \in C : \E k, m : StatementAt(c, k, m, s)
      BY <1>1, InChain
    <3>5. PICK k, m : StatementAt(c, k, m, s)
      BY <3>4
    <3>6. PICK w \in C : \E i, j : StatementAt(w, i, j, v)
      BY <1>2, <1>3, InChain
    <3>7. PICK i, j : StatementAt(w, i, j, v)
      BY <3>6
    <3>8. c = w /\ k = i /\ m = j
      BY <1>1, <3>1, <3>2, <3>3, <3>5, <3>7, InsertOnce
    <3> QED BY <3>2, <3>3, <3>5, <3>7, <3>8 DEF StatementAt
  <2>10. SameOutput(q, x) /\ EndedBy(x, G) /\ q \in RowsIn(G)
    BY <2>8, <2>9 DEF Stems
  <2>11. Live(x) <=> Live(Became(q, D))
    BY <1>1, <2>6, <2>7, <2>10, Verdict
  <2>12. y = Became(q, D)
    BY <1>5, <2>1, <2>6
  <2> QED BY <2>4, <2>7, <2>11, <2>12
<1>8. OutputsSince(h, U) \subseteq OutputsSince(h, ExpectedUtxos(C))
  <2> SUFFICES ASSUME NEW o \in OutputsSince(h, U) PROVE o \in OutputsSince(h, ExpectedUtxos(C))
    OBVIOUS
  <2>1. PICK x \in U : x.created >= h /\ o = [op |-> x.op, created |-> x.created, live |-> Live(x)]
    BY DEF OutputsSince
  <2>2. PICK y \in ExpectedUtxos(C) : y.op = x.op /\ y.created = x.created /\ (Live(y) <=> Live(x))
    BY <1>6, <2>1
  <2>3. Live(y) = Live(x)
    BY <2>2 DEF Live
  <2> QED BY <2>1, <2>2, <2>3 DEF OutputsSince
<1>9. OutputsSince(h, ExpectedUtxos(C)) \subseteq OutputsSince(h, U)
  <2> SUFFICES ASSUME NEW o \in OutputsSince(h, ExpectedUtxos(C)) PROVE o \in OutputsSince(h, U)
    OBVIOUS
  <2>1. PICK y \in ExpectedUtxos(C) :
            y.created >= h /\ o = [op |-> y.op, created |-> y.created, live |-> Live(y)]
    BY DEF OutputsSince
  <2>2. PICK x \in U : y.op = x.op /\ y.created = x.created /\ (Live(y) <=> Live(x))
    BY <1>7, <2>1
  <2>3. Live(y) = Live(x)
    BY <2>2 DEF Live
  <2> QED BY <2>1, <2>2, <2>3 DEF OutputsSince
<1> QED BY <1>8, <1>9

\* A pass whose lowest height is a bigint did not wrap around.
LEMMA FromIs ==
    ASSUME NEW hi \in Nat, NEW lo \in Nat, NEW n \in Nat, lo <= hi, hi < TwoTo63, n >= 1, IsBigint(n),
           IsBigint(From(hi, lo, n))
    PROVE  From(hi, lo, n) = Max({lo, hi - n + 1}) /\ From(hi, lo, n) \in Nat
<1>0. PICK f : f = From(hi, lo, n)
  OBVIOUS
<1>1. PICK m : m = 2 * TwoTo63
  OBVIOUS
<1>2. m \in Nat \ {0} /\ TwoTo63 \in Nat /\ m = TwoTo63 + TwoTo63 /\ n < TwoTo63 /\ f < TwoTo63
  BY <1>0, <1>1, ReconcileAssumption DEF IsBigint
<1>3. PICK x : x = hi - n + 1
  OBVIOUS
<1>4. x \in Int /\ x < m /\ x + TwoTo63 > 0
  BY <1>2, <1>3
<1>5. f = (IF x % m < lo THEN lo ELSE x % m)
  BY <1>0, <1>1, <1>3 DEF From, Wrap
<1>6. x >= 0
  <2> SUFFICES ASSUME x < 0 PROVE FALSE
    BY <1>4
  <2>1. x % m = x + m
    <3>1. x + m \in 0..(m - 1)
      BY <1>2, <1>4
    <3> HIDE <1>1, <1>3
    <3> QED BY <1>2, <1>4, <3>1
  <2> QED BY <1>2, <1>4, <1>5, <2>1
<1>7. x % m = x
  BY <1>2, <1>4, <1>6
<1>8. PICK S : S = {lo, x}
  OBVIOUS
<1>9. S \in SUBSET Nat /\ S # {} /\ lo + x \in Nat /\ \A y \in S : y <= lo + x
  BY <1>4, <1>6, <1>8
<1>10. Max(S) \in S /\ \A y \in S : y <= Max(S)
  BY <1>9, GreatestIn
<1>11. f \in Nat /\ f \in S /\ \A y \in S : y <= f
  BY <1>4, <1>5, <1>6, <1>7, <1>8
<1>12. f = Max(S)
  <2>1. PICK g : g = Max(S)
    OBVIOUS
  <2>2. g \in Nat /\ g <= f /\ f <= g
    BY <1>9, <1>10, <1>11, <2>1
  <2> QED BY <1>11, <2>1, <2>2
<1> QED BY <1>0, <1>3, <1>8, <1>11, <1>12

\* What a quiet pass that is through with its range has run, and on what.
LEMMA PassRan ==
    ASSUME StoreInv, PassInv(rec), QuietInv, quiet, ~raced, rec.pc \in {"ok", "mismatch"}, IsBigint(rec.n),
           NEW h, h = Max({rec.minH, rec.maxH - rec.n + 1}),
           NEW D, D = ChainStatements(Since(db.blocks, h))
    PROVE  h \in Nat /\ CaughtUp(db.utxos, D, h) /\ Decodable(D)
<1>0. rec # Idle /\ rec.pc \notin {"idle", "failed", "fetch"} /\ rec.pc \in {"node", "db", "ok", "mismatch"}
  BY IdleFacts
<1>1. Tool \in DOMAIN txn /\ TxnInv(seen, txn[Tool]) /\ ~txn[Tool].open
  BY <1>0, ToolRuns DEF StoreInv
<1>2. txn[Tool] = NoTxn /\ IsDb(db) /\ IsChain(db.blocks, db.tip)
  BY <1>1 DEF TxnInv, StoreInv, WritersInv, IsTables, ChainInv
<1>3. ProgressInv(db, NoTxn, rec)
  BY <1>1, <1>2 DEF QuietInv
<1>4. /\ db.blocks # {} /\ rec.minH = Min(Heights(db.blocks)) /\ rec.maxH = Max(Heights(db.blocks))
      /\ rec.n \in NBlocks /\ rec.from = From(rec.maxH, rec.minH, rec.n)
      /\ CaughtUp(View(db, NoTxn).utxos, RunBy(db, NoTxn, rec), rec.from)
      /\ Decodable(RunBy(db, NoTxn, rec))
      /\ rec.batch = <<>> /\ rec.next > rec.maxH /\ IsBigint(rec.from)
  BY <1>0, <1>3 DEF ProgressInv
<1>5. /\ rec.minH \in Nat /\ rec.maxH \in Nat /\ rec.minH <= rec.maxH /\ rec.maxH < TwoTo63
      /\ \A b \in db.blocks : Height[b] \in Nat /\ rec.minH <= Height[b] /\ Height[b] <= rec.maxH
  BY <1>2, <1>4, HeightsOfChain
<1>6. rec.n \in Nat /\ rec.n >= 1
  <2>1. PICK n : n = rec.n
    OBVIOUS
  <2>2. n \in Nat \ {0}
    BY <1>4, <2>1, ReconcileAssumption
  <2>3. n >= 1
    BY <2>2
  <2> QED BY <2>1, <2>2, <2>3
<1>7. rec.from = h /\ h \in Nat
  BY <1>4, <1>5, <1>6, FromIs
<1>8. View(db, NoTxn) = db
  BY <1>2 DEF View, Overlay, NoTxn, EmptyDb, IsDb
<1>9. RunBy(db, NoTxn, rec) = D
  <2>1. Len(rec.batch) = 0 /\ rec.next \in Nat
    BY <1>4 DEF PassInv
  <2>2. Slice(db.blocks, rec.from, rec.next - Len(rec.batch)) = Since(db.blocks, h)
    BY <1>4, <1>5, <1>7, <2>1 DEF Slice, Since
  <2> QED BY <2>2, RunByIs, NoneRun
<1> QED BY <1>4, <1>7, <1>8, <1>9

-----------------------------------------------------------------------------
(* The whole invariant.                                                    *)

\* The invariant holds in every state, whatever the indexers, the node and
\* reconcile do: however the statements of their transactions interleave,
\* every key a transaction holds is one a statement of it changes in what is
\* committed, each open update sees the spine and the tables its statements so
\* far lead to, what it commits is the chain and the tables of its blocks, a
\* pass of reconcile stays in its range, its batch and its sample, the rows of
\* an index that is decoded in part stem from the stored chain, and what a
\* quiet pass has been through is decoded.
THEOREM ReconcileInvariant == ReconcileSpec => []ReconcileInv
<1>1. ReconcileInit => ReconcileInv
  BY InitHolds, InitPass, SettledInit, StemsInit, QuietInit DEF ReconcileInv, StoreInv
<1>2. ReconcileInv /\ [ReconcileNext]_recvars => ReconcileInv'
  <2> SUFFICES ASSUME ReconcileInv, [ReconcileNext]_recvars PROVE ReconcileInv'
    OBVIOUS
  <2>1. /\ StoreInv /\ WritersInv /\ SeenInv /\ PassInv(rec) /\ AlarmInv
        /\ SettledInv /\ StemsInv /\ QuietInv
    BY DEF ReconcileInv, StoreInv
  <2>2. StoreInv'
    BY <2>1, NextKeeps
  <2>3. SeenInv'
    BY <2>1, SeenStep
  <2>4. PassInv(rec')
    BY <2>1, PassStep
  <2>5. AlarmInv'
    BY <2>1, <2>4, AlarmStep
  <2>6. SettledInv'
    BY <2>1, SettledStep
  <2>7. StemsInv'
    BY <2>1, StemsStep
  <2>8. QuietInv'
    BY <2>1, QuietStep
  <2> QED BY <2>2, <2>3, <2>4, <2>5, <2>6, <2>7, <2>8 DEF ReconcileInv, StoreInv
<1> QED BY <1>1, <1>2, PTL DEF ReconcileSpec

-----------------------------------------------------------------------------
(* The properties.                                                         *)

\* Processes that overlap leave one gapless chain that ends in meta.tip,
\* unless two of them commit first updates side by side: ApplyUpdate's lock on
\* meta.tip puts the updates in an order, its checks refuse an update built on
\* another tip, and reconcile's statements leave the spine alone.
THEOREM WritersKeepOneChain == ReconcileSpec => []WritersKeepChain
<1>1. ReconcileInv => WritersKeepChain
  BY DEF ReconcileInv, WritersInv, ChainInv, WritersKeepChain
<1> QED BY <1>1, ReconcileInvariant, PTL

\* As long as reconcile reapplies only stored blocks of an index that was
\* decoded, the tables stay the ones the stored chain determines, however its
\* transactions, which do not lock meta.tip, interleave with the indexers'.
THEOREM TablesStayDecoded == ReconcileSpec => []DecodedStaysDecoded
<1>1. ReconcileInv => DecodedStaysDecoded
  <2> SUFFICES ASSUME ReconcileInv, whole, ~raced, ~foreign PROVE TablesMatch(db)
    BY DEF DecodedStaysDecoded
  <2>1. IsChain(db.blocks, db.tip) /\ Holds(db, ChainStatements(db.blocks))
    BY DEF ReconcileInv, ChainInv, TablesInv
  <2> QED BY <2>1, HoldsMatches
<1> QED BY <1>1, ReconcileInvariant, PTL

\* Who holds a key is an open update with the lock on meta.tip, or there is a
\* reason to deadlock.
LEMMA Holders ==
    ASSUME StoreInv, whole, ~raced, ~foreign, \A p \in DOMAIN txn : ~txn[p].bare,
           rec.batch = <<>> \/ rec.batch[1] \in db.blocks,
           NEW q \in DOMAIN txn, txn[q].locks # {}
    PROVE  TipKey \in txn[q].locks
<1>1. TxnInv(seen, txn[q]) /\ db.blocks \in SUBSET Block /\ IsTables(db)
  BY DEF StoreInv, WritersInv
<1>2. txn[q].open
  BY <1>1, NoTxnFacts DEF TxnInv
<1>3. CASE q = Tool
  <2>1. ToolInv(db, txn[Tool], rec) /\ rec.batch # <<>>
    BY <1>2, <1>3, ToolRuns DEF StoreInv
  <2>2. Holds(db, ChainStatements(db.blocks)) /\ rec.batch[1] \in db.blocks
    BY <2>1 DEF StoreInv, TablesInv
  <2>3. txn[Tool].locks = {}
    BY <1>1, <1>2, <1>3, <2>1, <2>2, ToolCommits
  <2> QED BY <1>3, <2>3
<1>4. CASE q # Tool
  <2>1. IndexerInv(seen, mind[q], txn[q])
    BY <1>4 DEF StoreInv, WritersInv
  <2> QED BY <1>2, <2>1 DEF IndexerInv, UpdateInv
<1> QED BY <1>3, <1>4

\* Indexers, and a reconcile that reapplies stored blocks of a decoded index,
\* never all wait for each other's rows: of those who hold a key each holds
\* the lock on meta.tip, so there is only one, and it waits for nobody.
THEOREM NobodyDeadlocks == ReconcileSpec => []NoDeadlock
<1>1. ReconcileInv => NoDeadlock
  <2> SUFFICES ASSUME ReconcileInv, Stuck, whole, ~raced, ~foreign, \A p \in DOMAIN txn : ~txn[p].bare,
                      rec.batch = <<>> \/ rec.batch[1] \in db.blocks
               PROVE  FALSE
    BY DEF NoDeadlock, ReconcileInv, WritersInv
  <2>1. ASSUME NEW p \in DOMAIN txn PROVE \E q \in DOMAIN txn : q # p /\ txn[q].locks # {}
    <3>1. Held(txn, p) # {}
      BY DEF Stuck
    <3> QED BY <3>1 DEF Held
  <2>2. PICK p : p \in DOMAIN txn
    BY DEF ReconcileInv, WritersInv
  <2>3. PICK q \in DOMAIN txn : q # p /\ txn[q].locks # {}
    BY <2>1, <2>2
  <2>4. PICK r \in DOMAIN txn : r # q /\ txn[r].locks # {}
    BY <2>1
  <2>5. TipKey \in txn[q].locks /\ TipKey \in txn[r].locks
    BY <2>3, <2>4, Holders DEF ReconcileInv, StoreInv
  <2>6. txn[q].locks \cap txn[r].locks = {}
    BY <2>4 DEF ReconcileInv, WritersInv, Apart
  <2> QED BY <2>5, <2>6
<1> QED BY <1>1, ReconcileInvariant, PTL

\* reconcile reports no mismatch of a sound index whose tip is the node's: if a
\* pass during which nothing else went on ends with a mismatch, the tables have
\* an unspent output that the stored chain does not.  Above its lowest block
\* the stored chain is the node's, so both say the same of its outputs.
THEOREM NoAlarmWithoutCause == ReconcileSpec => []NoFalseAlarm
<1>1. ReconcileInv => NoFalseAlarm
  BY DEF ReconcileInv, PassInv, AlarmInv, NoFalseAlarm
<1> QED BY <1>1, ReconcileInvariant, PTL

\* A pass with nothing else going on that gets through its verification has
\* decoded the last n stored blocks, also if they had been stored undecoded
\* and whatever an earlier pass left half done: it has run every statement of
\* theirs, in the order of the blocks, on rows that each stem from the stored
\* chain, and upserts, first-wins updates and sweeps that are run again on such
\* rows leave the outputs, and which of them are unspent, as the chain has it.
THEOREM PassBackfills == ReconcileSpec => []BackfillCompletes
<1>1. ReconcileInv => BackfillCompletes
  <2> SUFFICES ASSUME ReconcileInv, rec.pc \in {"ok", "mismatch"}, IsBigint(rec.n), quiet, ~raced, ~foreign,
                      ~crossed,
                      NEW h, h = Max({rec.minH, rec.maxH - rec.n + 1})
               PROVE  OutputsSince(h, db.utxos) = OutputsSince(h, ExpectedUtxos(db.blocks))
    BY Zenon DEF BackfillCompletes
  <2>1. IsChain(db.blocks, db.tip)
    BY DEF ReconcileInv, ChainInv
  <2>2. CASE whole
    <3>1. Holds(db, ChainStatements(db.blocks))
      BY <2>2 DEF ReconcileInv, TablesInv
    <3>2. TablesMatch(db)
      BY <2>1, <3>1, HoldsMatches
    <3> QED BY <3>2 DEF TablesMatch
  <2>3. CASE ~whole
    <3>1. PICK D : D = ChainStatements(Since(db.blocks, h))
      OBVIOUS
    <3>2. h \in Nat /\ CaughtUp(db.utxos, D, h) /\ Decodable(D)
      BY <3>1, PassRan DEF ReconcileInv, StoreInv
    <3>3. \A x \in db.utxos : Stems(x, ChainStatements(db.blocks))
      BY <2>3 DEF ReconcileInv, StemsInv, StemInv
    <3> QED BY <2>1, <3>1, <3>2, <3>3, BackfillRows
  <2> QED BY <2>2, <2>3
<1> QED BY <1>1, ReconcileInvariant, PTL

=============================================================================
