---------------------------- MODULE DecoderProofs ----------------------------
(***************************************************************************)
(* Lemmas about the statements of an update and the tables they lead to:   *)
(* what each statement adds to the tables of a set of statements, that     *)
(* rollbackBlock takes away exactly what applyBlock added, and that the    *)
(* tables a chain's statements lead to are the ones its bodies determine.  *)
(***************************************************************************)
EXTENDS Decoder, SequenceTheorems, WellFoundedInduction, TLAPS

-----------------------------------------------------------------------------
(* Rows.                                                                   *)

\* A row as INSERT writes it.
Fresh(r) == r = NewRow(r.op, r.lock, r.created, r.deadline)

\* A fresh row is live.
LEMMA FreshRow ==
    ASSUME NEW r, Fresh(r)
    PROVE  r.spent = Null /\ r.spentTx = NoTx /\ r.trimmed = Null
BY DEF Fresh, NewRow

\* A fresh row, spent.
LEMMA SpentRow ==
    ASSUME NEW r, Fresh(r), NEW h, NEW tx
    PROVE  [r EXCEPT !.spent = h, !.spentTx = tx] =
               [op |-> r.op, lock |-> r.lock, created |-> r.created, deadline |-> r.deadline,
                spent |-> h, spentTx |-> tx, trimmed |-> Null]
<1> DEFINE a == [r EXCEPT !.spent = h]
           c == [op |-> r.op, lock |-> r.lock, created |-> r.created, deadline |-> r.deadline,
                 spent |-> h, spentTx |-> NoTx, trimmed |-> Null]
<1>1. a = c
  BY DEF Fresh, NewRow
<1>2. [c EXCEPT !.spentTx = tx] =
          [op |-> r.op, lock |-> r.lock, created |-> r.created, deadline |-> r.deadline,
           spent |-> h, spentTx |-> tx, trimmed |-> Null]
  OBVIOUS
<1>3. [r EXCEPT !.spent = h, !.spentTx = tx] = [a EXCEPT !.spentTx = tx]
  OBVIOUS
<1> HIDE DEF a, c
<1> QED BY <1>1, <1>2, <1>3

\* A fresh row, trimmed.
LEMMA TrimmedRow ==
    ASSUME NEW r, Fresh(r), NEW h
    PROVE  [r EXCEPT !.trimmed = h] =
               [op |-> r.op, lock |-> r.lock, created |-> r.created, deadline |-> r.deadline,
                spent |-> Null, spentTx |-> NoTx, trimmed |-> h]
BY DEF Fresh, NewRow

\* A spent row, unspent again.
LEMMA UnspentRow ==
    ASSUME NEW r, Fresh(r), NEW h, NEW tx
    PROVE  [[op |-> r.op, lock |-> r.lock, created |-> r.created, deadline |-> r.deadline,
             spent |-> h, spentTx |-> tx, trimmed |-> Null]
               EXCEPT !.spent = Null, !.spentTx = NoTx] = r
<1> DEFINE g == [op |-> r.op, lock |-> r.lock, created |-> r.created, deadline |-> r.deadline,
                 spent |-> h, spentTx |-> tx, trimmed |-> Null]
           c == [op |-> r.op, lock |-> r.lock, created |-> r.created, deadline |-> r.deadline,
                 spent |-> Null, spentTx |-> tx, trimmed |-> Null]
<1>1. [g EXCEPT !.spent = Null] = c
  OBVIOUS
<1>2. [c EXCEPT !.spentTx = NoTx] = r
  BY DEF Fresh, NewRow
<1>3. [g EXCEPT !.spent = Null, !.spentTx = NoTx] = [[g EXCEPT !.spent = Null] EXCEPT !.spentTx = NoTx]
  OBVIOUS
<1> HIDE DEF c
<1> QED BY <1>1, <1>2, <1>3

\* CHOOSE takes an element of a set that has one.
LEMMA OneOfOne ==
    ASSUME NEW S, S # {}
    PROVE  OneOf(S) \in S
BY DEF OneOf

-----------------------------------------------------------------------------
(* One statement more.                                                     *)

\* A fate depends on the spends and the sweeps only.
LEMMA SameFate ==
    ASSUME NEW D, NEW E, NEW r,
           SpendsOf(r.op, D) = SpendsOf(r.op, E), DueIn(r, D) <=> DueIn(r, E)
    PROVE  Became(r, D) = Became(r, E)
BY DEF Became

\* Spending and trimming leave a row's key, lock and deadline alone.
LEMMA FateKeepsKey ==
    ASSUME NEW D, NEW r, Fresh(r)
    PROVE  Became(r, D).op = r.op /\ Became(r, D).created = r.created
                /\ Became(r, D).lock = r.lock /\ Became(r, D).deadline = r.deadline
<1>1. CASE SpendsOf(r.op, D) # {}
  <2> DEFINE s == OneOf(SpendsOf(r.op, D))
  <2>1. Became(r, D) = [r EXCEPT !.spent = s.h, !.spentTx = s.tx]
    BY <1>1 DEF Became
  <2> QED BY <2>1, SpentRow
<1>2. CASE SpendsOf(r.op, D) = {} /\ DueIn(r, D)
  <2>1. Became(r, D) = [r EXCEPT !.trimmed = r.deadline]
    BY <1>2 DEF Became
  <2> QED BY <2>1, TrimmedRow
<1>3. CASE SpendsOf(r.op, D) = {} /\ ~DueIn(r, D)
  BY <1>3 DEF Became
<1> QED BY <1>1, <1>2, <1>3

\* INSERT: a row no statement of D made joins the table, unspent and untrimmed.
LEMMA InsertAdds ==
    ASSUME NEW D, NEW s, s.sql = "insert", \A q \in RowsIn(D) : Fresh(q),
           \A q \in RowsIn(D) : ~(q.op = s.row.op /\ q.created = s.row.created),
           SpendsOf(s.row.op, D) = {}, ~DueIn(s.row, D)
    PROVE  Insert(UtxosOf(D), s.row) = UtxosOf(D \cup {s})
<1> DEFINE E == D \cup {s}
<1>1. RowsIn(E) = RowsIn(D) \cup {s.row}
  BY DEF RowsIn
<1>2. ASSUME NEW q PROVE Became(q, E) = Became(q, D)
  <2>1. SpendsOf(q.op, E) = SpendsOf(q.op, D)
    BY DEF SpendsOf
  <2>2. DueIn(q, E) <=> DueIn(q, D)
    BY DEF DueIn
  <2> QED BY <2>1, <2>2, SameFate
<1>3. Became(s.row, D) = s.row
  BY DEF Became
<1>4. \A q \in RowsIn(D) : Became(q, D).op = q.op /\ Became(q, D).created = q.created
  BY FateKeepsKey
<1>5. ~ \E r \in UtxosOf(D) : r.op = s.row.op /\ r.created = s.row.created
  BY <1>4 DEF UtxosOf
<1>6. Insert(UtxosOf(D), s.row) = UtxosOf(D) \cup {s.row}
  BY <1>5 DEF Insert
<1>7. UtxosOf(E) = UtxosOf(D) \cup {s.row}
  BY <1>1, <1>2, <1>3 DEF UtxosOf
<1> QED BY <1>6, <1>7

\* UPDATE ... SET spent_block: the live row of the outpoint becomes the spent one.
LEMMA SpendMarks ==
    ASSUME NEW D, NEW s, s.sql = "spend", \A q \in RowsIn(D) : Fresh(q),
           SpendsOf(s.op, D) = {}, s.h # Null,
           \A q \in RowsIn(D) : q.op = s.op => ~DueIn(q, D),
           \A q \in RowsIn(D) : \A x \in SpendsOf(q.op, D) : x.h # Null
    PROVE  MarkSpent(UtxosOf(D), s.op, s.h, s.tx) = UtxosOf(D \cup {s})
<1> DEFINE E == D \cup {s}
           Mark(r) == IF r.op = s.op /\ Live(r) THEN [r EXCEPT !.spent = s.h, !.spentTx = s.tx] ELSE r
<1>1. RowsIn(E) = RowsIn(D)
  BY DEF RowsIn
<1>2. ASSUME NEW q \in RowsIn(D) PROVE Mark(Became(q, D)) = Became(q, E)
  <2>1. Fresh(q) /\ Became(q, D).op = q.op
    BY FateKeepsKey
  <2>2. DueIn(q, E) <=> DueIn(q, D)
    BY DEF DueIn
  <2>3. CASE q.op = s.op
    <3>1. Became(q, D) = q
      BY <2>3 DEF Became
    <3>2. SpendsOf(q.op, E) = {s}
      BY <2>3 DEF SpendsOf
    <3>3. OneOf(SpendsOf(q.op, E)) = s
      BY <3>2, OneOfOne
    <3>4. Became(q, E) = [q EXCEPT !.spent = s.h, !.spentTx = s.tx]
      BY <3>2, <3>3 DEF Became
    <3>5. Live(q)
      BY <2>1, FreshRow DEF Live
    <3> QED BY <2>3, <3>1, <3>4, <3>5
  <2>4. CASE q.op # s.op
    <3>1. SpendsOf(q.op, E) = SpendsOf(q.op, D)
      BY <2>4 DEF SpendsOf
    <3> QED BY <2>1, <2>2, <2>4, <3>1, SameFate
  <2> QED BY <2>3, <2>4
<1>3. MarkSpent(UtxosOf(D), s.op, s.h, s.tx) = {Mark(r) : r \in UtxosOf(D)}
  BY DEF MarkSpent
<1>4. {Mark(r) : r \in UtxosOf(D)} = {Mark(Became(q, D)) : q \in RowsIn(D)}
  BY DEF UtxosOf
<1>5. {Mark(Became(q, D)) : q \in RowsIn(D)} = {Became(q, E) : q \in RowsIn(D)}
  BY <1>2
<1> QED BY <1>1, <1>3, <1>4, <1>5 DEF UtxosOf

\* Statements name heights of blocks, so none of them writes NULL.
Timed(D) == \A x \in D : x.sql \in {"spend", "sweep"} => x.h # Null

\* sweepTrims: the live unlocked rows of that deadline become the trimmed ones.
LEMMA SweepTrimsDue ==
    ASSUME NEW D, NEW s, s.sql = "sweep", \A q \in RowsIn(D) : Fresh(q), Timed(D), s.h # Null
    PROVE  SweepTrims(UtxosOf(D), s.h) = UtxosOf(D \cup {s})
<1> DEFINE E == D \cup {s}
           Trim(r) == IF r.deadline = s.h /\ Live(r) /\ r.lock = 0 THEN [r EXCEPT !.trimmed = s.h] ELSE r
<1>1. RowsIn(E) = RowsIn(D)
  BY DEF RowsIn
<1>2. ASSUME NEW q \in RowsIn(D) PROVE Trim(Became(q, D)) = Became(q, E)
  <2>1. Fresh(q)
    OBVIOUS
  <2>2. SpendsOf(q.op, E) = SpendsOf(q.op, D)
    BY DEF SpendsOf
  <2>3. DueIn(q, E) <=> DueIn(q, D) \/ (q.lock = 0 /\ s.h = q.deadline)
    BY DEF DueIn
  <2>4. CASE SpendsOf(q.op, D) # {}
    <3> DEFINE x == OneOf(SpendsOf(q.op, D))
    <3>1. x \in D /\ x.sql = "spend"
      BY <2>4, OneOfOne DEF SpendsOf
    <3>2. Became(q, D) = [q EXCEPT !.spent = x.h, !.spentTx = x.tx]
      BY <2>4 DEF Became
    <3>3. Became(q, D).spent # Null
      BY <2>1, <3>1, <3>2, SpentRow DEF Timed
    <3>4. Became(q, E) = Became(q, D)
      BY <2>2, <2>4 DEF Became
    <3> QED BY <3>3, <3>4 DEF Live
  <2>5. CASE SpendsOf(q.op, D) = {} /\ DueIn(q, D)
    <3>1. Became(q, D) = [q EXCEPT !.trimmed = q.deadline]
      BY <2>5 DEF Became
    <3>2. Became(q, D).trimmed = q.deadline
      BY <2>1, <3>1, TrimmedRow
    <3>3. q.deadline # Null
      BY <2>5 DEF DueIn, Timed
    <3>4. Became(q, E) = Became(q, D)
      BY <2>2, <2>3, <2>5 DEF Became
    <3> QED BY <3>2, <3>3, <3>4 DEF Live
  <2>6. CASE SpendsOf(q.op, D) = {} /\ ~DueIn(q, D)
    <3>1. Became(q, D) = q
      BY <2>6 DEF Became
    <3>2. Live(q)
      BY <2>1, FreshRow DEF Live
    <3>3. CASE q.lock = 0 /\ s.h = q.deadline
      <4>1. Became(q, E) = [q EXCEPT !.trimmed = q.deadline]
        BY <2>2, <2>3, <2>6, <3>3 DEF Became
      <4> QED BY <3>1, <3>2, <3>3, <4>1
    <3>4. CASE ~(q.lock = 0 /\ s.h = q.deadline)
      <4>1. Became(q, E) = q
        BY <2>2, <2>3, <2>6, <3>4 DEF Became
      <4> QED BY <3>1, <3>4, <4>1
    <3> QED BY <3>3, <3>4
  <2> QED BY <2>4, <2>5, <2>6
<1>3. SweepTrims(UtxosOf(D), s.h) = {Trim(r) : r \in UtxosOf(D)}
  BY DEF SweepTrims
<1>4. {Trim(r) : r \in UtxosOf(D)} = {Trim(Became(q, D)) : q \in RowsIn(D)}
  BY DEF UtxosOf
<1>5. {Trim(Became(q, D)) : q \in RowsIn(D)} = {Became(q, E) : q \in RowsIn(D)}
  BY <1>2
<1> QED BY <1>1, <1>3, <1>4, <1>5 DEF UtxosOf

\* INSERT INTO conversion_outputs.
LEMMA ConvAdds ==
    ASSUME NEW D, NEW s, s.sql = "conv", \A x \in D : x.sql = "conv" => x.op # s.op
    PROVE  InsertConv(ConvsOf(D), s.op, s.h) = ConvsOf(D \cup {s})
<1>1. ~ \E c \in ConvsOf(D) : c.op = s.op
  BY DEF ConvsOf
<1> QED BY <1>1 DEF InsertConv, ConvsOf

\* Other statements leave conversion_outputs alone.
LEMMA ConvsSame ==
    ASSUME NEW D, NEW s, s.sql # "conv"
    PROVE  ConvsOf(D \cup {s}) = ConvsOf(D)
BY DEF ConvsOf

\* And a conversion leaves utxos alone.
LEMMA UtxosSame ==
    ASSUME NEW D, NEW s, s.sql \notin {"insert", "spend", "sweep"}
    PROVE  UtxosOf(D \cup {s}) = UtxosOf(D)
<1> DEFINE E == D \cup {s}
<1>1. RowsIn(E) = RowsIn(D)
  BY DEF RowsIn
<1>2. ASSUME NEW q \in RowsIn(D) PROVE Became(q, E) = Became(q, D)
  <2>1. SpendsOf(q.op, E) = SpendsOf(q.op, D)
    BY DEF SpendsOf
  <2>2. DueIn(q, E) <=> DueIn(q, D)
    BY DEF DueIn
  <2> QED BY <2>1, <2>2, SameFate
<1> QED BY <1>1, <1>2 DEF UtxosOf

-----------------------------------------------------------------------------
(* rollbackBlock.                                                          *)

\* The tables of D and of the statements E of one block above it, with what
\* is needed of them.
LEMMA UndoneUtxos ==
    ASSUME NEW D, NEW E, NEW h, h # Null,
           \A q \in RowsIn(D) : Fresh(q) /\ q.created # h,
           \A q \in RowsIn(E) : Fresh(q) /\ q.created = h,
           Timed(D),
           \A x \in D : x.sql \in {"spend", "sweep"} => x.h # h,
           \A x \in E : x.sql \in {"spend", "sweep"} => x.h = h,
           \A x, y \in D \cup E : x.sql = "spend" /\ y.sql = "spend" /\ x.op = y.op => x = y,
           \A q \in RowsIn(D) : SpendsOf(q.op, E) # {} => ~DueIn(q, D)
    PROVE  UtxosUndone(UtxosOf(D \cup E), h, 3) = UtxosOf(D)
<1> DEFINE F == D \cup E
           U1(r) == IF r.trimmed = h THEN [r EXCEPT !.trimmed = Null] ELSE r
           U2(r) == IF r.spent = h THEN [r EXCEPT !.spent = Null, !.spentTx = NoTx] ELSE r
<1>1. RowsIn(F) = RowsIn(D) \cup RowsIn(E)
  BY DEF RowsIn
<1>2. \A q \in RowsIn(F) : Fresh(q)
  BY <1>1
<1>3. ASSUME NEW q \in RowsIn(F) PROVE U2(U1(Became(q, F))).created = q.created
  <2>1. Fresh(q)
    BY <1>2
  <2>2. CASE SpendsOf(q.op, F) # {}
    <3> DEFINE x == OneOf(SpendsOf(q.op, F))
               g == [op |-> q.op, lock |-> q.lock, created |-> q.created, deadline |-> q.deadline,
                     spent |-> x.h, spentTx |-> x.tx, trimmed |-> Null]
    <3>1. Became(q, F) = g
      BY <2>1, <2>2, SpentRow DEF Became
    <3>2. U1(g) = g
      OBVIOUS
    <3>3. U2(g).created = q.created
      OBVIOUS
    <3> QED BY <3>1, <3>2, <3>3
  <2>3. CASE SpendsOf(q.op, F) = {} /\ DueIn(q, F)
    <3> DEFINE g == [op |-> q.op, lock |-> q.lock, created |-> q.created, deadline |-> q.deadline,
                     spent |-> Null, spentTx |-> NoTx, trimmed |-> q.deadline]
    <3>1. Became(q, F) = g
      BY <2>1, <2>3, TrimmedRow DEF Became
    <3>2. U1(g).created = q.created /\ U1(g).spent = Null
      OBVIOUS
    <3> QED BY <3>1, <3>2
  <2>4. CASE SpendsOf(q.op, F) = {} /\ ~DueIn(q, F)
    <3>1. Became(q, F) = q
      BY <2>4 DEF Became
    <3>2. q.trimmed = Null /\ q.spent = Null
      BY <2>1, FreshRow
    <3> QED BY <3>1, <3>2
  <2> QED BY <2>2, <2>3, <2>4
<1>4. ASSUME NEW q \in RowsIn(D) PROVE U2(U1(Became(q, F))) = Became(q, D)
  <2>1. Fresh(q)
    OBVIOUS
  <2>2. SpendsOf(q.op, F) = SpendsOf(q.op, D) \cup SpendsOf(q.op, E)
    BY DEF SpendsOf
  <2>3. DueIn(q, F) <=> DueIn(q, D) \/ DueIn(q, E)
    BY DEF DueIn
  <2>4. DueIn(q, E) => q.deadline = h
    BY DEF DueIn
  <2>5. DueIn(q, D) => q.deadline # h
    BY DEF DueIn
  <2>6. CASE SpendsOf(q.op, D) # {}
    <3> DEFINE x == OneOf(SpendsOf(q.op, D))
               g == [op |-> q.op, lock |-> q.lock, created |-> q.created, deadline |-> q.deadline,
                     spent |-> x.h, spentTx |-> x.tx, trimmed |-> Null]
    <3>1. x \in D /\ x.sql = "spend" /\ x.op = q.op
      BY <2>6, OneOfOne DEF SpendsOf
    <3>2. SpendsOf(q.op, E) \subseteq SpendsOf(q.op, D)
      BY <3>1 DEF SpendsOf
    <3>3. SpendsOf(q.op, F) = SpendsOf(q.op, D)
      BY <2>2, <3>2
    <3>4. Became(q, D) = g
      BY <2>1, <2>6, SpentRow DEF Became
    <3>5. Became(q, F) = g
      BY <2>1, <2>6, <3>3, SpentRow DEF Became
    <3>6. U1(g) = g
      OBVIOUS
    <3>7. x.h # h
      BY <3>1
    <3>8. U2(g) = g
      BY <3>7
    <3> QED BY <3>4, <3>5, <3>6, <3>8
  <2>7. CASE SpendsOf(q.op, D) = {} /\ SpendsOf(q.op, E) # {}
    <3> DEFINE x == OneOf(SpendsOf(q.op, F))
               g == [op |-> q.op, lock |-> q.lock, created |-> q.created, deadline |-> q.deadline,
                     spent |-> h, spentTx |-> x.tx, trimmed |-> Null]
    <3>1. x \in SpendsOf(q.op, E)
      BY <2>2, <2>7, OneOfOne
    <3>2. x.h = h
      BY <3>1 DEF SpendsOf
    <3>3. Became(q, F) = g
      BY <2>1, <2>2, <2>7, <3>2, SpentRow DEF Became
    <3>4. U1(g) = g
      OBVIOUS
    <3>5. [g EXCEPT !.spent = Null, !.spentTx = NoTx] = q
      BY <2>1, UnspentRow
    <3>6. U2(g) = q
      BY <3>5
    <3>7. Became(q, D) = q
      BY <2>7 DEF Became
    <3> QED BY <3>3, <3>4, <3>6, <3>7
  <2>8. CASE SpendsOf(q.op, F) = {} /\ DueIn(q, D)
    <3> DEFINE g == [op |-> q.op, lock |-> q.lock, created |-> q.created, deadline |-> q.deadline,
                     spent |-> Null, spentTx |-> NoTx, trimmed |-> q.deadline]
    <3>1. Became(q, F) = g
      BY <2>1, <2>3, <2>8, TrimmedRow DEF Became
    <3>2. Became(q, D) = g
      BY <2>1, <2>2, <2>8, TrimmedRow DEF Became
    <3>3. U1(g) = g
      BY <2>5, <2>8
    <3>4. U2(g) = g
      OBVIOUS
    <3> QED BY <3>1, <3>2, <3>3, <3>4
  <2>9. CASE SpendsOf(q.op, F) = {} /\ ~DueIn(q, D) /\ DueIn(q, E)
    <3> DEFINE g == [op |-> q.op, lock |-> q.lock, created |-> q.created, deadline |-> q.deadline,
                     spent |-> Null, spentTx |-> NoTx, trimmed |-> h]
    <3>1. Became(q, F) = g
      BY <2>1, <2>3, <2>4, <2>9, TrimmedRow DEF Became
    <3>2. [g EXCEPT !.trimmed = Null] =
              [op |-> q.op, lock |-> q.lock, created |-> q.created, deadline |-> q.deadline,
               spent |-> Null, spentTx |-> NoTx, trimmed |-> Null]
      OBVIOUS
    <3>3. U1(g) = q
      BY <2>1, <3>2 DEF Fresh, NewRow
    <3>4. U2(q) = q
      BY <2>1, FreshRow
    <3>5. Became(q, D) = q
      BY <2>2, <2>9 DEF Became
    <3> QED BY <3>1, <3>3, <3>4, <3>5
  <2>10. CASE SpendsOf(q.op, F) = {} /\ ~DueIn(q, D) /\ ~DueIn(q, E)
    <3>1. Became(q, F) = q
      BY <2>3, <2>10 DEF Became
    <3>2. Became(q, D) = q
      BY <2>2, <2>10 DEF Became
    <3>3. U1(q) = q /\ U2(q) = q
      BY <2>1, FreshRow
    <3> QED BY <3>1, <3>2, <3>3
  <2> QED BY <2>2, <2>6, <2>7, <2>8, <2>9, <2>10
<1>5. Unspend(Untrim(UtxosOf(F), h), h) = {U2(r) : r \in {U1(r) : r \in UtxosOf(F)}}
  BY DEF Unspend, Untrim
<1>6. {U2(r) : r \in {U1(r) : r \in UtxosOf(F)}} = {U2(U1(Became(q, F))) : q \in RowsIn(F)}
  <2> HIDE DEF U1, U2, F
  <2>1. {U1(r) : r \in UtxosOf(F)} = {U1(Became(q, F)) : q \in RowsIn(F)}
    BY DEF UtxosOf
  <2> QED BY <2>1
<1>7. DeleteCreated({U2(U1(Became(q, F))) : q \in RowsIn(F)}, h) = {U2(U1(Became(q, F))) : q \in RowsIn(D)}
  <2> DEFINE V(q) == U2(U1(Became(q, F)))
  <2>1. \A q \in RowsIn(F) : V(q).created # h <=> q \in RowsIn(D)
    BY <1>1, <1>3
  <2> HIDE DEF V
  <2>2. DeleteCreated({V(q) : q \in RowsIn(F)}, h) = {V(q) : q \in RowsIn(D)}
    BY <1>1, <2>1 DEF DeleteCreated
  <2> QED BY <2>2 DEF V
<1>8. {U2(U1(Became(q, F))) : q \in RowsIn(D)} = {Became(q, D) : q \in RowsIn(D)}
  <2> HIDE DEF U1, U2, F
  <2> QED BY <1>4
<1>9. UtxosUndone(UtxosOf(F), h, 3) = DeleteCreated(Unspend(Untrim(UtxosOf(F), h), h), h)
  BY DEF UtxosUndone
<1> HIDE DEF U1, U2, F
<1> QED BY <1>5, <1>6, <1>7, <1>8, <1>9 DEF UtxosOf, F

\* The last statement of rollbackBlock takes back the conversions of its height.
LEMMA UndoneConvs ==
    ASSUME NEW D, NEW E, NEW h,
           \A x \in D : x.sql = "conv" => x.h # h,
           \A x \in E : x.sql = "conv" => x.h = h
    PROVE  ConvsUndone(ConvsOf(D \cup E), h, 4) = ConvsOf(D)
BY DEF ConvsUndone, ConvsOf, DeleteConv

-----------------------------------------------------------------------------
(* The statements of a block, place by place.                              *)

\* A sequence is a function on an interval from 1.
LEMMA SequenceFacts ==
    ASSUME NEW s, IsSequence(s)
    PROVE  Len(s) \in Nat /\ DOMAIN s = 1..Len(s)
<1>1. s \in Seq(ToSet(s))
  BY DEF IsSequence
<1> QED BY <1>1, LenProperties

\* And the other way round.
LEMMA FunctionIsSequence ==
    ASSUME NEW n \in Nat, NEW f, f = [i \in 1..n |-> f[i]]
    PROVE  IsSequence(f) /\ Len(f) = n
<1>1. f \in [1..n -> ToSet(f)]
  BY DEF ToSet
<1>2. f \in Seq(ToSet(f))
  BY <1>1
<1>3. Len(f) = n
  BY <1>1
<1> QED BY <1>2, <1>3 DEF IsSequence

\* Where the elements of a concatenation come from.
LEMMA ConcatSequence ==
    ASSUME NEW s, NEW t, NEW u, IsSequence(s), IsSequence(t), u = s \o t
    PROVE  /\ IsSequence(u)
           /\ Len(u) = Len(s) + Len(t)
           /\ \A i \in 1..Len(s) : u[i] = s[i]
           /\ \A i \in 1..Len(t) : u[Len(s) + i] = t[i]
<1> DEFINE S == ToSet(s) \cup ToSet(t)
<1>1. s \in Seq(S) /\ t \in Seq(S)
  BY SeqMonotonic DEF IsSequence
<1>2. Len(s) \in Nat /\ Len(t) \in Nat
  BY SequenceFacts
<1> HIDE DEF S
<1>3. /\ u \in Seq(S)
      /\ Len(u) = Len(s) + Len(t)
      /\ \A i \in 1..(Len(s) + Len(t)) : u[i] = IF i <= Len(s) THEN s[i] ELSE t[i - Len(s)]
  BY <1>1, ConcatProperties
<1>4. u = [i \in 1..Len(u) |-> u[i]] /\ Len(u) \in Nat
  BY <1>3, LenProperties
<1>5. IsSequence(u)
  BY <1>4, FunctionIsSequence
<1>6. \A i \in 1..Len(s) : u[i] = s[i]
  BY <1>2, <1>3
<1>7. \A i \in 1..Len(t) : u[Len(s) + i] = t[i]
  <2> SUFFICES ASSUME NEW i \in 1..Len(t) PROVE u[Len(s) + i] = t[i]
    OBVIOUS
  <2>1. Len(s) + i \in 1..(Len(s) + Len(t)) /\ ~(Len(s) + i <= Len(s)) /\ Len(s) + i - Len(s) = i
    BY <1>2
  <2> QED BY <1>3, <2>1
<1> QED BY <1>3, <1>5, <1>6, <1>7

\* Where the elements of an extended sequence come from.
LEMMA AppendSequence ==
    ASSUME NEW s, NEW e, IsSequence(s)
    PROVE  /\ IsSequence(Append(s, e))
           /\ Len(Append(s, e)) = Len(s) + 1
           /\ \A i \in 1..Len(s) : Append(s, e)[i] = s[i]
           /\ Append(s, e)[Len(s) + 1] = e
<1> DEFINE S == ToSet(s) \cup {e}
           u == Append(s, e)
<1>1. s \in Seq(S)
  BY SeqMonotonic DEF IsSequence
<1>2. Len(s) \in Nat /\ e \in S
  BY SequenceFacts
<1> HIDE DEF S
<1>3. /\ u \in Seq(S)
      /\ Len(u) = Len(s) + 1
      /\ \A i \in 1..Len(s) : u[i] = s[i]
      /\ u[Len(s) + 1] = e
  BY <1>1, <1>2, AppendProperties
<1> HIDE DEF u
<1>4. u = [i \in 1..Len(u) |-> u[i]] /\ Len(u) \in Nat
  BY <1>3, LenProperties
<1>5. IsSequence(u)
  BY <1>4, FunctionIsSequence
<1> QED BY <1>3, <1>5 DEF u

\* A list of one statement.
LEMMA OneElement ==
    ASSUME NEW e
    PROVE  IsSequence(<<e>>) /\ Len(<<e>>) = 1 /\ <<e>>[1] = e
<1>1. <<e>> = [i \in 1..1 |-> <<e>>[i]]
  OBVIOUS
<1> QED BY <1>1, FunctionIsSequence

\* The empty list.
LEMMA NoElement == IsSequence(<<>>) /\ Len(<<>>) = 0
<1>1. <<>> = [i \in 1..0 |-> <<>>[i]]
  OBVIOUS
<1> QED BY <1>1, FunctionIsSequence

\* The two loops over a decodable Qi transaction.
LEMMA SpendAndCreateList ==
    ASSUME NEW t, WellFormed(t), IsQiTx(t), NEW h
    PROVE  LET s == SpendAndCreate(t, h)
           IN /\ IsSequence(s) /\ Len(s) = Len(t.ins) + Len(t.outs)
              /\ \A i \in 1..Len(t.ins) :
                     s[i] = [sql |-> "spend", op |-> t.ins[i], h |-> h, tx |-> t.hash]
              /\ \A i \in 1..Len(t.outs) :
                     s[Len(t.ins) + i] =
                         IF InQiScope(t.outs[i])
                         THEN [sql |-> "insert", row |-> OutputRow(t, i, t.outs[i].lock, h)]
                         ELSE [sql |-> "conv", op |-> <<t.hash, i - 1>>, h |-> h]
<1> DEFINE Spend(i) == [sql |-> "spend", op |-> t.ins[i], h |-> h, tx |-> t.hash]
           Create(i) == IF InQiScope(t.outs[i])
                        THEN [sql |-> "insert", row |-> OutputRow(t, i, t.outs[i].lock, h)]
                        ELSE [sql |-> "conv", op |-> <<t.hash, i - 1>>, h |-> h]
           spends == [i \in DOMAIN t.ins |-> Spend(i)]
           creates == [i \in DOMAIN t.outs |-> Create(i)]
<1>1. SpendAndCreate(t, h) = spends \o creates
  BY DEF SpendAndCreate
<1> HIDE DEF Spend, Create
<1>2. /\ Len(t.ins) \in Nat /\ DOMAIN t.ins = 1..Len(t.ins)
      /\ Len(t.outs) \in Nat /\ DOMAIN t.outs = 1..Len(t.outs)
  BY SequenceFacts DEF WellFormed
<1>3. IsSequence(spends) /\ Len(spends) = Len(t.ins)
  BY <1>2, FunctionIsSequence
<1>4. IsSequence(creates) /\ Len(creates) = Len(t.outs)
  BY <1>2, FunctionIsSequence
<1>5. \A i \in 1..Len(t.ins) : spends[i] = Spend(i)
  BY <1>2
<1>6. \A i \in 1..Len(t.outs) : creates[i] = Create(i)
  BY <1>2
<1> HIDE DEF spends, creates
<1> DEFINE both == spends \o creates
<1>8. SpendAndCreate(t, h) = both
  BY <1>1
<1>0. both = spends \o creates
  OBVIOUS
<1> HIDE DEF both
<1>7. /\ IsSequence(both) /\ Len(both) = Len(spends) + Len(creates)
      /\ \A i \in 1..Len(spends) : both[i] = spends[i]
      /\ \A i \in 1..Len(creates) : both[Len(spends) + i] = creates[i]
  <2>1. IsSequence(spends) /\ IsSequence(creates)
    BY <1>3, <1>4
  <2>2. IsSequence(both)
    BY <2>1, <1>0, ConcatSequence
  <2>3. Len(both) = Len(spends) + Len(creates)
    BY <2>1, <1>0, ConcatSequence
  <2>4. \A i \in 1..Len(spends) : both[i] = spends[i]
    BY <2>1, <1>0, ConcatSequence
  <2>5. \A i \in 1..Len(creates) : both[Len(spends) + i] = creates[i]
    BY <2>1, <1>0, ConcatSequence
  <2> QED BY <2>2, <2>3, <2>4, <2>5
<1>9. /\ Len(both) = Len(t.ins) + Len(t.outs)
      /\ \A i \in 1..Len(t.ins) : both[i] = Spend(i)
      /\ \A i \in 1..Len(t.outs) : both[Len(t.ins) + i] = Create(i)
  BY <1>3, <1>4, <1>5, <1>6, <1>7
<1> QED BY <1>7, <1>8, <1>9 DEF Spend, Create

\* The statements of a Qi transaction are a sequence.
LEMMA QiList ==
    ASSUME NEW t, WellFormed(t), IsQiTx(t), NEW h
    PROVE  IsSequence(QiStatements(t, h))
<1>1. CASE Refused(t)
  BY <1>1, OneElement DEF QiStatements
<1>2. CASE ~Refused(t)
  BY <1>2, SpendAndCreateList DEF QiStatements
<1> QED BY <1>1, <1>2

\* So are those of an ETX.
LEMMA EtxList ==
    ASSUME NEW t, WellFormed(t), IsEtx(t), NEW h
    PROVE  LET s == EtxStatements(t, h)
           IN /\ IsSequence(s)
              /\ CreatesOutputs(t) =>
                     /\ Len(s) = Len(t.outs)
                     /\ \A i \in 1..Len(t.outs) :
                            s[i] = [sql |-> "insert", row |-> OutputRow(t, i, EtxLock(t, h), h)]
              /\ ~CreatesOutputs(t) => Len(s) = 0
<1> DEFINE Create(i) == [sql |-> "insert", row |-> OutputRow(t, i, EtxLock(t, h), h)]
           u == [i \in DOMAIN t.outs |-> Create(i)]
<1>1. Len(t.outs) \in Nat /\ DOMAIN t.outs = 1..Len(t.outs)
  BY SequenceFacts DEF WellFormed
<1>2. CASE CreatesOutputs(t)
  <2>1. EtxStatements(t, h) = u
    BY <1>2 DEF EtxStatements
  <2> HIDE DEF Create
  <2>2. IsSequence(u) /\ Len(u) = Len(t.outs) /\ \A i \in 1..Len(t.outs) : u[i] = Create(i)
    BY <1>1, FunctionIsSequence
  <2> HIDE DEF u
  <2> QED BY <1>2, <2>1, <2>2 DEF Create
<1>3. CASE ~CreatesOutputs(t)
  BY <1>3, NoElement DEF EtxStatements
<1> QED BY <1>2, <1>3

\* The lists applyBlock runs through: one per transaction, twice, and the sweep.
LEMMA BlockLists ==
    ASSUME NEW b \in Block
    PROVE  LET n == Len(Body[b])
               lists == ApplyBlock(b)
           IN /\ n \in Nat /\ DOMAIN Body[b] = 1..n
              /\ \A i \in 1..n : WellFormed(Body[b][i])
              /\ IsSequence(lists) /\ Len(lists) = 2 * n + 1 /\ DOMAIN lists = 1..(2 * n + 1)
              /\ \A k \in 1..(2 * n + 1) : IsSequence(lists[k])
              /\ \A k \in 1..n :
                     lists[k] = IF IsQiTx(Body[b][k]) THEN QiStatements(Body[b][k], Height[b]) ELSE <<>>
              /\ \A k \in 1..n :
                     lists[n + k] = IF IsEtx(Body[b][k]) THEN EtxStatements(Body[b][k], Height[b]) ELSE <<>>
              /\ lists[2 * n + 1] = <<[sql |-> "sweep", h |-> Height[b]]>>
<1> DEFINE n == Len(Body[b])
           h == Height[b]
           Qi(k) == IF IsQiTx(Body[b][k]) THEN QiStatements(Body[b][k], h) ELSE <<>>
           Etx(k) == IF IsEtx(Body[b][k]) THEN EtxStatements(Body[b][k], h) ELSE <<>>
           txs == [k \in 1..(2 * n) |-> IF k <= n THEN Qi(k) ELSE Etx(k - n)]
           sweep == <<[sql |-> "sweep", h |-> h]>>
           lists == Append(txs, sweep)
<1>1. n \in Nat /\ DOMAIN Body[b] = 1..n
  BY BodyAssumption, SequenceFacts
<1>2. \A i \in 1..n : WellFormed(Body[b][i])
  BY <1>1, BodyAssumption
<1>3. TxStatements(b) = txs
  BY DEF TxStatements
<1>4. ApplyBlock(b) = lists
  BY <1>3 DEF ApplyBlock
<1>5. \A k \in 1..n : IsSequence(Qi(k)) /\ IsSequence(Etx(k))
  BY <1>2, QiList, EtxList, NoElement
<1>6. IsSequence(sweep)
  BY OneElement
<1> HIDE DEF Qi, Etx, sweep
<1>7. IsSequence(txs) /\ Len(txs) = 2 * n
  BY <1>1, FunctionIsSequence
<1>8. \A k \in 1..n : txs[k] = Qi(k) /\ txs[n + k] = Etx(k)
  BY <1>1
<1>9. \A k \in 1..(2 * n) : IsSequence(txs[k])
  <2> SUFFICES ASSUME NEW k \in 1..(2 * n) PROVE IsSequence(txs[k])
    OBVIOUS
  <2>1. CASE k <= n
    BY <1>1, <1>5, <1>8, <2>1
  <2>2. CASE ~(k <= n)
    <3>1. k - n \in 1..n /\ txs[k] = Etx(k - n)
      BY <1>1, <2>2
    <3> QED BY <1>5, <3>1
  <2> QED BY <2>1, <2>2
<1> HIDE DEF txs
<1>10. /\ IsSequence(lists) /\ Len(lists) = 2 * n + 1 /\ lists[2 * n + 1] = sweep
       /\ \A k \in 1..(2 * n) : lists[k] = txs[k]
  BY <1>7, AppendSequence
<1> HIDE DEF lists
<1>11. DOMAIN lists = 1..(2 * n + 1)
  BY <1>10, SequenceFacts
<1>12. \A k \in 1..(2 * n + 1) : IsSequence(lists[k])
  <2> SUFFICES ASSUME NEW k \in 1..(2 * n + 1) PROVE IsSequence(lists[k])
    OBVIOUS
  <2>1. k \in 1..(2 * n) \/ k = 2 * n + 1
    BY <1>1
  <2> QED BY <1>6, <1>9, <1>10, <2>1
<1>13. \A k \in 1..n : lists[k] = Qi(k) /\ lists[n + k] = Etx(k)
  <2> SUFFICES ASSUME NEW k \in 1..n PROVE lists[k] = Qi(k) /\ lists[n + k] = Etx(k)
    OBVIOUS
  <2>1. k \in 1..(2 * n) /\ n + k \in 1..(2 * n)
    BY <1>1
  <2> QED BY <1>8, <1>10, <2>1
<1> QED BY <1>1, <1>2, <1>4, <1>10, <1>11, <1>12, <1>13 DEF Qi, Etx, sweep

\* What statement m of list k of block b can be.
SpendAt(b, k, m, s) ==
    /\ k \in DOMAIN Body[b] /\ Body[b][k].kind = "qi" /\ m \in DOMAIN Body[b][k].ins
    /\ s = [sql |-> "spend", op |-> Body[b][k].ins[m], h |-> Height[b], tx |-> Body[b][k].hash]

QiInsertAt(b, k, m, s) ==
    /\ k \in DOMAIN Body[b] /\ Body[b][k].kind = "qi"
    /\ \E j \in DOMAIN Body[b][k].outs :
           /\ Body[b][k].outs[j].qi /\ m = Len(Body[b][k].ins) + j
           /\ s = [sql |-> "insert",
                   row |-> OutputRow(Body[b][k], j, Body[b][k].outs[j].lock, Height[b])]

ConvAt(b, k, m, s) ==
    /\ k \in DOMAIN Body[b] /\ Body[b][k].kind = "qi"
    /\ \E j \in DOMAIN Body[b][k].outs :
           /\ ~Body[b][k].outs[j].qi /\ m = Len(Body[b][k].ins) + j
           /\ s = [sql |-> "conv", op |-> <<Body[b][k].hash, j - 1>>, h |-> Height[b]]

EtxInsertAt(b, k, m, s) ==
    LET i == k - Len(Body[b])
    IN /\ i \in DOMAIN Body[b] /\ IsEtx(Body[b][i]) /\ CreatesOutputs(Body[b][i])
       /\ m \in DOMAIN Body[b][i].outs
       /\ s = [sql |-> "insert",
               row |-> OutputRow(Body[b][i], m, EtxLock(Body[b][i], Height[b]), Height[b])]

SweepAt(b, k, m, s) ==
    /\ k = 2 * Len(Body[b]) + 1 /\ m = 1
    /\ s = [sql |-> "sweep", h |-> Height[b]]

FailAt(b, k, m, s) ==
    /\ k \in DOMAIN Body[b] /\ Body[b][k].kind = "bad"
    /\ m = 1 /\ s = [sql |-> "fail"]

\* What each statement of a Qi transaction is.
LEMMA SpendOrCreate ==
    ASSUME NEW t, WellFormed(t), IsQiTx(t), NEW h, NEW m \in DOMAIN SpendAndCreate(t, h)
    PROVE  LET s == SpendAndCreate(t, h)[m]
           IN \/ /\ m \in DOMAIN t.ins
                 /\ s = [sql |-> "spend", op |-> t.ins[m], h |-> h, tx |-> t.hash]
              \/ \E j \in DOMAIN t.outs :
                    /\ m = Len(t.ins) + j
                    /\ s = IF t.outs[j].qi
                           THEN [sql |-> "insert", row |-> OutputRow(t, j, t.outs[j].lock, h)]
                           ELSE [sql |-> "conv", op |-> <<t.hash, j - 1>>, h |-> h]
<1> DEFINE l == SpendAndCreate(t, h)
           Spend(i) == [sql |-> "spend", op |-> t.ins[i], h |-> h, tx |-> t.hash]
           Create(i) == IF t.outs[i].qi
                        THEN [sql |-> "insert", row |-> OutputRow(t, i, t.outs[i].lock, h)]
                        ELSE [sql |-> "conv", op |-> <<t.hash, i - 1>>, h |-> h]
<1>1. IsSequence(l) /\ Len(l) = Len(t.ins) + Len(t.outs)
  BY SpendAndCreateList
<1>2. \A i \in 1..Len(t.ins) : l[i] = Spend(i)
  BY SpendAndCreateList, ZenonT(60)
<1>3. \A i \in 1..Len(t.outs) : l[Len(t.ins) + i] = Create(i)
  BY SpendAndCreateList DEF InQiScope
<1>4. /\ Len(t.ins) \in Nat /\ DOMAIN t.ins = 1..Len(t.ins)
      /\ Len(t.outs) \in Nat /\ DOMAIN t.outs = 1..Len(t.outs)
  BY SequenceFacts DEF WellFormed
<1> HIDE DEF l, Spend, Create
<1>5. m \in 1..(Len(t.ins) + Len(t.outs))
  BY <1>1, SequenceFacts DEF l
<1>6. CASE m <= Len(t.ins)
  <2>1. m \in DOMAIN t.ins /\ l[m] = Spend(m)
    BY <1>2, <1>4, <1>5, <1>6
  <2> QED BY <2>1 DEF l, Spend
<1>7. CASE ~(m <= Len(t.ins))
  <2> DEFINE j == m - Len(t.ins)
  <2>1. j \in DOMAIN t.outs /\ m = Len(t.ins) + j
    <3> DEFINE a == Len(t.ins)
               c == Len(t.outs)
    <3>1. a \in Nat /\ c \in Nat /\ m \in 1..(a + c) /\ ~(m <= a)
      BY <1>4, <1>5, <1>7
    <3> HIDE DEF a, c
    <3>2. m - a \in 1..c /\ m = a + (m - a)
      BY <3>1
    <3> QED BY <1>4, <3>2 DEF a, c
  <2> HIDE DEF j
  <2>2. l[m] = Create(j)
    BY <1>3, <1>4, <2>1
  <2> QED BY <2>1, <2>2 DEF l, Create
<1> QED BY <1>6, <1>7

\* The statement at each place of a block.
LEMMA AtPlace ==
    ASSUME NEW b \in Block, NEW k \in DOMAIN ApplyBlock(b), NEW m \in DOMAIN ApplyBlock(b)[k]
    PROVE  LET s == ApplyBlock(b)[k][m]
           IN SpendAt(b, k, m, s) \/ QiInsertAt(b, k, m, s) \/ ConvAt(b, k, m, s)
              \/ EtxInsertAt(b, k, m, s) \/ SweepAt(b, k, m, s) \/ FailAt(b, k, m, s)
<1> DEFINE n == Len(Body[b])
           l == ApplyBlock(b)[k]
           s == l[m]
           h == Height[b]
<1>1. n \in Nat /\ DOMAIN Body[b] = 1..n /\ k \in 1..(2 * n + 1) /\ IsSequence(l)
  BY BlockLists
<1>2. m \in 1..Len(l) /\ Len(l) \in Nat
  BY <1>1, SequenceFacts
<1>3. CASE k \in 1..n
  <2> DEFINE t == Body[b][k]
  <2>1. l = IF IsQiTx(t) THEN QiStatements(t, h) ELSE <<>>
    BY <1>3, BlockLists
  <2>2. WellFormed(t)
    BY <1>3, BlockLists
  <2>3. IsQiTx(t)
    BY <2>1, <1>2, NoElement
  <2>4. CASE t.kind = "bad"
    <3>1. l = <<[sql |-> "fail"]>>
      BY <2>1, <2>3, <2>4 DEF QiStatements, Refused
    <3>2. m = 1
      BY <3>1, <1>2, OneElement
    <3>3. s = [sql |-> "fail"]
      BY <3>1, <3>2, OneElement
    <3> QED BY <1>1, <1>3, <2>4, <3>2, <3>3 DEF FailAt
  <2>5. CASE t.kind = "qi"
    <3>1. l = SpendAndCreate(t, h)
      BY <2>1, <2>3, <2>5 DEF QiStatements, Refused
    <3>2. m \in DOMAIN SpendAndCreate(t, h) /\ s = SpendAndCreate(t, h)[m]
      BY <3>1
    <3>3. CASE /\ m \in DOMAIN t.ins
               /\ s = [sql |-> "spend", op |-> t.ins[m], h |-> h, tx |-> t.hash]
      BY <1>1, <1>3, <2>5, <3>3 DEF SpendAt
    <3>4. ASSUME NEW j \in DOMAIN t.outs, m = Len(t.ins) + j,
                 s = IF t.outs[j].qi
                     THEN [sql |-> "insert", row |-> OutputRow(t, j, t.outs[j].lock, h)]
                     ELSE [sql |-> "conv", op |-> <<t.hash, j - 1>>, h |-> h]
          PROVE  QiInsertAt(b, k, m, s) \/ ConvAt(b, k, m, s)
      <4>1. k \in DOMAIN Body[b]
        BY <1>1, <1>3
      <4> HIDE DEF l, h
      <4>2. CASE t.outs[j].qi
        <5>1. s = [sql |-> "insert", row |-> OutputRow(t, j, t.outs[j].lock, h)]
          BY <3>4, <4>2
        <5> QED BY <2>5, <3>4, <4>1, <4>2, <5>1 DEF QiInsertAt, h
      <4>3. CASE ~t.outs[j].qi
        <5>1. s = [sql |-> "conv", op |-> <<t.hash, j - 1>>, h |-> h]
          BY <3>4, <4>3
        <5> QED BY <2>5, <3>4, <4>1, <4>3, <5>1 DEF ConvAt, h
      <4> QED BY <4>2, <4>3
    <3>5. \/ /\ m \in DOMAIN t.ins
             /\ s = [sql |-> "spend", op |-> t.ins[m], h |-> h, tx |-> t.hash]
          \/ \E j \in DOMAIN t.outs :
                /\ m = Len(t.ins) + j
                /\ s = IF t.outs[j].qi
                       THEN [sql |-> "insert", row |-> OutputRow(t, j, t.outs[j].lock, h)]
                       ELSE [sql |-> "conv", op |-> <<t.hash, j - 1>>, h |-> h]
      <4> DEFINE u == SpendAndCreate(t, h)[m]
      <4> HIDE DEF t, h, l
      <4>1. \/ /\ m \in DOMAIN t.ins
               /\ u = [sql |-> "spend", op |-> t.ins[m], h |-> h, tx |-> t.hash]
            \/ \E j \in DOMAIN t.outs :
                  /\ m = Len(t.ins) + j
                  /\ u = IF t.outs[j].qi
                         THEN [sql |-> "insert", row |-> OutputRow(t, j, t.outs[j].lock, h)]
                         ELSE [sql |-> "conv", op |-> <<t.hash, j - 1>>, h |-> h]
        BY <2>2, <2>3, <3>2, SpendOrCreate
      <4>2. s = u
        BY <3>2
      <4> HIDE DEF u
      <4> QED BY <4>1, <4>2
    <3> QED BY <3>3, <3>4, <3>5, Zenon
  <2> QED BY <2>3, <2>4, <2>5 DEF IsQiTx
<1>4. CASE k \in (n + 1)..(2 * n)
  <2> DEFINE i == k - n
             t == Body[b][i]
  <2>1. i \in 1..n /\ k = n + i
    BY <1>1, <1>4
  <2> HIDE DEF i
  <2>2. l = IF IsEtx(t) THEN EtxStatements(t, h) ELSE <<>>
    BY <2>1, BlockLists
  <2>3. WellFormed(t)
    BY <2>1, BlockLists
  <2>4. IsEtx(t)
    BY <2>2, <1>2, NoElement
  <2>5. l = EtxStatements(t, h)
    BY <2>2, <2>4
  <2>6. Len(t.outs) \in Nat /\ DOMAIN t.outs = 1..Len(t.outs)
    BY <2>3, <2>4, SequenceFacts DEF WellFormed
  <2>7. CreatesOutputs(t)
    <3>1. ~CreatesOutputs(t) => Len(EtxStatements(t, h)) = 0
      BY <2>3, <2>4, EtxList
    <3> QED BY <3>1, <2>5, <1>2
  <2>8. Len(l) = Len(t.outs)
    BY <2>3, <2>4, <2>5, <2>7, EtxList
  <2>9. \A j \in 1..Len(t.outs) : l[j] = [sql |-> "insert", row |-> OutputRow(t, j, EtxLock(t, h), h)]
    BY <2>3, <2>4, <2>5, <2>7, EtxList
  <2> HIDE DEF l
  <2>10. m \in DOMAIN t.outs /\ s = [sql |-> "insert", row |-> OutputRow(t, m, EtxLock(t, h), h)]
    BY <1>2, <2>6, <2>8, <2>9
  <2>11. i = k - Len(Body[b])
    BY DEF i
  <2>12. EtxInsertAt(b, k, m, s)
    BY <1>1, <2>1, <2>4, <2>7, <2>10, <2>11 DEF EtxInsertAt
  <2> QED BY <2>12 DEF l
<1>5. CASE k = 2 * n + 1
  <2>1. l = <<[sql |-> "sweep", h |-> h]>>
    BY <1>5, BlockLists
  <2>2. m = 1
    BY <2>1, <1>2, OneElement
  <2>3. s = [sql |-> "sweep", h |-> h]
    BY <2>1, <2>2, OneElement
  <2> QED BY <1>5, <2>2, <2>3 DEF SweepAt
<1>6. k \in 1..n \/ k \in (n + 1)..(2 * n) \/ k = 2 * n + 1
  BY <1>1
<1> QED BY <1>3, <1>4, <1>5, <1>6

\* Every statement of a block is of one of five kinds.
LEMMA Kinds ==
    ASSUME NEW b \in Block, NEW k \in DOMAIN ApplyBlock(b), NEW m \in DOMAIN ApplyBlock(b)[k]
    PROVE  LET s == ApplyBlock(b)[k][m]
           IN /\ s.sql \in {"spend", "insert", "conv", "sweep", "fail"}
              /\ s.sql = "spend" => SpendAt(b, k, m, s)
              /\ s.sql = "insert" => QiInsertAt(b, k, m, s) \/ EtxInsertAt(b, k, m, s)
              /\ s.sql = "conv" => ConvAt(b, k, m, s)
              /\ s.sql = "sweep" => SweepAt(b, k, m, s)
<1> DEFINE s == ApplyBlock(b)[k][m]
<1>1. SpendAt(b, k, m, s) => s.sql = "spend"
  BY DEF SpendAt
<1>2. QiInsertAt(b, k, m, s) => s.sql = "insert"
  BY DEF QiInsertAt
<1>3. ConvAt(b, k, m, s) => s.sql = "conv"
  BY DEF ConvAt
<1>4. EtxInsertAt(b, k, m, s) => s.sql = "insert"
  BY DEF EtxInsertAt
<1>5. SweepAt(b, k, m, s) => s.sql = "sweep"
  BY DEF SweepAt
<1>6. FailAt(b, k, m, s) => s.sql = "fail"
  BY DEF FailAt
<1>7. SpendAt(b, k, m, s) \/ QiInsertAt(b, k, m, s) \/ ConvAt(b, k, m, s)
      \/ EtxInsertAt(b, k, m, s) \/ SweepAt(b, k, m, s) \/ FailAt(b, k, m, s)
  BY AtPlace
<1> HIDE DEF s
<1>8. /\ s.sql \in {"spend", "insert", "conv", "sweep", "fail"}
      /\ s.sql = "spend" => SpendAt(b, k, m, s)
      /\ s.sql = "insert" => QiInsertAt(b, k, m, s) \/ EtxInsertAt(b, k, m, s)
      /\ s.sql = "conv" => ConvAt(b, k, m, s)
      /\ s.sql = "sweep" => SweepAt(b, k, m, s)
  BY <1>1, <1>2, <1>3, <1>4, <1>5, <1>6, <1>7
<1> QED BY <1>8 DEF s

\* A row as it is inserted: fresh, with a deadline above its height or none.
LEMMA OutputRowFacts ==
    ASSUME NEW t, NEW j, NEW h \in Nat, NEW lock \in Nat, TrimDepth[t.outs[j].denom] \in Nat
    PROVE  LET r == OutputRow(t, j, lock, h)
           IN /\ Fresh(r) /\ r.op = <<t.hash, j - 1>> /\ r.created = h /\ r.lock = lock
              /\ r.deadline = Null \/ (r.deadline \in Nat /\ r.deadline > h)
<1> DEFINE d == TrimDepth[t.outs[j].denom]
           e == NullIfZero(TrimDeadline(t.outs[j].denom, h))
           r == NewRow(<<t.hash, j - 1>>, lock, h, e)
<1>1. e = Null \/ (e \in Nat /\ e > h)
  <2>1. CASE d = 0
    BY <2>1 DEF NullIfZero, TrimDeadline
  <2>2. CASE d # 0
    BY <2>2 DEF NullIfZero, TrimDeadline
  <2> QED BY <2>1, <2>2
<1> HIDE DEF e
<1>2. r.op = <<t.hash, j - 1>> /\ r.created = h /\ r.lock = lock /\ r.deadline = e
  BY DEF NewRow
<1>3. Fresh(r)
  BY DEF NewRow, Fresh
<1>4. OutputRow(t, j, lock, h) = r
  BY DEF OutputRow, e
<1> HIDE DEF r
<1> QED BY <1>1, <1>2, <1>3, <1>4

\* The lock of the outputs of an ETX is a height.
LEMMA EtxLockIsHeight ==
    ASSUME NEW t, IsEtx(t), CreatesOutputs(t), NEW h \in Nat
    PROVE  EtxLock(t, h) \in Nat
<1>1. CASE t.kind = "coinbase"
  <2>1. t.lockup \in 0..3
    BY <1>1 DEF CreatesOutputs
  <2>2. LockDepth[t.lockup] \in Nat
    BY <2>1, LockAssumption
  <2> QED BY <1>1, <2>2 DEF EtxLock
<1>2. CASE t.kind # "coinbase"
  BY <1>2, LockAssumption DEF EtxLock
<1> QED BY <1>1, <1>2

TxRows(t, h) == QiRows(t, h) \cup EtxRows(t, h)

\* Row r is output j of transaction i of block b, inserted by statement m of
\* list k.
MadeAt(b, k, m, i, j, r) ==
    /\ i \in DOMAIN Body[b] /\ j \in DOMAIN Body[b][i].outs
    /\ \/ Body[b][i].kind = "qi" /\ k = i /\ m = Len(Body[b][i].ins) + j
       \/ IsEtx(Body[b][i]) /\ k = Len(Body[b]) + i /\ m = j
    /\ r \in TxRows(Body[b][i], Height[b])
    /\ r.op = <<Body[b][i].hash, j - 1>>
    /\ Fresh(r) /\ r.created = Height[b]
    /\ r.deadline = Null \/ (r.deadline \in Nat /\ r.deadline > Height[b])

\* The transaction that an INSERT belongs to, and its place.
LEMMA Inserting ==
    ASSUME NEW b \in Block, NEW k \in DOMAIN ApplyBlock(b), NEW m \in DOMAIN ApplyBlock(b)[k],
           ApplyBlock(b)[k][m].sql = "insert"
    PROVE  \E i, j : MadeAt(b, k, m, i, j, ApplyBlock(b)[k][m].row)
<1> DEFINE s == ApplyBlock(b)[k][m]
           h == Height[b]
           n == Len(Body[b])
<1>1. h \in Nat
  BY HeightAssumption
<1>2. n \in Nat /\ DOMAIN Body[b] = 1..n /\ \A i \in 1..n : WellFormed(Body[b][i])
  BY BlockLists
<1>3. k \in Nat
  <2>1. DOMAIN ApplyBlock(b) = 1..(2 * n + 1)
    BY BlockLists
  <2> QED BY <1>2, <2>1
<1>4. CASE QiInsertAt(b, k, m, s)
  <2> DEFINE t == Body[b][k]
  <2>1. k \in 1..n /\ t.kind = "qi"
    BY <1>2, <1>4 DEF QiInsertAt
  <2>2. PICK j \in DOMAIN t.outs :
            /\ t.outs[j].qi /\ m = Len(t.ins) + j
            /\ s = [sql |-> "insert", row |-> OutputRow(t, j, t.outs[j].lock, h)]
    BY <1>4 DEF QiInsertAt
  <2>3. s.row = OutputRow(t, j, t.outs[j].lock, h)
    BY <2>2
  <2>4. WellFormed(t) /\ IsQiTx(t)
    BY <1>2, <2>1 DEF IsQiTx
  <2> DEFINE lock == t.outs[j].lock
             r == OutputRow(t, j, lock, h)
  <2>5. lock \in Nat /\ TrimDepth[t.outs[j].denom] \in Nat
    BY <2>4 DEF WellFormed
  <2>6. /\ Fresh(r) /\ r.op = <<t.hash, j - 1>> /\ r.created = h
        /\ r.deadline = Null \/ (r.deadline \in Nat /\ r.deadline > h)
    <3> HIDE DEF t, h, lock
    <3>1. Fresh(r)
      BY <1>1, <2>5, OutputRowFacts
    <3>2. r.op = <<t.hash, j - 1>>
      BY <1>1, <2>5, OutputRowFacts
    <3>3. r.created = h
      BY <1>1, <2>5, OutputRowFacts
    <3>4. r.deadline = Null \/ (r.deadline \in Nat /\ r.deadline > h)
      BY <1>1, <2>5, OutputRowFacts
    <3> QED BY <3>1, <3>2, <3>3, <3>4
  <2>7. r \in TxRows(t, h)
    BY <2>2, <2>4 DEF TxRows, QiRows
  <2> HIDE DEF r, s
  <2>8. MadeAt(b, k, m, k, j, r)
    BY <1>2, <2>1, <2>2, <2>6, <2>7 DEF MadeAt
  <2>9. s.row = r
    BY <2>3 DEF r
  <2> QED BY <2>8, <2>9 DEF s
<1>5. CASE EtxInsertAt(b, k, m, s)
  <2> DEFINE i == k - n
             t == Body[b][i]
             r == OutputRow(t, m, EtxLock(t, h), h)
  <2>1. /\ i \in DOMAIN Body[b] /\ IsEtx(t) /\ CreatesOutputs(t) /\ m \in DOMAIN t.outs
        /\ s = [sql |-> "insert", row |-> r]
    BY <1>5 DEF EtxInsertAt
  <2>2. k = n + i
    BY <1>2, <1>3
  <2>3. s.row = r
    BY <2>1
  <2>4. WellFormed(t)
    BY <1>2, <2>1
  <2>5. EtxLock(t, h) \in Nat /\ TrimDepth[t.outs[m].denom] \in Nat
    BY <1>1, <2>1, <2>4, EtxLockIsHeight DEF WellFormed
  <2>6. /\ Fresh(r) /\ r.op = <<t.hash, m - 1>> /\ r.created = h
        /\ r.deadline = Null \/ (r.deadline \in Nat /\ r.deadline > h)
    <3> HIDE DEF t, h
    <3>1. Fresh(r)
      BY <1>1, <2>5, OutputRowFacts
    <3>2. r.op = <<t.hash, m - 1>>
      BY <1>1, <2>5, OutputRowFacts, SMTT(60)
    <3>3. r.created = h
      BY <1>1, <2>5, OutputRowFacts
    <3>4. r.deadline = Null \/ (r.deadline \in Nat /\ r.deadline > h)
      BY <1>1, <2>5, OutputRowFacts
    <3> QED BY <3>1, <3>2, <3>3, <3>4
  <2>7. r \in TxRows(t, h)
    BY <2>1 DEF TxRows, EtxRows
  <2> HIDE DEF r, s, i
  <2>8. MadeAt(b, k, m, i, m, r)
    BY <2>1, <2>2, <2>6, <2>7 DEF MadeAt
  <2> QED BY <2>3, <2>8 DEF s
<1> QED BY <1>4, <1>5, Kinds

-----------------------------------------------------------------------------
(* What consensus says of two statements of one chain.                     *)

\* s is statement m of list k of block b.
StatementAt(b, k, m, s) ==
    k \in DOMAIN ApplyBlock(b) /\ m \in DOMAIN ApplyBlock(b)[k] /\ s = ApplyBlock(b)[k][m]

\* A transaction occurs once in a chain.
LEMMA SameHash ==
    ASSUME NEW C, ValidChain(C), NEW b \in C, NEW c \in C,
           NEW i \in DOMAIN Body[b], NEW j \in DOMAIN Body[c],
           Body[b][i].hash = Body[c][j].hash
    PROVE  b = c /\ i = j
BY DEF ValidChain

\* An outpoint is an input once in a chain.
LEMMA SameInput ==
    ASSUME NEW C, ValidChain(C), NEW b \in C, NEW c \in C,
           NEW i \in DOMAIN Body[b], NEW j \in DOMAIN Body[c],
           IsQiTx(Body[b][i]), IsQiTx(Body[c][j]),
           NEW x \in DOMAIN Body[b][i].ins, NEW y \in DOMAIN Body[c][j].ins,
           Body[b][i].ins[x] = Body[c][j].ins[y]
    PROVE  b = c /\ i = j /\ x = y
BY DEF ValidChain

\* An output is spent after it is made, and not above its deadline.
LEMMA SpendsOutput ==
    ASSUME NEW C, ValidChain(C), NEW b \in C, NEW c \in C,
           NEW i \in DOMAIN Body[b], NEW j \in DOMAIN Body[c],
           IsQiTx(Body[b][i]), NEW x \in DOMAIN Body[b][i].ins,
           NEW r \in TxRows(Body[c][j], Height[c]), Body[b][i].ins[x] = r.op
    PROVE  /\ Height[c] < Height[b] \/ (b = c /\ j < i /\ IsQiTx(Body[c][j]))
           /\ r.lock = 0 /\ r.deadline # Null => Height[b] <= r.deadline
BY DEF ValidChain, TxRows

\* A chain has one spending statement for an outpoint.
LEMMA SpendOnce ==
    ASSUME NEW C \in SUBSET Block, ValidChain(C), NEW b \in C, NEW c \in C,
           NEW k, NEW m, NEW s, StatementAt(b, k, m, s), s.sql = "spend",
           NEW i, NEW j, NEW x, StatementAt(c, i, j, x), x.sql = "spend", s.op = x.op
    PROVE  b = c /\ k = i /\ m = j
<1>1. SpendAt(b, k, m, s) /\ SpendAt(c, i, j, x)
  BY Kinds DEF StatementAt
<1>2. Body[b][k].ins[m] = Body[c][i].ins[j]
  BY <1>1 DEF SpendAt
<1>3. IsQiTx(Body[b][k]) /\ IsQiTx(Body[c][i])
  BY <1>1 DEF SpendAt, IsQiTx
<1>4. /\ k \in DOMAIN Body[b] /\ m \in DOMAIN Body[b][k].ins
      /\ i \in DOMAIN Body[c] /\ j \in DOMAIN Body[c][i].ins
  BY <1>1 DEF SpendAt
<1> QED BY <1>2, <1>3, <1>4, SameInput

\* A chain has one INSERT for an outpoint.
LEMMA InsertOnce ==
    ASSUME NEW C \in SUBSET Block, ValidChain(C), NEW b \in C, NEW c \in C,
           NEW k, NEW m, NEW s, StatementAt(b, k, m, s), s.sql = "insert",
           NEW i, NEW j, NEW x, StatementAt(c, i, j, x), x.sql = "insert", s.row.op = x.row.op
    PROVE  b = c /\ k = i /\ m = j
<1>1. PICK i1, j1 : MadeAt(b, k, m, i1, j1, s.row)
  BY Inserting DEF StatementAt
<1>2. PICK i2, j2 : MadeAt(c, i, j, i2, j2, x.row)
  BY Inserting DEF StatementAt
<1>3. <<Body[b][i1].hash, j1 - 1>> = <<Body[c][i2].hash, j2 - 1>>
  BY <1>1, <1>2 DEF MadeAt
<1>4. i1 \in DOMAIN Body[b] /\ i2 \in DOMAIN Body[c]
  BY <1>1, <1>2 DEF MadeAt
<1>5. /\ IsQiTx(Body[b][i1]) \/ IsEtx(Body[b][i1])
      /\ IsQiTx(Body[c][i2]) \/ IsEtx(Body[c][i2])
  BY <1>1, <1>2 DEF MadeAt, IsQiTx
<1>6. b = c /\ i1 = i2
  BY <1>3, <1>4, <1>5, SameHash
<1>7. j1 \in Nat /\ j2 \in Nat
  <2>1. WellFormed(Body[b][i1]) /\ WellFormed(Body[c][i2])
    BY <1>4, BodyAssumption
  <2>2. IsSequence(Body[b][i1].outs) /\ IsSequence(Body[c][i2].outs)
    BY <1>5, <2>1 DEF WellFormed
  <2>3. j1 \in DOMAIN Body[b][i1].outs /\ j2 \in DOMAIN Body[c][i2].outs
    BY <1>1, <1>2 DEF MadeAt
  <2> QED BY <2>2, <2>3, SequenceFacts
<1>8. j1 = j2
  BY <1>3, <1>7
<1>9. \/ Body[b][i1].kind = "qi" /\ k = i1 /\ m = Len(Body[b][i1].ins) + j1
      \/ IsEtx(Body[b][i1]) /\ k = Len(Body[b]) + i1 /\ m = j1
  BY <1>1 DEF MadeAt
<1>10. \/ Body[b][i1].kind = "qi" /\ i = i1 /\ j = Len(Body[b][i1].ins) + j1
       \/ IsEtx(Body[b][i1]) /\ i = Len(Body[b]) + i1 /\ j = j1
  BY <1>2, <1>6, <1>8 DEF MadeAt
<1> QED BY <1>6, <1>9, <1>10 DEF IsEtx

\* A chain has one conversion for an outpoint.
LEMMA ConvOnce ==
    ASSUME NEW C \in SUBSET Block, ValidChain(C), NEW b \in C, NEW c \in C,
           NEW k, NEW m, NEW s, StatementAt(b, k, m, s), s.sql = "conv",
           NEW i, NEW j, NEW x, StatementAt(c, i, j, x), x.sql = "conv", s.op = x.op
    PROVE  b = c /\ k = i /\ m = j
<1>1. ConvAt(b, k, m, s) /\ ConvAt(c, i, j, x)
  BY Kinds DEF StatementAt
<1>2. PICK j1 \in DOMAIN Body[b][k].outs :
          m = Len(Body[b][k].ins) + j1 /\ s.op = <<Body[b][k].hash, j1 - 1>>
  BY <1>1 DEF ConvAt
<1>3. PICK j2 \in DOMAIN Body[c][i].outs :
          j = Len(Body[c][i].ins) + j2 /\ x.op = <<Body[c][i].hash, j2 - 1>>
  BY <1>1 DEF ConvAt
<1>4. k \in DOMAIN Body[b] /\ i \in DOMAIN Body[c] /\ IsQiTx(Body[b][k]) /\ IsQiTx(Body[c][i])
  BY <1>1 DEF ConvAt, IsQiTx
<1>5. <<Body[b][k].hash, j1 - 1>> = <<Body[c][i].hash, j2 - 1>>
  BY <1>2, <1>3
<1>6. b = c /\ k = i
  BY <1>4, <1>5, SameHash
<1>7. j1 \in Nat /\ j2 \in Nat
  <2>1. WellFormed(Body[b][k]) /\ WellFormed(Body[c][i])
    BY <1>4, BodyAssumption
  <2>2. IsSequence(Body[b][k].outs) /\ IsSequence(Body[c][i].outs)
    BY <1>4, <2>1 DEF WellFormed
  <2> QED BY <2>2, SequenceFacts
<1>8. j1 = j2
  BY <1>5, <1>7
<1> QED BY <1>2, <1>3, <1>6, <1>8

\* An output is made before it is spent, and spent before it is swept.
LEMMA MadeBeforeSpent ==
    ASSUME NEW C \in SUBSET Block, ValidChain(C), NEW b \in C, NEW c \in C,
           NEW k, NEW m, NEW s, StatementAt(b, k, m, s), s.sql = "spend",
           NEW i, NEW j, NEW x, StatementAt(c, i, j, x), x.sql = "insert", s.op = x.row.op
    PROVE  /\ Height[c] < Height[b] \/ (b = c /\ i < k)
           /\ x.row.lock = 0 /\ x.row.deadline # Null => Height[b] <= x.row.deadline
<1>1. SpendAt(b, k, m, s)
  BY Kinds DEF StatementAt
<1>2. PICK i2, j2 : MadeAt(c, i, j, i2, j2, x.row)
  BY Inserting DEF StatementAt
<1>3. /\ k \in DOMAIN Body[b] /\ IsQiTx(Body[b][k]) /\ m \in DOMAIN Body[b][k].ins
      /\ Body[b][k].ins[m] = x.row.op
  BY <1>1 DEF SpendAt, IsQiTx
<1>4. i2 \in DOMAIN Body[c] /\ x.row \in TxRows(Body[c][i2], Height[c])
  BY <1>2 DEF MadeAt
<1>5. /\ Height[c] < Height[b] \/ (b = c /\ i2 < k /\ IsQiTx(Body[c][i2]))
      /\ x.row.lock = 0 /\ x.row.deadline # Null => Height[b] <= x.row.deadline
  BY <1>3, <1>4, SpendsOutput
<1>6. IsQiTx(Body[c][i2]) => i = i2
  BY <1>2 DEF MadeAt, IsQiTx, IsEtx
<1> QED BY <1>5, <1>6

-----------------------------------------------------------------------------
(* The statements of a block as a set.                                     *)

\* The statements of a block are the ones at its places.
LEMMA InBlock ==
    ASSUME NEW b \in Block, NEW s
    PROVE  s \in BlockStatements[b] <=> \E k, m : StatementAt(b, k, m, s)
BY DEF BlockStatements, StatementAt, ToSet

\* Those that have run are the ones at the places before.
LEMMA InExecuted ==
    ASSUME NEW b, NEW k, NEW m, NEW s
    PROVE  s \in Executed(b, k, m) <=>
               \E i, j : StatementAt(b, i, j, s) /\ i <= k /\ (i < k \/ j < m)
BY DEF Executed, StatementAt

\* Places are natural numbers.
LEMMA Place ==
    ASSUME NEW b \in Block, NEW k, NEW m, NEW s, StatementAt(b, k, m, s)
    PROVE  /\ k \in Nat /\ 1 <= k /\ k <= Len(ApplyBlock(b))
           /\ m \in Nat /\ 1 <= m /\ m <= Len(ApplyBlock(b)[k])
<1> DEFINE n == Len(Body[b])
           lists == ApplyBlock(b)
<1>1. n \in Nat /\ Len(lists) = 2 * n + 1 /\ DOMAIN lists = 1..(2 * n + 1)
  BY BlockLists
<1>2. \A i \in 1..(2 * n + 1) : IsSequence(lists[i])
  BY BlockLists
<1>3. k \in DOMAIN lists /\ m \in DOMAIN lists[k]
  BY DEF StatementAt
<1> HIDE DEF n, lists
<1>4. Len(lists[k]) \in Nat /\ DOMAIN lists[k] = 1..Len(lists[k])
  BY <1>1, <1>2, <1>3, SequenceFacts
<1>5. k \in Nat /\ 1 <= k /\ k <= Len(lists)
  BY <1>1, <1>3
<1>6. m \in Nat /\ 1 <= m /\ m <= Len(lists[k])
  BY <1>3, <1>4
<1> QED BY <1>5, <1>6 DEF lists

\* Nothing has run when applyBlock begins.
LEMMA ExecutedNone ==
    ASSUME NEW b \in Block
    PROVE  Executed(b, 1, 1) = {}
<1>1. ASSUME NEW s, NEW i, NEW j, StatementAt(b, i, j, s), i <= 1, i < 1 \/ j < 1
      PROVE  FALSE
  <2>1. i \in Nat /\ 1 <= i /\ j \in Nat /\ 1 <= j
    BY <1>1, Place
  <2> QED BY <1>1, <2>1
<1>2. ASSUME NEW s \in Executed(b, 1, 1) PROVE FALSE
  BY <1>1, InExecuted
<1> QED BY <1>2

\* A statement more.
LEMMA ExecutedStep ==
    ASSUME NEW b \in Block, NEW k, NEW m, NEW s, StatementAt(b, k, m, s)
    PROVE  Executed(b, k, m + 1) = Executed(b, k, m) \cup {s}
<1>1. k \in Nat /\ m \in Nat
  BY Place
<1>2. ASSUME NEW x \in Executed(b, k, m + 1) PROVE x \in Executed(b, k, m) \cup {s}
  <2>1. PICK i, j : StatementAt(b, i, j, x) /\ i <= k /\ (i < k \/ j < m + 1)
    BY InExecuted
  <2>2. i \in Nat /\ j \in Nat
    BY <2>1, Place
  <2>3. CASE i < k \/ j < m
    BY <2>1, <2>3, InExecuted
  <2>4. CASE i = k /\ j = m
    BY <2>1, <2>4 DEF StatementAt
  <2> QED BY <1>1, <2>1, <2>2, <2>3, <2>4
<1>3. ASSUME NEW x \in Executed(b, k, m) PROVE x \in Executed(b, k, m + 1)
  <2>1. PICK i, j : StatementAt(b, i, j, x) /\ i <= k /\ (i < k \/ j < m)
    BY InExecuted
  <2>2. i \in Nat /\ j \in Nat
    BY <2>1, Place
  <2>3. i < k \/ j < m + 1
    BY <1>1, <2>1, <2>2
  <2> QED BY <2>1, <2>3, InExecuted
<1>4. s \in Executed(b, k, m + 1)
  <2>1. k <= k /\ m < m + 1
    BY <1>1
  <2> QED BY <2>1, InExecuted
<1> QED BY <1>2, <1>3, <1>4

\* The loop over the transactions moves on.
LEMMA ExecutedNextList ==
    ASSUME NEW b \in Block, NEW k \in DOMAIN ApplyBlock(b), NEW m, m = Len(ApplyBlock(b)[k]) + 1
    PROVE  Executed(b, k + 1, 1) = Executed(b, k, m)
<1> DEFINE l == Len(ApplyBlock(b)[k])
<1>1. k \in Nat /\ l \in Nat
  <2> DEFINE n == Len(Body[b])
             lists == ApplyBlock(b)
  <2>1. n \in Nat /\ DOMAIN lists = 1..(2 * n + 1)
    BY BlockLists
  <2>2. \A i \in 1..(2 * n + 1) : IsSequence(lists[i])
    BY BlockLists
  <2> HIDE DEF n
  <2> QED BY <2>1, <2>2, SequenceFacts
<1>2. ASSUME NEW x \in Executed(b, k + 1, 1) PROVE x \in Executed(b, k, m)
  <2>1. PICK i, j : StatementAt(b, i, j, x) /\ i <= k + 1 /\ (i < k + 1 \/ j < 1)
    BY InExecuted
  <2>2. i \in Nat /\ j \in Nat /\ 1 <= j /\ j <= Len(ApplyBlock(b)[i])
    BY <2>1, Place
  <2>3. i <= k
    BY <1>1, <2>1, <2>2
  <2>4. i = k => j <= l
    BY <2>2
  <2> HIDE DEF l
  <2>5. i < k \/ j < l + 1
    BY <1>1, <2>2, <2>3, <2>4
  <2>6. m = l + 1
    BY DEF l
  <2> QED BY <2>1, <2>3, <2>5, <2>6, InExecuted
<1>3. ASSUME NEW x \in Executed(b, k, m) PROVE x \in Executed(b, k + 1, 1)
  <2>1. PICK i, j : StatementAt(b, i, j, x) /\ i <= k
    BY InExecuted
  <2>2. i \in Nat
    BY <2>1, Place
  <2>3. i <= k + 1 /\ i < k + 1
    BY <1>1, <2>1, <2>2
  <2> QED BY <2>1, <2>3, InExecuted
<1> QED BY <1>2, <1>3

\* All has run when the loop ends.
LEMMA ExecutedAll ==
    ASSUME NEW b \in Block, NEW k, k = Len(ApplyBlock(b)) + 1
    PROVE  Executed(b, k, 1) = BlockStatements[b]
<1> DEFINE l == Len(ApplyBlock(b))
<1>1. l \in Nat
  BY BlockLists, SequenceFacts
<1>2. ASSUME NEW x \in BlockStatements[b] PROVE x \in Executed(b, k, 1)
  <2>1. PICK i, j : StatementAt(b, i, j, x)
    BY InBlock
  <2>2. i \in Nat /\ i <= l
    BY <2>1, Place
  <2> HIDE DEF l
  <2>3. i <= l + 1 /\ i < l + 1
    BY <1>1, <2>2
  <2> QED BY <2>1, <2>3, InExecuted DEF l
<1>3. ASSUME NEW x \in Executed(b, k, 1) PROVE x \in BlockStatements[b]
  BY InExecuted, InBlock
<1> QED BY <1>2, <1>3

-----------------------------------------------------------------------------
(* The statements of a chain.                                              *)

\* What is in the way of s, statement m of list k of block b: x stands in a
\* lower block of C, or before s in b.
EarlierIn(C, b, k, m, c, i, j) ==
    \/ c \in C /\ Height[c] < Height[b]
    \/ c = b /\ i <= k /\ (i < k \/ j < m)

\* The statements of a chain are the ones at the places of its blocks.
LEMMA InChain ==
    ASSUME NEW C \in SUBSET Block, NEW x
    PROVE  x \in ChainStatements(C) <=> \E c \in C : \E i, j : StatementAt(c, i, j, x)
BY InBlock DEF ChainStatements

\* A block taken out of a chain.
LEMMA ChainSplit ==
    ASSUME NEW C, NEW b \in C
    PROVE  ChainStatements(C) = ChainStatements(C \ {b}) \cup BlockStatements[b]
BY DEF ChainStatements

\* Facts about each statement of a block.
LEMMA StatementFacts ==
    ASSUME NEW b \in Block, NEW k, NEW m, NEW s, StatementAt(b, k, m, s)
    PROVE  /\ s.sql \in {"spend", "insert", "conv", "sweep", "fail"}
           /\ s.sql \in {"spend", "conv", "sweep"} => s.h = Height[b]
           /\ s.sql = "insert" =>
                  /\ Fresh(s.row) /\ s.row.created = Height[b]
                  /\ s.row.deadline = Null \/ (s.row.deadline \in Nat /\ s.row.deadline > Height[b])
<1>1. s.sql \in {"spend", "insert", "conv", "sweep", "fail"}
  BY Kinds DEF StatementAt
<1>2. s.sql = "spend" => s.h = Height[b]
  <2>1. s.sql = "spend" => SpendAt(b, k, m, s)
    BY Kinds DEF StatementAt
  <2> QED BY <2>1 DEF SpendAt
<1>3. s.sql = "conv" => s.h = Height[b]
  <2>1. s.sql = "conv" => ConvAt(b, k, m, s)
    BY Kinds DEF StatementAt
  <2> QED BY <2>1 DEF ConvAt
<1>4. s.sql = "sweep" => s.h = Height[b]
  <2>1. s.sql = "sweep" => SweepAt(b, k, m, s)
    BY Kinds DEF StatementAt
  <2> QED BY <2>1 DEF SweepAt
<1>5. ASSUME s.sql = "insert"
      PROVE  /\ Fresh(s.row) /\ s.row.created = Height[b]
             /\ s.row.deadline = Null \/ (s.row.deadline \in Nat /\ s.row.deadline > Height[b])
  <2>1. PICK i, j : MadeAt(b, k, m, i, j, s.row)
    BY <1>5, Inserting DEF StatementAt
  <2> QED BY <2>1 DEF MadeAt
<1> QED BY <1>1, <1>2, <1>3, <1>4, <1>5

\* Facts about a set of statements of a chain.
LEMMA SomeOfChain ==
    ASSUME NEW C \in SUBSET Block, NEW D, D \subseteq ChainStatements(C)
    PROVE  Timed(D) /\ \A q \in RowsIn(D) : Fresh(q)
<1>1. ASSUME NEW x \in D, x.sql \in {"spend", "sweep"} PROVE x.h # Null
  <2>1. PICK c \in C : \E i, j : StatementAt(c, i, j, x)
    BY InChain
  <2>2. x.h = Height[c]
    BY <1>1, <2>1, StatementFacts
  <2> QED BY <2>2, HeightAssumption DEF Null
<1>2. ASSUME NEW q \in RowsIn(D) PROVE Fresh(q)
  <2>1. PICK x \in D : x.sql = "insert" /\ q = x.row
    BY DEF RowsIn
  <2>2. PICK c \in C : \E i, j : StatementAt(c, i, j, x)
    BY InChain
  <2> QED BY <2>1, <2>2, StatementFacts
<1> QED BY <1>1, <1>2 DEF Timed

\* Where the statements that have run stand.
LEMMA RanBefore ==
    ASSUME NEW C \in SUBSET Block, NEW b \in C, \A c \in C \ {b} : Height[c] < Height[b],
           NEW k, NEW m, NEW x \in ChainStatements(C \ {b}) \cup Executed(b, k, m)
    PROVE  \E c \in C : \E i, j : StatementAt(c, i, j, x) /\ EarlierIn(C, b, k, m, c, i, j)
<1>1. CASE x \in ChainStatements(C \ {b})
  <2>1. PICK c \in C \ {b} : \E i, j : StatementAt(c, i, j, x)
    BY <1>1, InChain
  <2> QED BY <2>1 DEF EarlierIn
<1>2. CASE x \in Executed(b, k, m)
  <2>1. PICK i, j : StatementAt(b, i, j, x) /\ i <= k /\ (i < k \/ j < m)
    BY <1>2, InExecuted
  <2> QED BY <2>1 DEF EarlierIn
<1> QED BY <1>1, <1>2

\* A statement is not in its own way, and neither is one of a later list of
\* its block, or of a higher one.
LEMMA NotEarlier ==
    ASSUME NEW C \in SUBSET Block, NEW b \in C, NEW c \in C, NEW k \in Nat, NEW m \in Nat,
           NEW i \in Nat, NEW j, EarlierIn(C, b, k, m, c, i, j)
    PROVE  /\ ~(c = b /\ i = k /\ j = m)
           /\ ~(Height[b] < Height[c]) /\ Height[c] <= Height[b]
           /\ ~(c = b /\ k < i)
<1>1. Height[b] \in Nat /\ Height[c] \in Nat
  BY HeightAssumption
<1>2. CASE Height[c] < Height[b]
  BY <1>1, <1>2
<1>3. CASE c = b /\ i <= k /\ (i < k \/ j < m)
  BY <1>1, <1>3
<1> QED BY <1>2, <1>3 DEF EarlierIn

-----------------------------------------------------------------------------
(* applyBlock, statement by statement: b is the highest block of C, and D  *)
(* what has run before statement s of b.                                   *)

\* An INSERT finds no row of its key: the outpoint is new to the chain.
LEMMA DecodeInsert ==
    ASSUME NEW C \in SUBSET Block, ValidChain(C), NEW b \in C, \A c \in C \ {b} : Height[c] < Height[b],
           NEW k, NEW m, NEW s, StatementAt(b, k, m, s), s.sql = "insert",
           NEW D, D = ChainStatements(C \ {b}) \cup Executed(b, k, m), D \subseteq ChainStatements(C)
    PROVE  Insert(UtxosOf(D), s.row) = UtxosOf(D \cup {s})
<1>1. k \in Nat /\ m \in Nat
  BY Place
<1>2. ASSUME NEW x \in D
      PROVE  \E c \in C : \E i, j : StatementAt(c, i, j, x) /\ i \in Nat /\ EarlierIn(C, b, k, m, c, i, j)
  <2>1. PICK c \in C : \E i, j : StatementAt(c, i, j, x) /\ EarlierIn(C, b, k, m, c, i, j)
    BY RanBefore
  <2> QED BY <2>1, Place
<1>3. \A q \in RowsIn(D) : Fresh(q)
  BY SomeOfChain
<1>4. ASSUME NEW q \in RowsIn(D), q.op = s.row.op PROVE FALSE
  <2>1. PICK x \in D : x.sql = "insert" /\ q = x.row
    BY DEF RowsIn
  <2>2. PICK c, i, j : c \in C /\ StatementAt(c, i, j, x) /\ i \in Nat /\ EarlierIn(C, b, k, m, c, i, j)
    BY <1>2
  <2>3. b = c /\ k = i /\ m = j
    BY <1>4, <2>1, <2>2, InsertOnce
  <2> QED BY <1>1, <2>2, <2>3, NotEarlier
<1>5. ASSUME NEW x \in SpendsOf(s.row.op, D) PROVE FALSE
  <2>1. x \in D /\ x.sql = "spend" /\ x.op = s.row.op
    BY DEF SpendsOf
  <2>2. PICK c, i, j : c \in C /\ StatementAt(c, i, j, x) /\ i \in Nat /\ EarlierIn(C, b, k, m, c, i, j)
    BY <1>2, <2>1
  <2>3. Height[b] < Height[c] \/ (c = b /\ k < i)
    BY <2>1, <2>2, MadeBeforeSpent
  <2> QED BY <1>1, <2>2, <2>3, NotEarlier
<1>6. ASSUME DueIn(s.row, D) PROVE FALSE
  <2>1. PICK x \in D : x.sql = "sweep" /\ x.h = s.row.deadline
    BY <1>6 DEF DueIn
  <2>2. PICK c, i, j : c \in C /\ StatementAt(c, i, j, x) /\ i \in Nat /\ EarlierIn(C, b, k, m, c, i, j)
    BY <1>2
  <2>3. x.h = Height[c]
    BY <2>1, <2>2, StatementFacts
  <2>4. Height[c] <= Height[b]
    BY <1>1, <2>2, NotEarlier
  <2>5. s.row.deadline = Null \/ (s.row.deadline \in Nat /\ s.row.deadline > Height[b])
    BY StatementFacts
  <2>6. Height[b] \in Nat /\ Height[c] \in Nat
    BY <2>2, HeightAssumption
  <2> QED BY <2>1, <2>3, <2>4, <2>5, <2>6 DEF Null
<1>7. SpendsOf(s.row.op, D) = {}
  BY <1>5
<1> QED BY <1>3, <1>4, <1>6, <1>7, InsertAdds

\* A spend finds its row live: it is not spent yet, and the sweep of its deadline has not run.
LEMMA DecodeSpend ==
    ASSUME NEW C \in SUBSET Block, ValidChain(C), NEW b \in C, \A c \in C \ {b} : Height[c] < Height[b],
           NEW k, NEW m, NEW s, StatementAt(b, k, m, s), s.sql = "spend",
           NEW D, D = ChainStatements(C \ {b}) \cup Executed(b, k, m), D \subseteq ChainStatements(C)
    PROVE  MarkSpent(UtxosOf(D), s.op, s.h, s.tx) = UtxosOf(D \cup {s})
<1>1. k \in Nat /\ m \in Nat
  BY Place
<1>2. ASSUME NEW x \in D
      PROVE  \E c \in C : \E i, j : StatementAt(c, i, j, x) /\ i \in Nat /\ EarlierIn(C, b, k, m, c, i, j)
  <2>1. PICK c \in C : \E i, j : StatementAt(c, i, j, x) /\ EarlierIn(C, b, k, m, c, i, j)
    BY RanBefore
  <2> QED BY <2>1, Place
<1>3. \A q \in RowsIn(D) : Fresh(q)
  BY SomeOfChain
<1>4. ASSUME NEW x \in SpendsOf(s.op, D) PROVE FALSE
  <2>1. x \in D /\ x.sql = "spend" /\ x.op = s.op
    BY DEF SpendsOf
  <2>2. PICK c, i, j : c \in C /\ StatementAt(c, i, j, x) /\ i \in Nat /\ EarlierIn(C, b, k, m, c, i, j)
    BY <1>2, <2>1
  <2>3. b = c /\ k = i /\ m = j
    BY <2>1, <2>2, SpendOnce
  <2> QED BY <1>1, <2>2, <2>3, NotEarlier
<1>5. s.h # Null
  BY StatementFacts, HeightAssumption DEF Null
<1>6. ASSUME NEW q \in RowsIn(D), q.op = s.op, DueIn(q, D) PROVE FALSE
  <2>1. PICK x \in D : x.sql = "insert" /\ q = x.row
    BY DEF RowsIn
  <2>2. PICK c, i, j : c \in C /\ StatementAt(c, i, j, x)
    BY <1>2
  <2>3. q.lock = 0 /\ q.deadline # Null => Height[b] <= q.deadline
    BY <1>6, <2>1, <2>2, MadeBeforeSpent
  <2>4. PICK y \in D : q.lock = 0 /\ y.sql = "sweep" /\ y.h = q.deadline
    BY <1>6 DEF DueIn
  <2>5. PICK d, i2, j2 :
            d \in C /\ StatementAt(d, i2, j2, y) /\ i2 \in Nat /\ EarlierIn(C, b, k, m, d, i2, j2)
    BY <1>2
  <2>6. q.deadline = Height[d]
    BY <2>4, <2>5, StatementFacts
  <2>7. Height[d] \in Nat /\ Height[b] \in Nat
    BY <2>5, HeightAssumption
  <2>8. Height[b] <= Height[d]
    BY <2>3, <2>4, <2>6, <2>7 DEF Null
  <2>9. d = b
    BY <2>5, <2>7, <2>8
  <2>10. SweepAt(b, i2, j2, y)
    BY <2>4, <2>5, <2>9, Kinds DEF StatementAt
  <2>11. SpendAt(b, k, m, s)
    BY Kinds DEF StatementAt
  <2> DEFINE n == Len(Body[b])
  <2>12. n \in Nat /\ k \in 1..n /\ i2 = 2 * n + 1
    BY <2>10, <2>11, BlockLists DEF SpendAt, SweepAt
  <2> HIDE DEF n
  <2>13. k < i2
    BY <2>12
  <2> QED BY <1>1, <2>5, <2>9, <2>13, NotEarlier
<1>7. \A q \in RowsIn(D) : \A x \in SpendsOf(q.op, D) : x.h # Null
  BY SomeOfChain DEF Timed, SpendsOf
<1>8. SpendsOf(s.op, D) = {}
  BY <1>4
<1> QED BY <1>3, <1>5, <1>6, <1>7, <1>8, SpendMarks

\* A conversion finds no row of its outpoint.
LEMMA DecodeConv ==
    ASSUME NEW C \in SUBSET Block, ValidChain(C), NEW b \in C, \A c \in C \ {b} : Height[c] < Height[b],
           NEW k, NEW m, NEW s, StatementAt(b, k, m, s), s.sql = "conv",
           NEW D, D = ChainStatements(C \ {b}) \cup Executed(b, k, m)
    PROVE  InsertConv(ConvsOf(D), s.op, s.h) = ConvsOf(D \cup {s})
<1>1. k \in Nat /\ m \in Nat
  BY Place
<1>2. ASSUME NEW x \in D, x.sql = "conv", x.op = s.op PROVE FALSE
  <2>1. PICK c, i, j : c \in C /\ StatementAt(c, i, j, x) /\ EarlierIn(C, b, k, m, c, i, j)
    BY RanBefore
  <2>2. i \in Nat
    BY <2>1, Place
  <2>3. b = c /\ k = i /\ m = j
    BY <1>2, <2>1, ConvOnce
  <2> QED BY <1>1, <2>1, <2>2, <2>3, NotEarlier
<1> QED BY <1>2, ConvAdds

\* e has the spine of d and holds what statements E lead to.
Decodes(d, e, E) == IsDb(e) /\ Holds(e, E) /\ e.blocks = d.blocks /\ e.tip = d.tip

\* One statement of applyBlock takes the tables one statement further.
LEMMA DecodeStep ==
    ASSUME NEW C \in SUBSET Block, ValidChain(C), NEW b \in C, \A c \in C \ {b} : Height[c] < Height[b],
           NEW k, NEW m, NEW s, StatementAt(b, k, m, s), s.sql # "fail",
           NEW D, D = ChainStatements(C \ {b}) \cup Executed(b, k, m),
           NEW d, IsDb(d), Holds(d, D)
    PROVE  Decodes(d, Exec(d, s), D \cup {s})
<1> DEFINE e == Exec(d, s)
           E == D \cup {s}
<1>1. D \subseteq ChainStatements(C)
  <2>1. ChainStatements(C) = ChainStatements(C \ {b}) \cup BlockStatements[b]
    BY ChainSplit
  <2>2. Executed(b, k, m) \subseteq BlockStatements[b]
    BY InExecuted, InBlock
  <2> QED BY <2>1, <2>2
<1>2. Decodable(E)
  BY DEF Holds, Decodable
<1>3. d.utxos = UtxosOf(D) /\ d.convs = ConvsOf(D)
  BY DEF Holds
<1>4. SUFFICES e = [utxos |-> UtxosOf(E), convs |-> ConvsOf(E), blocks |-> d.blocks, tip |-> d.tip]
  BY <1>2 DEF IsDb, Holds, Decodes
<1>5. d = [utxos |-> UtxosOf(D), convs |-> ConvsOf(D), blocks |-> d.blocks, tip |-> d.tip]
  BY <1>3 DEF IsDb
<1>6. CASE s.sql = "insert"
  <2>1. e = [d EXCEPT !.utxos = Insert(@, s.row)]
    BY <1>6 DEF Exec
  <2>2. Insert(UtxosOf(D), s.row) = UtxosOf(E)
    BY <1>1, <1>6, DecodeInsert, SMTT(30)
  <2>3. ConvsOf(E) = ConvsOf(D)
    BY <1>6, ConvsSame
  <2> HIDE DEF E, e
  <2> QED BY <1>3, <1>5, <2>1, <2>2, <2>3
<1>7. CASE s.sql = "spend"
  <2>1. e = [d EXCEPT !.utxos = MarkSpent(@, s.op, s.h, s.tx)]
    BY <1>7 DEF Exec
  <2>2. MarkSpent(UtxosOf(D), s.op, s.h, s.tx) = UtxosOf(E)
    BY <1>1, <1>7, DecodeSpend
  <2>3. ConvsOf(E) = ConvsOf(D)
    BY <1>7, ConvsSame
  <2> HIDE DEF E, e
  <2> QED BY <1>3, <1>5, <2>1, <2>2, <2>3
<1>8. CASE s.sql = "sweep"
  <2>1. e = [d EXCEPT !.utxos = SweepTrims(@, s.h)]
    BY <1>8 DEF Exec
  <2>2. s.h # Null
    BY <1>8, StatementFacts, HeightAssumption DEF Null
  <2>3. SweepTrims(UtxosOf(D), s.h) = UtxosOf(E)
    BY <1>1, <1>8, <2>2, SomeOfChain, SweepTrimsDue
  <2>4. ConvsOf(E) = ConvsOf(D)
    BY <1>8, ConvsSame
  <2> HIDE DEF E, e
  <2> QED BY <1>3, <1>5, <2>1, <2>3, <2>4
<1>9. CASE s.sql = "conv"
  <2>1. e = [d EXCEPT !.convs = InsertConv(@, s.op, s.h)]
    BY <1>9 DEF Exec
  <2>2. InsertConv(ConvsOf(D), s.op, s.h) = ConvsOf(E)
    BY <1>9, DecodeConv
  <2>3. UtxosOf(E) = UtxosOf(D)
    BY <1>9, UtxosSame
  <2> HIDE DEF E, e
  <2> QED BY <1>3, <1>5, <2>1, <2>2, <2>3
<1>10. s.sql \in {"spend", "insert", "conv", "sweep"}
  BY StatementFacts
<1> QED BY <1>6, <1>7, <1>8, <1>9, <1>10

-----------------------------------------------------------------------------
(* rollbackBlock takes the tables back to those of the chain below.        *)

\* rollbackBlock leads from the tables of a chain to those of the chain below its last block.
LEMMA UndoBlock ==
    ASSUME NEW C \in SUBSET Block, ValidChain(C), NEW b \in C, \A c \in C \ {b} : Height[c] < Height[b]
    PROVE  LET h == Height[b]
               D == ChainStatements(C \ {b})
               F == ChainStatements(C)
           IN /\ UtxosUndone(UtxosOf(F), h, 3) = UtxosOf(D)
              /\ ConvsUndone(ConvsOf(F), h, 4) = ConvsOf(D)
<1> DEFINE h == Height[b]
           D == ChainStatements(C \ {b})
           E == BlockStatements[b]
           F == ChainStatements(C)
<1>1. F = D \cup E
  BY ChainSplit
<1>2. h \in Nat /\ h # Null
  BY HeightAssumption DEF Null
<1>3. ASSUME NEW x \in D
      PROVE  /\ x.sql \in {"spend", "sweep", "conv"} => x.h # h
             /\ x.sql = "insert" => x.row.created # h
  <2>1. PICK c, i, j : c \in C \ {b} /\ StatementAt(c, i, j, x)
    BY InChain
  <2>2. Height[c] # h
    BY <2>1, <1>2, HeightAssumption
  <2> QED BY <2>1, <2>2, StatementFacts
<1>4. ASSUME NEW x \in E
      PROVE  /\ x.sql \in {"spend", "sweep", "conv"} => x.h = h
             /\ x.sql = "insert" => x.row.created = h
  BY InBlock, StatementFacts
<1>5. Timed(F) /\ \A q \in RowsIn(F) : Fresh(q)
  BY SomeOfChain
<1>6. Timed(D)
  BY <1>1, <1>5 DEF Timed
<1>7. \A q \in RowsIn(D) : Fresh(q) /\ q.created # h
  BY <1>1, <1>3, <1>5 DEF RowsIn
<1>8. \A q \in RowsIn(E) : Fresh(q) /\ q.created = h
  BY <1>1, <1>4, <1>5 DEF RowsIn
<1>9. ASSUME NEW x \in D \cup E, NEW y \in D \cup E, x.sql = "spend", y.sql = "spend", x.op = y.op
      PROVE  x = y
  <2>1. PICK c, i, j : c \in C /\ StatementAt(c, i, j, x)
    BY <1>1, InChain
  <2>2. PICK d, i2, j2 : d \in C /\ StatementAt(d, i2, j2, y)
    BY <1>1, InChain
  <2>3. c = d /\ i = i2 /\ j = j2
    BY <1>9, <2>1, <2>2, SpendOnce
  <2> QED BY <2>1, <2>2, <2>3 DEF StatementAt
<1>10. ASSUME NEW q \in RowsIn(D), NEW s \in SpendsOf(q.op, E), DueIn(q, D) PROVE FALSE
  <2>1. PICK k, m : StatementAt(b, k, m, s) /\ s.sql = "spend" /\ s.op = q.op
    BY InBlock DEF SpendsOf
  <2>2. PICK x \in D : x.sql = "insert" /\ q = x.row
    BY DEF RowsIn
  <2>3. PICK c, i, j : c \in C /\ StatementAt(c, i, j, x)
    BY <1>1, InChain
  <2>4. q.lock = 0 /\ q.deadline # Null => Height[b] <= q.deadline
    BY <2>1, <2>2, <2>3, MadeBeforeSpent
  <2>5. PICK y \in D : q.lock = 0 /\ y.sql = "sweep" /\ y.h = q.deadline
    BY <1>10 DEF DueIn
  <2>6. PICK d, i2, j2 : d \in C \ {b} /\ StatementAt(d, i2, j2, y)
    BY InChain
  <2>7. q.deadline = Height[d]
    BY <2>5, <2>6, StatementFacts
  <2>8. Height[d] \in Nat /\ Height[d] < Height[b]
    BY <2>6, HeightAssumption
  <2> QED BY <1>2, <2>4, <2>5, <2>7, <2>8 DEF Null
<1> HIDE DEF D, E, F, h
<1>11. UtxosUndone(UtxosOf(D \cup E), h, 3) = UtxosOf(D)
  BY <1>2, <1>3, <1>4, <1>6, <1>7, <1>8, <1>9, <1>10, UndoneUtxos
<1>12. ConvsUndone(ConvsOf(D \cup E), h, 4) = ConvsOf(D)
  BY <1>3, <1>4, UndoneConvs
<1> QED BY <1>1, <1>11, <1>12 DEF D, F, h

-----------------------------------------------------------------------------
(* The statements applyBlock has for what the body of a block says.        *)

\* The spends come first.
LEMMA SpendsFirst ==
    ASSUME NEW t, WellFormed(t), IsQiTx(t), NEW h, NEW u, u = SpendAndCreate(t, h)
    PROVE  \A x \in 1..Len(t.ins) : u[x] = [sql |-> "spend", op |-> t.ins[x], h |-> h, tx |-> t.hash]
<1> DEFINE Spend(x) == [sql |-> "spend", op |-> t.ins[x], h |-> h, tx |-> t.hash]
<1>1. \A x \in 1..Len(t.ins) : SpendAndCreate(t, h)[x] = Spend(x)
  BY SpendAndCreateList, ZenonT(60)
<1> QED BY <1>1

\* The statements of a Qi transaction stand where its list has them.
LEMMA QiPlaces ==
    ASSUME NEW b \in Block, NEW i \in DOMAIN Body[b], Body[b][i].kind = "qi"
    PROVE  LET t == Body[b][i]
               h == Height[b]
               n == Len(t.ins)
           IN /\ \A x \in DOMAIN t.ins :
                     StatementAt(b, i, x, [sql |-> "spend", op |-> t.ins[x], h |-> h, tx |-> t.hash])
              /\ \A j \in DOMAIN t.outs :
                     IF t.outs[j].qi
                     THEN StatementAt(b, i, n + j, [sql |-> "insert", row |-> OutputRow(t, j, t.outs[j].lock, h)])
                     ELSE StatementAt(b, i, n + j, [sql |-> "conv", op |-> <<t.hash, j - 1>>, h |-> h])
<1> DEFINE t == Body[b][i]
           h == Height[b]
           n == Len(t.ins)
           o == Len(t.outs)
           l == ApplyBlock(b)[i]
<1>1. i \in DOMAIN ApplyBlock(b) /\ WellFormed(t)
  <2> DEFINE z == Len(Body[b])
  <2>1. z \in Nat /\ DOMAIN Body[b] = 1..z /\ DOMAIN ApplyBlock(b) = 1..(2 * z + 1)
    BY BlockLists
  <2>2. \A k \in 1..z : WellFormed(Body[b][k])
    BY BlockLists
  <2> HIDE DEF z
  <2> QED BY <2>1, <2>2
<1>2. IsQiTx(t) /\ ~Refused(t)
  BY DEF IsQiTx, Refused
<1>3. l = SpendAndCreate(t, h)
  <2>1. l = IF IsQiTx(t) THEN QiStatements(t, h) ELSE <<>>
    BY BlockLists
  <2> QED BY <1>2, <2>1 DEF QiStatements
<1>4. n \in Nat /\ DOMAIN t.ins = 1..n /\ o \in Nat /\ DOMAIN t.outs = 1..o
  BY <1>1, <1>2, SequenceFacts DEF WellFormed
<1> DEFINE u == SpendAndCreate(t, h)
<1> HIDE DEF t, h
<1>5. IsSequence(l) /\ Len(l) = n + o
  <2>1. IsSequence(u)
    BY <1>1, <1>2, SpendAndCreateList
  <2>2. Len(u) = n + o
    BY <1>1, <1>2, SpendAndCreateList
  <2> QED BY <1>3, <2>1, <2>2
<1>6. DOMAIN l = 1..(n + o)
  BY <1>5, SequenceFacts
<1>7. \A x \in 1..n : l[x] = [sql |-> "spend", op |-> t.ins[x], h |-> h, tx |-> t.hash]
  BY <1>1, <1>2, <1>3, SpendsFirst
<1>8. \A j \in 1..o :
          l[n + j] = IF t.outs[j].qi
                     THEN [sql |-> "insert", row |-> OutputRow(t, j, t.outs[j].lock, h)]
                     ELSE [sql |-> "conv", op |-> <<t.hash, j - 1>>, h |-> h]
  <2>1. \A j \in 1..o :
            u[n + j] = IF InQiScope(t.outs[j])
                       THEN [sql |-> "insert", row |-> OutputRow(t, j, t.outs[j].lock, h)]
                       ELSE [sql |-> "conv", op |-> <<t.hash, j - 1>>, h |-> h]
    BY <1>1, <1>2, SpendAndCreateList, ZenonT(60)
  <2> HIDE DEF n, o
  <2> QED BY <1>3, <2>1 DEF InQiScope
<1> HIDE DEF n, o
<1>9. ASSUME NEW x \in DOMAIN t.ins
      PROVE  StatementAt(b, i, x, [sql |-> "spend", op |-> t.ins[x], h |-> h, tx |-> t.hash])
  <2>1. x \in DOMAIN l
    BY <1>4, <1>6
  <2>2. l[x] = [sql |-> "spend", op |-> t.ins[x], h |-> h, tx |-> t.hash]
    BY <1>4, <1>7
  <2> QED BY <1>1, <2>1, <2>2 DEF StatementAt
<1>10. ASSUME NEW j \in DOMAIN t.outs
       PROVE  IF t.outs[j].qi
              THEN StatementAt(b, i, n + j, [sql |-> "insert", row |-> OutputRow(t, j, t.outs[j].lock, h)])
              ELSE StatementAt(b, i, n + j, [sql |-> "conv", op |-> <<t.hash, j - 1>>, h |-> h])
  <2>1. n + j \in DOMAIN l
    BY <1>4, <1>6
  <2>2. StatementAt(b, i, n + j, l[n + j])
    BY <1>1, <2>1 DEF StatementAt
  <2>3. l[n + j] = IF t.outs[j].qi
                   THEN [sql |-> "insert", row |-> OutputRow(t, j, t.outs[j].lock, h)]
                   ELSE [sql |-> "conv", op |-> <<t.hash, j - 1>>, h |-> h]
    BY <1>4, <1>8
  <2> HIDE DEF l
  <2> QED BY <2>2, <2>3
<1> QED BY <1>9, <1>10 DEF t, h, n

\* So do those of an ETX.
LEMMA EtxPlaces ==
    ASSUME NEW b \in Block, NEW i \in DOMAIN Body[b], IsEtx(Body[b][i]), CreatesOutputs(Body[b][i])
    PROVE  \A j \in DOMAIN Body[b][i].outs :
               StatementAt(b, Len(Body[b]) + i, j,
                   [sql |-> "insert",
                    row |-> OutputRow(Body[b][i], j, EtxLock(Body[b][i], Height[b]), Height[b])])
<1> DEFINE t == Body[b][i]
           h == Height[b]
           z == Len(Body[b])
           l == ApplyBlock(b)[z + i]
<1>1. z \in Nat /\ DOMAIN Body[b] = 1..z /\ DOMAIN ApplyBlock(b) = 1..(2 * z + 1)
  BY BlockLists
<1>2. WellFormed(t)
  BY BlockLists
<1>3. z + i \in DOMAIN ApplyBlock(b)
  <2> HIDE DEF z
  <2> QED BY <1>1
<1>4. l = EtxStatements(t, h)
  <2>1. l = IF IsEtx(t) THEN EtxStatements(t, h) ELSE <<>>
    BY BlockLists
  <2> QED BY <2>1
<1> HIDE DEF t, h, z
<1>5. Len(l) = Len(t.outs) /\ IsSequence(l)
  BY <1>2, <1>4, EtxList DEF t
<1>6. \A j \in 1..Len(t.outs) : l[j] = [sql |-> "insert", row |-> OutputRow(t, j, EtxLock(t, h), h)]
  BY <1>2, <1>4, EtxList DEF t
<1>7. DOMAIN t.outs = 1..Len(t.outs)
  BY <1>2, SequenceFacts DEF t, WellFormed
<1>8. DOMAIN l = DOMAIN t.outs
  BY <1>5, <1>7, SequenceFacts
<1> QED BY <1>3, <1>6, <1>7, <1>8 DEF StatementAt, t, h, z, l

\* Every block has a sweep.
LEMMA SweepPlace ==
    ASSUME NEW b \in Block
    PROVE  \E k, m : StatementAt(b, k, m, [sql |-> "sweep", h |-> Height[b]])
<1> DEFINE z == Len(Body[b])
           e == [sql |-> "sweep", h |-> Height[b]]
<1>1. z \in Nat /\ DOMAIN ApplyBlock(b) = 1..(2 * z + 1) /\ ApplyBlock(b)[2 * z + 1] = <<e>>
  BY BlockLists
<1>2. 2 * z + 1 \in DOMAIN ApplyBlock(b)
  <2> HIDE DEF z
  <2> QED BY <1>1
<1>3. 1 \in DOMAIN <<e>> /\ <<e>>[1] = e
  OBVIOUS
<1> HIDE DEF e, z
<1>4. StatementAt(b, 2 * z + 1, 1, e)
  BY <1>1, <1>2, <1>3 DEF StatementAt
<1> QED BY <1>4 DEF e

\* A refused transaction has a statement that cannot run.
LEMMA FailPlace ==
    ASSUME NEW b \in Block, NEW i \in DOMAIN Body[b], Body[b][i].kind = "bad"
    PROVE  StatementAt(b, i, 1, [sql |-> "fail"])
<1> DEFINE z == Len(Body[b])
           e == [sql |-> "fail"]
           t == Body[b][i]
<1>1. z \in Nat /\ DOMAIN Body[b] = 1..z /\ DOMAIN ApplyBlock(b) = 1..(2 * z + 1)
  BY BlockLists
<1>2. i \in DOMAIN ApplyBlock(b)
  <2> HIDE DEF z
  <2> QED BY <1>1
<1>3. ApplyBlock(b)[i] = <<e>>
  <2>1. ApplyBlock(b)[i] = IF IsQiTx(t) THEN QiStatements(t, Height[b]) ELSE <<>>
    BY BlockLists
  <2> QED BY <2>1 DEF IsQiTx, QiStatements, Refused
<1>4. 1 \in DOMAIN <<e>> /\ <<e>>[1] = e
  OBVIOUS
<1> QED BY <1>2, <1>3, <1>4 DEF StatementAt

\* A block all of whose statements can run has no transaction the decoder refuses.
LEMMA NoRefusal ==
    ASSUME NEW b \in Block, Decodable(BlockStatements[b])
    PROVE  /\ \A i \in DOMAIN Body[b] : Body[b][i].kind # "bad"
           /\ ~Undecodable(b)
<1>1. ASSUME NEW i \in DOMAIN Body[b], Body[b][i].kind = "bad" PROVE FALSE
  <2>1. [sql |-> "fail"] \in BlockStatements[b]
    BY <1>1, FailPlace, InBlock
  <2> QED BY <2>1 DEF Decodable
<1> QED BY <1>1 DEF Undecodable, Refused, ToSet

-----------------------------------------------------------------------------
(* The tables the statements of a decodable chain lead to are the ones the *)
(* chain determines.                                                       *)

\* A chain is decodable only if its blocks are.
LEMMA DecodableBlock ==
    ASSUME NEW C, Decodable(ChainStatements(C)), NEW b \in C
    PROVE  Decodable(BlockStatements[b])
BY DEF Decodable, ChainStatements

\* The rows the statements insert are the outputs the bodies create.
LEMMA RowsOfChain ==
    ASSUME NEW C \in SUBSET Block, Decodable(ChainStatements(C))
    PROVE  RowsIn(ChainStatements(C)) = UNION {Creates(b) : b \in C}
<1> DEFINE D == ChainStatements(C)
<1>1. ASSUME NEW r \in RowsIn(D) PROVE \E b \in C : r \in Creates(b)
  <2>1. PICK x \in D : x.sql = "insert" /\ r = x.row
    BY DEF RowsIn
  <2>2. PICK b, k, m : b \in C /\ StatementAt(b, k, m, x)
    BY InChain
  <2>3. PICK i, j : MadeAt(b, k, m, i, j, r)
    BY <2>1, <2>2, Inserting DEF StatementAt
  <2>4. i \in DOMAIN Body[b] /\ r \in TxRows(Body[b][i], Height[b])
    BY <2>3 DEF MadeAt
  <2> QED BY <2>2, <2>4 DEF Creates, TxRows, ToSet
<1>2. ASSUME NEW b \in C, NEW r \in Creates(b) PROVE r \in RowsIn(D)
  <2>1. PICK i \in DOMAIN Body[b] :
            r \in QiRows(Body[b][i], Height[b]) \cup EtxRows(Body[b][i], Height[b])
    BY DEF Creates, ToSet
  <2> DEFINE t == Body[b][i]
             h == Height[b]
  <2>2. ASSUME NEW k, NEW m, NEW s, StatementAt(b, k, m, s), s.sql = "insert", s.row = r
        PROVE  r \in RowsIn(D)
    <3>1. s \in D
      BY <2>2, InChain
    <3> QED BY <2>2, <3>1 DEF RowsIn
  <2>3. CASE r \in QiRows(t, h)
    <3>1. PICK j \in DOMAIN t.outs : IsQiTx(t) /\ t.outs[j].qi /\ r = OutputRow(t, j, t.outs[j].lock, h)
      BY <2>3 DEF QiRows
    <3>2. t.kind = "qi"
      BY <3>1, DecodableBlock, NoRefusal DEF IsQiTx
    <3> DEFINE s == [sql |-> "insert", row |-> OutputRow(t, j, t.outs[j].lock, h)]
    <3>3. StatementAt(b, i, Len(t.ins) + j, s)
      BY <3>1, <3>2, QiPlaces
    <3>4. s.sql = "insert" /\ s.row = r
      BY <3>1
    <3> QED BY <2>2, <3>3, <3>4
  <2>4. CASE r \in EtxRows(t, h)
    <3>1. PICK j \in DOMAIN t.outs : IsEtx(t) /\ CreatesOutputs(t) /\ r = OutputRow(t, j, EtxLock(t, h), h)
      BY <2>4 DEF EtxRows
    <3> DEFINE s == [sql |-> "insert", row |-> OutputRow(t, j, EtxLock(t, h), h)]
    <3>2. StatementAt(b, Len(Body[b]) + i, j, s)
      BY <3>1, EtxPlaces
    <3>3. s.sql = "insert" /\ s.row = r
      BY <3>1
    <3> QED BY <2>2, <3>2, <3>3
  <2> QED BY <2>1, <2>3, <2>4
<1> QED BY <1>1, <1>2

\* The body of a decodable block spends op in transaction k, input m, exactly
\* when statement m of list k spends it.
LEMMA SpendsStatement ==
    ASSUME NEW b \in Block, Decodable(BlockStatements[b]), NEW op, NEW k \in DOMAIN Body[b],
           IsQiTx(Body[b][k]), op \in ToSet(Body[b][k].ins)
    PROVE  \E m, s : /\ StatementAt(b, k, m, s)
                     /\ s.sql = "spend" /\ s.op = op /\ s.tx = Body[b][k].hash
<1> DEFINE t == Body[b][k]
<1>1. t.kind = "qi"
  BY NoRefusal DEF IsQiTx
<1>2. PICK x \in DOMAIN t.ins : t.ins[x] = op
  BY DEF ToSet
<1> DEFINE s == [sql |-> "spend", op |-> t.ins[x], h |-> Height[b], tx |-> t.hash]
<1>3. StatementAt(b, k, x, s)
  BY <1>1, QiPlaces
<1>4. s.sql = "spend" /\ s.op = op /\ s.tx = t.hash
  BY <1>2
<1> HIDE DEF s
<1> QED BY <1>3, <1>4

\* A spending statement belongs to a transaction with that input.
LEMMA StatementSpends ==
    ASSUME NEW b \in Block, NEW k, NEW m, NEW s, StatementAt(b, k, m, s), s.sql = "spend"
    PROVE  /\ k \in DOMAIN Body[b] /\ IsQiTx(Body[b][k]) /\ s.op \in ToSet(Body[b][k].ins)
           /\ s.h = Height[b] /\ s.tx = Body[b][k].hash
<1>1. SpendAt(b, k, m, s)
  BY Kinds DEF StatementAt
<1> QED BY <1>1 DEF SpendAt, IsQiTx, ToSet

\* What the statements make of an output is what the chain says of it.
LEMMA FateOfChain ==
    ASSUME NEW C \in SUBSET Block, ValidChain(C), Decodable(ChainStatements(C)),
           NEW r \in RowsIn(ChainStatements(C))
    PROVE  Became(r, ChainStatements(C)) = Fate(r, C)
<1> DEFINE D == ChainStatements(C)
           spenders == {b \in C : Spends(b, r.op) /\ Height[b] >= r.created}
           spender == CHOOSE b \in spenders : TRUE
           isTx(t) == IsQiTx(t) /\ r.op \in ToSet(t.ins)
           due == r.lock = 0 /\ r.deadline # Null /\ \E b \in C : Height[b] = r.deadline
<1>1. Fate(r, C) =
          IF spenders # {}
          THEN [r EXCEPT !.spent = Height[spender],
                         !.spentTx = (CHOOSE t \in ToSet(Body[spender]) : isTx(t)).hash]
          ELSE IF due THEN [r EXCEPT !.trimmed = r.deadline] ELSE r
  BY DEF Fate
<1>2. PICK x \in D : x.sql = "insert" /\ r = x.row
  BY DEF RowsIn
<1>3. PICK c, i, j : c \in C /\ StatementAt(c, i, j, x)
  BY InChain
<1>4. r.created = Height[c]
  BY <1>2, <1>3, StatementFacts
<1>5. ASSUME NEW b \in C, NEW k, NEW m, NEW s, StatementAt(b, k, m, s), s.sql = "spend", s.op = r.op
      PROVE  b \in spenders
  <2>1. Height[c] < Height[b] \/ c = b
    BY <1>2, <1>3, <1>5, MadeBeforeSpent
  <2>2. Height[c] \in Nat /\ Height[b] \in Nat
    BY <1>3, HeightAssumption
  <2>3. Height[b] >= r.created
    BY <1>4, <2>1, <2>2
  <2>4. Spends(b, r.op)
    BY <1>5, StatementSpends DEF Spends
  <2> QED BY <2>3, <2>4
<1>6. ASSUME NEW b \in spenders
      PROVE  \E k, m, s : StatementAt(b, k, m, s) /\ s.sql = "spend" /\ s.op = r.op
  <2>1. PICK k \in DOMAIN Body[b] : IsQiTx(Body[b][k]) /\ r.op \in ToSet(Body[b][k].ins)
    BY DEF Spends
  <2>2. Decodable(BlockStatements[b])
    BY DecodableBlock
  <2> QED BY <2>1, <2>2, SpendsStatement
<1>7. CASE SpendsOf(r.op, D) # {}
  <2> DEFINE s == OneOf(SpendsOf(r.op, D))
  <2>1. s \in D /\ s.sql = "spend" /\ s.op = r.op
    BY <1>7, OneOfOne DEF SpendsOf
  <2>2. PICK b, k, m : b \in C /\ StatementAt(b, k, m, s)
    BY <2>1, InChain
  <2>3. b \in spenders
    BY <1>5, <2>1, <2>2
  <2>4. ASSUME NEW d \in spenders PROVE d = b
    <3>1. PICK k2, m2, s2 : StatementAt(d, k2, m2, s2) /\ s2.sql = "spend" /\ s2.op = r.op
      BY <1>6
    <3> HIDE DEF s
    <3> QED BY <2>1, <2>2, <3>1, SpendOnce
  <2>5. spender = b
    <3> HIDE DEF spenders
    <3> QED BY <2>3, <2>4
  <2>6. /\ k \in DOMAIN Body[b] /\ isTx(Body[b][k])
        /\ s.h = Height[b] /\ s.tx = Body[b][k].hash
    BY <2>1, <2>2, StatementSpends
  <2>7. ASSUME NEW t \in ToSet(Body[b]), isTx(t) PROVE t = Body[b][k]
    <3>1. PICK k2 \in DOMAIN Body[b] : t = Body[b][k2]
      BY DEF ToSet
    <3>2. Decodable(BlockStatements[b])
      BY <2>2, DecodableBlock
    <3>3. PICK m2, s2 : StatementAt(b, k2, m2, s2) /\ s2.sql = "spend" /\ s2.op = r.op
      BY <2>2, <2>7, <3>1, <3>2, SpendsStatement
    <3>4. k = k2
      <4> HIDE DEF s
      <4> QED BY <2>1, <2>2, <3>3, SpendOnce
    <3> QED BY <3>1, <3>4
  <2>8. (CHOOSE t \in ToSet(Body[b]) : isTx(t)) = Body[b][k]
    <3>1. Body[b][k] \in ToSet(Body[b])
      BY <2>6 DEF ToSet
    <3> HIDE DEF isTx
    <3> QED BY <2>6, <2>7, <3>1
  <2>9. Became(r, D) = [r EXCEPT !.spent = s.h, !.spentTx = s.tx]
    BY <1>7 DEF Became
  <2>10. spenders # {}
    BY <2>3
  <2> HIDE DEF s, spenders, spender, isTx, due
  <2>11. Fate(r, C) = [r EXCEPT !.spent = Height[b], !.spentTx = Body[b][k].hash]
    BY <1>1, <2>5, <2>8, <2>10
  <2> QED BY <2>6, <2>9, <2>11
<1>8. CASE SpendsOf(r.op, D) = {}
  <2>1. ASSUME NEW b \in spenders PROVE FALSE
    <3>1. PICK k, m, s : StatementAt(b, k, m, s) /\ s.sql = "spend" /\ s.op = r.op
      BY <1>6
    <3>2. s \in D
      BY <3>1, InChain
    <3> QED BY <1>8, <3>1, <3>2 DEF SpendsOf
  <2>2. ASSUME DueIn(r, D) PROVE due
    <3>1. PICK s \in D : r.lock = 0 /\ s.sql = "sweep" /\ s.h = r.deadline
      BY <2>2 DEF DueIn
    <3>2. PICK b, k, m : b \in C /\ StatementAt(b, k, m, s)
      BY InChain
    <3>3. Height[b] = r.deadline /\ Height[b] \in Nat
      BY <3>1, <3>2, StatementFacts, HeightAssumption
    <3> QED BY <3>2, <3>1, <3>3 DEF Null
  <2>3. ASSUME due PROVE DueIn(r, D)
    <3>1. PICK b \in C : Height[b] = r.deadline
      BY <2>3
    <3> DEFINE s == [sql |-> "sweep", h |-> Height[b]]
    <3>2. s \in D
      BY SweepPlace, InChain
    <3>3. s.sql = "sweep" /\ s.h = r.deadline
      BY <3>1
    <3> HIDE DEF s
    <3> QED BY <2>3, <3>2, <3>3 DEF DueIn
  <2>4. spenders = {}
    BY <2>1
  <2>5. Became(r, D) = IF DueIn(r, D) THEN [r EXCEPT !.trimmed = r.deadline] ELSE r
    BY <1>8 DEF Became
  <2> HIDE DEF spenders, spender, isTx, due
  <2> QED BY <1>1, <2>2, <2>3, <2>4, <2>5
<1> QED BY <1>7, <1>8

\* The utxos table: statements and reference agree.
LEMMA UtxosOfChain ==
    ASSUME NEW C \in SUBSET Block, ValidChain(C), Decodable(ChainStatements(C))
    PROVE  UtxosOf(ChainStatements(C)) = ExpectedUtxos(C)
<1>1. RowsIn(ChainStatements(C)) = UNION {Creates(b) : b \in C}
  BY RowsOfChain
<1>2. \A r \in RowsIn(ChainStatements(C)) : Became(r, ChainStatements(C)) = Fate(r, C)
  BY FateOfChain
<1> QED BY <1>1, <1>2 DEF UtxosOf, ExpectedUtxos

\* The conversion_outputs table: statements and reference agree.
LEMMA ConvsOfChain ==
    ASSUME NEW C \in SUBSET Block, Decodable(ChainStatements(C))
    PROVE  ConvsOf(ChainStatements(C)) = ExpectedConvs(C)
<1> DEFINE D == ChainStatements(C)
<1>1. ASSUME NEW v \in ConvsOf(D) PROVE v \in ExpectedConvs(C)
  <2>1. PICK x \in D : x.sql = "conv" /\ v = [op |-> x.op, height |-> x.h]
    BY DEF ConvsOf
  <2>2. PICK b, k, m : b \in C /\ StatementAt(b, k, m, x)
    BY InChain
  <2>3. ConvAt(b, k, m, x)
    BY <2>1, <2>2, Kinds DEF StatementAt
  <2> DEFINE t == Body[b][k]
  <2>4. k \in DOMAIN Body[b] /\ IsQiTx(t)
    BY <2>3 DEF ConvAt, IsQiTx
  <2>5. PICK j \in DOMAIN t.outs : ~t.outs[j].qi /\ x.op = <<t.hash, j - 1>> /\ x.h = Height[b]
    BY <2>3 DEF ConvAt
  <2>6. v \in ConvRows(t, Height[b])
    BY <2>1, <2>4, <2>5 DEF ConvRows
  <2>7. t \in ToSet(Body[b])
    BY <2>4 DEF ToSet
  <2> QED BY <2>2, <2>6, <2>7 DEF ExpectedConvs
<1>2. ASSUME NEW v \in ExpectedConvs(C) PROVE v \in ConvsOf(D)
  <2>1. PICK b \in C : \E i \in DOMAIN Body[b] : v \in ConvRows(Body[b][i], Height[b])
    BY DEF ExpectedConvs, ToSet
  <2>7. PICK i \in DOMAIN Body[b] : v \in ConvRows(Body[b][i], Height[b])
    BY <2>1
  <2> DEFINE t == Body[b][i]
  <2>2. PICK j \in DOMAIN t.outs :
            IsQiTx(t) /\ ~t.outs[j].qi /\ v = [op |-> <<t.hash, j - 1>>, height |-> Height[b]]
    BY <2>7 DEF ConvRows
  <2>3. t.kind = "qi"
    BY <2>2, DecodableBlock, NoRefusal DEF IsQiTx
  <2> DEFINE s == [sql |-> "conv", op |-> <<t.hash, j - 1>>, h |-> Height[b]]
  <2>4. StatementAt(b, i, Len(t.ins) + j, s)
    BY <2>2, <2>3, QiPlaces
  <2>5. s \in D
    BY <2>4, InChain
  <2>6. s.sql = "conv" /\ v = [op |-> s.op, height |-> s.h]
    BY <2>2
  <2> HIDE DEF s
  <2> QED BY <2>5, <2>6 DEF ConvsOf
<1> QED BY <1>1, <1>2

-----------------------------------------------------------------------------
(* Chains.                                                                 *)

\* What consensus guarantees holds of every stored chain.
LEMMA ChainIsValid ==
    ASSUME NEW S, NEW t, IsChain(S, t)
    PROVE  S \in SUBSET Block /\ ValidChain(S)
<1>1. S \in SUBSET Block
  BY DEF IsChain
<1>2. CASE t = NoBlock
  BY <1>1, <1>2 DEF IsChain, ValidChain
<1>3. CASE t # NoBlock
  BY <1>1, <1>3, ConsensusAssumption DEF IsChain
<1> QED BY <1>1, <1>2, <1>3

\* A chain cut back to one of its blocks.
LEMMA CutIsChain ==
    ASSUME NEW S, NEW t, IsChain(S, t), NEW a \in S
    PROVE  IsChain(UpTo(S, a), a)
<1>1. S \subseteq Block /\ a \in Block /\ a # NoBlock
  BY NoBlockAssumption DEF IsChain
<1>2. \A b \in S : Height[b] \in Nat
  BY <1>1, HeightAssumption
<1> DEFINE U == UpTo(S, a)
<1>3. U \subseteq S /\ a \in U /\ \A b \in U : Height[b] <= Height[a]
  BY <1>2 DEF UpTo
<1>4. \A b, c \in U : Height[b] = Height[c] => b = c
  BY <1>3 DEF IsChain
<1>5. ASSUME NEW b \in U, Below(U, b) PROVE ParentHash[b] \in U
  <2>1. Below(S, b)
    BY <1>3, <1>5 DEF Below
  <2>2. ParentHash[b] \in S
    BY <1>3, <2>1 DEF IsChain
  <2>3. Height[b] = Height[ParentHash[b]] + 1
    BY <1>1, <1>3, <2>2, NumberingAssumption
  <2>4. Height[ParentHash[b]] <= Height[a]
    <3>1. Height[b] <= Height[a] /\ Height[a] \in Nat /\ Height[ParentHash[b]] \in Nat
      BY <1>2, <1>3, <2>2
    <3> QED BY <2>3, <3>1
  <2> QED BY <2>2, <2>4 DEF UpTo
<1> HIDE DEF U
<1>6. IsChain(U, a)
  BY <1>1, <1>3, <1>4, <1>5 DEF IsChain
<1> QED BY <1>6 DEF U

\* Cut at its tip, a chain is whole.
LEMMA CutAtTip ==
    ASSUME NEW S, NEW t, IsChain(S, t), t # NoBlock
    PROVE  UpTo(S, t) = S
BY DEF IsChain, UpTo

\* The blocks below b: the cut one block further down.
LEMMA CutBelow ==
    ASSUME NEW S, NEW t, IsChain(S, t), NEW b \in S, ParentHash[b] \in S
    PROVE  /\ UpTo(S, ParentHash[b]) = UpTo(S, b) \ {b}
           /\ b \in UpTo(S, b)
           /\ \A c \in UpTo(S, b) \ {b} : Height[c] < Height[b]
<1>1. S \subseteq Block
  BY DEF IsChain
<1>2. \A c \in S : Height[c] \in Nat
  BY <1>1, HeightAssumption
<1>3. Height[b] = Height[ParentHash[b]] + 1
  BY <1>1, NumberingAssumption
<1>4. \A c \in S : Height[c] = Height[b] => c = b
  BY DEF IsChain
<1>5. \A c \in S : Height[c] <= Height[ParentHash[b]] <=> Height[c] <= Height[b] /\ c # b
  BY <1>2, <1>3, <1>4
<1>6. UpTo(S, ParentHash[b]) = UpTo(S, b) \ {b}
  BY <1>5 DEF UpTo
<1>7. \A c \in UpTo(S, b) \ {b} : Height[c] < Height[b]
  BY <1>2, <1>4 DEF UpTo
<1>8. b \in UpTo(S, b)
  BY <1>2 DEF UpTo
<1> QED BY <1>6, <1>7, <1>8

\* A block on top of the tip, or a first block.
LEMMA ChainGrows ==
    ASSUME NEW S, NEW t, IsChain(S, t), NEW b \in Block, t # NoBlock => ParentHash[b] = t
    PROVE  /\ IsChain(S \cup {b}, b)
           /\ \A c \in S : Height[c] < Height[b]
           /\ b \notin S
<1>1. S \subseteq Block /\ b # NoBlock
  BY NoBlockAssumption DEF IsChain
<1>2. \A c \in S \cup {b} : Height[c] \in Nat
  BY <1>1, HeightAssumption
<1>3. \A c \in S : Height[c] < Height[b]
  <2>1. CASE t = NoBlock
    BY <2>1 DEF IsChain
  <2>2. CASE t # NoBlock
    <3>1. t \in S
      BY <2>2 DEF IsChain
    <3>2. Height[b] = Height[t] + 1
      BY <1>1, <2>2, <3>1, NumberingAssumption
    <3>3. \A c \in S : Height[c] <= Height[t]
      BY DEF IsChain
    <3> QED BY <1>2, <3>1, <3>2, <3>3
  <2> QED BY <2>1, <2>2
<1>4. b \notin S
  BY <1>2, <1>3
<1> DEFINE T == S \cup {b}
<1>5. T \subseteq Block /\ b \in T /\ \A c \in T : Height[c] <= Height[b]
  BY <1>1, <1>2, <1>3
<1>6. \A c, d \in T : Height[c] = Height[d] => c = d
  <2>1. \A c, d \in S : Height[c] = Height[d] => c = d
    BY DEF IsChain
  <2> QED BY <1>2, <1>3, <2>1
<1>7. ASSUME NEW c \in T, Below(T, c) PROVE ParentHash[c] \in T
  <2>1. PICK d \in T : Height[d] < Height[c]
    BY <1>7 DEF Below
  <2>2. d \in S
    BY <1>2, <1>5, <2>1
  <2>3. CASE c = b
    <3>1. t # NoBlock
      BY <2>2 DEF IsChain
    <3> QED BY <2>3, <3>1 DEF IsChain
  <2>4. CASE c \in S
    <3>1. Below(S, c)
      BY <2>1, <2>2 DEF Below
    <3> QED BY <2>4, <3>1 DEF IsChain
  <2> QED BY <2>3, <2>4
<1> HIDE DEF T
<1>8. IsChain(T, b)
  BY <1>1, <1>5, <1>6, <1>7 DEF IsChain
<1> QED BY <1>3, <1>4, <1>8 DEF T

\* A gapless chain has a block at every height between two of its own.
LEMMA NoGap ==
    ASSUME NEW S, NEW t, IsChain(S, t), NEW c \in S, NEW h \in Nat,
           Height[c] < h, h <= Height[t]
    PROVE  \E b \in S : Height[b] = h
<1>1. S \subseteq Block /\ t \in S
  BY DEF IsChain
<1>2. \A b \in S : Height[b] \in Nat
  BY <1>1, HeightAssumption
<1> DEFINE H == {Height[b] : b \in {x \in S : h <= Height[x]}}
<1>3. Height[t] \in H /\ H \subseteq Nat
  BY <1>1, <1>2
<1>4. PICK m \in H : \A n \in H : ~(<<n, m>> \in OpToRel(<, Nat))
  <2>1. IsWellFoundedOn(OpToRel(<, Nat), Nat)
    BY NatLessThanWellFounded
  <2> HIDE DEF H
  <2> QED BY <1>3, <2>1, WFMin
<1>5. PICK b \in S : Height[b] = m /\ h <= m
  BY <1>4
<1>6. CASE m = h
  BY <1>5, <1>6
<1>7. CASE m # h
  <2>1. Below(S, b)
    BY <1>2, <1>5 DEF Below
  <2>2. ParentHash[b] \in S
    BY <2>1 DEF IsChain
  <2> DEFINE p == Height[ParentHash[b]]
  <2>3. p \in Nat /\ m = p + 1 /\ m \in Nat
    BY <1>1, <1>2, <1>5, <2>2, NumberingAssumption
  <2>4. h <= p /\ p < m
    BY <1>5, <1>7, <2>3
  <2>5. p \in H
    BY <2>2, <2>4
  <2>6. <<p, m>> \in OpToRel(<, Nat)
    BY <2>3, <2>4 DEF OpToRel
  <2> QED BY <1>4, <2>5, <2>6
<1> QED BY <1>6, <1>7

-----------------------------------------------------------------------------
(* The stages of an update.                                                *)

StagesAre(q, rollback, apply, r, a) ==
    /\ DOMAIN q = 1..(r + a + 2)
    /\ \A i \in 1..r : q[i] = <<RollbackBlock(rollback[i])>>
    /\ q[r + 1] = <<SpineStatements(rollback, apply)>>
    /\ \A n \in 1..a : q[r + 1 + n] = ApplyBlock(apply[n])
    /\ q[r + a + 2] = <<<<[sql |-> "tip", b |-> apply[a]]>>>>

\* What each stage of an update consists of.
LEMMA StageLists ==
    ASSUME NEW rollback, NEW apply, NEW r \in Nat, NEW a \in Nat, r = Len(rollback), a = Len(apply)
    PROVE  StagesAre(Stages(rollback, apply), rollback, apply, r, a)
<1> DEFINE S(i) ==
           CASE i <= r                      -> <<RollbackBlock(rollback[i])>>
             [] i = r + 1                   -> <<SpineStatements(rollback, apply)>>
             [] r + 1 < i /\ i < r + a + 2 -> ApplyBlock(apply[i - r - 1])
             [] i = r + a + 2               -> <<<<[sql |-> "tip", b |-> apply[a]]>>>>
           p == [i \in 1..(r + a + 2) |-> S(i)]
<1>1. Stages(rollback, apply) = p
  BY DEF Stages
<1>2. ASSUME NEW i \in 1..r PROVE S(i) = <<RollbackBlock(rollback[i])>>
  <2>1. i <= r /\ ~(i = r + 1) /\ ~(r + 1 < i /\ i < r + a + 2) /\ ~(i = r + a + 2)
    OBVIOUS
  <2> QED BY <2>1
<1>3. S(r + 1) = <<SpineStatements(rollback, apply)>>
  <2>1. ~(r + 1 <= r) /\ ~(r + 1 < r + 1) /\ ~(r + 1 = r + a + 2)
    OBVIOUS
  <2> QED BY <2>1
<1>4. ASSUME NEW n \in 1..a PROVE S(r + 1 + n) = ApplyBlock(apply[n])
  <2> DEFINE i == r + 1 + n
  <2>1. ~(i <= r) /\ ~(i = r + 1) /\ r + 1 < i /\ i < r + a + 2 /\ ~(i = r + a + 2) /\ i - r - 1 = n
    OBVIOUS
  <2> HIDE DEF i
  <2>2. S(i) = ApplyBlock(apply[n])
    BY <2>1
  <2> QED BY <2>2 DEF i
<1>5. S(r + a + 2) = <<<<[sql |-> "tip", b |-> apply[a]]>>>>
  <2> DEFINE i == r + a + 2
  <2>1. ~(i <= r) /\ ~(i = r + 1) /\ ~(i < r + a + 2) /\ i = r + a + 2
    OBVIOUS
  <2> HIDE DEF i
  <2>2. S(i) = <<<<[sql |-> "tip", b |-> apply[a]]>>>>
    BY <2>1
  <2> QED BY <2>2 DEF i
<1> HIDE DEF S
<1>6. DOMAIN p = 1..(r + a + 2) /\ \A i \in 1..(r + a + 2) : p[i] = S(i)
  OBVIOUS
<1> HIDE DEF p
<1>7. \A i \in 1..r : p[i] = <<RollbackBlock(rollback[i])>>
  <2>1. 1..r \subseteq 1..(r + a + 2)
    OBVIOUS
  <2> QED BY <1>2, <1>6, <2>1
<1>8. p[r + 1] = <<SpineStatements(rollback, apply)>>
  <2>1. r + 1 \in 1..(r + a + 2)
    OBVIOUS
  <2> QED BY <1>3, <1>6, <2>1
<1>9. \A n \in 1..a : p[r + 1 + n] = ApplyBlock(apply[n])
  <2>1. \A n \in 1..a : r + 1 + n \in 1..(r + a + 2)
    OBVIOUS
  <2> QED BY <1>4, <1>6, <2>1
<1>10. p[r + a + 2] = <<<<[sql |-> "tip", b |-> apply[a]]>>>>
  <2>1. r + a + 2 \in 1..(r + a + 2)
    OBVIOUS
  <2> QED BY <1>5, <1>6, <2>1
<1> QED BY <1>1, <1>6, <1>7, <1>8, <1>9, <1>10 DEF StagesAre

\* A stage of one list.
LEMMA OneList ==
    ASSUME NEW l
    PROVE  DOMAIN <<l>> = {1} /\ <<l>>[1] = l
OBVIOUS

SpineIs(l, rollback, apply, r, a) ==
    /\ DOMAIN l = 1..(r + a)
    /\ \A i \in 1..r : l[i] = [sql |-> "deleteBlock", b |-> rollback[i]]
    /\ \A i \in 1..a : l[r + i] = [sql |-> "insertBlock", b |-> apply[i]]

\* What the spine stage consists of.
LEMMA SpineList ==
    ASSUME NEW rollback, NEW apply, IsSequence(rollback), IsSequence(apply),
           NEW r \in Nat, NEW a \in Nat, r = Len(rollback), a = Len(apply)
    PROVE  SpineIs(SpineStatements(rollback, apply), rollback, apply, r, a)
<1> DEFINE u == [i \in DOMAIN rollback |-> [sql |-> "deleteBlock", b |-> rollback[i]]]
           v == [i \in DOMAIN apply |-> [sql |-> "insertBlock", b |-> apply[i]]]
           l == SpineStatements(rollback, apply)
<1>1. DOMAIN rollback = 1..r /\ DOMAIN apply = 1..a
  BY SequenceFacts
<1>2. \A i \in 1..r : u[i] = [sql |-> "deleteBlock", b |-> rollback[i]]
  BY <1>1
<1>3. \A i \in 1..a : v[i] = [sql |-> "insertBlock", b |-> apply[i]]
  BY <1>1
<1>4. u = [i \in 1..r |-> u[i]] /\ v = [i \in 1..a |-> v[i]]
  BY <1>1
<1>5. l = u \o v
  BY DEF SpineStatements
<1> HIDE DEF u, v, l
<1>6. IsSequence(u) /\ Len(u) = r
  BY <1>4, FunctionIsSequence
<1>7. IsSequence(v) /\ Len(v) = a
  BY <1>4, FunctionIsSequence
<1>8. IsSequence(l)
  BY <1>5, <1>6, <1>7, ConcatSequence
<1>9. Len(l) = r + a
  BY <1>5, <1>6, <1>7, ConcatSequence
<1>10. \A i \in 1..r : l[i] = u[i]
  BY <1>5, <1>6, <1>7, ConcatSequence
<1>11. \A i \in 1..a : l[r + i] = v[i]
  BY <1>5, <1>6, <1>7, ConcatSequence
<1>12. DOMAIN l = 1..(r + a)
  BY <1>8, <1>9, SequenceFacts
<1>13. SpineIs(l, rollback, apply, r, a)
  BY <1>2, <1>3, <1>10, <1>11, <1>12 DEF SpineIs
<1> QED BY <1>13 DEF l

=============================================================================
