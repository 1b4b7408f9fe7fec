---------------------------- MODULE ReadsProofs ----------------------------
(***************************************************************************)
(* The answers of the read API, for every block tree, every body and every *)
(* request: ReadsInv is inductive, and what an answer says of the chain    *)
(* follows from it.                                                        *)
(***************************************************************************)
EXTENDS Reads, LedgerProofs, FiniteSetTheorems

-----------------------------------------------------------------------------
(* What the rows of the table of a chain say of its blocks.                *)

\* d holds the tables of chain C.
TablesOf(d, C) ==
    /\ C \in SUBSET Block /\ ValidChain(C)
    /\ \A b, c \in C : Height[b] = Height[c] => b = c
    /\ d.utxos = UtxosOf(ChainStatements(C)) /\ Decodable(ChainStatements(C))

\* What the invariant keeps of a committed database.
LEMMA TablesOfChain ==
    ASSUME NEW d, IsChain(d.blocks, d.tip), Holds(d, ChainStatements(d.blocks))
    PROVE  TablesOf(d, d.blocks)
BY ChainIsValid DEF TablesOf, Holds, IsChain

\* The outputs of a block, as the statements insert them.
LEMMA OutputOf ==
    ASSUME NEW C \in SUBSET Block, Decodable(ChainStatements(C)), NEW c \in C, NEW q \in Creates(c)
    PROVE  /\ q \in RowsIn(ChainStatements(C)) /\ Fresh(q) /\ q.created = Height[c]
           /\ q.deadline = Null \/ (q.deadline \in Nat /\ q.deadline > Height[c])
<1>1. Decodable(ChainStatements({c}))
  BY DEF Decodable, ChainStatements
<1>2. q \in RowsIn(ChainStatements({c}))
  BY <1>1, RowsOfChain
<1>3. PICK s \in ChainStatements({c}) : s.sql = "insert" /\ q = s.row
  BY <1>2 DEF RowsIn
<1>4. PICK i, j : StatementAt(c, i, j, s)
  BY <1>3, InChain
<1>5. q \in RowsIn(ChainStatements(C))
  BY RowsOfChain
<1> QED BY <1>3, <1>4, <1>5, StatementFacts

\* A row of the table, the output it stands for and the block that made it.
RowFrom(r, q, c, C) == c \in C /\ q \in Creates(c) /\ r.op = q.op /\ RowOf(r, q, c, C)

\* A row stands for an output of one of the blocks.
LEMMA RowHasOutput ==
    ASSUME NEW d, NEW C, TablesOf(d, C), NEW r \in d.utxos
    PROVE  \E q, c : RowFrom(r, q, c, C)
<1>1. C \in SUBSET Block /\ d.utxos = UtxosOf(ChainStatements(C)) /\ Decodable(ChainStatements(C))
  BY DEF TablesOf
<1>2. PICK q, c : RowOf(r, q, c, C)
  BY <1>1, RowsAreOutputs
<1>3. PICK e \in C : q \in Creates(e)
  BY <1>1, <1>2, RowsOfChain DEF RowOf
<1>4. q.created = Height[e] /\ (q.deadline = Null \/ (q.deadline \in Nat /\ q.deadline > Height[e]))
  BY <1>1, <1>3, OutputOf
<1>5. RowOf(r, q, e, C)
  BY <1>2, <1>3, <1>4 DEF RowOf
<1>6. r.op = q.op
  BY <1>2, FateKeepsKey DEF RowOf
<1> QED BY <1>3, <1>5, <1>6 DEF RowFrom

\* An output of one of the blocks has its row.
LEMMA OutputHasRow ==
    ASSUME NEW d, NEW C, TablesOf(d, C), NEW c \in C, NEW q \in Creates(c)
    PROVE  \E r \in d.utxos : RowFrom(r, q, c, C)
<1>1. C \in SUBSET Block /\ d.utxos = UtxosOf(ChainStatements(C)) /\ Decodable(ChainStatements(C))
  BY DEF TablesOf
<1>2. PICK D : D = ChainStatements(C)
  OBVIOUS
<1>3. /\ q \in RowsIn(D) /\ Fresh(q) /\ q.created = Height[c]
      /\ q.deadline = Null \/ (q.deadline \in Nat /\ q.deadline > Height[c])
  BY <1>1, <1>2, OutputOf
<1>4. PICK r : r = Became(q, D)
  OBVIOUS
<1>5. r.op = q.op /\ r.created = q.created /\ r.lock = q.lock /\ r.deadline = q.deadline
  BY <1>3, <1>4, FateKeepsKey
<1>6. r \in d.utxos
  BY <1>1, <1>2, <1>3, <1>4 DEF UtxosOf
<1>7. RowOf(r, q, c, C)
  BY <1>2, <1>3, <1>4, <1>5 DEF RowOf
<1> QED BY <1>5, <1>6, <1>7 DEF RowFrom

\* A row is spent by the transaction of the chain that has its outpoint as an
\* input, and by no other.
LEMMA SpentRowHasSpender ==
    ASSUME NEW d, NEW C, TablesOf(d, C), NEW r, NEW q, NEW c, RowFrom(r, q, c, C), r.spent # Null
    PROVE  \E b \in C : \E k \in DOMAIN Body[b] :
               /\ IsQiTx(Body[b][k]) /\ q.op \in ToSet(Body[b][k].ins) /\ Spends(b, q.op)
               /\ r.spent = Height[b] /\ r.spentTx = Body[b][k].hash /\ r.trimmed = Null
<1>1. C \in SUBSET Block
  BY DEF TablesOf
<1>2. PICK D : D = ChainStatements(C)
  OBVIOUS
<1>3. r = Became(q, D) /\ Fresh(q)
  BY <1>2 DEF RowFrom, RowOf
<1>4. SpendsOf(q.op, D) # {}
  <2> SUFFICES ASSUME SpendsOf(q.op, D) = {} PROVE FALSE
    OBVIOUS
  <2>1. CASE DueIn(q, D)
    <3>1. r = [q EXCEPT !.trimmed = q.deadline]
      BY <1>3, <2>1 DEF Became
    <3>2. r = [op |-> q.op, lock |-> q.lock, created |-> q.created, deadline |-> q.deadline,
               spent |-> Null, spentTx |-> NoTx, trimmed |-> q.deadline]
      BY <1>3, <3>1, TrimmedRow
    <3> QED BY <3>2
  <2>2. CASE ~DueIn(q, D)
    <3>1. r = q
      BY <1>3, <2>2 DEF Became
    <3> QED BY <1>3, <3>1, FreshRow
  <2> QED BY <2>1, <2>2
<1>5. PICK s : s = OneOf(SpendsOf(q.op, D))
  OBVIOUS
<1>6. s \in D /\ s.sql = "spend" /\ s.op = q.op
  BY <1>4, <1>5, OneOfOne DEF SpendsOf
<1>7. r = [q EXCEPT !.spent = s.h, !.spentTx = s.tx]
  BY <1>3, <1>4, <1>5 DEF Became
<1>8. r = [op |-> q.op, lock |-> q.lock, created |-> q.created, deadline |-> q.deadline,
           spent |-> s.h, spentTx |-> s.tx, trimmed |-> Null]
  BY <1>3, <1>7, SpentRow
<1>9. PICK b, k, m : b \in C /\ StatementAt(b, k, m, s)
  BY <1>1, <1>2, <1>6, InChain
<1>10. /\ k \in DOMAIN Body[b] /\ IsQiTx(Body[b][k]) /\ s.op \in ToSet(Body[b][k].ins)
       /\ s.h = Height[b] /\ s.tx = Body[b][k].hash
  BY <1>1, <1>6, <1>9, StatementSpends
<1>11. r.spent = Height[b] /\ r.spentTx = Body[b][k].hash /\ r.trimmed = Null
  BY <1>8, <1>10
<1>12. Spends(b, q.op)
  BY <1>6, <1>10 DEF Spends
<1> QED BY <1>6, <1>9, <1>10, <1>11, <1>12

\* A transaction of the chain that has an outpoint as an input spends its row.
LEMMA SpenderSpendsRow ==
    ASSUME NEW d, NEW C, TablesOf(d, C), NEW r, NEW q, NEW c, RowFrom(r, q, c, C),
           NEW b \in C, NEW k \in DOMAIN Body[b], IsQiTx(Body[b][k]), q.op \in ToSet(Body[b][k].ins)
    PROVE  r.spent = Height[b] /\ r.spentTx = Body[b][k].hash /\ r.trimmed = Null
<1>1. C \in SUBSET Block /\ ValidChain(C) /\ Decodable(ChainStatements(C))
  BY DEF TablesOf
<1>2. PICK D : D = ChainStatements(C)
  OBVIOUS
<1>3. r = Became(q, D) /\ Fresh(q)
  BY <1>2 DEF RowFrom, RowOf
<1>4. Decodable(BlockStatements[b])
  BY <1>1, DecodableBlock
<1>5. PICK m, s : StatementAt(b, k, m, s) /\ s.sql = "spend" /\ s.op = q.op /\ s.tx = Body[b][k].hash
  BY <1>1, <1>4, SpendsStatement
<1>6. s \in SpendsOf(q.op, D)
  BY <1>1, <1>2, <1>5, InChain DEF SpendsOf
<1>7. PICK x : x = OneOf(SpendsOf(q.op, D))
  OBVIOUS
<1>8. x \in D /\ x.sql = "spend" /\ x.op = q.op
  BY <1>6, <1>7, OneOfOne DEF SpendsOf
<1>9. PICK e, i, j : e \in C /\ StatementAt(e, i, j, x)
  BY <1>1, <1>2, <1>8, InChain
<1>10. e = b /\ i = k /\ j = m
  BY <1>1, <1>5, <1>8, <1>9, SpendOnce
<1>11. x.h = Height[b] /\ x.tx = Body[b][k].hash
  BY <1>1, <1>8, <1>9, <1>10, StatementSpends
<1>12. r = [q EXCEPT !.spent = x.h, !.spentTx = x.tx]
  BY <1>3, <1>6, <1>7 DEF Became
<1>13. r = [op |-> q.op, lock |-> q.lock, created |-> q.created, deadline |-> q.deadline,
            spent |-> x.h, spentTx |-> x.tx, trimmed |-> Null]
  BY <1>3, <1>12, SpentRow
<1> QED BY <1>11, <1>13

\* The block an output is spent in is not below the one that makes it, and not
\* above the output's deadline.
LEMMA SpenderPlace ==
    ASSUME NEW C \in SUBSET Block, ValidChain(C), NEW c \in C, NEW q \in Creates(c),
           NEW b \in C, Spends(b, q.op)
    PROVE  /\ Height[c] <= Height[b]
           /\ q.lock = 0 /\ q.deadline # Null => Height[b] <= q.deadline
<1>1. PICK j \in DOMAIN Body[c] : q \in TxRows(Body[c][j], Height[c])
  BY DEF Creates, ToSet, TxRows
<1>2. PICK i \in DOMAIN Body[b] : IsQiTx(Body[b][i]) /\ q.op \in ToSet(Body[b][i].ins)
  BY DEF Spends
<1>3. PICK x \in DOMAIN Body[b][i].ins : Body[b][i].ins[x] = q.op
  BY <1>2 DEF ToSet
<1>4. /\ Height[c] < Height[b] \/ b = c
      /\ q.lock = 0 /\ q.deadline # Null => Height[b] <= q.deadline
  BY <1>1, <1>2, <1>3, SpendsOutput
<1> QED BY <1>4, HeightAssumption

\* A row that is not spent is trimmed at its deadline, if the chain has it and
\* no lock holds it.
LEMMA TrimmedRowIsDue ==
    ASSUME NEW d, NEW C, TablesOf(d, C), NEW r, NEW q, NEW c, RowFrom(r, q, c, C), r.trimmed # Null
    PROVE  /\ q.lock = 0 /\ r.trimmed = q.deadline /\ r.spent = Null
           /\ \A b \in C : ~Spends(b, q.op)
<1>1. C \in SUBSET Block
  BY DEF TablesOf
<1>2. PICK D : D = ChainStatements(C)
  OBVIOUS
<1>3. ASSUME NEW b \in C, Spends(b, q.op) PROVE FALSE
  <2>1. PICK k \in DOMAIN Body[b] : IsQiTx(Body[b][k]) /\ q.op \in ToSet(Body[b][k].ins)
    BY <1>3 DEF Spends
  <2>2. r.trimmed = Null
    BY <2>1, SpenderSpendsRow
  <2> QED BY <2>2
<1>4. ASSUME NEW s \in D, s.sql = "spend", SpentBy(r, s) PROVE FALSE
  BY <1>4 DEF SpentBy
<1>5. DueIn(q, D) /\ r.spent = Null /\ r.trimmed = q.deadline
  BY <1>1, <1>2, <1>4, RowFate DEF RowFrom
<1> QED BY <1>3, <1>5 DEF DueIn

\* An output that no block spends is trimmed by the block of its deadline.
LEMMA DueRowIsTrimmed ==
    ASSUME NEW d, NEW C, TablesOf(d, C), NEW r, NEW q, NEW c, RowFrom(r, q, c, C),
           q.lock = 0, NEW b \in C, q.deadline = Height[b], \A e \in C : ~Spends(e, q.op)
    PROVE  r.trimmed = Height[b]
<1>1. C \in SUBSET Block
  BY DEF TablesOf
<1>2. PICK D : D = ChainStatements(C)
  OBVIOUS
<1>3. r.spent = Null
  <2> SUFFICES ASSUME r.spent # Null PROVE FALSE
    OBVIOUS
  <2>1. PICK e \in C : Spends(e, q.op)
    BY SpentRowHasSpender
  <2> QED BY <2>1
<1>4. ASSUME NEW s \in D, s.sql = "spend", SpentBy(r, s) PROVE FALSE
  <2>1. s.h \in Nat
    BY <1>1, <1>2, <1>4, SpendNames
  <2> QED BY <1>3, <1>4, <2>1 DEF SpentBy, Null
<1>5. DueIn(q, D)
  <2> DEFINE e == [sql |-> "sweep", h |-> Height[b]]
  <2>1. e \in D
    BY <1>1, <1>2, SweepPlace, InChain
  <2>2. e.sql = "sweep" /\ e.h = q.deadline
    OBVIOUS
  <2> QED BY <2>1, <2>2 DEF DueIn
<1> QED BY <1>1, <1>2, <1>4, <1>5, RowFate DEF RowFrom

-----------------------------------------------------------------------------
(* The events of a block.                                                  *)

\* The outputs of the blocks up to b.
MadeUpTo(C, b) == UNION {Creates(c) : c \in UpTo(C, b)}

\* The first query of GetBlockUTXOEvents.
LEMMA CreatedEvents ==
    ASSUME NEW d, NEW C, TablesOf(d, C), NEW b \in C
    PROVE  Ops({r \in d.utxos : r.created = Height[b]}) = Ops(Creates(b))
<1> DEFINE R == {r \in d.utxos : r.created = Height[b]}
<1>1. ASSUME NEW r \in R PROVE \E q \in Creates(b) : q.op = r.op
  <2>1. PICK q, c : RowFrom(r, q, c, C)
    BY RowHasOutput
  <2>2. c \in C /\ q \in Creates(c) /\ r.op = q.op /\ Height[c] = Height[b]
    BY <2>1 DEF RowFrom, RowOf
  <2>3. c = b
    BY <2>2 DEF TablesOf
  <2> QED BY <2>2, <2>3
<1>2. ASSUME NEW q \in Creates(b) PROVE \E r \in R : r.op = q.op
  <2>1. PICK r \in d.utxos : RowFrom(r, q, b, C)
    BY OutputHasRow
  <2> QED BY <2>1 DEF RowFrom, RowOf
<1> HIDE DEF R
<1>3. Ops(R) = Ops(Creates(b))
  BY <1>1, <1>2 DEF Ops
<1> QED BY <1>3 DEF R

\* The second.
LEMMA SpentEvents ==
    ASSUME NEW d, NEW C, TablesOf(d, C), NEW b \in C
    PROVE  Ops({r \in d.utxos : r.spent = Height[b]}) = Ops({s \in MadeUpTo(C, b) : Spends(b, s.op)})
<1> DEFINE R == {r \in d.utxos : r.spent = Height[b]}
           S == {s \in MadeUpTo(C, b) : Spends(b, s.op)}
<1>1. C \in SUBSET Block /\ ValidChain(C) /\ Height[b] \in Nat
  BY HeightAssumption DEF TablesOf
<1>2. ASSUME NEW r \in R PROVE \E q \in S : q.op = r.op
  <2>1. PICK q, c : RowFrom(r, q, c, C)
    BY RowHasOutput
  <2>2. r.spent = Height[b] /\ r.spent # Null
    BY <1>1 DEF Null
  <2>3. PICK e \in C : Spends(e, q.op) /\ r.spent = Height[e]
    BY <2>1, <2>2, SpentRowHasSpender
  <2>4. e = b
    BY <2>2, <2>3 DEF TablesOf
  <2>5. c \in C /\ q \in Creates(c) /\ r.op = q.op
    BY <2>1 DEF RowFrom
  <2>6. Height[c] <= Height[b]
    BY <1>1, <2>3, <2>4, <2>5, SpenderPlace
  <2> QED BY <2>3, <2>4, <2>5, <2>6 DEF MadeUpTo, UpTo
<1>3. ASSUME NEW q \in S PROVE \E r \in R : r.op = q.op
  <2>1. PICK c \in C : q \in Creates(c)
    BY DEF MadeUpTo, UpTo
  <2>2. PICK r \in d.utxos : RowFrom(r, q, c, C)
    BY <2>1, OutputHasRow
  <2>3. PICK k \in DOMAIN Body[b] : IsQiTx(Body[b][k]) /\ q.op \in ToSet(Body[b][k].ins)
    BY DEF Spends
  <2>4. r.spent = Height[b]
    BY <2>2, <2>3, SpenderSpendsRow
  <2> QED BY <2>2, <2>4 DEF RowFrom
<1> HIDE DEF R, S
<1>4. Ops(R) = Ops(S)
  BY <1>2, <1>3 DEF Ops
<1> QED BY <1>4 DEF R, S

\* The third.
LEMMA TrimmedEvents ==
    ASSUME NEW d, NEW C, TablesOf(d, C), NEW b \in C
    PROVE  Ops({r \in d.utxos : r.trimmed = Height[b]}) =
               Ops({r \in MadeUpTo(C, b) : r.lock = 0 /\ r.deadline = Height[b]})
               \ Ops({s \in MadeUpTo(C, b) : \E c \in UpTo(C, b) : Spends(c, s.op)})
<1> DEFINE R == {r \in d.utxos : r.trimmed = Height[b]}
           S == {r \in MadeUpTo(C, b) : r.lock = 0 /\ r.deadline = Height[b]}
           G == {s \in MadeUpTo(C, b) : \E c \in UpTo(C, b) : Spends(c, s.op)}
<1>1. C \in SUBSET Block /\ ValidChain(C) /\ Height[b] \in Nat
  BY HeightAssumption DEF TablesOf
<1>2. ASSUME NEW r \in R PROVE r.op \in Ops(S) /\ r.op \notin Ops(G)
  <2>1. PICK q, c : RowFrom(r, q, c, C)
    BY RowHasOutput
  <2>2. r.trimmed = Height[b] /\ r.trimmed # Null
    BY <1>1 DEF Null
  <2>3. /\ q.lock = 0 /\ r.trimmed = q.deadline
        /\ \A e \in C : ~Spends(e, q.op)
    BY <2>1, <2>2, TrimmedRowIsDue
  <2>4. c \in C /\ q \in Creates(c) /\ r.op = q.op
        /\ (q.deadline = Null \/ (q.deadline \in Nat /\ q.deadline > Height[c]))
    BY <2>1 DEF RowFrom, RowOf
  <2>5. Height[c] <= Height[b]
    <3>1. Height[c] \in Nat
      BY <1>1, <2>4, HeightAssumption
    <3> QED BY <1>1, <2>2, <2>3, <2>4, <3>1
  <2>6. q \in S
    BY <2>2, <2>3, <2>4, <2>5 DEF MadeUpTo, UpTo
  <2>7. q.op \notin Ops(G)
    BY <2>3 DEF Ops, UpTo
  <2> QED BY <2>4, <2>6, <2>7 DEF Ops
<1>3. ASSUME NEW q \in S, q.op \notin Ops(G) PROVE \E r \in R : r.op = q.op
  <2>1. PICK c \in C : q \in Creates(c)
    BY DEF MadeUpTo, UpTo
  <2>2. PICK r \in d.utxos : RowFrom(r, q, c, C)
    BY <2>1, OutputHasRow
  <2>3. q.lock = 0 /\ q.deadline = Height[b] /\ q.deadline # Null
    BY <1>1 DEF Null
  <2>4. ASSUME NEW e \in C, Spends(e, q.op) PROVE FALSE
    <3>1. Height[e] <= Height[b]
      BY <1>1, <2>1, <2>3, <2>4, SpenderPlace
    <3>2. q \in G
      BY <2>4, <3>1 DEF UpTo
    <3> QED BY <1>3, <3>2 DEF Ops
  <2>5. r.trimmed = Height[b]
    BY <2>2, <2>3, <2>4, DueRowIsTrimmed
  <2> QED BY <2>2, <2>5 DEF RowFrom
<1> HIDE DEF R, S, G
<1>4. Ops(R) = Ops(S) \ Ops(G)
  BY <1>2, <1>3 DEF Ops
<1> QED BY <1>4 DEF R, S, G

-----------------------------------------------------------------------------
(* ReadsInv is inductive.                                                  *)

\* The steps of the readers leave the database alone; the others are Ledger's.
LEMMA ReadsStep ==
    ASSUME [ReadsNext]_rvars
    PROVE  [Next]_lvars
<1>1. CASE Ask \/ Query \/ Respond \/ PushQuery \/ PushEnds
  BY <1>1 DEF Ask, Query, Respond, PushQuery, PushEnds
<1>2. CASE CommitAndNotify
  BY <1>2 DEF CommitAndNotify, Next
<1>3. CASE UNCHANGED rvars
  BY <1>3 DEF rvars
<1> QED BY <1>1, <1>2, <1>3 DEF ReadsNext, Next

\* A request that has just come.
LEMMA NewRequest ==
    ASSUME NEW now, IsDb(now), IsChain(now.blocks, now.tip), Holds(now, ChainStatements(now.blocks)),
           NEW kind \in {"balance", "block", "tx", "stats", "utxo", "outpoints"}, NEW arg, NEW q,
           q = [kind |-> kind, arg |-> arg, parts |-> <<>>, seen |-> {now}]
    PROVE  RequestInv(q, now)
<1>1. q.kind = kind /\ q.arg = arg /\ q.parts = <<>> /\ q.seen = {now}
  OBVIOUS
<1>2. SeenInv(q, now)
  BY <1>1, FS_Singleton DEF SeenInv
<1>3. PartsInv(q)
  <2>1. Len(q.parts) = 0 /\ <<>> = [i \in 1..0 |-> <<>>[i]]
    BY <1>1
  <2> QED BY <1>1, <2>1 DEF PartsInv
<1> QED BY <1>1, <1>2, <1>3 DEF RequestInv

\* A query more.
LEMMA OneMoreQuery ==
    ASSUME NEW now, NEW q, RequestInv(q, now), q # NoRequest, NEW u,
           u = [q EXCEPT !.parts = Append(q.parts, Queries(now, q)[Len(q.parts) + 1])]
    PROVE  RequestInv(u, now) /\ u.kind = q.kind /\ u.seen = q.seen
<1>1. /\ q = [kind |-> q.kind, arg |-> q.arg, parts |-> q.parts, seen |-> q.seen]
      /\ q.kind \in {"balance", "block", "tx", "stats", "utxo", "outpoints"}
      /\ SeenInv(q, now) /\ PartsInv(q)
  BY DEF RequestInv
<1>2. PICK n, e, p : n = Len(q.parts) /\ e = Queries(now, q)[n + 1] /\ p = Append(q.parts, e)
  OBVIOUS
<1>3. u = [kind |-> q.kind, arg |-> q.arg, parts |-> p, seen |-> q.seen]
  BY <1>1, <1>2
<1>4. u.kind = q.kind /\ u.arg = q.arg /\ u.parts = p /\ u.seen = q.seen
  BY <1>3
<1>5. SeenInv(u, now)
  BY <1>1, <1>4 DEF SeenInv, Stayed
<1>6. \A d : Queries(d, u) = Queries(d, q)
  BY <1>4 DEF Queries
<1>7. n \in Nat /\ q.parts = [i \in 1..n |-> q.parts[i]]
      /\ \A i \in 1..n : \E d \in q.seen : q.parts[i] = Queries(d, q)[i]
  BY <1>1, <1>2 DEF PartsInv
<1>8. IsSequence(q.parts)
  BY <1>7, FunctionIsSequence
<1>9. IsSequence(p) /\ Len(p) = n + 1 /\ p[n + 1] = e /\ \A i \in 1..n : p[i] = q.parts[i]
  BY <1>2, <1>8, AppendSequence
<1>10. p = [i \in 1..(n + 1) |-> p[i]] /\ n + 1 \in Nat
  <2>1. p \in Seq(ToSet(p))
    BY <1>9 DEF IsSequence
  <2> QED BY <1>7, <1>9, <2>1
<1>11. ASSUME NEW i \in 1..(n + 1) PROVE \E d \in q.seen : p[i] = Queries(d, q)[i]
  <2>1. CASE i = n + 1
    BY <1>1, <1>2, <1>9, <2>1 DEF SeenInv
  <2>2. CASE i # n + 1
    <3>1. i \in 1..n
      BY <1>7, <2>2
    <3> QED BY <1>7, <1>9, <3>1
  <2> QED BY <2>1, <2>2
<1>12. PartsInv(u)
  <2>1. Len(u.parts) = n + 1
    BY <1>4, <1>9
  <2>2. ASSUME NEW i \in 1..(n + 1) PROVE \E d \in u.seen : u.parts[i] = Queries(d, u)[i]
    <3>1. PICK d \in q.seen : p[i] = Queries(d, q)[i]
      BY <1>11
    <3>2. Queries(d, u) = Queries(d, q)
      BY <1>6
    <3> QED BY <1>4, <3>1, <3>2
  <2>3. u.parts = [i \in 1..(n + 1) |-> u.parts[i]]
    BY <1>4, <1>10
  <2> QED BY <1>10, <2>1, <2>2, <2>3 DEF PartsInv
<1> QED BY <1>1, <1>3, <1>4, <1>5, <1>12 DEF RequestInv

\* Two committed chains agree below every block both have.
LEMMA CommitAgrees ==
    ASSUME LedgerInv, Commit, NEW b \in db.blocks, b \in work.blocks
    PROVE  UpTo(work.blocks, b) = UpTo(db.blocks, b)
<1>1. Index!Next /\ db' = work /\ db.blocks \subseteq Block
  BY CommitIsMove DEF Commit, LedgerInv, CommittedInv, IsChain
<1>2. PICK new \in Block, a \in db.blocks : Index!Move(a, new)
  BY <1>1 DEF Index!Next, Index!Bootstrap
<1>3. PICK C, E : C = db.blocks /\ E = work.blocks
  OBVIOUS
<1>4. E \cap C = UpTo(C, a) /\ \A x \in E \ C : Height[x] > Height[a]
  BY <1>1, <1>2, <1>3 DEF Index!Move, Index!UpTo, UpTo
<1>5. E \subseteq Block
  BY <1>1, <1>2, <1>3 DEF Index!Move, Index!IsChain
<1>6. \A x \in E \cup C : Height[x] \in Nat
  BY <1>1, <1>3, <1>5, HeightAssumption
<1>7. Height[b] <= Height[a] /\ a \in C
  BY <1>2, <1>3, <1>4 DEF UpTo
<1>8. \A x : x \in UpTo(E, b) <=> x \in UpTo(C, b)
  BY <1>3, <1>4, <1>6, <1>7 DEF UpTo
<1> QED BY <1>3, <1>8

\* A commit while a request is answered.
LEMMA OneMoreCommit ==
    ASSUME NEW now, NEW next, NEW q, RequestInv(q, now), q # NoRequest,
           IsDb(next), IsChain(next.blocks, next.tip), Holds(next, ChainStatements(next.blocks)),
           \A b \in now.blocks : b \in next.blocks => UpTo(next.blocks, b) = UpTo(now.blocks, b),
           NEW u, u = [q EXCEPT !.seen = q.seen \cup {next}]
    PROVE  RequestInv(u, next)
<1>1. /\ q = [kind |-> q.kind, arg |-> q.arg, parts |-> q.parts, seen |-> q.seen]
      /\ q.kind \in {"balance", "block", "tx", "stats", "utxo", "outpoints"}
      /\ SeenInv(q, now) /\ PartsInv(q)
  BY DEF RequestInv
<1>2. PICK S : S = q.seen \cup {next}
  OBVIOUS
<1>3. u = [kind |-> q.kind, arg |-> q.arg, parts |-> q.parts, seen |-> S]
  BY <1>1, <1>2
<1>4. u.kind = q.kind /\ u.arg = q.arg /\ u.parts = q.parts /\ u.seen = S
  BY <1>3
<1>5. \A d : Queries(d, u) = Queries(d, q)
  BY <1>4 DEF Queries
<1>6. PartsInv(u)
  <2>1. PICK n : n = Len(q.parts)
    OBVIOUS
  <2>2. n \in Nat /\ q.parts = [i \in 1..n |-> q.parts[i]]
        /\ \A i \in 1..n : \E d \in q.seen : q.parts[i] = Queries(d, q)[i]
    BY <1>1, <2>1 DEF PartsInv
  <2>3. Len(u.parts) = n
    BY <1>4, <2>1
  <2>4. ASSUME NEW i \in 1..n PROVE \E d \in u.seen : u.parts[i] = Queries(d, u)[i]
    <3>1. PICK d \in q.seen : q.parts[i] = Queries(d, q)[i]
      BY <2>2
    <3>2. Queries(d, u) = Queries(d, q)
      BY <1>5
    <3> QED BY <1>2, <1>4, <3>1, <3>2
  <2>5. u.parts = [i \in 1..n |-> u.parts[i]]
    BY <1>4, <2>2
  <2> QED BY <2>2, <2>3, <2>4, <2>5 DEF PartsInv
<1>7. next \in S /\ IsFiniteSet(S)
  BY <1>1, <1>2, FS_AddElement DEF SeenInv
<1>8. ASSUME NEW d \in S
      PROVE  IsDb(d) /\ IsChain(d.blocks, d.tip) /\ Holds(d, ChainStatements(d.blocks))
  BY <1>1, <1>2 DEF SeenInv
<1>9. ASSUME NEW d \in S, NEW b \in Stayed(u) PROVE UpTo(d.blocks, b) = UpTo(next.blocks, b)
  <2>1. b \in Stayed(q) /\ b \in next.blocks
    BY <1>2, <1>4 DEF Stayed
  <2>2. b \in now.blocks
    BY <1>1, <2>1 DEF SeenInv, Stayed
  <2>3. UpTo(next.blocks, b) = UpTo(now.blocks, b)
    BY <2>1, <2>2
  <2>4. d \in q.seen => UpTo(d.blocks, b) = UpTo(now.blocks, b)
    BY <1>1, <2>1 DEF SeenInv
  <2> QED BY <1>2, <2>3, <2>4
<1>10. SeenInv(u, next)
  BY <1>4, <1>7, <1>8, <1>9 DEF SeenInv
<1> QED BY <1>1, <1>3, <1>4, <1>6, <1>10 DEF RequestInv

\* Every step keeps the invariant.
LEMMA ReadsNextKeeps ==
    ASSUME ReadsInv, [ReadsNext]_rvars
    PROVE  ReadsInv'
<1>1. LedgerInv /\ LedgerInv'
  BY ReadsStep, LedgerNext DEF ReadsInv
<1>2. /\ IsDb(db) /\ IsChain(db.blocks, db.tip) /\ Holds(db, ChainStatements(db.blocks))
      /\ IsDb(db') /\ IsChain(db'.blocks, db'.tip) /\ Holds(db', ChainStatements(db'.blocks))
  BY <1>1 DEF LedgerInv, CommittedInv, IsDb, Holds
<1>3. /\ RequestInv(http, db) /\ RequestInv(push, db)
      /\ push # NoRequest => ~open /\ push.kind = "block" /\ push.seen = {db}
  BY DEF ReadsInv
<1>4. RequestInv(NoRequest, db)
  BY DEF RequestInv
<1>5. CASE Ask
  <2>1. db' = db /\ open' = open /\ push' = push
    BY <1>5 DEF Ask, lvars
  <2>2. PICK r \in Asked : http' = [kind |-> r.kind, arg |-> r.arg, parts |-> <<>>, seen |-> {db}]
    BY <1>5 DEF Ask, Request
  <2>3. r.kind \in {"balance", "block", "tx", "stats", "utxo", "outpoints"}
    BY AskedAssumption
  <2>4. RequestInv(http', db)
    BY <1>2, <2>2, <2>3, NewRequest
  <2> QED BY <1>1, <1>3, <2>1, <2>4 DEF ReadsInv
<1>6. CASE Query
  <2>1. db' = db /\ open' = open /\ push' = push /\ http # NoRequest
    BY <1>6 DEF Query, lvars
  <2>2. http' = [http EXCEPT !.parts = Append(http.parts, Queries(db, http)[Len(http.parts) + 1])]
    BY <1>6 DEF Query, RunQuery
  <2>3. RequestInv(http', db)
    BY <1>3, <2>1, <2>2, OneMoreQuery
  <2> QED BY <1>1, <1>3, <2>1, <2>3 DEF ReadsInv
<1>7. CASE Respond
  BY <1>1, <1>3, <1>4, <1>7 DEF Respond, lvars, ReadsInv
<1>8. CASE PushQuery
  <2>1. db' = db /\ open' = open /\ http' = http /\ push # NoRequest
    BY <1>8 DEF PushQuery, lvars
  <2>2. push' = [push EXCEPT !.parts = Append(push.parts, Queries(db, push)[Len(push.parts) + 1])]
    BY <1>8 DEF PushQuery, RunQuery
  <2>3. RequestInv(push', db)
    BY <1>3, <2>1, <2>2, OneMoreQuery
  <2>4. push'.kind = push.kind /\ push'.seen = push.seen
    BY <1>3, <2>1, <2>2, OneMoreQuery
  <2> QED BY <1>1, <1>3, <2>1, <2>3, <2>4 DEF ReadsInv
<1>9. CASE PushEnds
  BY <1>1, <1>3, <1>4, <1>9 DEF PushEnds, lvars, ReadsInv
<1>10. CASE MayBegin /\ (\E s \in Branches : BeginBranch(s)) /\ UNCHANGED <<http, push>>
  <2>1. db' = db /\ http' = http /\ push' = push /\ push = NoRequest
    BY <1>10 DEF MayBegin, BeginBranch, Begin
  <2> QED BY <1>1, <1>3, <2>1 DEF ReadsInv
<1>11. CASE (Run \/ Abort) /\ UNCHANGED <<http, push>>
  <2>1. db' = db /\ http' = http /\ push' = push /\ open
    BY <1>11 DEF Run, RunStatement, NextList, NextStage, Abort
  <2> QED BY <1>1, <1>3, <2>1 DEF ReadsInv
<1>12. CASE CommitAndNotify
  <2>1. Commit /\ open /\ db' = work /\ open' = FALSE /\ push = NoRequest
    BY <1>3, <1>12 DEF CommitAndNotify, Commit, EndTransaction
  <2>2. \A b \in db.blocks : b \in db'.blocks => UpTo(db'.blocks, b) = UpTo(db.blocks, b)
    BY <1>1, <2>1, CommitAgrees
  <2>3. RequestInv(http', db')
    <3>1. CASE http = NoRequest
      BY <1>12, <3>1 DEF CommitAndNotify, RequestInv
    <3>2. CASE http # NoRequest
      <4>1. http' = [http EXCEPT !.seen = http.seen \cup {db'}]
        BY <1>12, <2>1, <3>2 DEF CommitAndNotify
      <4> QED BY <1>2, <1>3, <2>2, <3>2, <4>1, OneMoreCommit
    <3> QED BY <3>1, <3>2
  <2>4. push' = NoRequest
        \/ push' = [kind |-> "block", arg |-> Height[work.tip], parts |-> <<>>, seen |-> {db'}]
    BY <1>12, <2>1 DEF CommitAndNotify, Request
  <2>5. CASE push' = NoRequest
    BY <1>1, <2>1, <2>3, <2>5 DEF ReadsInv, RequestInv
  <2>6. CASE push' = [kind |-> "block", arg |-> Height[work.tip], parts |-> <<>>, seen |-> {db'}]
    <3>1. RequestInv(push', db')
      BY <1>2, <2>6, NewRequest
    <3> QED BY <1>1, <2>1, <2>3, <2>6, <3>1 DEF ReadsInv
  <2> QED BY <2>4, <2>5, <2>6
<1>13. CASE UNCHANGED rvars
  BY <1>1, <1>3, <1>13 DEF rvars, lvars, ReadsInv
<1> QED BY <1>5, <1>6, <1>7, <1>8, <1>9, <1>10, <1>11, <1>12, <1>13 DEF ReadsNext

\* The readers and the follower share the database and nothing else: every
\* behaviour of ReadsSpec is one of Ledger's, so Ledger's theorems hold of it.
THEOREM ReadsImplementsLedger == ReadsSpec => Spec
<1>1. ReadsInit => Init
  BY DEF ReadsInit
<1>2. [ReadsNext]_rvars => [Next]_lvars
  BY ReadsStep
<1> QED BY <1>1, <1>2, PTL DEF ReadsSpec, Spec

\* ReadsInv is inductive: whatever is committed while an answer is put
\* together, each query saw one committed chain, these chains agree below
\* every block that stays, and OnUpdate's read saw the chain just committed.
THEOREM ReadsInductive == ReadsSpec => []ReadsInv
<1>1. ReadsInit => ReadsInv
  BY InitHolds DEF ReadsInit, ReadsInv, RequestInv
<1>2. ReadsInv /\ [ReadsNext]_rvars => ReadsInv'
  BY ReadsNextKeeps
<1> QED BY <1>1, <1>2, PTL DEF ReadsSpec

-----------------------------------------------------------------------------
(* The answers about a block.                                              *)

\* What a request has seen, one database at a time.
LEMMA SeenTables ==
    ASSUME NEW now, NEW q, RequestInv(q, now), q # NoRequest, NEW d \in q.seen
    PROVE  /\ TablesOf(d, d.blocks)
           /\ \A b \in Stayed(q) : b \in d.blocks /\ UpTo(d.blocks, b) = UpTo(now.blocks, b)
<1>1. SeenInv(q, now)
  BY DEF RequestInv
<1>2. IsChain(d.blocks, d.tip) /\ Holds(d, ChainStatements(d.blocks))
  BY <1>1 DEF SeenInv
<1>3. TablesOf(d, d.blocks)
  BY <1>2, TablesOfChain
<1>4. \A b \in Stayed(q) : b \in d.blocks /\ UpTo(d.blocks, b) = UpTo(now.blocks, b)
  BY <1>1 DEF SeenInv, Stayed
<1> QED BY <1>3, <1>4

\* Each part of an answer comes from one database the request has seen.
LEMMA PartFrom ==
    ASSUME NEW now, NEW q, RequestInv(q, now), q # NoRequest, NEW i \in 1..Len(q.parts)
    PROVE  \E d \in q.seen : q.parts[i] = Queries(d, q)[i]
BY DEF RequestInv, PartsInv

\* The three queries, on the tables of one chain.
LEMMA EventsInTables ==
    ASSUME NEW d, NEW C, TablesOf(d, C), NEW b \in C, NEW Q, Q = BlockUTXOEvents(d, Height[b])
    PROVE  /\ Ops(Q[1]) = EventsOf(b, C)[1]
           /\ Ops(Q[2]) = EventsOf(b, C)[2]
           /\ Ops(Q[3]) = EventsOf(b, C)[3]
<1> DEFINE made == UNION {Creates(c) : c \in UpTo(C, b)}
           spent == {s \in made : Spends(b, s.op)}
           gone == {s \in made : \E c \in UpTo(C, b) : Spends(c, s.op)}
           due == {r \in made : r.lock = 0 /\ r.deadline = Height[b]}
<1>1. EventsOf(b, C) = <<Ops(Creates(b)), Ops(spent), Ops(due) \ Ops(gone)>>
  BY DEF EventsOf, Ops
<1>2. made = MadeUpTo(C, b)
  BY DEF MadeUpTo
<1>3. Ops(Q[1]) = Ops(Creates(b))
  BY CreatedEvents DEF BlockUTXOEvents
<1>4. Ops(Q[2]) = Ops(spent)
  BY <1>2, SpentEvents DEF BlockUTXOEvents
<1>5. Ops(Q[3]) = Ops(due) \ Ops(gone)
  BY <1>2, TrimmedEvents DEF BlockUTXOEvents
<1> HIDE DEF spent, gone, due
<1> QED BY <1>1, <1>3, <1>4, <1>5

\* Each query may have run on a chain of its own: what a block did depends on
\* the blocks up to it alone, and these are the same in all of them.
LEMMA BlockExact ==
    ASSUME NEW now, NEW q, RequestInv(q, now), q # NoRequest, q.kind = "block", Len(q.parts) = 3,
           NEW b \in Stayed(q), Height[b] = q.arg
    PROVE  Exact(q, b)
<1>1. PICK e, E : e = OneOf(q.seen) /\ E = EventsOf(b, e.blocks)
  OBVIOUS
<1>2. e \in q.seen
  BY <1>1, OneOfOne DEF RequestInv, SeenInv
<1>3. ASSUME NEW i \in 1..3 PROVE Ops(q.parts[i]) = E[i]
  <2>1. PICK d \in q.seen : q.parts[i] = Queries(d, q)[i]
    BY PartFrom
  <2>2. TablesOf(d, d.blocks) /\ b \in d.blocks
    BY SeenTables
  <2>3. PICK Q : Q = BlockUTXOEvents(d, Height[b])
    OBVIOUS
  <2>4. Queries(d, q) = Q
    BY <2>3 DEF Queries
  <2>5. UpTo(d.blocks, b) = UpTo(e.blocks, b)
    <3>1. UpTo(d.blocks, b) = UpTo(now.blocks, b)
      BY SeenTables
    <3>2. UpTo(e.blocks, b) = UpTo(now.blocks, b)
      BY <1>2, SeenTables
    <3> QED BY <3>1, <3>2
  <2>6. EventsOf(b, d.blocks) = E
    BY <1>1, <2>5 DEF EventsOf
  <2>7. Ops(Q[1]) = E[1] /\ Ops(Q[2]) = E[2] /\ Ops(Q[3]) = E[3]
    BY <2>2, <2>3, <2>6, EventsInTables
  <2>8. i = 1 \/ i = 2 \/ i = 3
    OBVIOUS
  <2> QED BY <2>1, <2>4, <2>7, <2>8
<1>4. PICK x, y, z : E = <<x, y, z>>
  BY <1>1 DEF EventsOf
<1>5. [i \in 1..3 |-> Ops(q.parts[i])] = [i \in 1..3 |-> E[i]]
  BY <1>3
<1>6. E = [i \in 1..3 |-> E[i]]
  BY <1>4
<1> QED BY <1>1, <1>5, <1>6 DEF Exact

\* The events broadcast after an update are those of its last block.
THEOREM PushedEvents == ReadsSpec => []PushedEventsExact
<1>1. ASSUME ReadsInv PROVE PushedEventsExact
  <2> SUFFICES ASSUME push # NoRequest, Answered(push), NEW b \in Stayed(push), Height[b] = push.arg
               PROVE  Exact(push, b)
    BY DEF PushedEventsExact
  <2>1. RequestInv(push, db) /\ push.kind = "block"
    BY <1>1 DEF ReadsInv
  <2>2. Len(push.parts) = 3
    BY <2>1 DEF Answered, Queries, BlockUTXOEvents
  <2> QED BY <2>1, <2>2, BlockExact
<1> QED BY <1>1, ReadsInductive, PTL

\* The answer of GET /block/{height}/utxos is exact whenever the block of that
\* height stays stored while it is put together.
THEOREM BlockAnswers == ReadsSpec => []BlockAnswerExact
<1>1. ASSUME ReadsInv PROVE BlockAnswerExact
  <2> SUFFICES ASSUME Done("block"), NEW b \in Stayed(http), Height[b] = http.arg
               PROVE  Exact(http, b)
    BY DEF BlockAnswerExact
  <2>1. RequestInv(http, db) /\ http.kind = "block" /\ http # NoRequest
    BY <1>1 DEF ReadsInv, Done, NoRequest
  <2>2. Len(http.parts) = 3
    BY <2>1 DEF Done, Answered, Queries, BlockUTXOEvents
  <2> QED BY <2>1, <2>2, BlockExact
<1> QED BY <1>1, ReadsInductive, PTL

-----------------------------------------------------------------------------
(* The answers about a transaction.                                        *)

\* An output belongs to a transaction of its block.
LEMMA OutputTx ==
    ASSUME NEW c \in Block, NEW q \in Creates(c)
    PROVE  \E j \in DOMAIN Body[c] : q.op[1] = Body[c][j].hash
<1>1. PICK j \in DOMAIN Body[c] : q \in QiRows(Body[c][j], Height[c]) \cup EtxRows(Body[c][j], Height[c])
  BY DEF Creates, ToSet
<1>2. PICK t : t = Body[c][j]
  OBVIOUS
<1>3. PICK i, lock : q = OutputRow(t, i, lock, Height[c])
  BY <1>1, <1>2 DEF QiRows, EtxRows
<1>4. q.op = <<t.hash, i - 1>>
  BY <1>3 DEF OutputRow, NewRow
<1> QED BY <1>2, <1>4

\* The first query of GetTx, on the tables of one chain.
LEMMA TxOutputs ==
    ASSUME NEW d, NEW C, TablesOf(d, C), NEW b \in C, NEW k \in DOMAIN Body[b],
           NEW h, h = Body[b][k].hash
    PROVE  Ops({r \in d.utxos : r.op[1] = h}) = {op \in Ops(Creates(b)) : op[1] = h}
<1> DEFINE R == {r \in d.utxos : r.op[1] = h}
           S == {op \in Ops(Creates(b)) : op[1] = h}
<1>1. C \in SUBSET Block /\ ValidChain(C)
  BY DEF TablesOf
<1>2. ASSUME NEW r \in R PROVE r.op \in S
  <2>1. PICK q, c : RowFrom(r, q, c, C)
    BY RowHasOutput
  <2>2. c \in C /\ q \in Creates(c) /\ r.op = q.op /\ q.op[1] = h
    BY <2>1 DEF RowFrom
  <2>3. PICK j \in DOMAIN Body[c] : q.op[1] = Body[c][j].hash
    BY <1>1, <2>2, OutputTx
  <2>4. c = b
    <3>1. Body[c][j].hash = Body[b][k].hash
      BY <2>2, <2>3
    <3> QED BY <1>1, <2>2, <3>1, SameHash
  <2> QED BY <2>2, <2>4 DEF Ops
<1>3. ASSUME NEW op \in S PROVE \E r \in R : r.op = op
  <2>1. PICK q \in Creates(b) : q.op = op
    BY DEF Ops
  <2>2. PICK r \in d.utxos : RowFrom(r, q, b, C)
    BY OutputHasRow
  <2> QED BY <2>1, <2>2 DEF RowFrom
<1> HIDE DEF R, S
<1>4. Ops(R) = S
  BY <1>2, <1>3 DEF Ops
<1> QED BY <1>4 DEF R, S

\* A row that names a transaction of the chain as its spender is an output
\* made up to the transaction's block, and one of the transaction's inputs.
LEMMA SpentByTx ==
    ASSUME NEW d, NEW C, TablesOf(d, C), NEW b \in C, NEW k \in DOMAIN Body[b],
           NEW r \in d.utxos, r.spentTx = Body[b][k].hash
    PROVE  /\ Body[b][k].kind = "qi" /\ r.op \in ToSet(Body[b][k].ins)
           /\ \E c \in UpTo(C, b) : r.op \in Ops(Creates(c))
<1>1. /\ C \in SUBSET Block /\ ValidChain(C) /\ Decodable(ChainStatements(C))
      /\ d.utxos = UtxosOf(ChainStatements(C))
  BY DEF TablesOf
<1>2. PICK q, c : RowFrom(r, q, c, C)
  BY RowHasOutput
<1>3. c \in C /\ q \in Creates(c) /\ r.op = q.op
  BY <1>2 DEF RowFrom
<1>4. r.spent # Null
  <2>1. Body[b][k].hash # NoTx
    BY <1>1, BodyAssumption DEF WellFormed
  <2> QED BY <1>1, <2>1, RowTypes
<1>5. PICK e \in C : \E i \in DOMAIN Body[e] :
          /\ IsQiTx(Body[e][i]) /\ q.op \in ToSet(Body[e][i].ins) /\ Spends(e, q.op)
          /\ r.spentTx = Body[e][i].hash
  BY <1>2, <1>4, SpentRowHasSpender
<1>6. PICK i \in DOMAIN Body[e] :
          /\ IsQiTx(Body[e][i]) /\ q.op \in ToSet(Body[e][i].ins) /\ Spends(e, q.op)
          /\ r.spentTx = Body[e][i].hash
  BY <1>5
<1>7. e = b /\ i = k
  <2>1. Body[e][i].hash = Body[b][k].hash
    BY <1>6
  <2> QED BY <1>1, <2>1, SameHash
<1>8. Body[b][k].kind # "bad"
  BY <1>1, DecodableBlock, NoRefusal
<1>9. Height[c] <= Height[b]
  BY <1>1, <1>3, <1>6, <1>7, SpenderPlace
<1>10. c \in UpTo(C, b) /\ r.op \in Ops(Creates(c))
  BY <1>3, <1>9 DEF UpTo, Ops
<1> QED BY <1>3, <1>6, <1>7, <1>8, <1>10 DEF IsQiTx

\* The inputs of transaction t that blocks S made.
InputsFrom(t, S) ==
    IF t.kind = "qi" THEN Ops(UNION {Creates(c) : c \in S}) \cap ToSet(t.ins) ELSE {}

\* The second query, for a request while which the blocks Stayed(q) stay.
LEMMA TxInputs ==
    ASSUME NEW now, NEW q, RequestInv(q, now), q # NoRequest, NEW d \in q.seen,
           NEW b \in Stayed(q), NEW k \in DOMAIN Body[b], NEW t, t = Body[b][k]
    PROVE  Ops(TxUTXOs(d, t.hash)[2]) = InputsFrom(t, Stayed(q))
<1> DEFINE R == {r \in d.utxos : r.spentTx = t.hash}
           M == UNION {Creates(c) : c \in Stayed(q)}
<1>1. PICK C : C = d.blocks
  OBVIOUS
<1>2. TablesOf(d, C) /\ b \in C /\ C \in SUBSET Block
  BY <1>1, SeenTables DEF TablesOf
<1>3. ASSUME NEW c \in UpTo(C, b) PROVE c \in Stayed(q)
  <2>1. c \in Block
    BY <1>2 DEF UpTo
  <2>2. ASSUME NEW e \in q.seen PROVE c \in e.blocks
    <3>1. UpTo(e.blocks, b) = UpTo(now.blocks, b)
      BY SeenTables
    <3>2. UpTo(d.blocks, b) = UpTo(now.blocks, b)
      BY SeenTables
    <3> QED BY <1>1, <3>1, <3>2 DEF UpTo
  <2> QED BY <2>1, <2>2 DEF Stayed
<1>4. ASSUME NEW r \in R PROVE t.kind = "qi" /\ r.op \in ToSet(t.ins) /\ r.op \in Ops(M)
  <2>1. t.kind = "qi" /\ r.op \in ToSet(t.ins) /\ \E c \in UpTo(C, b) : r.op \in Ops(Creates(c))
    BY <1>2, SpentByTx
  <2>2. PICK c \in UpTo(C, b) : r.op \in Ops(Creates(c))
    BY <2>1
  <2>3. c \in Stayed(q)
    BY <1>3
  <2>4. r.op \in Ops(M)
    BY <2>2, <2>3 DEF Ops
  <2> QED BY <2>1, <2>4
<1>5. ASSUME t.kind = "qi", NEW op \in Ops(M), op \in ToSet(t.ins) PROVE \E r \in R : r.op = op
  <2>1. PICK c \in Stayed(q) : \E o \in Creates(c) : o.op = op
    BY DEF Ops
  <2>2. PICK o \in Creates(c) : o.op = op
    BY <2>1
  <2>3. c \in C
    BY <1>1, SeenTables
  <2>4. PICK r \in d.utxos : RowFrom(r, o, c, C)
    BY <1>2, <2>3, OutputHasRow
  <2>5. IsQiTx(Body[b][k]) /\ o.op \in ToSet(Body[b][k].ins)
    BY <1>5, <2>2 DEF IsQiTx
  <2>6. r.spentTx = t.hash
    BY <1>2, <2>4, <2>5, SpenderSpendsRow
  <2> QED BY <2>2, <2>4, <2>6 DEF RowFrom
<1> HIDE DEF R, M
<1>6. CASE t.kind = "qi"
  <2>1. Ops(R) = Ops(M) \cap ToSet(t.ins)
    BY <1>4, <1>5, <1>6 DEF Ops
  <2> QED BY <1>6, <2>1 DEF R, M, InputsFrom, TxUTXOs
<1>7. CASE t.kind # "qi"
  <2>1. Ops(R) = {}
    BY <1>4, <1>7 DEF Ops
  <2> QED BY <1>7, <2>1 DEF R, InputsFrom, TxUTXOs
<1> QED BY <1>6, <1>7

\* GET /tx/{hash} has all outputs and all inputs of the transaction, whatever
\* is committed above its block while the two queries run.
THEOREM TxAnswers == ReadsSpec => []TxAnswerComplete
<1>1. ASSUME ReadsInv PROVE TxAnswerComplete
  <2> SUFFICES ASSUME Done("tx"), NEW b \in Stayed(http), NEW t \in ToSet(Body[b]), t.hash = http.arg
               PROVE  /\ Ops(http.parts[1]) = {op \in Ops(Creates(b)) : op[1] = t.hash}
                      /\ Ops(http.parts[2]) =
                             IF t.kind = "qi"
                             THEN Ops(UNION {Creates(c) : c \in Stayed(http)}) \cap ToSet(t.ins)
                             ELSE {}
    BY DEF TxAnswerComplete
  <2>1. RequestInv(http, db) /\ http.kind = "tx" /\ http # NoRequest
    BY <1>1 DEF ReadsInv, Done, NoRequest
  <2>2. Len(http.parts) = 2
    BY <2>1 DEF Done, Answered, Queries, TxUTXOs
  <2>3. PICK q, now : q = http /\ now = db
    OBVIOUS
  <2>4. PICK k \in DOMAIN Body[b] : t = Body[b][k]
    BY DEF ToSet
  <2>5. \A d : Queries(d, q) = TxUTXOs(d, t.hash)
    BY <2>1, <2>3 DEF Queries
  <2>6. Ops(q.parts[1]) = {op \in Ops(Creates(b)) : op[1] = t.hash}
    <3>1. PICK d \in q.seen : q.parts[1] = Queries(d, q)[1]
      BY <2>1, <2>2, <2>3, PartFrom
    <3>2. q.parts[1] = {r \in d.utxos : r.op[1] = t.hash}
      BY <2>5, <3>1 DEF TxUTXOs
    <3>3. TablesOf(d, d.blocks) /\ b \in d.blocks
      BY <2>1, <2>3, SeenTables
    <3> QED BY <2>4, <3>2, <3>3, TxOutputs
  <2>7. Ops(q.parts[2]) = InputsFrom(t, Stayed(q))
    <3>1. PICK d \in q.seen : q.parts[2] = Queries(d, q)[2]
      BY <2>1, <2>2, <2>3, PartFrom
    <3>2. RequestInv(q, now) /\ q # NoRequest /\ b \in Stayed(q)
      BY <2>1, <2>3
    <3>3. Ops(TxUTXOs(d, t.hash)[2]) = InputsFrom(t, Stayed(q))
      BY <2>4, <3>2, TxInputs
    <3> QED BY <2>5, <3>1, <3>3
  <2> QED BY <2>3, <2>6, <2>7 DEF InputsFrom
<1> QED BY <1>1, ReadsInductive, PTL

-----------------------------------------------------------------------------
(* The answer about an outpoint.                                           *)

\* An outpoint is made once in a chain.
LEMMA OutputOnce ==
    ASSUME NEW C \in SUBSET Block, ValidChain(C), NEW q \in RowsIn(ChainStatements(C)),
           NEW p \in RowsIn(ChainStatements(C)), q.op = p.op
    PROVE  q = p
<1>1. PICK s \in ChainStatements(C) : s.sql = "insert" /\ q = s.row
  BY DEF RowsIn
<1>2. PICK x \in ChainStatements(C) : x.sql = "insert" /\ p = x.row
  BY DEF RowsIn
<1>3. PICK b, k, m : b \in C /\ StatementAt(b, k, m, s)
  BY <1>1, InChain
<1>4. PICK c, i, j : c \in C /\ StatementAt(c, i, j, x)
  BY <1>2, InChain
<1>5. b = c /\ k = i /\ m = j
  BY <1>1, <1>2, <1>3, <1>4, InsertOnce
<1> QED BY <1>1, <1>2, <1>3, <1>4, <1>5 DEF StatementAt

\* An outpoint has at most one row in the table of a chain, whatever heights
\* the row's key allows.
LEMMA RowOnce ==
    ASSUME NEW d, NEW C, TablesOf(d, C), NEW r \in d.utxos, NEW p \in d.utxos, r.op = p.op
    PROVE  r = p
<1>1. PICK q, c : RowFrom(r, q, c, C)
  BY RowHasOutput
<1>2. PICK o, e : RowFrom(p, o, e, C)
  BY RowHasOutput
<1>3. q = o
  BY <1>1, <1>2, OutputOnce DEF RowFrom, RowOf, TablesOf
<1> QED BY <1>1, <1>2, <1>3 DEF RowFrom, RowOf

\* GET /utxo/{hash}/{index} finds at most one row: no reorganisation leaves
\* one behind at another height.
THEOREM OutpointAnswers == ReadsSpec => []OutpointUnique
<1>1. ASSUME ReadsInv PROVE OutpointUnique
  <2> SUFFICES ASSUME Done("utxo") PROVE Cardinality(http.parts[1]) <= 1
    BY DEF OutpointUnique
  <2>1. RequestInv(http, db) /\ http.kind = "utxo" /\ http # NoRequest
    BY <1>1 DEF ReadsInv, Done, NoRequest
  <2>2. Len(http.parts) = 1
    BY <2>1 DEF Done, Answered, Queries, OutpointRows
  <2>3. PICK d \in http.seen : http.parts[1] = Queries(d, http)[1]
    BY <2>1, <2>2, PartFrom
  <2>4. PICK R : R = http.parts[1]
    OBVIOUS
  <2>5. R = {r \in d.utxos : r.op = http.arg}
    BY <2>1, <2>3, <2>4 DEF Queries, OutpointRows
  <2>6. TablesOf(d, d.blocks)
    BY <2>1, SeenTables
  <2>7. \A r, p \in R : r = p
    BY <2>5, <2>6, RowOnce
  <2>8. CASE R = {}
    BY <2>4, <2>8, FS_EmptySet
  <2>9. CASE R # {}
    <3>1. PICK r : R = {r}
      BY <2>7, <2>9
    <3>2. Cardinality(R) = 1
      BY <3>1, FS_Singleton
    <3> QED BY <2>4, <3>2
  <2> QED BY <2>8, <2>9
<1> QED BY <1>1, ReadsInductive, PTL

-----------------------------------------------------------------------------
(* The accounts.                                                           *)

\* The image of a finite set is finite.
LEMMA FiniteImage ==
    ASSUME NEW S, IsFiniteSet(S), NEW f, NEW T, \A y \in T : \E x \in S : y = f[x]
    PROVE  IsFiniteSet(T)
<1> DEFINE R == {f[x] : x \in S}
           g == [x \in S |-> f[x]]
<1>1. g \in Surjection(S, R)
  BY DEF Surjection
<1>2. T \in SUBSET R
  OBVIOUS
<1> HIDE DEF R, g
<1>3. IsFiniteSet(R)
  BY <1>1, FS_Surjection
<1> QED BY <1>2, <1>3, FS_Subset

\* A union of finite sets, one for each element of a finite set.
LEMMA FiniteUnion ==
    ASSUME NEW S, IsFiniteSet(S), NEW f, \A x \in S : IsFiniteSet(f[x])
    PROVE  IsFiniteSet(UNION {f[x] : x \in S})
<1> DEFINE R == {f[x] : x \in S}
<1>1. \A y \in R : \E x \in S : y = f[x]
  OBVIOUS
<1>2. \A y \in R : IsFiniteSet(y)
  OBVIOUS
<1> HIDE DEF R
<1>3. IsFiniteSet(R)
  BY <1>1, FiniteImage
<1>4. IsFiniteSet(UNION R)
  BY <1>2, <1>3, FS_UNION
<1> QED BY <1>4 DEF R

\* A sequence has finitely many elements.
LEMMA FiniteSequence ==
    ASSUME NEW s, IsSequence(s)
    PROVE  IsFiniteSet(DOMAIN s) /\ IsFiniteSet(ToSet(s))
<1>1. IsFiniteSet(DOMAIN s)
  BY SequenceFacts, FS_Interval
<1>2. \A y \in ToSet(s) : \E x \in DOMAIN s : y = s[x]
  BY DEF ToSet
<1> QED BY <1>1, <1>2, FiniteImage

\* A chain is finite: it has one block per height, up to its tip's.
LEMMA FiniteChain ==
    ASSUME NEW C, NEW t, IsChain(C, t)
    PROVE  IsFiniteSet(C)
<1>1. CASE t = NoBlock
  BY <1>1, FS_EmptySet DEF IsChain
<1>2. CASE t # NoBlock
  <2>1. t \in C /\ C \subseteq Block /\ \A b \in C : Height[b] \in 0..Height[t]
    BY <1>2, HeightAssumption DEF IsChain
  <2> DEFINE f == [b \in C |-> Height[b]]
  <2>2. f \in Injection(C, 0..Height[t])
    BY <2>1 DEF Injection, IsInjective, IsChain
  <2>3. IsFiniteSet(0..Height[t])
    <3>1. Height[t] \in Int /\ 0 \in Int
      BY <2>1, HeightAssumption
    <3> QED BY <3>1, FS_Interval
  <2> HIDE DEF f
  <2> QED BY <2>2, <2>3, FS_Injection
<1> QED BY <1>1, <1>2

\* The statements of a block are finitely many.
LEMMA FiniteBlock ==
    ASSUME NEW b \in Block
    PROVE  IsFiniteSet(BlockStatements[b])
<1>1. PICK lists : lists = ApplyBlock(b)
  OBVIOUS
<1>2. IsSequence(lists) /\ \A k \in DOMAIN lists : IsSequence(lists[k])
  BY <1>1, BlockLists
<1>3. PICK f : f = [k \in DOMAIN lists |-> ToSet(lists[k])]
  OBVIOUS
<1>4. IsFiniteSet(DOMAIN lists) /\ \A k \in DOMAIN lists : IsFiniteSet(f[k])
  BY <1>2, <1>3, FiniteSequence
<1>5. IsFiniteSet(UNION {f[k] : k \in DOMAIN lists})
  BY <1>4, FiniteUnion
<1>6. BlockStatements[b] = UNION {f[k] : k \in DOMAIN lists}
  BY <1>1, <1>3 DEF BlockStatements
<1> QED BY <1>5, <1>6

\* The table of a chain is finite.
LEMMA FiniteTable ==
    ASSUME NEW C, NEW t, IsChain(C, t)
    PROVE  IsFiniteSet(UtxosOf(ChainStatements(C)))
<1>1. IsFiniteSet(C) /\ C \subseteq Block
  BY FiniteChain DEF IsChain
<1>2. \A b \in C : IsFiniteSet(BlockStatements[b])
  BY <1>1, FiniteBlock
<1>3. PICK D : D = ChainStatements(C)
  OBVIOUS
<1>4. IsFiniteSet(D)
  <2>1. IsFiniteSet(UNION {BlockStatements[b] : b \in C})
    BY <1>1, <1>2, FiniteUnion
  <2> QED BY <1>3, <2>1 DEF ChainStatements
<1>5. IsFiniteSet(RowsIn(D))
  <2>1. PICK f : f = [s \in D |-> s.row]
    OBVIOUS
  <2>2. \A y \in RowsIn(D) : \E s \in D : y = f[s]
    BY <2>1 DEF RowsIn
  <2> QED BY <1>4, <2>2, FiniteImage
<1>6. IsFiniteSet(UtxosOf(D))
  <2>1. PICK f : f = [r \in RowsIn(D) |-> Became(r, D)]
    OBVIOUS
  <2>2. \A y \in UtxosOf(D) : \E r \in RowsIn(D) : y = f[r]
    BY <2>1 DEF UtxosOf
  <2> QED BY <1>5, <2>2, FiniteImage
<1> QED BY <1>3, <1>6

\* The lock of an output is a height.
LEMMA OutputLock ==
    ASSUME NEW c \in Block, NEW q \in Creates(c)
    PROVE  q.lock \in Nat
<1>1. PICK j \in DOMAIN Body[c] : q \in QiRows(Body[c][j], Height[c]) \cup EtxRows(Body[c][j], Height[c])
  BY DEF Creates, ToSet
<1>2. PICK t, h : t = Body[c][j] /\ h = Height[c]
  OBVIOUS
<1>3. WellFormed(t) /\ h \in Nat
  BY <1>2, BodyAssumption, HeightAssumption
<1>4. CASE q \in QiRows(t, h)
  <2>1. PICK i \in DOMAIN t.outs : q = OutputRow(t, i, t.outs[i].lock, h) /\ IsQiTx(t)
    BY <1>4 DEF QiRows
  <2>2. t.outs[i].lock \in Nat
    BY <1>3, <2>1 DEF WellFormed
  <2> QED BY <2>1, <2>2 DEF OutputRow, NewRow
<1>5. CASE q \in EtxRows(t, h)
  <2>1. PICK i \in DOMAIN t.outs : q = OutputRow(t, i, EtxLock(t, h), h) /\ IsEtx(t) /\ CreatesOutputs(t)
    BY <1>5 DEF EtxRows
  <2>2. EtxLock(t, h) \in Nat
    BY <1>3, <2>1, EtxLockIsHeight
  <2> QED BY <2>1, <2>2 DEF OutputRow, NewRow
<1> QED BY <1>1, <1>2, <1>4, <1>5

\* No row is both spent and trimmed; a row's lock is a height, and the block
\* that made it is in the chain.
LEMMA RowAccount ==
    ASSUME NEW d, NEW C, TablesOf(d, C), NEW r \in d.utxos
    PROVE  /\ r.spent = Null \/ r.trimmed = Null
           /\ r.lock \in Nat /\ \E c \in C : r.created = Height[c]
<1>1. PICK q, c : RowFrom(r, q, c, C)
  BY RowHasOutput
<1>2. r.spent # Null => r.trimmed = Null
  BY <1>1, SpentRowHasSpender
<1>3. c \in C /\ q \in Creates(c) /\ r.lock = q.lock /\ r.created = Height[c]
  BY <1>1 DEF RowFrom, RowOf
<1>4. q.lock \in Nat
  BY <1>3, OutputLock DEF TablesOf
<1> QED BY <1>2, <1>3, <1>4

\* A table counted by the state of its rows.
LEMMA CountByState ==
    ASSUME NEW T, IsFiniteSet(T), \A r \in T : r.spent = Null \/ r.trimmed = Null
    PROVE  Cardinality(T) = Cardinality({r \in T : Live(r)}) + Cardinality({r \in T : r.spent # Null})
                            + Cardinality({r \in T : r.trimmed # Null})
<1>1. PICK U, V, W : U = {r \in T : Live(r)} /\ V = {r \in T : r.spent # Null}
                     /\ W = {r \in T : r.trimmed # Null}
  OBVIOUS
<1>2. T = (U \cup V) \cup W /\ U \cap V = {} /\ (U \cup V) \cap W = {}
  BY <1>1 DEF Live
<1>3. IsFiniteSet(U) /\ IsFiniteSet(V) /\ IsFiniteSet(W)
  <2>1. U \in SUBSET T /\ V \in SUBSET T /\ W \in SUBSET T
    BY <1>1
  <2> QED BY <2>1, FS_Subset
<1>4. Cardinality(U) \in Nat /\ Cardinality(V) \in Nat /\ Cardinality(W) \in Nat
  BY <1>3, FS_CardinalityType
<1>5. IsFiniteSet(U \cup V) /\ Cardinality(U \cup V) = Cardinality(U) + Cardinality(V)
  <2>1. IsFiniteSet(U \cup V)
    BY <1>3, FS_Union
  <2>2. Cardinality(U \cup V) = Cardinality(U) + Cardinality(V) - Cardinality(U \cap V)
    BY <1>3, FS_Union
  <2>3. Cardinality(U \cap V) = 0
    BY <1>2, FS_EmptySet
  <2> QED BY <1>4, <2>1, <2>2, <2>3
<1>6. Cardinality(T) = Cardinality(U) + Cardinality(V) + Cardinality(W)
  <2>1. Cardinality(T) = Cardinality(U \cup V) + Cardinality(W) - Cardinality((U \cup V) \cap W)
    BY <1>2, <1>3, <1>5, FS_Union
  <2>2. Cardinality((U \cup V) \cap W) = 0
    BY <1>2, FS_EmptySet
  <2> QED BY <1>4, <1>5, <2>1, <2>2
<1> QED BY <1>1, <1>6

\* The height Tip answers is the highest of the chain.
LEMMA TipIsHighest ==
    ASSUME NEW d, IsChain(d.blocks, d.tip), NEW c \in d.blocks
    PROVE  /\ d.tip \in d.blocks /\ Tip(d) = Height[d.tip] /\ Tip(d) \in Nat
           /\ Height[c] \in Nat /\ Height[c] <= Tip(d)
BY HeightAssumption DEF IsChain, Tip

\* The buckets of a balance, read from one database.
LEMMA BalanceAddsUp ==
    ASSUME NEW d, IsChain(d.blocks, d.tip), TablesOf(d, d.blocks), NEW a, NEW rows, rows = RowsOf(d, {a}),
           NEW B, B = TipAndBalance(d, a)
    PROVE  /\ rows \ (B[2] \cup B[3]) = {r \in rows : State(r) = "spent"}
           /\ \A r \in B[2] : r \in Spendable(B) <=> \E b \in d.blocks : Height[b] >= r.lock
<1>1. B[1] = Tip(d) /\ B[2] = {r \in rows : Live(r)} /\ B[3] = {r \in rows : r.trimmed # Null}
  BY DEF TipAndBalance, AddressBalance
<1>2. rows \ (B[2] \cup B[3]) = {r \in rows : State(r) = "spent"}
  BY <1>1 DEF State, Live
<1>3. ASSUME NEW r \in B[2] PROVE r \in Spendable(B) <=> \E b \in d.blocks : Height[b] >= r.lock
  <2>1. r \in d.utxos
    BY <1>1 DEF RowsOf
  <2>2. r.lock \in Nat /\ \E c \in d.blocks : r.created = Height[c]
    BY <2>1, RowAccount
  <2>3. PICK c \in d.blocks : r.created = Height[c]
    BY <2>2
  <2>4. d.tip \in d.blocks /\ Tip(d) = Height[d.tip] /\ Tip(d) \in Nat
    BY <2>3, TipIsHighest
  <2>5. \A b \in d.blocks : Height[b] \in Nat /\ Height[b] <= Tip(d)
    BY TipIsHighest
  <2>6. (\E b \in d.blocks : Height[b] >= r.lock) <=> r.lock <= Tip(d)
    BY <2>2, <2>4, <2>5
  <2>7. r \in Spendable(B) <=> r.lock = 0 \/ r.lock <= Tip(d)
    BY <1>1 DEF Spendable
  <2> QED BY <2>2, <2>4, <2>6, <2>7
<1> QED BY <1>2, <1>3

\* The columns of the statistics, read from one database.
LEMMA StatsAddUp ==
    ASSUME NEW d, IsChain(d.blocks, d.tip), TablesOf(d, d.blocks), NEW S, S = Stats(d)
    PROVE  /\ Cardinality(S[1].total) =
                  Cardinality(S[1].unspent) + Cardinality(S[1].spent) + Cardinality(S[1].trimmed)
           /\ S[1].unspent = S[2]
           /\ \A r \in S[1].total : r.created <= S[3]
<1>1. PICK T : T = d.utxos
  OBVIOUS
<1>2. /\ S[1].total = T /\ S[1].unspent = {r \in T : Live(r)} /\ S[1].spent = {r \in T : r.spent # Null}
      /\ S[1].trimmed = {r \in T : r.trimmed # Null} /\ S[2] = {r \in T : Live(r)} /\ S[3] = Tip(d)
  BY <1>1 DEF Stats
<1>3. IsFiniteSet(T) /\ \A r \in T : r.spent = Null \/ r.trimmed = Null
  BY <1>1, FiniteTable, RowAccount DEF TablesOf
<1>4. Cardinality(T) = Cardinality({r \in T : Live(r)}) + Cardinality({r \in T : r.spent # Null})
                       + Cardinality({r \in T : r.trimmed # Null})
  BY <1>3, CountByState
<1>5. ASSUME NEW r \in T PROVE r.created <= Tip(d)
  <2>1. PICK c \in d.blocks : r.created = Height[c]
    BY <1>1, RowAccount
  <2> QED BY <2>1, TipIsHighest
<1> QED BY <1>2, <1>4, <1>5

\* The accounts add up, in a balance and in the statistics, whenever all
\* queries of the answer saw one database.
THEOREM Accounts == ReadsSpec => []AccountsAddUp
<1>1. ASSUME ReadsInv PROVE AccountsAddUp
  <2> SUFFICES ASSUME Cardinality(http.seen) = 1, Done("balance") \/ Done("stats")
               PROVE  AccountsAddUp
    BY DEF AccountsAddUp
  <2>1. RequestInv(http, db) /\ http # NoRequest
    BY <1>1 DEF ReadsInv, Done, NoRequest
  <2>2. PICK q, d : q = http /\ d = db
    OBVIOUS
  <2>3. SeenInv(q, d)
    BY <2>1, <2>2 DEF RequestInv
  <2>4. q.seen = {d}
    <3>1. \E x : q.seen = {x}
      BY <2>2, <2>3, FS_Singleton DEF SeenInv
    <3> QED BY <2>3, <3>1 DEF SeenInv
  <2>5. IsChain(d.blocks, d.tip) /\ TablesOf(d, d.blocks)
    BY <2>1, <2>2, <2>3, <2>4, SeenTables DEF SeenInv
  <2>6. \A i \in 1..Len(q.parts) : q.parts[i] = Queries(d, q)[i]
    BY <2>1, <2>2, <2>4, PartFrom
  <2>7. CASE Done("balance")
    <3>1. PICK B : B = TipAndBalance(d, q.arg)
      OBVIOUS
    <3>2. Queries(d, q) = B /\ Len(q.parts) = 3
      BY <2>2, <2>7, <3>1 DEF Done, Answered, Queries, TipAndBalance
    <3>3. q.parts[1] = B[1] /\ q.parts[2] = B[2] /\ q.parts[3] = B[3]
      BY <2>6, <3>2
    <3>4. PICK rows : rows = RowsOf(d, {q.arg})
      OBVIOUS
    <3>5. rows \ (B[2] \cup B[3]) = {r \in rows : State(r) = "spent"}
      BY <2>5, <3>1, <3>4, BalanceAddsUp
    <3>6. \A r \in B[2] : r \in Spendable(B) <=> \E b \in d.blocks : Height[b] >= r.lock
      BY <2>5, <3>1, <3>4, BalanceAddsUp
    <3>7. Spendable(q.parts) = Spendable(B)
      BY <3>3 DEF Spendable
    <3> QED BY <2>2, <2>7, <3>3, <3>4, <3>5, <3>6, <3>7 DEF AccountsAddUp, Done
  <2>8. CASE Done("stats")
    <3>1. PICK S : S = Stats(d)
      OBVIOUS
    <3>2. Queries(d, q) = S /\ Len(q.parts) = 3
      BY <2>2, <2>8, <3>1 DEF Done, Answered, Queries, Stats
    <3>3. q.parts[1] = S[1] /\ q.parts[2] = S[2] /\ q.parts[3] = S[3]
      BY <2>6, <3>2
    <3>4. /\ Cardinality(S[1].total) =
                 Cardinality(S[1].unspent) + Cardinality(S[1].spent) + Cardinality(S[1].trimmed)
          /\ S[1].unspent = S[2]
          /\ \A r \in S[1].total : r.created <= S[3]
      BY <2>5, <3>1, StatsAddUp
    <3> QED BY <2>2, <2>8, <3>3, <3>4 DEF AccountsAddUp, Done
  <2> QED BY <2>7, <2>8
<1> QED BY <1>1, ReadsInductive, PTL

=============================================================================
