---------------------------- MODULE LedgerProofs ----------------------------
(***************************************************************************)
(* What Ledger's runs check on a small tree, for every block tree, every   *)
(* body and every update: LedgerInv is inductive, and the properties of    *)
(* the committed tables follow from it.                                    *)
(***************************************************************************)
EXTENDS Ledger, DecoderProofs

-----------------------------------------------------------------------------
(* The update of the open transaction.                                     *)

\* What an update from the follower that connects looks like.
LEMMA UpdateShape ==
    ASSUME CommittedInv, NEW rollback, NEW apply,
           FromFollower(rollback, apply), Connects(db.tip, rollback, apply),
           NEW r, NEW a, r = Len(rollback), a = Len(apply)
    PROVE  /\ r \in Nat /\ a \in Nat /\ 1 <= a
           /\ DOMAIN rollback = 1..r /\ DOMAIN apply = 1..a
           /\ IsSequence(rollback) /\ IsSequence(apply)
           /\ \A i \in 1..a : apply[i] \in Block /\ apply[i] \notin db.blocks
           /\ \A i \in 1..r : rollback[i] \in db.blocks
           /\ db.tip = NoBlock => r = 0 /\ a = 1
           /\ db.tip # NoBlock => ParentHash[apply[1]] \in db.blocks
<1>1. apply \in Seq(Block) /\ rollback \in Seq(db.blocks) /\ apply # <<>>
  BY DEF FromFollower, Connects
<1>2. r \in Nat /\ a \in Nat /\ DOMAIN rollback = 1..r /\ DOMAIN apply = 1..a
  BY <1>1, LenProperties
<1>3. 1 <= a
  BY <1>1, <1>2, EmptySeq
<1>4. IsSequence(rollback) /\ IsSequence(apply)
  <2>1. ASSUME NEW S, NEW s \in Seq(S) PROVE IsSequence(s)
    <3>1. s \in [1..Len(s) -> ToSet(s)] /\ Len(s) \in Nat
      BY <2>1, LenProperties DEF ToSet
    <3> QED BY <3>1 DEF IsSequence
  <2> QED BY <1>1, <2>1
<1>5. \A i \in 1..a : apply[i] \in Block
  BY <1>1, <1>2, ElementOfSeq
<1>6. \A i \in 1..a : apply[i] \notin db.blocks
  <2>1. ToSet(apply) \cap db.blocks = {}
    BY DEF FromFollower
  <2> QED BY <1>2, <2>1 DEF ToSet
<1>7. \A i \in 1..r : rollback[i] \in db.blocks
  BY <1>1, <1>2, ElementOfSeq
<1>8. db.tip = NoBlock => r = 0 /\ a = 1
  <2> HAVE db.tip = NoBlock
  <2>1. db.blocks = {}
    BY DEF CommittedInv, IsChain
  <2>2. ~(1 \in 1..r)
    BY <1>7, <2>1
  <2>3. r = 0
    BY <1>2, <2>2
  <2>4. a = 1
    BY DEF FromFollower
  <2> QED BY <2>3, <2>4
<1>9. db.tip # NoBlock => ParentHash[apply[1]] \in db.blocks
  BY DEF FromFollower
<1> QED BY <1>2, <1>3, <1>4, <1>5, <1>6, <1>7, <1>8, <1>9

\* The rollback goes down the stored chain, from the tip to the block the
\* branch hangs from.
LEMMA Descent ==
    ASSUME CommittedInv, FromFollower(update.rollback, update.apply),
           Connects(db.tip, update.rollback, update.apply),
           NEW r, r = Len(update.rollback)
    PROVE  /\ db.tip # NoBlock => RolledTo(1) = db.tip
           /\ \A i \in 1..r :
                  /\ RolledTo(i) = update.rollback[i]
                  /\ ParentHash[update.rollback[i]] = RolledTo(i + 1)
                  /\ RolledTo(i + 1) \in db.blocks
           /\ RolledTo(r + 1) = ParentHash[update.apply[1]]
           /\ r > 0 => db.tip # NoBlock
<1> DEFINE rb == update.rollback
           ap == update.apply
           a == Len(ap)
<1> HIDE DEF rb, ap, a
<1>0. FromFollower(rb, ap) /\ Connects(db.tip, rb, ap) /\ r = Len(rb) /\ a = Len(ap)
  BY DEF rb, ap, a
<1>1. r \in Nat /\ DOMAIN rb = 1..r
  BY <1>0, UpdateShape
<1>2. db.tip = NoBlock => r = 0
  BY <1>0, UpdateShape
<1>3. db.tip # NoBlock => ParentHash[ap[1]] \in db.blocks
  BY <1>0, UpdateShape
<1>4. \A i \in 1..r : rb[i] \in db.blocks
  BY <1>0, UpdateShape
<1>5. \A i : RolledTo(i) = IF i <= r THEN rb[i] ELSE ParentHash[ap[1]]
  BY DEF RolledTo, rb, ap
<1>6. \A i \in 1..r : rb[i] = IF i = 1 THEN db.tip ELSE ParentHash[rb[i - 1]]
  BY <1>0, <1>1 DEF Connects
<1>7. db.tip # NoBlock => ParentHash[ap[1]] = IF r = 0 THEN db.tip ELSE ParentHash[rb[r]]
  <2>1. db.tip # NoBlock => ParentHash[ap[1]] = IF rb = <<>> THEN db.tip ELSE ParentHash[rb[r]]
    BY <1>0 DEF Connects
  <2>2. rb = <<>> <=> r = 0
    <3>1. rb \in Seq(db.blocks)
      BY <1>0 DEF FromFollower
    <3> QED BY <1>0, <3>1, EmptySeq
  <2> QED BY <2>1, <2>2
<1>8. db.tip # NoBlock => RolledTo(1) = db.tip
  <2>1. CASE r = 0
    BY <1>5, <1>7, <2>1
  <2>2. CASE r # 0
    <3>1. 1 \in 1..r /\ 1 <= r
      BY <1>1, <2>2
    <3> QED BY <1>5, <1>6, <3>1
  <2> QED BY <2>1, <2>2
<1>9. ASSUME NEW i \in 1..r
      PROVE  RolledTo(i) = rb[i] /\ ParentHash[rb[i]] = RolledTo(i + 1) /\ RolledTo(i + 1) \in db.blocks
  <2>1. i <= r /\ db.tip # NoBlock /\ r # 0
    BY <1>1, <1>2
  <2>2. RolledTo(i) = rb[i]
    BY <1>5, <2>1
  <2>3. CASE i = r
    <3>1. ~(i + 1 <= r)
      BY <1>1, <2>3
    <3>2. RolledTo(i + 1) = ParentHash[ap[1]]
      BY <1>5, <3>1
    <3> QED BY <1>3, <1>7, <2>1, <2>2, <2>3, <3>2
  <2>4. CASE i # r
    <3>1. i + 1 \in 1..r /\ i + 1 <= r /\ i + 1 # 1 /\ (i + 1) - 1 = i
      BY <1>1, <2>4
    <3>2. RolledTo(i + 1) = rb[i + 1]
      BY <1>5, <3>1
    <3>3. rb[i + 1] = ParentHash[rb[i]]
      BY <1>6, <3>1
    <3> QED BY <1>4, <2>2, <3>1, <3>2, <3>3
  <2> QED BY <2>3, <2>4
<1>10. RolledTo(r + 1) = ParentHash[ap[1]]
  <2>1. ~(r + 1 <= r)
    BY <1>1
  <2> QED BY <1>5, <2>1
<1>11. r > 0 => db.tip # NoBlock
  BY <1>1, <1>2
<1> QED BY <1>8, <1>9, <1>10, <1>11 DEF rb, ap

\* rollbackBlock on one of the blocks of the rollback.
LEMMA UndoOne ==
    ASSUME CommittedInv, FromFollower(update.rollback, update.apply),
           Connects(db.tip, update.rollback, update.apply),
           NEW i \in 1..Len(update.rollback)
    PROVE  LET b == update.rollback[i]
               below == UpTo(db.blocks, RolledTo(i + 1))
               D == ChainStatements(UpTo(db.blocks, b))
           IN /\ below = UpTo(db.blocks, b) \ {b}
              /\ b \in Block
              /\ UtxosUndone(UtxosOf(D), Height[b], 3) = UtxosOf(ChainStatements(below))
              /\ ConvsUndone(ConvsOf(D), Height[b], 4) = ConvsOf(ChainStatements(below))
              /\ Decodable(D) => Decodable(ChainStatements(below))
<1> DEFINE b == update.rollback[i]
           S == db.blocks
           C == UpTo(S, b)
           below == UpTo(S, RolledTo(i + 1))
<1>1. b \in S
  BY UpdateShape
<1>2. ParentHash[b] = RolledTo(i + 1) /\ RolledTo(i + 1) \in S
  BY Descent
<1>3. IsChain(S, db.tip)
  BY DEF CommittedInv
<1> HIDE DEF b, S
<1>4. IsChain(C, b)
  BY <1>1, <1>3, CutIsChain
<1>5. below = C \ {b}
  BY <1>1, <1>2, <1>3, CutBelow
<1>6. b \in C
  BY <1>1, <1>2, <1>3, CutBelow
<1>7. \A c \in C \ {b} : Height[c] < Height[b]
  BY <1>1, <1>2, <1>3, CutBelow
<1>8. C \in SUBSET Block /\ ValidChain(C)
  BY <1>4, ChainIsValid
<1> HIDE DEF C, below
<1>9. UtxosUndone(UtxosOf(ChainStatements(C)), Height[b], 3) = UtxosOf(ChainStatements(C \ {b}))
  BY <1>6, <1>7, <1>8, UndoBlock
<1>10. ConvsUndone(ConvsOf(ChainStatements(C)), Height[b], 4) = ConvsOf(ChainStatements(C \ {b}))
  BY <1>6, <1>7, <1>8, UndoBlock
<1>11. Decodable(ChainStatements(C)) => Decodable(ChainStatements(C \ {b}))
  BY DEF Decodable, ChainStatements
<1>12. b \in Block
  BY <1>6, <1>8
<1> QED BY <1>5, <1>9, <1>10, <1>11, <1>12 DEF b, S, C, below

\* What stays of the chain, before the branch.
LEMMA GrowsFrom ==
    ASSUME CommittedInv, FromFollower(update.rollback, update.apply),
           Connects(db.tip, update.rollback, update.apply)
    PROVE  /\ Grown(0) = Kept /\ Grows(0)
           /\ db.tip # NoBlock => Kept = UpTo(db.blocks, RolledTo(Len(update.rollback) + 1))
           /\ db.tip = NoBlock => Kept = {} /\ db.blocks = {}
<1>1. IsChain(db.blocks, db.tip)
  BY DEF CommittedInv
<1>2. Grown(0) = Kept
  BY DEF Grown
<1>3. CASE db.tip = NoBlock
  <2>1. db.blocks = {} /\ Kept = {}
    BY <1>1, <1>3 DEF IsChain, Kept
  <2>2. GrownTip(0) = NoBlock
    BY <1>3 DEF GrownTip
  <2>3. IsChain({}, NoBlock)
    BY DEF IsChain
  <2> QED BY <1>2, <1>3, <2>1, <2>2, <2>3 DEF Grows
<1>4. CASE db.tip # NoBlock
  <2> DEFINE p == ParentHash[update.apply[1]]
  <2>1. p \in db.blocks
    BY <1>4, UpdateShape
  <2>2. Kept = UpTo(db.blocks, p) /\ GrownTip(0) = p
    BY <1>4 DEF Kept, GrownTip
  <2>3. IsChain(Kept, p)
    BY <1>1, <2>1, <2>2, CutIsChain
  <2>4. RolledTo(Len(update.rollback) + 1) = p
    BY Descent
  <2>5. Grows(0)
    BY <1>2, <2>2, <2>3 DEF Grows
  <2> QED BY <1>2, <1>4, <2>2, <2>4, <2>5
<1> QED BY <1>3, <1>4

\* One block more of the branch.
LEMMA GrowsOne ==
    ASSUME CommittedInv, FromFollower(update.rollback, update.apply),
           Connects(db.tip, update.rollback, update.apply),
           NEW n \in 1..Len(update.apply), Grows(n - 1)
    PROVE  LET b == update.apply[n]
           IN /\ Grown(n) = Grown(n - 1) \cup {b} /\ Grown(n) \ {b} = Grown(n - 1)
              /\ b \in Block /\ b \in Grown(n) /\ Grown(n) \in SUBSET Block /\ ValidChain(Grown(n))
              /\ \A c \in Grown(n) \ {b} : Height[c] < Height[b]
              /\ Grows(n)
<1> DEFINE ap == update.apply
           a == Len(ap)
           b == ap[n]
           S == Grown(n - 1)
           t == GrownTip(n - 1)
<1>1. a \in Nat /\ DOMAIN ap = 1..a
  BY UpdateShape
<1>2. \A i \in 1..a : ap[i] \in Block
  BY UpdateShape, ZenonT(60)
<1>3. n \in Nat /\ 1 <= n /\ n <= a
  BY <1>1
<1>4. Grown(n) = S \cup {b}
  <2>1. 1..n = (1..(n - 1)) \cup {n}
    BY <1>3
  <2> QED BY <2>1 DEF Grown
<1>5. IsChain(S, t)
  BY DEF Grows
<1>6. t # NoBlock => ParentHash[b] = t
  <2>1. CASE n = 1
    BY <2>1 DEF GrownTip
  <2>2. CASE n # 1
    <3>1. n - 1 > 0 /\ n \in 2..a
      BY <1>3, <2>2
    <3>2. t = ap[n - 1]
      BY <3>1 DEF GrownTip
    <3>3. ParentHash[b] = ap[n - 1]
      BY <3>1 DEF Connects
    <3> QED BY <3>2, <3>3
  <2> QED BY <2>1, <2>2
<1>7. b \in Block
  BY <1>2
<1> HIDE DEF S, t, b
<1>8. IsChain(S \cup {b}, b) /\ (\A c \in S : Height[c] < Height[b]) /\ b \notin S
  BY <1>5, <1>6, <1>7, ChainGrows
<1>9. Grown(n) \ {b} = S
  BY <1>4, <1>8
<1>10. Grown(n) \in SUBSET Block /\ ValidChain(Grown(n))
  BY <1>4, <1>8, ChainIsValid
<1>11. GrownTip(n) = b
  BY <1>3 DEF GrownTip, b
<1>12. ASSUME db.tip # NoBlock, NEW i \in 1..n PROVE Height[ap[i]] > Height[ParentHash[ap[1]]]
  <2> DEFINE p == ParentHash[ap[1]]
  <2>1. CASE i = n
    <3>1. p \in db.blocks /\ db.blocks \subseteq Block
      BY <1>12, UpdateShape DEF CommittedInv, IsChain
    <3>2. Height[p] \in Nat
      BY <3>1, HeightAssumption
    <3>3. p \in S
      BY <1>12, <3>1, <3>2 DEF S, Grown, Kept, UpTo
    <3>4. Height[p] < Height[b] /\ Height[b] \in Nat
      BY <1>7, <1>8, <3>3, HeightAssumption
    <3> QED BY <2>1, <3>2, <3>4 DEF b
  <2>2. CASE i # n
    <3>1. i \in 1..(n - 1)
      BY <1>3, <2>2
    <3> QED BY <1>12, <3>1 DEF Grows
  <2> QED BY <2>1, <2>2
<1>13. Grows(n)
  BY <1>4, <1>8, <1>11, <1>12 DEF Grows
<1> QED BY <1>4, <1>7, <1>8, <1>9, <1>10, <1>13 DEF S, b

-----------------------------------------------------------------------------
(* What the statements of ApplyUpdate and rollbackBlock do.                *)

\* What the statements of rollbackBlock do to a database.
LEMMA ExecUndo ==
    ASSUME NEW d, IsDb(d), NEW s
    PROVE  /\ s.sql = "untrim" => Exec(d, s) =
                  [utxos |-> Untrim(d.utxos, s.h), convs |-> d.convs, blocks |-> d.blocks, tip |-> d.tip]
           /\ s.sql = "unspend" => Exec(d, s) =
                  [utxos |-> Unspend(d.utxos, s.h), convs |-> d.convs, blocks |-> d.blocks, tip |-> d.tip]
           /\ s.sql = "uncreate" => Exec(d, s) =
                  [utxos |-> DeleteCreated(d.utxos, s.h), convs |-> d.convs, blocks |-> d.blocks, tip |-> d.tip]
           /\ s.sql = "unconv" => Exec(d, s) =
                  [utxos |-> d.utxos, convs |-> DeleteConv(d.convs, s.h), blocks |-> d.blocks, tip |-> d.tip]
<1>1. d = [utxos |-> d.utxos, convs |-> d.convs, blocks |-> d.blocks, tip |-> d.tip]
  BY DEF IsDb
<1>2. ASSUME s.sql = "untrim"
      PROVE  Exec(d, s) = [utxos |-> Untrim(d.utxos, s.h), convs |-> d.convs, blocks |-> d.blocks, tip |-> d.tip]
  <2>1. Exec(d, s) = [d EXCEPT !.utxos = Untrim(@, s.h)]
    BY <1>2 DEF Exec
  <2> QED BY <1>1, <2>1
<1>3. ASSUME s.sql = "unspend"
      PROVE  Exec(d, s) = [utxos |-> Unspend(d.utxos, s.h), convs |-> d.convs, blocks |-> d.blocks, tip |-> d.tip]
  <2>1. Exec(d, s) = [d EXCEPT !.utxos = Unspend(@, s.h)]
    BY <1>3 DEF Exec
  <2> QED BY <1>1, <2>1
<1>4. ASSUME s.sql = "uncreate"
      PROVE  Exec(d, s) = [utxos |-> DeleteCreated(d.utxos, s.h), convs |-> d.convs, blocks |-> d.blocks, tip |-> d.tip]
  <2>1. Exec(d, s) = [d EXCEPT !.utxos = DeleteCreated(@, s.h)]
    BY <1>4 DEF Exec
  <2> QED BY <1>1, <2>1
<1>5. ASSUME s.sql = "unconv"
      PROVE  Exec(d, s) = [utxos |-> d.utxos, convs |-> DeleteConv(d.convs, s.h), blocks |-> d.blocks, tip |-> d.tip]
  <2>1. Exec(d, s) = [d EXCEPT !.convs = DeleteConv(@, s.h)]
    BY <1>5 DEF Exec
  <2> QED BY <1>1, <2>1
<1> QED BY <1>2, <1>3, <1>4, <1>5

\* What the statements of the spine do to a database.
LEMMA ExecSpine ==
    ASSUME NEW d, IsDb(d), NEW s
    PROVE  /\ s.sql = "deleteBlock" => Exec(d, s) =
                  [utxos |-> d.utxos, convs |-> d.convs, blocks |-> d.blocks \ {s.b}, tip |-> d.tip]
           /\ s.sql = "insertBlock" => Exec(d, s) =
                  [utxos |-> d.utxos, convs |-> d.convs, blocks |-> d.blocks \cup {s.b}, tip |-> d.tip]
           /\ s.sql = "tip" => Exec(d, s) =
                  [utxos |-> d.utxos, convs |-> d.convs, blocks |-> d.blocks, tip |-> s.b]
<1>1. d = [utxos |-> d.utxos, convs |-> d.convs, blocks |-> d.blocks, tip |-> d.tip]
  BY DEF IsDb
<1>2. ASSUME s.sql = "deleteBlock"
      PROVE  Exec(d, s) = [utxos |-> d.utxos, convs |-> d.convs, blocks |-> d.blocks \ {s.b}, tip |-> d.tip]
  <2>1. Exec(d, s) = [d EXCEPT !.blocks = @ \ {s.b}]
    BY <1>2 DEF Exec
  <2> QED BY <1>1, <2>1
<1>3. ASSUME s.sql = "insertBlock"
      PROVE  Exec(d, s) = [utxos |-> d.utxos, convs |-> d.convs, blocks |-> d.blocks \cup {s.b}, tip |-> d.tip]
  <2>1. Exec(d, s) = [d EXCEPT !.blocks = @ \cup {s.b}]
    BY <1>3 DEF Exec
  <2> QED BY <1>1, <2>1
<1>4. ASSUME s.sql = "tip"
      PROVE  Exec(d, s) = [utxos |-> d.utxos, convs |-> d.convs, blocks |-> d.blocks, tip |-> s.b]
  <2>1. Exec(d, s) = [d EXCEPT !.tip = s.b]
    BY <1>4 DEF Exec
  <2> QED BY <1>1, <2>1
<1> QED BY <1>2, <1>3, <1>4

\* Undoing statement by statement.
LEMMA UndoSteps ==
    ASSUME NEW U, NEW V, NEW h
    PROVE  /\ UtxosUndone(U, h, 0) = U /\ ConvsUndone(V, h, 0) = V
           /\ UtxosUndone(U, h, 1) = Untrim(U, h) /\ ConvsUndone(V, h, 1) = V
           /\ UtxosUndone(U, h, 2) = Unspend(UtxosUndone(U, h, 1), h) /\ ConvsUndone(V, h, 2) = V
           /\ UtxosUndone(U, h, 3) = DeleteCreated(UtxosUndone(U, h, 2), h) /\ ConvsUndone(V, h, 3) = V
           /\ UtxosUndone(U, h, 4) = UtxosUndone(U, h, 3) /\ ConvsUndone(V, h, 4) = DeleteConv(V, h)
<1>1. UtxosUndone(U, h, 0) = U
  BY DEF UtxosUndone
<1>2. UtxosUndone(U, h, 1) = Untrim(U, h)
  BY DEF UtxosUndone
<1>3. UtxosUndone(U, h, 2) = Unspend(Untrim(U, h), h)
  BY DEF UtxosUndone
<1>4. UtxosUndone(U, h, 3) = DeleteCreated(Unspend(Untrim(U, h), h), h)
  BY DEF UtxosUndone
<1>5. UtxosUndone(U, h, 4) = DeleteCreated(Unspend(Untrim(U, h), h), h)
  BY DEF UtxosUndone
<1>6. ConvsUndone(V, h, 0) = V /\ ConvsUndone(V, h, 1) = V /\ ConvsUndone(V, h, 2) = V
      /\ ConvsUndone(V, h, 3) = V /\ ConvsUndone(V, h, 4) = DeleteConv(V, h)
  BY DEF ConvsUndone
<1> QED BY <1>1, <1>2, <1>3, <1>4, <1>5, <1>6

\* The list of rollbackBlock has four statements.
LEMMA UndoList ==
    ASSUME NEW b
    PROVE  /\ DOMAIN RollbackBlock(b) = 1..4
           /\ RollbackBlock(b)[1] = [sql |-> "untrim", h |-> Height[b]]
           /\ RollbackBlock(b)[2] = [sql |-> "unspend", h |-> Height[b]]
           /\ RollbackBlock(b)[3] = [sql |-> "uncreate", h |-> Height[b]]
           /\ RollbackBlock(b)[4] = [sql |-> "unconv", h |-> Height[b]]
BY DEF RollbackBlock

-----------------------------------------------------------------------------
(* The steps of the open transaction.                                      *)

\* The parts of the invariant depend on db and update only.
LEMMA SameUpdate ==
    ASSUME UNCHANGED <<db, update>>
    PROVE  /\ Kept' = Kept
           /\ \A n : Grown(n)' = Grown(n) /\ (Grows(n)' <=> Grows(n))
           /\ (CommittedInv' <=> CommittedInv)
           /\ (FromFollower(update.rollback, update.apply)' <=> FromFollower(update.rollback, update.apply))
           /\ (Connects(db.tip, update.rollback, update.apply)'
                   <=> Connects(db.tip, update.rollback, update.apply))
<1>1. Kept' = Kept
  BY DEF Kept
<1>2. \A n : Grown(n)' = Grown(n)
  BY <1>1 DEF Grown
<1>3. \A n : GrownTip(n)' = GrownTip(n)
  BY DEF GrownTip
<1>4. ASSUME NEW n PROVE Grows(n)' <=> Grows(n)
  BY <1>2, <1>3 DEF Grows
<1>5. CommittedInv' <=> CommittedInv
  BY DEF CommittedInv
<1>6. FromFollower(update.rollback, update.apply)' <=> FromFollower(update.rollback, update.apply)
  BY DEF FromFollower
<1>7. Connects(db.tip, update.rollback, update.apply)' <=> Connects(db.tip, update.rollback, update.apply)
  BY DEF Connects
<1> QED BY <1>1, <1>2, <1>4, <1>5, <1>6, <1>7

\* What the open transaction's step has to show.
LEMMA StepKeeps ==
    ASSUME LedgerInv, open, UNCHANGED <<db, open, update>>, IsDb(work)',
           NEW r, NEW a, r = Len(update.rollback), a = Len(update.apply),
           stage' \in 1..(r + a + 3),
           stage' <= r => UndoInv',
           stage' = r + 1 => SpineInv',
           r + 1 < stage' /\ stage' < r + a + 2 => DecodeInv',
           stage' = r + a + 2 => TipInv',
           stage' = r + a + 3 => DoneInv'
    PROVE  LedgerInv'
<1>1. CommittedInv /\ FromFollower(update.rollback, update.apply)
      /\ Connects(db.tip, update.rollback, update.apply)
  BY DEF LedgerInv, OpenInv
<1>2. CommittedInv' /\ FromFollower(update.rollback, update.apply)'
      /\ Connects(db.tip, update.rollback, update.apply)'
  BY <1>1, SameUpdate
<1>3. r' = r /\ a' = a /\ r = Len(update.rollback)' /\ a = Len(update.apply)'
  OBVIOUS
<1>4. OpenInv'
  BY <1>2, <1>3 DEF OpenInv
<1>5. update' = [rollback |-> update'.rollback, apply |-> update'.apply] /\ open' \in BOOLEAN
  BY DEF LedgerInv
<1> QED BY <1>2, <1>4, <1>5 DEF LedgerInv

\* The stages of the open transaction.
LEMMA ProgramStages ==
    ASSUME NEW r \in Nat, NEW a \in Nat, r = Len(update.rollback), a = Len(update.apply)
    PROVE  /\ DOMAIN Program = 1..(r + a + 2)
           /\ \A i \in 1..r : Program[i] = <<RollbackBlock(update.rollback[i])>>
           /\ Program[r + 1] = <<SpineStatements(update.rollback, update.apply)>>
           /\ \A n \in 1..a : Program[r + 1 + n] = ApplyBlock(update.apply[n])
           /\ Program[r + a + 2] = <<<<[sql |-> "tip", b |-> update.apply[a]]>>>>
<1>1. StagesAre(Program, update.rollback, update.apply, r, a)
  BY StageLists DEF Program
<1> QED BY <1>1 DEF StagesAre

\* The facts about the update that every step below starts from.
LEMMA OpenFacts ==
    ASSUME LedgerInv, open, NEW r, NEW a, r = Len(update.rollback), a = Len(update.apply)
    PROVE  /\ CommittedInv /\ FromFollower(update.rollback, update.apply)
           /\ Connects(db.tip, update.rollback, update.apply) /\ IsDb(work)
           /\ r \in Nat /\ a \in Nat /\ 1 <= a
           /\ DOMAIN Program = 1..(r + a + 2)
           /\ stage \in 1..(r + a + 3)
           /\ stage <= r => UndoInv
           /\ stage = r + 1 => SpineInv
           /\ r + 1 < stage /\ stage < r + a + 2 => DecodeInv
           /\ stage = r + a + 2 => TipInv
           /\ stage = r + a + 3 => DoneInv
<1>1. /\ CommittedInv /\ FromFollower(update.rollback, update.apply)
      /\ Connects(db.tip, update.rollback, update.apply) /\ IsDb(work)
  BY DEF LedgerInv, OpenInv
<1>2. r \in Nat /\ a \in Nat /\ 1 <= a
  BY <1>1, UpdateShape
<1>3. DOMAIN Program = 1..(r + a + 2)
  BY <1>2, ProgramStages
<1>4. /\ stage \in 1..(r + a + 3)
      /\ stage <= r => UndoInv
      /\ stage = r + 1 => SpineInv
      /\ r + 1 < stage /\ stage < r + a + 2 => DecodeInv
      /\ stage = r + a + 2 => TipInv
      /\ stage = r + a + 3 => DoneInv
  BY DEF LedgerInv, OpenInv
<1> QED BY <1>1, <1>2, <1>3, <1>4

\* A statement of rollbackBlock.
LEMMA RunUndo ==
    ASSUME LedgerInv, RunStatement, NEW r, r = Len(update.rollback), stage <= r
    PROVE  LedgerInv'
<1> DEFINE b == update.rollback[stage]
           h == Height[b]
           D == ChainStatements(UpTo(db.blocks, b))
           U == UtxosOf(D)
           V == ConvsOf(D)
<1>1. open /\ UNCHANGED <<db, open, update, stage, list>> /\ pos' = pos + 1
  BY DEF RunStatement
<1>2. PICK a : a = Len(update.apply)
  OBVIOUS
<1>3. r \in Nat /\ a \in Nat /\ stage \in 1..(r + a + 3) /\ UndoInv /\ IsDb(work)
  BY <1>1, <1>2, OpenFacts
<1>4. Program[stage] = <<RollbackBlock(b)>>
  <2>1. stage \in 1..r
    BY <1>3
  <2> QED BY <1>2, <1>3, <2>1, ProgramStages
<1>5. list = 1 /\ pos \in DOMAIN RollbackBlock(b) /\ work' = Exec(work, RollbackBlock(b)[pos])
  BY <1>4, OneList DEF RunStatement
<1>6. pos \in {1, 2, 3, 4}
  <2>1. pos \in 1..4
    BY <1>5, UndoList
  <2> QED BY <2>1
<1>7. /\ work.blocks = db.blocks /\ work.tip = db.tip /\ Decodable(D)
      /\ work.utxos = UtxosUndone(U, h, pos - 1) /\ work.convs = ConvsUndone(V, h, pos - 1)
  BY <1>3, <1>5 DEF UndoInv, Ran
<1> HIDE DEF D, U, V, h
<1>8. work' = [utxos |-> UtxosUndone(U, h, pos), convs |-> ConvsUndone(V, h, pos),
               blocks |-> db.blocks, tip |-> db.tip]
  <2> DEFINE s == RollbackBlock(b)[pos]
  <2>1. CASE pos = 1
    <3>1. s = [sql |-> "untrim", h |-> h]
      BY <2>1, UndoList DEF h
    <3>2. s.sql = "untrim" /\ s.h = h
      BY <3>1
    <3>3. work.utxos = U /\ work.convs = V
      BY <1>7, <2>1, UndoSteps
    <3>4. UtxosUndone(U, h, 1) = Untrim(U, h) /\ ConvsUndone(V, h, 1) = V
      BY UndoSteps
    <3> HIDE DEF s
    <3>5. Exec(work, s) = [utxos |-> Untrim(work.utxos, s.h), convs |-> work.convs,
                           blocks |-> work.blocks, tip |-> work.tip]
      BY <1>3, <3>2, ExecUndo
    <3> QED BY <1>5, <1>7, <2>1, <3>2, <3>3, <3>4, <3>5 DEF s
  <2>2. CASE pos = 2
    <3>1. s = [sql |-> "unspend", h |-> h]
      BY <2>2, UndoList DEF h
    <3>2. s.sql = "unspend" /\ s.h = h
      BY <3>1
    <3>3. work.utxos = UtxosUndone(U, h, 1) /\ work.convs = V
      BY <1>7, <2>2, UndoSteps
    <3>4. UtxosUndone(U, h, 2) = Unspend(UtxosUndone(U, h, 1), h) /\ ConvsUndone(V, h, 2) = V
      BY UndoSteps
    <3> HIDE DEF s
    <3>5. Exec(work, s) = [utxos |-> Unspend(work.utxos, s.h), convs |-> work.convs,
                           blocks |-> work.blocks, tip |-> work.tip]
      BY <1>3, <3>2, ExecUndo
    <3> QED BY <1>5, <1>7, <2>2, <3>2, <3>3, <3>4, <3>5 DEF s
  <2>3. CASE pos = 3
    <3>1. s = [sql |-> "uncreate", h |-> h]
      BY <2>3, UndoList DEF h
    <3>2. s.sql = "uncreate" /\ s.h = h
      BY <3>1
    <3>3. work.utxos = UtxosUndone(U, h, 2) /\ work.convs = V
      BY <1>7, <2>3, UndoSteps
    <3>4. UtxosUndone(U, h, 3) = DeleteCreated(UtxosUndone(U, h, 2), h) /\ ConvsUndone(V, h, 3) = V
      BY UndoSteps
    <3> HIDE DEF s
    <3>5. Exec(work, s) = [utxos |-> DeleteCreated(work.utxos, s.h), convs |-> work.convs,
                           blocks |-> work.blocks, tip |-> work.tip]
      BY <1>3, <3>2, ExecUndo
    <3> QED BY <1>5, <1>7, <2>3, <3>2, <3>3, <3>4, <3>5 DEF s
  <2>4. CASE pos = 4
    <3>1. s = [sql |-> "unconv", h |-> h]
      BY <2>4, UndoList DEF h
    <3>2. s.sql = "unconv" /\ s.h = h
      BY <3>1
    <3>3. work.utxos = UtxosUndone(U, h, 3) /\ work.convs = V
      BY <1>7, <2>4, UndoSteps
    <3>4. UtxosUndone(U, h, 4) = UtxosUndone(U, h, 3) /\ ConvsUndone(V, h, 4) = DeleteConv(V, h)
      BY UndoSteps
    <3> HIDE DEF s
    <3>5. Exec(work, s) = [utxos |-> work.utxos, convs |-> DeleteConv(work.convs, s.h),
                           blocks |-> work.blocks, tip |-> work.tip]
      BY <1>3, <3>2, ExecUndo
    <3> QED BY <1>5, <1>7, <2>4, <3>2, <3>3, <3>4, <3>5 DEF s
  <2> QED BY <1>6, <2>1, <2>2, <2>3, <2>4
<1>9. list' = 1 /\ pos' \in 1..5 /\ pos' - 1 = pos
  BY <1>1, <1>5, <1>6
<1>10. UndoInv'
  <2>1. Ran(4)' = pos
    BY <1>9 DEF Ran
  <2>2. update' = update /\ stage' = stage /\ db' = db
    BY <1>1
  <2> QED BY <1>7, <1>8, <1>9, <2>1, <2>2 DEF UndoInv, D, U, V, h
<1>11. IsDb(work)'
  BY <1>8 DEF IsDb
<1>12. stage' = stage /\ ~(stage = r + 1) /\ ~(r + 1 < stage) /\ ~(stage = r + a + 2) /\ ~(stage = r + a + 3)
  BY <1>1, <1>3
<1> QED BY <1>1, <1>2, <1>3, <1>10, <1>11, <1>12, StepKeeps

\* A statement that moves the spine.
LEMMA RunSpine ==
    ASSUME LedgerInv, RunStatement, NEW r, r = Len(update.rollback), stage = r + 1
    PROVE  LedgerInv'
<1> DEFINE rb == update.rollback
           ap == update.apply
           l == SpineStatements(rb, ap)
           s == l[pos]
<1>1. open /\ UNCHANGED <<db, open, update, stage, list>> /\ pos' = pos + 1
  BY DEF RunStatement
<1>2. PICK a : a = Len(ap)
  OBVIOUS
<1>3. r \in Nat /\ a \in Nat /\ 1 <= a /\ SpineInv /\ IsDb(work)
  BY <1>1, <1>2, OpenFacts
<1>4. CommittedInv /\ FromFollower(rb, ap) /\ Connects(db.tip, rb, ap)
  BY <1>1, OpenFacts
<1>5. IsSequence(rb) /\ IsSequence(ap)
  BY <1>4, UpdateShape
<1>6. Program[stage] = <<l>>
  BY <1>2, <1>3, ProgramStages
<1>0. SpineIs(l, rb, ap, r, a)
  BY <1>2, <1>3, <1>5, SpineList
<1>7. list = 1 /\ pos \in DOMAIN l /\ work' = Exec(work, s)
  BY <1>6, OneList DEF RunStatement
<1>8. pos \in 1..(r + a)
  <2>1. DOMAIN l = 1..(r + a)
    BY <1>0 DEF SpineIs
  <2> QED BY <1>7, <2>1
<1> DEFINE At(n) == IF n < r THEN UpTo(db.blocks, rb[n + 1]) ELSE Grown(n - r)
<1>9. /\ work.tip = db.tip /\ Holds(work, ChainStatements(Kept)) /\ work.blocks = At(pos - 1)
  BY <1>2, <1>3, <1>7 DEF SpineInv, Ran
<1>10. work' = [utxos |-> work.utxos, convs |-> work.convs, blocks |-> At(pos), tip |-> db.tip]
  <2>1. CASE pos <= r
    <3>1. pos \in 1..r /\ pos - 1 < r /\ (pos - 1) + 1 = pos
      BY <1>3, <1>8, <2>1
    <3>2. s = [sql |-> "deleteBlock", b |-> rb[pos]]
      BY <1>0, <3>1 DEF SpineIs
    <3>3. s.sql = "deleteBlock" /\ s.b = rb[pos]
      BY <3>2
    <3>4. work.blocks = UpTo(db.blocks, rb[pos])
      BY <1>9, <3>1
    <3>5. UpTo(db.blocks, RolledTo(pos + 1)) = UpTo(db.blocks, rb[pos]) \ {rb[pos]}
      BY <1>4, <3>1, UndoOne
    <3>6. UpTo(db.blocks, RolledTo(pos + 1)) = At(pos)
      <4>1. CASE pos < r
        <5>1. pos + 1 <= r
          BY <1>3, <3>1, <4>1
        <5>2. RolledTo(pos + 1) = rb[pos + 1]
          BY <5>1 DEF RolledTo
        <5> QED BY <4>1, <5>2
      <4>2. CASE ~(pos < r)
        <5>1. pos = r /\ pos - r = 0 /\ r > 0
          BY <1>3, <3>1, <4>2
        <5>2. db.tip # NoBlock
          BY <1>4, <5>1, Descent
        <5>3. Grown(0) = UpTo(db.blocks, RolledTo(r + 1))
          BY <1>4, <5>2, GrowsFrom
        <5> QED BY <4>2, <5>1, <5>3
      <4> QED BY <4>1, <4>2
    <3> HIDE DEF s, At
    <3>7. work' = [utxos |-> work.utxos, convs |-> work.convs, blocks |-> work.blocks \ {s.b}, tip |-> work.tip]
      BY <1>3, <1>7, <3>3, ExecSpine
    <3> QED BY <1>9, <3>3, <3>4, <3>5, <3>6, <3>7
  <2>2. CASE ~(pos <= r)
    <3> DEFINE i == pos - r
    <3>1. i \in 1..a /\ pos = r + i /\ ~(pos - 1 < r) /\ ~(pos < r) /\ (pos - 1) - r = i - 1
      BY <1>3, <1>8, <2>2
    <3>2. l[r + i] = [sql |-> "insertBlock", b |-> ap[i]]
      <4> HIDE DEF i, l
      <4> QED BY <1>0, <3>1 DEF SpineIs
    <3>3. s = [sql |-> "insertBlock", b |-> ap[i]]
      BY <3>1, <3>2
    <3>4. s.sql = "insertBlock" /\ s.b = ap[i]
      BY <3>3
    <3>5. work.blocks = Grown(i - 1) /\ At(pos) = Grown(i)
      BY <1>9, <3>1
    <3>6. Grown(i) = Grown(i - 1) \cup {ap[i]}
      <4>1. 1..i = (1..(i - 1)) \cup {i}
        BY <1>3, <3>1
      <4> HIDE DEF i
      <4> QED BY <4>1 DEF Grown
    <3> HIDE DEF s, At, i
    <3>7. work' = [utxos |-> work.utxos, convs |-> work.convs, blocks |-> work.blocks \cup {s.b}, tip |-> work.tip]
      BY <1>3, <1>7, <3>4, ExecSpine
    <3> QED BY <1>9, <3>4, <3>5, <3>6, <3>7
  <2> QED BY <2>1, <2>2
<1>11. list' = 1 /\ pos' \in 1..(r + a + 1) /\ pos' - 1 = pos
  BY <1>1, <1>3, <1>7, <1>8
<1>12. SpineInv'
  <2>1. Ran(r + a)' = pos
    BY <1>11 DEF Ran
  <2>2. update' = update /\ stage' = stage /\ db' = db
    BY <1>1
  <2>3. Kept' = Kept /\ \A n : Grown(n)' = Grown(n)
    BY <2>2, SameUpdate
  <2>4. r = Len(update.rollback)' /\ a = Len(update.apply)'
    BY <1>2, <2>2
  <2>5. Holds(work, ChainStatements(Kept))'
    BY <1>9, <1>10, <2>3 DEF Holds
  <2>6. work'.blocks = IF pos < r THEN UpTo(db.blocks, rb[pos + 1]) ELSE Grown(pos - r)
    BY <1>10
  <2>7. work'.tip = db'.tip
    BY <1>10, <2>2
  <2> HIDE DEF At
  <2>8. list' \in 1..2
    BY <1>11
  <2>9. work'.blocks = IF Ran(r + a)' < r
                       THEN UpTo(db'.blocks, update'.rollback[Ran(r + a)' + 1])
                       ELSE Grown(Ran(r + a) - r)'
    <3>1. Grown(pos - r) = Grown(Ran(r + a) - r)'
      BY <2>1, <2>2 DEF Grown, Kept
    <3> QED BY <2>1, <2>2, <2>6, <3>1
  <2> QED BY <1>11, <2>4, <2>5, <2>7, <2>8, <2>9 DEF SpineInv
<1>13. IsDb(work)'
  BY <1>10 DEF IsDb
<1>14. /\ stage' = r + 1 /\ ~(stage' <= r) /\ ~(r + 1 < stage') /\ ~(stage' = r + a + 2)
       /\ ~(stage' = r + a + 3) /\ stage' \in 1..(r + a + 3)
  BY <1>1, <1>3
<1> QED BY <1>1, <1>2, <1>3, <1>12, <1>13, <1>14, StepKeeps

\* Which stage is which.
LEMMA StageNumbers ==
    ASSUME NEW r \in Nat, NEW a \in Nat, 1 <= a, NEW i \in 1..(r + a + 3)
    PROVE  /\ i <= r => ~(i = r + 1) /\ ~(r + 1 < i) /\ ~(i = r + a + 2) /\ ~(i = r + a + 3)
           /\ i = r + 1 => ~(i <= r) /\ ~(r + 1 < i) /\ ~(i = r + a + 2) /\ ~(i = r + a + 3)
           /\ r + 1 < i /\ i < r + a + 2 =>
                  /\ ~(i <= r) /\ ~(i = r + 1) /\ ~(i = r + a + 2) /\ ~(i = r + a + 3)
                  /\ i - r - 1 \in 1..a /\ i = r + 1 + (i - r - 1)
           /\ i = r + a + 2 => ~(i <= r) /\ ~(i = r + 1) /\ ~(i < r + a + 2) /\ ~(i = r + a + 3)
           /\ i = r + a + 3 => ~(i <= r) /\ ~(i = r + 1) /\ ~(i < r + a + 2) /\ ~(i = r + a + 2)
           /\ i <= r \/ i = r + 1 \/ (r + 1 < i /\ i < r + a + 2) \/ i = r + a + 2 \/ i = r + a + 3
OBVIOUS

\* A statement of applyBlock.
LEMMA RunDecode ==
    ASSUME LedgerInv, RunStatement, NEW r, NEW a, r = Len(update.rollback), a = Len(update.apply),
           r + 1 < stage, stage < r + a + 2
    PROVE  LedgerInv'
<1>1. open /\ UNCHANGED <<db, open, update, stage, list>> /\ pos' = pos + 1
  BY DEF RunStatement
<1>2. r \in Nat /\ a \in Nat /\ 1 <= a /\ stage \in 1..(r + a + 3) /\ DecodeInv /\ IsDb(work)
  BY <1>1, OpenFacts
<1>3. CommittedInv /\ FromFollower(update.rollback, update.apply)
      /\ Connects(db.tip, update.rollback, update.apply)
  BY <1>1, OpenFacts
<1>4. PICK n : n = stage - r - 1
  OBVIOUS
<1>5. n \in 1..a /\ stage = r + 1 + n
  BY <1>2, <1>4, StageNumbers
<1>6. PICK b : b = update.apply[n]
  OBVIOUS
<1>7. Program[stage] = ApplyBlock(b)
  BY <1>2, <1>5, <1>6, ProgramStages
<1>8. PICK s : s = ApplyBlock(b)[list][pos]
  OBVIOUS
<1>9. StatementAt(b, list, pos, s) /\ s.sql # "fail" /\ work' = Exec(work, s)
  BY <1>7, <1>8 DEF RunStatement, StatementAt
<1>10. PICK D : D = ChainStatements(Grown(n - 1)) \cup Executed(b, list, pos)
  OBVIOUS
<1>11. /\ work.tip = db.tip /\ work.blocks = Grown(a) /\ Grows(n - 1)
       /\ Holds(work, D)
  BY <1>2, <1>4, <1>6, <1>10 DEF DecodeInv
<1>12. PICK C : C = Grown(n)
  OBVIOUS
<1>13. C \ {b} = Grown(n - 1) /\ b \in Block /\ b \in C /\ C \in SUBSET Block /\ ValidChain(C)
  BY <1>3, <1>5, <1>6, <1>11, <1>12, GrowsOne
<1>14. \A c \in C \ {b} : Height[c] < Height[b]
  BY <1>3, <1>5, <1>6, <1>11, <1>12, GrowsOne
<1>15. D = ChainStatements(C \ {b}) \cup Executed(b, list, pos)
  BY <1>10, <1>13
<1>16. IsDb(work') /\ Holds(work', D \cup {s}) /\ work'.blocks = work.blocks /\ work'.tip = work.tip
  <2>1. Decodes(work, Exec(work, s), D \cup {s})
    BY <1>2, <1>9, <1>11, <1>13, <1>14, <1>15, DecodeStep
  <2> QED BY <1>9, <2>1 DEF Decodes
<1>17. Executed(b, list, pos + 1) = Executed(b, list, pos) \cup {s}
  BY <1>9, <1>13, ExecutedStep
<1>18. ChainStatements(Grown(n - 1)) \cup Executed(b, list', pos') = D \cup {s}
  BY <1>1, <1>10, <1>17
<1>19. list' \in 1..(Len(ApplyBlock(b)) + 1) /\ list' \in DOMAIN ApplyBlock(b)
       /\ pos' \in 1..(Len(ApplyBlock(b)[list']) + 1)
  <2> DEFINE l == Len(ApplyBlock(b))
             z == Len(ApplyBlock(b)[list])
  <2>1. list \in Nat /\ 1 <= list /\ list <= l /\ pos \in Nat /\ 1 <= pos /\ pos <= z
    BY <1>9, <1>13, Place
  <2>2. list \in DOMAIN ApplyBlock(b)
    BY <1>9 DEF StatementAt
  <2>3. l \in Nat /\ z \in Nat
    <3>1. l = 2 * Len(Body[b]) + 1 /\ Len(Body[b]) \in Nat /\ DOMAIN ApplyBlock(b) = 1..l
      BY <1>13, BlockLists
    <3>2. \A k \in 1..(2 * Len(Body[b]) + 1) : IsSequence(ApplyBlock(b)[k])
      BY <1>13, BlockLists
    <3>3. z \in Nat
      BY <2>2, <3>1, <3>2, SequenceFacts
    <3>4. l \in Nat
      BY <3>1
    <3> QED BY <3>3, <3>4
  <2>4. list' = list /\ pos' = pos + 1
    BY <1>1
  <2> HIDE DEF l, z
  <2>5. list \in 1..(l + 1) /\ pos + 1 \in 1..(z + 1)
    BY <2>1, <2>3
  <2> QED BY <2>2, <2>4, <2>5 DEF l, z
<1>20. DecodeInv'
  <2>1. update' = update /\ stage' = stage /\ db' = db
    BY <1>1
  <2>2. \A i : Grown(i)' = Grown(i) /\ (Grows(i)' <=> Grows(i))
    BY <2>1, SameUpdate
  <2>3. n = stage' - Len(update'.rollback) - 1 /\ b = update'.apply[n] /\ a = Len(update'.apply)
    BY <1>4, <1>6, <2>1
  <2>4. pos' \in IF list' \in DOMAIN ApplyBlock(b) THEN 1..(Len(ApplyBlock(b)[list']) + 1) ELSE {1}
    BY <1>19
  <2>5. work'.tip = db'.tip
    BY <1>11, <1>16, <2>1
  <2>6. work'.blocks = Grown(Len(update.apply))'
    BY <1>11, <1>16, <2>1, <2>2
  <2>7. Grows(stage - Len(update.rollback) - 1 - 1)'
    BY <1>4, <1>11, <2>1 DEF Grows, Grown, GrownTip, Kept
  <2>8. Grown(stage - Len(update.rollback) - 1 - 1)' = Grown(n - 1)
    BY <1>4, <2>1 DEF Grown, Kept
  <2>9. Holds(work', ChainStatements(Grown(n - 1)) \cup Executed(b, list', pos'))
    BY <1>16, <1>18
  <2> QED BY <1>19, <2>3, <2>4, <2>5, <2>6, <2>7, <2>8, <2>9 DEF DecodeInv
<1>21. stage' = stage /\ ~(stage <= r) /\ ~(stage = r + 1) /\ ~(stage = r + a + 2) /\ ~(stage = r + a + 3)
  BY <1>1, <1>2, StageNumbers
<1> QED BY <1>1, <1>2, <1>16, <1>20, <1>21, StepKeeps

\* The move of meta.tip.
LEMMA RunTip ==
    ASSUME LedgerInv, RunStatement, NEW r, NEW a, r = Len(update.rollback), a = Len(update.apply),
           stage = r + a + 2
    PROVE  LedgerInv'
<1> DEFINE s == [sql |-> "tip", b |-> update.apply[a]]
<1>1. open /\ UNCHANGED <<db, open, update, stage, list>> /\ pos' = pos + 1
  BY DEF RunStatement
<1>2. r \in Nat /\ a \in Nat /\ TipInv /\ IsDb(work)
  BY <1>1, OpenFacts
<1>3. Program[stage] = <<<<s>>>>
  BY <1>2, ProgramStages
<1>4. list = 1 /\ pos = 1 /\ work' = Exec(work, s)
  <2> HIDE DEF s
  <2>1. list = 1 /\ pos \in DOMAIN <<s>> /\ work' = Exec(work, <<s>>[pos])
    BY <1>3, OneList DEF RunStatement
  <2> QED BY <2>1, OneList
<1>5. s.sql = "tip" /\ s.b = update.apply[a]
  OBVIOUS
<1>6. work' = [utxos |-> work.utxos, convs |-> work.convs, blocks |-> work.blocks, tip |-> update.apply[a]]
  <2> HIDE DEF s
  <2> QED BY <1>2, <1>4, <1>5, ExecSpine
<1>7. work.blocks = Grown(a) /\ Grows(a) /\ Holds(work, ChainStatements(Grown(a)))
  BY <1>2 DEF TipInv
<1>8. list' = 1 /\ pos' = 2
  BY <1>1, <1>4
<1>9. TipInv'
  <2>1. update' = update /\ stage' = stage /\ db' = db
    BY <1>1
  <2>2. Grown(a)' = Grown(a) /\ Grows(a)'
    BY <1>7, <2>1, SameUpdate
  <2>3. a = Len(update'.apply) /\ Ran(1)' = 1
    BY <1>8, <2>1 DEF Ran
  <2>4. Holds(work', ChainStatements(Grown(a)))
    BY <1>6, <1>7 DEF Holds
  <2>5. work'.tip = update'.apply[a] /\ work'.blocks = Grown(a)
    BY <1>6, <1>7, <2>1
  <2>6. Grown(Len(update.apply))' = Grown(a) /\ Grows(Len(update.apply))'
    BY <1>7, <2>1 DEF Grows, Grown, GrownTip, Kept
  <2> QED BY <1>8, <2>3, <2>4, <2>5, <2>6 DEF TipInv
<1>10. IsDb(work)'
  BY <1>6 DEF IsDb
<1>11. /\ stage' = stage /\ ~(stage <= r) /\ ~(stage = r + 1) /\ ~(stage < r + a + 2) /\ ~(stage = r + a + 3)
       /\ stage \in 1..(r + a + 3)
  <2>1. 1 <= a /\ stage \in 1..(r + a + 3) /\ stage' = stage
    BY <1>1, OpenFacts
  <2> QED BY <1>2, <2>1, StageNumbers
<1> QED BY <1>1, <1>2, <1>9, <1>10, <1>11, StepKeeps

\* A loop over statements ends: what has run stays what has run.
LEMMA NextListKeeps ==
    ASSUME LedgerInv, NextList
    PROVE  LedgerInv'
<1>1. open /\ UNCHANGED <<db, work, open, update, stage>> /\ list' = list + 1 /\ pos' = 1
  BY DEF NextList
<1>2. PICK r, a : r = Len(update.rollback) /\ a = Len(update.apply)
  OBVIOUS
<1>3. r \in Nat /\ a \in Nat /\ 1 <= a /\ stage \in 1..(r + a + 3) /\ DOMAIN Program = 1..(r + a + 2)
  BY <1>1, <1>2, OpenFacts
<1>4. IsDb(work)' /\ stage' = stage /\ update' = update /\ db' = db /\ work' = work
  <2>1. IsDb(work)
    BY <1>1, <1>2, OpenFacts
  <2> QED BY <1>1, <2>1 DEF IsDb
<1>5. \A n : Grown(n)' = Grown(n) /\ (Grows(n)' <=> Grows(n))
  BY <1>1, SameUpdate
<1>6. Kept' = Kept
  BY <1>1, SameUpdate
<1>7. ASSUME stage <= r PROVE UndoInv'
  <2>1. UndoInv
    BY <1>1, <1>2, <1>7, OpenFacts
  <2>2. Program[stage] = <<RollbackBlock(update.rollback[stage])>>
    <3>1. stage \in 1..r
      BY <1>3, <1>7
    <3> QED BY <1>2, <1>3, <3>1, ProgramStages
  <2>3. list = 1 /\ pos \notin DOMAIN RollbackBlock(update.rollback[stage])
    BY <2>2, OneList DEF NextList
  <2>4. pos \in 1..5 /\ pos \notin 1..4
    BY <2>1, <2>3, UndoList DEF UndoInv
  <2>5. Ran(4) = 4 /\ Ran(4)' = 4 /\ list' \in 1..2 /\ pos' \in 1..5
    BY <1>1, <2>3, <2>4 DEF Ran
  <2>6. UndoInv'
    BY <1>4, <2>1, <2>5 DEF UndoInv
  <2> QED BY <2>6
<1>8. ASSUME stage = r + 1 PROVE SpineInv'
  <2>1. SpineInv
    BY <1>1, <1>2, <1>8, OpenFacts
  <2> DEFINE l == SpineStatements(update.rollback, update.apply)
  <2>2. Program[stage] = <<l>>
    BY <1>2, <1>3, <1>8, ProgramStages
  <2>3. list = 1 /\ pos \notin DOMAIN l
    BY <2>2, OneList DEF NextList
  <2>4. IsSequence(update.rollback) /\ IsSequence(update.apply)
    <3>1. CommittedInv /\ FromFollower(update.rollback, update.apply)
          /\ Connects(db.tip, update.rollback, update.apply)
      BY <1>1, OpenFacts
    <3> QED BY <3>1, UpdateShape
  <2>5. SpineIs(l, update.rollback, update.apply, r, a)
    BY <1>2, <1>3, <2>4, SpineList
  <2>6. DOMAIN l = 1..(r + a)
    BY <2>5 DEF SpineIs
  <2>7. pos \in 1..(r + a + 1)
    BY <1>2, <2>1 DEF SpineInv
  <2> HIDE DEF l
  <2>8. pos = r + a + 1
    BY <1>3, <2>3, <2>6, <2>7
  <2>9. Ran(r + a) = r + a /\ Ran(r + a)' = r + a /\ list' \in 1..2 /\ pos' \in 1..(r + a + 1)
    BY <1>1, <1>3, <2>3, <2>8 DEF Ran
  <2>10. Holds(work, ChainStatements(Kept)) /\ work.tip = db.tip /\ work.blocks = Grown(r + a - r)
    <3>1. ~(Ran(r + a) < r) /\ Ran(r + a) - r = r + a - r
      BY <1>3, <2>9
    <3>2. work.blocks = IF Ran(r + a) < r THEN UpTo(db.blocks, update.rollback[Ran(r + a) + 1])
                        ELSE Grown(Ran(r + a) - r)
      BY <1>2, <2>1 DEF SpineInv
    <3>3. Holds(work, ChainStatements(Kept)) /\ work.tip = db.tip
      BY <2>1 DEF SpineInv
    <3> QED BY <3>1, <3>2, <3>3
  <2>11. SpineInv'
    <3>1. r = Len(update'.rollback) /\ a = Len(update'.apply)
      BY <1>2, <1>4
    <3>2. Holds(work, ChainStatements(Kept))'
      BY <1>4, <1>6, <2>10 DEF Holds
    <3>3. ~(Ran(r + a)' < r) /\ Grown(Ran(r + a) - r)' = Grown(r + a - r)
      BY <1>3, <1>4, <2>9 DEF Grown, Kept
    <3>4. work'.tip = db'.tip /\ work'.blocks = Grown(Ran(r + a) - r)'
      BY <1>4, <2>10, <3>3
    <3> QED BY <2>9, <3>1, <3>2, <3>3, <3>4 DEF SpineInv
  <2> QED BY <2>11
<1>9. ASSUME r + 1 < stage /\ stage < r + a + 2 PROVE DecodeInv'
  <2>1. DecodeInv
    BY <1>1, <1>2, <1>9, OpenFacts
  <2>2. PICK n : n = stage - r - 1
    OBVIOUS
  <2>3. n \in 1..a /\ stage = r + 1 + n
    BY <1>3, <1>9, <2>2, StageNumbers
  <2>4. PICK b : b = update.apply[n]
    OBVIOUS
  <2>5. Program[stage] = ApplyBlock(b)
    BY <1>2, <1>3, <2>3, <2>4, ProgramStages
  <2>6. list \in DOMAIN ApplyBlock(b) /\ pos \notin DOMAIN ApplyBlock(b)[list]
    BY <2>5 DEF NextList
  <2>7. /\ pos \in IF list \in DOMAIN ApplyBlock(b) THEN 1..(Len(ApplyBlock(b)[list]) + 1) ELSE {1}
        /\ work.tip = db.tip /\ work.blocks = Grown(a) /\ Grows(n - 1)
        /\ Holds(work, ChainStatements(Grown(n - 1)) \cup Executed(b, list, pos))
    BY <1>2, <2>1, <2>2, <2>4 DEF DecodeInv
  <2>8. b \in Block
    <3>1. CommittedInv /\ FromFollower(update.rollback, update.apply)
          /\ Connects(db.tip, update.rollback, update.apply)
      BY <1>1, OpenFacts
    <3> QED BY <1>2, <2>3, <2>4, <3>1, UpdateShape
  <2> DEFINE l == Len(ApplyBlock(b))
             z == Len(ApplyBlock(b)[list])
  <2>9. l \in Nat /\ DOMAIN ApplyBlock(b) = 1..l /\ z \in Nat /\ DOMAIN ApplyBlock(b)[list] = 1..z
    <3>1. l = 2 * Len(Body[b]) + 1 /\ Len(Body[b]) \in Nat /\ DOMAIN ApplyBlock(b) = 1..l
      BY <2>8, BlockLists
    <3>2. \A k \in 1..(2 * Len(Body[b]) + 1) : IsSequence(ApplyBlock(b)[k])
      BY <2>8, BlockLists
    <3>3. IsSequence(ApplyBlock(b)[list])
      BY <2>6, <3>1, <3>2
    <3>4. l \in Nat
      BY <3>1
    <3> QED BY <3>1, <3>3, <3>4, SequenceFacts
  <2>10. pos = z + 1
    BY <2>6, <2>7, <2>9
  <2>11. Executed(b, list + 1, 1) = Executed(b, list, pos)
    BY <2>6, <2>8, <2>10, ExecutedNextList
  <2>12. list' \in 1..(l + 1)
    <3> HIDE DEF l
    <3> QED BY <1>1, <2>6, <2>9
  <2>13. list' \in DOMAIN ApplyBlock(b) => 1 \in 1..(Len(ApplyBlock(b)[list']) + 1)
    <3>1. \A k \in 1..(2 * Len(Body[b]) + 1) : IsSequence(ApplyBlock(b)[k])
      BY <2>8, BlockLists
    <3>2. DOMAIN ApplyBlock(b) = 1..(2 * Len(Body[b]) + 1)
      BY <2>8, BlockLists
    <3>3. list' \in DOMAIN ApplyBlock(b) => Len(ApplyBlock(b)[list']) \in Nat
      BY <3>1, <3>2, SequenceFacts
    <3> QED BY <3>3
  <2>14. DecodeInv'
    <3>1. n = stage' - Len(update'.rollback) - 1 /\ b = update'.apply[n] /\ a = Len(update'.apply)
      BY <1>2, <1>4, <2>2, <2>4
    <3>2. pos' \in IF list' \in DOMAIN ApplyBlock(b) THEN 1..(Len(ApplyBlock(b)[list']) + 1) ELSE {1}
      BY <1>1, <2>13
    <3>3. work'.tip = db'.tip
      BY <1>4, <2>7
    <3>4. work'.blocks = Grown(Len(update.apply))'
      BY <1>2, <1>4, <2>7 DEF Grown, Kept
    <3>5. Grows(stage - Len(update.rollback) - 1 - 1)'
      BY <1>2, <1>4, <2>2, <2>7 DEF Grows, Grown, GrownTip, Kept
    <3>6. Grown(stage - Len(update.rollback) - 1 - 1)' = Grown(n - 1)
      BY <1>2, <1>4, <2>2 DEF Grown, Kept
    <3>7. Holds(work', ChainStatements(Grown(n - 1)) \cup Executed(b, list', pos'))
      BY <1>1, <1>4, <2>7, <2>11
    <3> QED BY <2>12, <3>1, <3>2, <3>3, <3>4, <3>5, <3>6, <3>7 DEF DecodeInv
  <2> QED BY <2>14
<1>10. ASSUME stage = r + a + 2 PROVE TipInv'
  <2>1. TipInv
    BY <1>1, <1>2, <1>10, OpenFacts
  <2> DEFINE s == [sql |-> "tip", b |-> update.apply[a]]
  <2>2. Program[stage] = <<<<s>>>>
    BY <1>2, <1>3, <1>10, ProgramStages
  <2> HIDE DEF s
  <2>3. list = 1 /\ pos \notin DOMAIN <<s>>
    BY <2>2, OneList DEF NextList
  <2>4. pos \in 1..2 /\ pos # 1
    BY <2>1, <2>3, OneList DEF TipInv
  <2>5. Ran(1) = 1 /\ Ran(1)' = 1 /\ list' \in 1..2 /\ pos' \in 1..2
    BY <1>1, <2>3, <2>4 DEF Ran
  <2>6. /\ work.tip = update.apply[a] /\ work.blocks = Grown(a) /\ Grows(a)
        /\ Holds(work, ChainStatements(Grown(a)))
    BY <1>2, <2>1, <2>5 DEF TipInv
  <2>7. TipInv'
    <3>1. a = Len(update'.apply) /\ work'.tip = update'.apply[a]
      BY <1>2, <1>4, <2>6
    <3>2. Grown(Len(update.apply))' = Grown(a) /\ Grows(Len(update.apply))'
      BY <1>2, <1>4, <2>6 DEF Grows, Grown, GrownTip, Kept
    <3>3. Holds(work', ChainStatements(Grown(a))) /\ work'.blocks = Grown(a)
      BY <1>4, <2>6
    <3> QED BY <2>5, <3>1, <3>2, <3>3 DEF TipInv
  <2> QED BY <2>7
<1>11. ~(stage = r + a + 3)
  <2>1. stage \in 1..(r + a + 2)
    BY <1>3 DEF NextList
  <2> QED BY <1>3, <2>1
<1> QED BY <1>1, <1>2, <1>3, <1>4, <1>7, <1>8, <1>9, <1>10, <1>11, StepKeeps

\* A block has been undone: the tables are those of the chain below it.
LEMMA UndoDone ==
    ASSUME LedgerInv, NextStage, NEW r, r = Len(update.rollback), stage <= r
    PROVE  /\ Holds(work, ChainStatements(UpTo(db.blocks, RolledTo(stage + 1))))
           /\ work.blocks = db.blocks /\ work.tip = db.tip
<1>1. open
  BY DEF NextStage
<1>2. PICK a : a = Len(update.apply)
  OBVIOUS
<1>3. r \in Nat /\ a \in Nat /\ stage \in 1..(r + a + 3) /\ UndoInv
  BY <1>1, <1>2, OpenFacts
<1>4. CommittedInv /\ FromFollower(update.rollback, update.apply)
      /\ Connects(db.tip, update.rollback, update.apply)
  BY <1>1, OpenFacts
<1>5. stage \in 1..r
  BY <1>3
<1>6. PICK i : i = stage
  OBVIOUS
<1>7. PICK b : b = update.rollback[i]
  OBVIOUS
<1>8. PICK D : D = ChainStatements(UpTo(db.blocks, b))
  OBVIOUS
<1>9. PICK E : E = ChainStatements(UpTo(db.blocks, RolledTo(i + 1)))
  OBVIOUS
<1>10. Program[stage] = <<RollbackBlock(b)>>
  BY <1>2, <1>3, <1>5, <1>6, <1>7, ProgramStages
<1>11. list # 1
  BY <1>10, OneList DEF NextStage
<1>12. /\ work.blocks = db.blocks /\ work.tip = db.tip /\ Decodable(D)
       /\ work.utxos = UtxosUndone(UtxosOf(D), Height[b], 4)
       /\ work.convs = ConvsUndone(ConvsOf(D), Height[b], 4)
  <2>1. Ran(4) = 4
    BY <1>11 DEF Ran
  <2> QED BY <1>3, <1>6, <1>7, <1>8, <2>1 DEF UndoInv
<1>13. UtxosUndone(UtxosOf(D), Height[b], 3) = UtxosOf(E)
  BY <1>4, <1>5, <1>6, <1>7, <1>8, <1>9, UndoOne
<1>14. ConvsUndone(ConvsOf(D), Height[b], 4) = ConvsOf(E)
  BY <1>4, <1>5, <1>6, <1>7, <1>8, <1>9, UndoOne
<1>15. Decodable(E)
  BY <1>4, <1>5, <1>6, <1>7, <1>8, <1>9, <1>12, UndoOne
<1>16. UtxosUndone(UtxosOf(D), Height[b], 4) = UtxosUndone(UtxosOf(D), Height[b], 3)
  BY UndoSteps
<1>17. Holds(work, E)
  BY <1>12, <1>13, <1>14, <1>15, <1>16 DEF Holds
<1> QED BY <1>6, <1>9, <1>12, <1>17

\* A block has been decoded: the tables are those of the chain it ends.
LEMMA DecodeDone ==
    ASSUME LedgerInv, NextStage, NEW r, NEW a, r = Len(update.rollback), a = Len(update.apply),
           r + 1 < stage, stage < r + a + 2, NEW n, n = stage - r - 1
    PROVE  /\ Holds(work, ChainStatements(Grown(n))) /\ Grows(n)
           /\ work.blocks = Grown(a) /\ work.tip = db.tip
<1>1. open
  BY DEF NextStage
<1>2. r \in Nat /\ a \in Nat /\ 1 <= a /\ stage \in 1..(r + a + 3) /\ DecodeInv
  BY <1>1, OpenFacts
<1>3. CommittedInv /\ FromFollower(update.rollback, update.apply)
      /\ Connects(db.tip, update.rollback, update.apply)
  BY <1>1, OpenFacts
<1>4. n \in 1..a /\ stage = r + 1 + n
  BY <1>2, StageNumbers
<1>5. PICK b : b = update.apply[n]
  OBVIOUS
<1>6. Program[stage] = ApplyBlock(b)
  BY <1>2, <1>4, <1>5, ProgramStages, ZenonT(60)
<1>7. list \notin DOMAIN ApplyBlock(b)
  BY <1>6 DEF NextStage
<1>8. /\ list \in 1..(Len(ApplyBlock(b)) + 1)
      /\ pos \in IF list \in DOMAIN ApplyBlock(b) THEN 1..(Len(ApplyBlock(b)[list]) + 1) ELSE {1}
      /\ work.tip = db.tip /\ work.blocks = Grown(a) /\ Grows(n - 1)
      /\ Holds(work, ChainStatements(Grown(n - 1)) \cup Executed(b, list, pos))
  BY <1>2, <1>5 DEF DecodeInv
<1>9. PICK C : C = Grown(n)
  OBVIOUS
<1>10. C \ {b} = Grown(n - 1) /\ b \in Block /\ b \in C /\ Grows(n)
  BY <1>3, <1>4, <1>5, <1>8, <1>9, GrowsOne
<1>11. list = Len(ApplyBlock(b)) + 1 /\ pos = 1
  <2> DEFINE l == Len(ApplyBlock(b))
  <2>1. IsSequence(ApplyBlock(b))
    BY <1>10, BlockLists
  <2>2. l \in Nat /\ DOMAIN ApplyBlock(b) = 1..l
    BY <2>1, SequenceFacts
  <2>3. pos = 1
    BY <1>7, <1>8
  <2>4. list \in 1..(l + 1) /\ ~(list \in 1..l)
    BY <1>7, <1>8, <2>2
  <2> HIDE DEF l
  <2>5. list = l + 1
    BY <2>2, <2>4
  <2> QED BY <2>3, <2>5 DEF l
<1>12. Executed(b, list, pos) = BlockStatements[b]
  BY <1>10, <1>11, ExecutedAll
<1>13. ChainStatements(C) = ChainStatements(C \ {b}) \cup BlockStatements[b]
  BY <1>10, ChainSplit
<1> QED BY <1>8, <1>9, <1>10, <1>12, <1>13

\* A stage ends.
LEMMA NextStageKeeps ==
    ASSUME LedgerInv, NextStage
    PROVE  LedgerInv'
<1>1. open /\ UNCHANGED <<db, work, open, update>> /\ stage' = stage + 1 /\ list' = 1 /\ pos' = 1
  BY DEF NextStage
<1>2. PICK r, a : r = Len(update.rollback) /\ a = Len(update.apply)
  OBVIOUS
<1>3. r \in Nat /\ a \in Nat /\ 1 <= a /\ stage \in 1..(r + a + 2)
  <2>1. r \in Nat /\ a \in Nat /\ 1 <= a /\ DOMAIN Program = 1..(r + a + 2)
    BY <1>1, <1>2, OpenFacts
  <2> QED BY <2>1 DEF NextStage
<1>4. CommittedInv /\ FromFollower(update.rollback, update.apply)
      /\ Connects(db.tip, update.rollback, update.apply)
  BY <1>1, OpenFacts
<1>5. IsDb(work)' /\ update' = update /\ db' = db /\ work' = work
  <2>1. IsDb(work)
    BY <1>1, <1>2, OpenFacts
  <2> QED BY <1>1, <2>1 DEF IsDb
<1>6. \A n : Ran(n)' = 0
  BY <1>1 DEF Ran
<1>7. r = Len(update'.rollback) /\ a = Len(update'.apply)
  BY <1>2, <1>5
<1>8. ASSUME stage' <= r PROVE UndoInv'
  <2>1. stage \in 1..r /\ stage + 1 <= r
    BY <1>1, <1>3, <1>8
  <2>2. RolledTo(stage + 1) = update.rollback[stage + 1]
    BY <1>2, <2>1 DEF RolledTo
  <2>3. PICK D : D = ChainStatements(UpTo(db.blocks, update.rollback[stage + 1]))
    OBVIOUS
  <2>4. Holds(work, D) /\ work.blocks = db.blocks /\ work.tip = db.tip
    BY <1>2, <2>1, <2>2, <2>3, UndoDone
  <2>5. D = ChainStatements(UpTo(db'.blocks, update'.rollback[stage']))
    BY <1>1, <1>5, <2>3
  <2>6. work'.utxos = UtxosOf(D) /\ work'.convs = ConvsOf(D) /\ Decodable(D)
    BY <1>5, <2>4 DEF Holds
  <2>7. \A h : UtxosUndone(UtxosOf(D), h, 0) = UtxosOf(D) /\ ConvsUndone(ConvsOf(D), h, 0) = ConvsOf(D)
    BY UndoSteps
  <2>8. list' \in 1..2 /\ pos' \in 1..5 /\ work'.blocks = db'.blocks /\ work'.tip = db'.tip
    BY <1>1, <1>5, <2>4
  <2> QED BY <1>6, <2>5, <2>6, <2>7, <2>8 DEF UndoInv
<1>9. ASSUME stage' = r + 1 PROVE SpineInv'
  <2>1. stage = r /\ stage <= r /\ stage + 1 = r + 1 /\ r > 0 /\ 0 < r
    BY <1>1, <1>3, <1>9
  <2>2. db.tip # NoBlock
    BY <1>2, <1>4, <2>1, Descent
  <2>3. Kept = UpTo(db.blocks, RolledTo(r + 1))
    BY <1>2, <1>4, <2>2, GrowsFrom
  <2>4. Holds(work, ChainStatements(Kept)) /\ work.blocks = db.blocks /\ work.tip = db.tip
    BY <1>2, <2>1, <2>3, UndoDone
  <2>5. UpTo(db.blocks, update.rollback[1]) = db.blocks
    <3>1. update.rollback[1] = db.tip
      <4>1. RolledTo(1) = db.tip /\ 1 \in 1..r
        BY <1>2, <1>3, <1>4, <2>1, <2>2, Descent
      <4> QED BY <1>2, <4>1 DEF RolledTo
    <3> QED BY <1>4, <2>2, <3>1, CutAtTip DEF CommittedInv
  <2>6. Kept' = Kept
    BY <1>1, SameUpdate
  <2>7. Holds(work, ChainStatements(Kept))'
    BY <1>5, <2>4, <2>6
  <2>8. list' \in 1..2 /\ pos' \in 1..(r + a + 1) /\ work'.tip = db'.tip
    BY <1>1, <1>3, <1>5, <2>4
  <2>9. Ran(r + a)' = 0 /\ Ran(r + a)' < r
    BY <1>6, <2>1
  <2>10. work'.blocks = UpTo(db'.blocks, update'.rollback[Ran(r + a)' + 1])
    BY <1>5, <2>4, <2>5, <2>9
  <2> QED BY <1>7, <2>7, <2>8, <2>9, <2>10 DEF SpineInv
<1>10. ASSUME NEW n \in 1..a, stage' = r + 1 + n,
              Holds(work, ChainStatements(Grown(n - 1))), Grows(n - 1),
              work.blocks = Grown(a), work.tip = db.tip
       PROVE  DecodeInv'
  <2>1. PICK b : b = update.apply[n]
    OBVIOUS
  <2>2. n = stage' - Len(update'.rollback) - 1 /\ b = update'.apply[n] /\ stage' - r - 1 = n
    BY <1>3, <1>5, <1>7, <1>10, <2>1
  <2>3. b \in Block
    BY <1>2, <1>4, <2>1, UpdateShape
  <2>4. Executed(b, 1, 1) = {}
    BY <2>3, ExecutedNone
  <2>5. Len(ApplyBlock(b)) \in Nat /\ (1 \in DOMAIN ApplyBlock(b) => Len(ApplyBlock(b)[1]) \in Nat)
    <3>1. IsSequence(ApplyBlock(b))
      BY <2>3, BlockLists
    <3>2. \A k \in 1..(2 * Len(Body[b]) + 1) : IsSequence(ApplyBlock(b)[k])
      BY <2>3, BlockLists
    <3>3. DOMAIN ApplyBlock(b) = 1..(2 * Len(Body[b]) + 1)
      BY <2>3, BlockLists
    <3> QED BY <3>1, <3>2, <3>3, SequenceFacts
  <2>6. list' \in 1..(Len(ApplyBlock(b)) + 1)
    BY <1>1, <2>5
  <2>7. pos' \in IF list' \in DOMAIN ApplyBlock(b) THEN 1..(Len(ApplyBlock(b)[list']) + 1) ELSE {1}
    BY <1>1, <2>5
  <2>8. Holds(work', ChainStatements(Grown(n - 1)) \cup Executed(b, list', pos'))
    BY <1>1, <1>5, <1>10, <2>4
  <2>9. work'.tip = db'.tip
    BY <1>5, <1>10
  <2>10. work'.blocks = Grown(Len(update.apply))'
    BY <1>2, <1>5, <1>10 DEF Grown, Kept
  <2>11. Grows(stage - Len(update.rollback) - 1 - 1)'
    BY <1>2, <1>5, <1>10, <2>2 DEF Grows, Grown, GrownTip, Kept
  <2>12. Grown(stage - Len(update.rollback) - 1 - 1)' = Grown(n - 1)
    BY <1>2, <1>5, <2>2 DEF Grown, Kept
  <2> QED BY <2>2, <2>6, <2>7, <2>8, <2>9, <2>10, <2>11, <2>12 DEF DecodeInv
<1>11. ASSUME r + 1 < stage', stage' < r + a + 2 PROVE DecodeInv'
  <2>1. CASE stage = r + 1
    <3>1. Program[stage] = <<SpineStatements(update.rollback, update.apply)>>
      BY <1>2, <1>3, <2>1, ProgramStages
    <3>2. list # 1
      BY <3>1, OneList DEF NextStage
    <3>3. Ran(r + a) = r + a /\ ~(Ran(r + a) < r) /\ Ran(r + a) - r = a
      BY <1>3, <3>2 DEF Ran
    <3>4. SpineInv
      BY <1>1, <1>2, <2>1, OpenFacts
    <3>5. work.blocks = IF Ran(r + a) < r THEN UpTo(db.blocks, update.rollback[Ran(r + a) + 1])
                        ELSE Grown(Ran(r + a) - r)
      BY <1>2, <3>4 DEF SpineInv
    <3>6. Holds(work, ChainStatements(Kept)) /\ work.tip = db.tip
      BY <3>4 DEF SpineInv
    <3>7. Grown(0) = Kept /\ Grows(0)
      BY <1>4, GrowsFrom
    <3>8. 1 \in 1..a /\ stage' = r + 1 + 1 /\ 1 - 1 = 0
      BY <1>1, <1>3, <2>1
    <3>9. work.blocks = Grown(a)
      BY <3>3, <3>5
    <3> QED BY <1>10, <3>6, <3>7, <3>8, <3>9
  <2>2. CASE stage # r + 1
    <3>1. PICK n : n = stage - r - 1
      OBVIOUS
    <3>2. r + 1 < stage /\ stage < r + a + 2
      BY <1>1, <1>3, <1>11, <2>2
    <3>3. /\ Holds(work, ChainStatements(Grown(n))) /\ Grows(n)
          /\ work.blocks = Grown(a) /\ work.tip = db.tip
      BY <1>2, <3>1, <3>2, DecodeDone
    <3>4. n + 1 \in 1..a /\ stage' = r + 1 + (n + 1) /\ (n + 1) - 1 = n
      BY <1>1, <1>3, <1>11, <3>1, <3>2
    <3> QED BY <1>10, <3>3, <3>4
  <2> QED BY <2>1, <2>2
<1>12. ASSUME stage' = r + a + 2 PROVE TipInv'
  <2>1. PICK n : n = stage - r - 1
    OBVIOUS
  <2>2. n = a /\ r + 1 < stage /\ stage < r + a + 2
    BY <1>1, <1>3, <1>12, <2>1
  <2>3. /\ Holds(work, ChainStatements(Grown(a))) /\ Grows(a)
        /\ work.blocks = Grown(a) /\ work.tip = db.tip
    BY <1>2, <2>1, <2>2, DecodeDone
  <2>4. list' \in 1..2 /\ pos' \in 1..2 /\ Ran(1)' = 0 /\ work'.tip = db'.tip
    BY <1>1, <1>5, <1>6, <2>3
  <2>5. Grown(Len(update.apply))' = Grown(a) /\ Grows(Len(update.apply))'
    BY <1>2, <1>5, <2>3 DEF Grows, Grown, GrownTip, Kept
  <2>6. Holds(work', ChainStatements(Grown(a))) /\ work'.blocks = Grown(a)
    BY <1>5, <2>3
  <2> QED BY <2>4, <2>5, <2>6 DEF TipInv
<1>13. ASSUME stage' = r + a + 3 PROVE DoneInv'
  <2>1. stage = r + a + 2
    BY <1>1, <1>3, <1>13
  <2>2. TipInv
    BY <1>1, <1>2, <2>1, OpenFacts
  <2> DEFINE s == [sql |-> "tip", b |-> update.apply[a]]
  <2>3. Program[stage] = <<<<s>>>>
    BY <1>2, <1>3, <2>1, ProgramStages
  <2>4. list # 1
    BY <2>3, OneList DEF NextStage
  <2>5. Ran(1) = 1
    BY <2>4 DEF Ran
  <2>6. /\ work.tip = update.apply[a] /\ work.blocks = Grown(a) /\ Grows(a)
        /\ Holds(work, ChainStatements(Grown(a)))
    BY <1>2, <2>2, <2>5 DEF TipInv
  <2>7. Grown(Len(update.apply))' = Grown(a) /\ Grows(Len(update.apply))'
    BY <1>2, <1>5, <2>6 DEF Grows, Grown, GrownTip, Kept
  <2>8. Holds(work', ChainStatements(Grown(a))) /\ work'.blocks = Grown(a) /\ work'.tip = update'.apply[a]
    BY <1>5, <2>6
  <2> QED BY <1>7, <2>7, <2>8 DEF DoneInv
<1>14. stage' \in 1..(r + a + 3)
  BY <1>1, <1>3
<1> QED BY <1>1, <1>2, <1>5, <1>8, <1>9, <1>11, <1>12, <1>13, <1>14, StepKeeps

\* A transaction opens on what is committed.
LEMMA BeginKeeps ==
    ASSUME LedgerInv, NEW rollback, NEW apply, Begin(rollback, apply)
    PROVE  LedgerInv'
<1>1. /\ FromFollower(rollback, apply) /\ Connects(db.tip, rollback, apply)
      /\ open' = TRUE /\ work' = db /\ db' = db
      /\ update' = [rollback |-> rollback, apply |-> apply]
      /\ stage' = 1 /\ list' = 1 /\ pos' = 1
  BY DEF Begin
<1>2. update'.rollback = rollback /\ update'.apply = apply
  BY <1>1
<1>3. PICK r, a : r = Len(rollback) /\ a = Len(apply)
  OBVIOUS
<1>4. IsDb(db) /\ IsChain(db.blocks, db.tip) /\ Holds(db, ChainStatements(db.blocks)) /\ CommittedInv
  BY DEF LedgerInv, CommittedInv
<1>5. r \in Nat /\ a \in Nat /\ 1 <= a
  BY <1>1, <1>3, <1>4, UpdateShape
<1>6. DOMAIN rollback = 1..r
  BY <1>1, <1>3, <1>4, UpdateShape
<1>7. db.tip = NoBlock => r = 0 /\ db.blocks = {}
  <2>1. db.tip = NoBlock => r = 0
    BY <1>1, <1>3, <1>4, UpdateShape
  <2> QED BY <1>4, <2>1 DEF IsChain
<1>8. db.tip # NoBlock => UpTo(db.blocks, db.tip) = db.blocks
  BY <1>4, CutAtTip
<1>9. Ran(4)' = 0 /\ Ran(r + a)' = 0
  BY <1>1 DEF Ran
<1>10. ASSUME 1 <= r PROVE UndoInv'
  <2>1. db.tip # NoBlock /\ 1 \in DOMAIN rollback
    BY <1>5, <1>6, <1>7, <1>10
  <2>2. rollback[1] = db.tip
    BY <1>1, <2>1 DEF Connects
  <2>3. PICK D : D = ChainStatements(db.blocks)
    OBVIOUS
  <2>4. D = ChainStatements(UpTo(db'.blocks, update'.rollback[stage']))
    BY <1>1, <1>2, <1>8, <2>1, <2>2, <2>3
  <2>5. work'.utxos = UtxosOf(D) /\ work'.convs = ConvsOf(D) /\ Decodable(D)
    BY <1>1, <1>4, <2>3 DEF Holds
  <2>6. \A h : UtxosUndone(UtxosOf(D), h, 0) = UtxosOf(D) /\ ConvsUndone(ConvsOf(D), h, 0) = ConvsOf(D)
    BY UndoSteps
  <2>7. list' \in 1..2 /\ pos' \in 1..5 /\ work'.blocks = db'.blocks /\ work'.tip = db'.tip
    BY <1>1
  <2> QED BY <1>9, <2>4, <2>5, <2>6, <2>7 DEF UndoInv
<1>11. ASSUME r = 0 PROVE SpineInv'
  <2>1. db.tip # NoBlock => ParentHash[apply[1]] = db.tip
    <3>1. rollback \in Seq(db.blocks)
      BY <1>1 DEF FromFollower
    <3>2. rollback = <<>>
      BY <1>3, <1>11, <3>1, EmptySeq
    <3> QED BY <1>1, <3>2 DEF Connects
  <2>2. Kept' = db.blocks
    BY <1>1, <1>2, <1>7, <1>8, <2>1 DEF Kept
  <2>3. ~(Ran(r + a)' < r) /\ Ran(r + a)' - r = 0
    BY <1>9, <1>11
  <2>4. Grown(Ran(r + a) - r)' = db.blocks
    BY <2>2, <2>3 DEF Grown
  <2>5. r = Len(update'.rollback) /\ a = Len(update'.apply)
    BY <1>2, <1>3
  <2>6. Holds(work, ChainStatements(Kept))'
    BY <1>1, <1>4, <2>2
  <2>7. list' \in 1..2 /\ pos' \in 1..(r + a + 1) /\ work'.tip = db'.tip /\ work'.blocks = db.blocks
    BY <1>1, <1>5
  <2> QED BY <2>3, <2>4, <2>5, <2>6, <2>7 DEF SpineInv
<1>12. OpenInv'
  <2>1. r = Len(update'.rollback) /\ a = Len(update'.apply)
    BY <1>2, <1>3
  <2>2. IsDb(work)'
    BY <1>1, <1>4 DEF IsDb
  <2>3. FromFollower(update.rollback, update.apply)'
    BY <1>1, <1>2 DEF FromFollower
  <2>4. Connects(db.tip, update.rollback, update.apply)'
    BY <1>1, <1>2 DEF Connects
  <2>5. /\ stage' \in 1..(r + a + 3)
        /\ stage' <= r => 1 <= r
        /\ stage' = r + 1 => r = 0
        /\ ~(r + 1 < stage') /\ ~(stage' = r + a + 2) /\ ~(stage' = r + a + 3)
    BY <1>1, <1>5
  <2> QED BY <1>10, <1>11, <2>1, <2>2, <2>3, <2>4, <2>5 DEF OpenInv
<1>13. CommittedInv'
  BY <1>1, <1>4 DEF CommittedInv
<1> QED BY <1>1, <1>2, <1>12, <1>13 DEF LedgerInv

\* A commit publishes a chain and the tables of its statements.
LEMMA CommitKeeps ==
    ASSUME LedgerInv, Commit
    PROVE  /\ LedgerInv' /\ DoneInv
           /\ FromFollower(update.rollback, update.apply)
           /\ Connects(db.tip, update.rollback, update.apply)
<1>1. open /\ db' = work /\ open' = FALSE /\ update' = NoUpdate
  BY DEF Commit, EndTransaction
<1>2. PICK r, a : r = Len(update.rollback) /\ a = Len(update.apply)
  OBVIOUS
<1>3. r \in Nat /\ a \in Nat /\ 1 <= a /\ stage \in 1..(r + a + 3) /\ DOMAIN Program = 1..(r + a + 2)
  BY <1>1, <1>2, OpenFacts
<1>4. stage = r + a + 3
  <2>1. ~(stage \in 1..(r + a + 2))
    BY <1>3 DEF Commit
  <2> QED BY <1>3, <2>1
<1>5. DoneInv /\ IsDb(work) /\ FromFollower(update.rollback, update.apply)
      /\ Connects(db.tip, update.rollback, update.apply)
  BY <1>1, <1>2, <1>4, OpenFacts
<1>6. work.blocks = Grown(a) /\ Holds(work, ChainStatements(Grown(a))) /\ work.tip = update.apply[a] /\ Grows(a)
  BY <1>2, <1>5 DEF DoneInv
<1>7. IsChain(work.blocks, work.tip)
  <2>1. a > 0
    BY <1>3
  <2>2. GrownTip(a) = update.apply[a]
    BY <2>1 DEF GrownTip
  <2> QED BY <1>6, <2>2 DEF Grows
<1>8. CommittedInv'
  BY <1>1, <1>5, <1>6, <1>7 DEF CommittedInv, IsDb
<1>9. update' = [rollback |-> update'.rollback, apply |-> update'.apply]
  BY <1>1 DEF NoUpdate
<1> QED BY <1>1, <1>5, <1>8, <1>9 DEF LedgerInv

\* An aborted transaction leaves what is committed alone.
LEMMA AbortKeeps ==
    ASSUME LedgerInv, Abort
    PROVE  LedgerInv'
<1>1. db' = db /\ open' = FALSE /\ update' = NoUpdate
  BY DEF Abort, EndTransaction
<1>2. CommittedInv'
  BY <1>1 DEF LedgerInv, CommittedInv
<1>3. update' = [rollback |-> update'.rollback, apply |-> update'.apply]
  BY <1>1 DEF NoUpdate
<1> QED BY <1>1, <1>2, <1>3 DEF LedgerInv

\* The empty database is that of the empty chain.
LEMMA InitHolds ==
    ASSUME Init
    PROVE  LedgerInv
<1>1. db = EmptyDb /\ open = FALSE /\ update = NoUpdate
  BY DEF Init
<1>2. db.blocks = {} /\ db.tip = NoBlock /\ db.utxos = {} /\ db.convs = {} /\ IsDb(db)
  BY <1>1 DEF EmptyDb, IsDb
<1>3. IsChain({}, NoBlock)
  BY DEF IsChain
<1>4. ChainStatements({}) = {}
  BY DEF ChainStatements
<1>5. UtxosOf({}) = {} /\ ConvsOf({}) = {} /\ Decodable({})
  BY DEF UtxosOf, RowsIn, ConvsOf, Decodable
<1>6. CommittedInv
  BY <1>2, <1>3, <1>4, <1>5 DEF CommittedInv, Holds
<1>7. update = [rollback |-> update.rollback, apply |-> update.apply]
  BY <1>1 DEF NoUpdate
<1> QED BY <1>1, <1>6, <1>7 DEF LedgerInv

\* A statement of any stage.
LEMMA RunKeeps ==
    ASSUME LedgerInv, RunStatement
    PROVE  LedgerInv'
<1>1. open
  BY DEF RunStatement
<1>2. PICK r, a : r = Len(update.rollback) /\ a = Len(update.apply)
  OBVIOUS
<1>3. r \in Nat /\ a \in Nat /\ 1 <= a /\ stage \in 1..(r + a + 3) /\ DOMAIN Program = 1..(r + a + 2)
  BY <1>1, <1>2, OpenFacts
<1>4. ~(stage = r + a + 3)
  <2>1. stage \in 1..(r + a + 2)
    BY <1>3 DEF RunStatement
  <2> QED BY <1>3, <2>1
<1>5. stage <= r \/ stage = r + 1 \/ (r + 1 < stage /\ stage < r + a + 2) \/ stage = r + a + 2
  BY <1>3, <1>4, StageNumbers
<1>6. CASE stage <= r
  BY <1>2, <1>6, RunUndo
<1>7. CASE stage = r + 1
  BY <1>2, <1>7, RunSpine
<1>8. CASE r + 1 < stage /\ stage < r + a + 2
  BY <1>2, <1>8, RunDecode
<1>9. CASE stage = r + a + 2
  BY <1>2, <1>9, RunTip
<1> QED BY <1>5, <1>6, <1>7, <1>8, <1>9

\* Every step keeps the invariant.
LEMMA LedgerNext ==
    ASSUME LedgerInv, [Next]_lvars
    PROVE  LedgerInv'
<1>1. ASSUME NEW s \in Branches, BeginBranch(s) PROVE LedgerInv'
  <2> DEFINE rb == IF db.tip = NoBlock THEN <<>> ELSE RollbackTo(db.blocks, ParentHash[s[1]])
  <2>1. Begin(rb, s)
    BY <1>1 DEF BeginBranch
  <2> HIDE DEF rb
  <2> QED BY <2>1, BeginKeeps
<1>2. CASE RunStatement
  BY <1>2, RunKeeps
<1>3. CASE NextList
  BY <1>3, NextListKeeps
<1>4. CASE NextStage
  BY <1>4, NextStageKeeps
<1>5. CASE Commit
  BY <1>5, CommitKeeps
<1>6. CASE Abort
  BY <1>6, AbortKeeps
<1>7. CASE UNCHANGED lvars
  BY <1>7 DEF lvars, LedgerInv, CommittedInv, OpenInv, UndoInv, SpineInv, DecodeInv, TipInv, DoneInv,
     Ran, Grows, Grown, GrownTip, Kept, FromFollower, IsDb, Holds
<1> QED BY <1>1, <1>2, <1>3, <1>4, <1>5, <1>6, <1>7 DEF Next, Run

-----------------------------------------------------------------------------
(* Theorems.                                                               *)

\* LedgerInv is inductive: at every statement of every update, whatever is
\* rolled back and applied and wherever it is aborted, the transaction sees
\* the tables of a chain and of the statements of the next block run so far,
\* and what is committed is the tables of the stored chain.
THEOREM LedgerInductive == Spec => []LedgerInv
<1>1. Init => LedgerInv
  BY InitHolds
<1>2. LedgerInv /\ [Next]_lvars => LedgerInv'
  BY LedgerNext
<1> QED BY <1>1, <1>2, PTL DEF Spec


-----------------------------------------------------------------------------
(* What LedgerInv says of the committed tables.                            *)

\* The row of an output of chain C, and the row it was inserted as.
RowOf(r, q, c, C) ==
    /\ c \in C /\ q \in RowsIn(ChainStatements(C)) /\ Fresh(q)
    /\ q.created = Height[c]
    /\ q.deadline = Null \/ (q.deadline \in Nat /\ q.deadline > Height[c])
    /\ r = Became(q, ChainStatements(C))
    /\ r.lock = q.lock /\ r.created = q.created /\ r.deadline = q.deadline

\* Every row of the table of a chain is the row of one of its outputs.
LEMMA RowsAreOutputs ==
    ASSUME NEW C \in SUBSET Block, NEW r \in UtxosOf(ChainStatements(C))
    PROVE  \E q, c : RowOf(r, q, c, C)
<1> DEFINE D == ChainStatements(C)
<1>1. PICK q \in RowsIn(D) : r = Became(q, D)
  BY DEF UtxosOf
<1>2. PICK s \in D : s.sql = "insert" /\ q = s.row
  BY <1>1 DEF RowsIn
<1>3. PICK c, i, j : c \in C /\ StatementAt(c, i, j, s)
  BY <1>2, InChain
<1>4. /\ Fresh(q) /\ q.created = Height[c]
      /\ q.deadline = Null \/ (q.deadline \in Nat /\ q.deadline > Height[c])
  BY <1>2, <1>3, StatementFacts
<1> HIDE DEF D
<1>5. Became(q, D).created = q.created /\ Became(q, D).lock = q.lock /\ Became(q, D).deadline = q.deadline
  BY <1>4, FateKeepsKey
<1> QED BY <1>1, <1>3, <1>4, <1>5 DEF RowOf, D

\* Its fate: spent by a statement of the chain, else trimmed, else neither.
SpentBy(r, s) == r.spent = s.h /\ r.spentTx = s.tx /\ r.trimmed = Null

\* The three things that can have become of it.
LEMMA RowFate ==
    ASSUME NEW C \in SUBSET Block, NEW r, NEW q, NEW c, RowOf(r, q, c, C), NEW D, D = ChainStatements(C)
    PROVE  \/ \E s \in D : s.sql = "spend" /\ SpentBy(r, s)
           \/ DueIn(q, D) /\ r.spent = Null /\ r.spentTx = NoTx /\ r.trimmed = q.deadline
           \/ ~DueIn(q, D) /\ r.spent = Null /\ r.spentTx = NoTx /\ r.trimmed = Null
<1>1. Fresh(q) /\ r = Became(q, D)
  BY DEF RowOf
<1>2. CASE SpendsOf(q.op, D) # {}
  <2>1. PICK s : s = OneOf(SpendsOf(q.op, D))
    OBVIOUS
  <2>2. s \in SpendsOf(q.op, D)
    BY <1>2, <2>1 DEF OneOf
  <2>3. r = [q EXCEPT !.spent = s.h, !.spentTx = s.tx]
    BY <1>1, <1>2, <2>1 DEF Became
  <2>4. r = [op |-> q.op, lock |-> q.lock, created |-> q.created, deadline |-> q.deadline,
             spent |-> s.h, spentTx |-> s.tx, trimmed |-> Null]
    BY <1>1, <2>3, SpentRow
  <2>5. SpentBy(r, s)
    BY <2>4 DEF SpentBy
  <2> QED BY <2>2, <2>5 DEF SpendsOf
<1>3. CASE SpendsOf(q.op, D) = {} /\ DueIn(q, D)
  <2>1. r = [q EXCEPT !.trimmed = q.deadline]
    BY <1>1, <1>3 DEF Became
  <2>2. r = [op |-> q.op, lock |-> q.lock, created |-> q.created, deadline |-> q.deadline,
             spent |-> Null, spentTx |-> NoTx, trimmed |-> q.deadline]
    BY <1>1, <2>1, TrimmedRow
  <2> QED BY <1>3, <2>2
<1>4. CASE SpendsOf(q.op, D) = {} /\ ~DueIn(q, D)
  <2>1. r = q
    BY <1>1, <1>4 DEF Became
  <2> QED BY <1>1, <1>4, <2>1, FreshRow
<1> QED BY <1>2, <1>3, <1>4

\* A spend names a height and a transaction.
LEMMA SpendNames ==
    ASSUME NEW C \in SUBSET Block, NEW s \in ChainStatements(C), s.sql = "spend"
    PROVE  s.h \in Nat /\ s.tx # NoTx
<1>1. PICK c, i, j : c \in C /\ StatementAt(c, i, j, s)
  BY InChain
<1>2. i \in DOMAIN Body[c] /\ IsQiTx(Body[c][i]) /\ s.h = Height[c] /\ s.tx = Body[c][i].hash
  BY <1>1, StatementSpends
<1>3. WellFormed(Body[c][i])
  BY <1>1, <1>2, BodyAssumption
<1>4. Body[c][i].hash # NoTx
  BY <1>2, <1>3 DEF WellFormed
<1> QED BY <1>1, <1>2, <1>4, HeightAssumption

\* The columns of a row.
LEMMA RowTypes ==
    ASSUME NEW C \in SUBSET Block, NEW r \in UtxosOf(ChainStatements(C))
    PROVE  /\ r.created \in Nat /\ r.spent \in Nat \cup {Null} /\ r.trimmed \in Nat \cup {Null}
           /\ r.spent = Null <=> r.spentTx = NoTx
<1>1. PICK D : D = ChainStatements(C)
  OBVIOUS
<1>2. PICK q, c : RowOf(r, q, c, C)
  BY RowsAreOutputs
<1>3. r.created \in Nat /\ q.deadline \in Nat \cup {Null}
  BY <1>2, HeightAssumption DEF RowOf
<1>4. CASE \E s \in D : s.sql = "spend" /\ SpentBy(r, s)
  <2>1. PICK s \in D : s.sql = "spend" /\ SpentBy(r, s)
    BY <1>4
  <2>2. s.h \in Nat /\ s.tx # NoTx
    BY <1>1, <2>1, SpendNames
  <2>3. r.spent \in Nat /\ r.spent # Null /\ r.spentTx # NoTx /\ r.trimmed = Null
    BY <2>1, <2>2 DEF SpentBy, Null
  <2> QED BY <1>3, <2>3
<1>5. CASE r.spent = Null /\ r.spentTx = NoTx /\ (r.trimmed = q.deadline \/ r.trimmed = Null)
  BY <1>3, <1>5
<1> QED BY <1>1, <1>2, <1>4, <1>5, RowFate

\* A deadline that has come has its block in the chain, and that block a sweep.
LEMMA RowsNotOverdue ==
    ASSUME NEW C, NEW t, IsChain(C, t), t # NoBlock, NEW r \in UtxosOf(ChainStatements(C)),
           r.lock = 0, r.deadline # Null, r.deadline <= Height[t]
    PROVE  ~Live(r)
<1>1. PICK D : D = ChainStatements(C)
  OBVIOUS
<1>2. C \in SUBSET Block
  BY DEF IsChain
<1>3. PICK q, c : RowOf(r, q, c, C)
  BY <1>2, RowsAreOutputs
<1>4. c \in C /\ q.lock = 0 /\ q.deadline \in Nat /\ Height[c] < q.deadline /\ q.deadline <= Height[t]
  BY <1>2, <1>3, HeightAssumption DEF RowOf
<1>5. PICK b \in C : Height[b] = q.deadline
  BY <1>4, NoGap
<1> DEFINE e == [sql |-> "sweep", h |-> Height[b]]
<1>6. e \in D
  BY <1>1, <1>2, SweepPlace, InChain
<1>7. DueIn(q, D)
  <2>1. e.sql = "sweep" /\ e.h = q.deadline
    BY <1>5
  <2> QED BY <1>4, <1>6, <2>1 DEF DueIn
<1>8. CASE \E s \in D : s.sql = "spend" /\ SpentBy(r, s)
  <2>1. PICK s \in D : s.sql = "spend" /\ SpentBy(r, s)
    BY <1>8
  <2>2. s.h \in Nat
    BY <1>1, <1>2, <2>1, SpendNames
  <2> QED BY <2>1, <2>2 DEF SpentBy, Live, Null
<1>9. CASE r.trimmed = q.deadline
  BY <1>4, <1>9 DEF Live, Null
<1> QED BY <1>1, <1>2, <1>3, <1>7, <1>8, <1>9, RowFate

-----------------------------------------------------------------------------

\* After any history of updates, reorganisations of any depth and aborted
\* transactions, the committed utxos table is the one the stored chain
\* determines: rollbackBlock undoes exactly what applyBlock did.
THEOREM LedgerUtxos == Spec => []UtxosMatchChain
<1>1. LedgerInv => UtxosMatchChain
  <2> SUFFICES ASSUME LedgerInv PROVE UtxosMatchChain
    OBVIOUS
  <2>1. PICK C, t : C = db.blocks /\ t = db.tip
    OBVIOUS
  <2>2. IsChain(C, t) /\ db.utxos = UtxosOf(ChainStatements(C)) /\ Decodable(ChainStatements(C))
    BY <2>1 DEF LedgerInv, CommittedInv, Holds
  <2>3. C \in SUBSET Block /\ ValidChain(C)
    BY <2>2, ChainIsValid
  <2>4. UtxosOf(ChainStatements(C)) = ExpectedUtxos(C)
    BY <2>2, <2>3, UtxosOfChain
  <2> QED BY <2>1, <2>2, <2>4 DEF UtxosMatchChain
<1> QED BY <1>1, LedgerInductive, PTL

\* The same of conversion_outputs, whose key does not name the block.
THEOREM LedgerConvs == Spec => []ConvsMatchChain
<1>1. LedgerInv => ConvsMatchChain
  <2> SUFFICES ASSUME LedgerInv PROVE ConvsMatchChain
    OBVIOUS
  <2>1. PICK C, t : C = db.blocks /\ t = db.tip
    OBVIOUS
  <2>2. IsChain(C, t) /\ db.convs = ConvsOf(ChainStatements(C)) /\ Decodable(ChainStatements(C))
    BY <2>1 DEF LedgerInv, CommittedInv, Holds
  <2>3. C \in SUBSET Block
    BY <2>2, ChainIsValid
  <2>4. ConvsOf(ChainStatements(C)) = ExpectedConvs(C)
    BY <2>2, <2>3, ConvsOfChain
  <2> QED BY <2>1, <2>2, <2>4 DEF ConvsMatchChain
<1> QED BY <1>1, LedgerInductive, PTL

\* The sweep compares deadlines for equality and still misses none: the
\* stored chain has a block at every height, so no unspent, unlocked output
\* is left past its trim deadline.
THEOREM LedgerNoneOverdue == Spec => []NoneOverdue
<1>1. LedgerInv => NoneOverdue
  <2> SUFFICES ASSUME LedgerInv, NEW r \in db.utxos, r.lock = 0, r.deadline # Null,
                      r.deadline <= TipHeight
               PROVE  ~Live(r)
    BY DEF NoneOverdue
  <2>1. PICK C, t : C = db.blocks /\ t = db.tip
    OBVIOUS
  <2>2. IsChain(C, t) /\ r \in UtxosOf(ChainStatements(C))
    BY <2>1 DEF LedgerInv, CommittedInv, Holds
  <2>3. t # NoBlock
    <3> SUFFICES ASSUME t = NoBlock PROVE FALSE
      OBVIOUS
    <3>1. C = {}
      BY <2>2 DEF IsChain
    <3> QED BY <2>2, <3>1 DEF UtxosOf, RowsIn, ChainStatements
  <2>4. r.deadline <= Height[t]
    BY <2>1, <2>3 DEF TipHeight
  <2> QED BY <2>2, <2>3, <2>4, RowsNotOverdue
<1> QED BY <1>1, LedgerInductive, PTL

\* A block the decoder refuses ends every update that applies it, at
\* whatever place of whatever update it stands: it is never stored.
THEOREM LedgerDecodable == Spec => []UndecodableNeverStored
<1>1. LedgerInv => UndecodableNeverStored
  <2> SUFFICES ASSUME LedgerInv, NEW b \in db.blocks PROVE ~Undecodable(b)
    BY DEF UndecodableNeverStored
  <2>1. PICK C, t : C = db.blocks /\ t = db.tip
    OBVIOUS
  <2>2. IsChain(C, t) /\ Decodable(ChainStatements(C)) /\ b \in C
    BY <2>1 DEF LedgerInv, CommittedInv, Holds
  <2>3. b \in Block
    BY <2>2, ChainIsValid
  <2>4. Decodable(BlockStatements[b])
    BY <2>2, DecodableBlock
  <2> QED BY <2>3, <2>4, NoRefusal
<1> QED BY <1>1, LedgerInductive, PTL

\* The columns of utxos keep their types; spent_block and spent_tx are NULL
\* together, which rollbackBlock has to restore.
THEOREM LedgerTypes == Spec => []LedgerTypeOK
<1>1. LedgerInv => LedgerTypeOK
  <2> SUFFICES ASSUME LedgerInv PROVE LedgerTypeOK
    OBVIOUS
  <2>1. PICK C, t : C = db.blocks /\ t = db.tip
    OBVIOUS
  <2>2. IsChain(C, t) /\ db.utxos = UtxosOf(ChainStatements(C)) /\ open \in BOOLEAN
    BY <2>1 DEF LedgerInv, CommittedInv, Holds
  <2>3. C \in SUBSET Block
    BY <2>2, ChainIsValid
  <2>4. t \in Block \cup {NoBlock}
    BY <2>2, <2>3 DEF IsChain
  <2>5. ASSUME NEW r \in db.utxos
        PROVE  /\ r.created \in Nat /\ r.spent \in Nat \cup {Null} /\ r.trimmed \in Nat \cup {Null}
               /\ r.spent = Null <=> r.spentTx = NoTx
    BY <2>2, <2>3, RowTypes
  <2> QED BY <2>1, <2>2, <2>3, <2>4, <2>5 DEF LedgerTypeOK
<1> QED BY <1>1, LedgerInductive, PTL

\* A commit is a move of the abstract index.
LEMMA CommitIsMove ==
    ASSUME LedgerInv, Commit
    PROVE  Index!Next
<1>1. /\ DoneInv /\ FromFollower(update.rollback, update.apply)
      /\ Connects(db.tip, update.rollback, update.apply) /\ CommittedInv /\ db' = work
  BY CommitKeeps DEF LedgerInv, Commit
<1>2. PICK r, a : r = Len(update.rollback) /\ a = Len(update.apply)
  OBVIOUS
<1>3. /\ a \in Nat /\ 1 <= a
      /\ \A i \in 1..a : update.apply[i] \in Block /\ update.apply[i] \notin db.blocks
      /\ db.tip = NoBlock => a = 1
      /\ db.tip # NoBlock => ParentHash[update.apply[1]] \in db.blocks
  <2>1. PICK u : u = update.apply
    OBVIOUS
  <2>2. a \in Nat /\ 1 <= a
    BY <1>1, <1>2, UpdateShape
  <2>3. \A i \in 1..a : u[i] \in Block /\ u[i] \notin db.blocks
    BY <1>1, <1>2, <2>1, UpdateShape
  <2>4. db.tip = NoBlock => a = 1
    BY <1>1, <1>2 DEF FromFollower
  <2>5. db.tip # NoBlock => ParentHash[u[1]] \in db.blocks
    BY <1>1, <2>1 DEF FromFollower
  <2> QED BY <2>1, <2>2, <2>3, <2>4, <2>5
<1>4. PICK new : new = update.apply[a]
  OBVIOUS
<1>5. new \in Block /\ new \notin db.blocks
  BY <1>3, <1>4
<1>6. db'.tip = new /\ db'.blocks = Grown(a) /\ Grows(a)
  BY <1>1, <1>2, <1>4 DEF DoneInv
<1>7. CASE db.tip = NoBlock
  <2>1. db.blocks = {} /\ a = 1
    BY <1>1, <1>3, <1>7 DEF CommittedInv, IsChain
  <2>2. Grown(a) = {new}
    <3>1. Kept = {}
      BY <1>7 DEF Kept
    <3>2. {update.apply[i] : i \in 1..a} = {update.apply[1]}
      BY <2>1
    <3> QED BY <1>4, <2>1, <3>1, <3>2 DEF Grown
  <2>3. Index!Bootstrap(new)
    BY <1>6, <2>1, <2>2 DEF Index!Bootstrap
  <2> QED BY <1>5, <2>3 DEF Index!Next
<1>8. CASE db.tip # NoBlock
  <2>1. PICK f : f = ParentHash[update.apply[1]]
    OBVIOUS
  <2>2. f \in db.blocks /\ Kept = UpTo(db.blocks, f)
    BY <1>3, <1>8, <2>1 DEF Kept
  <2>3. Kept \subseteq db.blocks
    BY <2>2 DEF UpTo
  <2>4. \A b \in Grown(a) : b \in Kept \/ (b \notin db.blocks /\ Height[b] > Height[f])
    BY <1>3, <1>6, <1>8, <2>1 DEF Grown, Grows
  <2>5. Grown(a) \cap db.blocks = UpTo(db.blocks, f)
    BY <2>2, <2>3, <2>4 DEF Grown
  <2>6. \A b \in Grown(a) \ db.blocks : Height[b] > Height[f]
    BY <2>3, <2>4
  <2>7. IsChain(Grown(a), new)
    BY <1>3, <1>4, <1>6 DEF Grows, GrownTip
  <2>8. Index!Move(f, new)
    BY <1>5, <1>6, <2>2, <2>5, <2>6, <2>7
       DEF Index!Move, Index!UpTo, Index!IsChain, Index!Below, UpTo, IsChain, Below
  <2> QED BY <1>5, <2>2, <2>8 DEF Index!Next
<1> QED BY <1>7, <1>8

\* ApplyUpdate is atomic and its commits are the moves of the abstract index:
\* a reader of the database sees one gapless chain become another that agrees
\* with it up to a fork block, never anything in between.
THEOREM LedgerRefinement == Spec => LedgerImplementsChainIndex
<1>1. Init => Index!Init
  BY DEF Init, Index!Init, EmptyDb
<1>2. LedgerInv /\ [Next]_lvars => [Index!Next]_(Index!vars)
  <2> SUFFICES ASSUME LedgerInv, [Next]_lvars PROVE [Index!Next]_(Index!vars)
    OBVIOUS
  <2>1. CASE Commit
    BY <2>1, CommitIsMove
  <2>2. CASE ~Commit
    <3>1. db' = db
      BY <2>2 DEF Next, BeginBranch, Begin, Run, RunStatement, NextList, NextStage, Abort, lvars
    <3> QED BY <3>1 DEF Index!vars
  <2> QED BY <2>1, <2>2
<1> QED BY <1>1, <1>2, LedgerInductive, PTL DEF Spec, LedgerImplementsChainIndex, Index!Spec

=============================================================================
