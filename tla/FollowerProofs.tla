--------------------------- MODULE FollowerProofs ---------------------------
(***************************************************************************)
(* Proofs about the Follower module, for every block tree and every        *)
(* reorg_depth.                                                            *)
(***************************************************************************)
EXTENDS Follower, TLAPS

USE NoBlockAssumption, UnknownAssumption, ParentAssumption, HeightAssumption,
    NumberingAssumption, MaxDepthAssumption

-----------------------------------------------------------------------------
(* Chains.                                                                 *)

\* Cutting a chain back to one of its blocks leaves a chain.
LEMMA CutIsChain ==
    ASSUME NEW S, NEW t \in BlockOrNone, IsChain(S, t), NEW a \in S
    PROVE  IsChain(UpTo(S, a), a)
<1>1. UpTo(S, a) \subseteq Block /\ a \in UpTo(S, a) /\ a # NoBlock
  BY DEF IsChain, UpTo
<1>2. ASSUME NEW b \in UpTo(S, a), Below(UpTo(S, a), b)
      PROVE  ParentHash[b] \in UpTo(S, a)
  <2>1. b \in S /\ Below(S, b) /\ Height[b] <= Height[a]
    BY <1>2 DEF UpTo, Below
  <2>2. ParentHash[b] \in S /\ ParentHash[b] \in Block /\ b \in Block
    BY <2>1 DEF IsChain
  <2>3. Height[ParentHash[b]] <= Height[a]
    BY <2>1, <2>2, <1>1
  <2> QED BY <2>2, <2>3 DEF UpTo
<1> QED BY <1>1, <1>2 DEF IsChain, UpTo

\* Growing a contiguous branch on the tip of a chain leaves a chain.
LEMMA GraftIsChain ==
    ASSUME NEW S, NEW a \in Block, IsChain(S, a),
           NEW s \in Seq(Block), Ascends(s), ParentHash[s[1]] = a
    PROVE  IsChain(S \cup Range(s), s[Len(s)])
<1> DEFINE T == S \cup Range(s)
<1>1. Len(s) \in Nat \ {0} /\ \A i \in 1..Len(s) : s[i] \in Block
  BY DEF Ascends
<1>2. Range(s) = {s[i] : i \in 1..Len(s)}
  BY DEF Range
<1>3. Height[s[1]] = Height[a] + 1
  BY <1>1
<1>4. \A i \in 1..Len(s) : Height[s[i]] = Height[a] + i
  BY <1>1, <1>3 DEF Ascends
<1>5. s[Len(s)] \in Range(s) /\ s[Len(s)] \in Block /\ Height[s[Len(s)]] = Height[a] + Len(s)
  BY <1>1, <1>2, <1>4
<1>6. S \subseteq Block /\ a \in S /\ \A b \in S : Height[b] <= Height[a]
  BY DEF IsChain
<1>7. T \subseteq Block
  BY <1>1, <1>2, <1>6
<1>8. ASSUME NEW b \in T
      PROVE  Height[b] <= Height[s[Len(s)]]
  <2>1. CASE b \in S
    BY <2>1, <1>1, <1>5, <1>6
  <2>2. CASE b \in Range(s)
    BY <2>2, <1>1, <1>2, <1>4, <1>5
  <2> QED BY <2>1, <2>2
<1>9. ASSUME NEW b \in T, NEW c \in T, Height[b] = Height[c]
      PROVE  b = c
  <2>1. CASE b \in S /\ c \in S
    BY <2>1, <1>9 DEF IsChain
  <2>2. CASE b \in S /\ c \in Range(s)
    BY <2>2, <1>9, <1>1, <1>2, <1>4, <1>6
  <2>3. CASE b \in Range(s) /\ c \in S
    BY <2>3, <1>9, <1>1, <1>2, <1>4, <1>6
  <2>4. CASE b \in Range(s) /\ c \in Range(s)
    BY <2>4, <1>9, <1>1, <1>2, <1>4
  <2> QED BY <2>1, <2>2, <2>3, <2>4
<1>10. ASSUME NEW b \in T, Below(T, b)
       PROVE  ParentHash[b] \in T
  <2>1. CASE b \in Range(s)
    <3>1. PICK i \in 1..Len(s) : b = s[i]
      BY <2>1, <1>2
    <3>2. CASE i = 1
      BY <3>1, <3>2, <1>6
    <3>3. CASE i # 1
      <4>1. i \in 2..Len(s) /\ i - 1 \in 1..Len(s)
        BY <3>3, <1>1
      <4>2. ParentHash[b] = s[i - 1]
        BY <3>1, <4>1 DEF Ascends
      <4> QED BY <4>1, <4>2, <1>2
    <3> QED BY <3>2, <3>3
  <2>2. CASE b \in S
    <3>1. PICK c \in T : Height[c] < Height[b]
      BY <1>10 DEF Below
    <3>2. c \in S
      BY <3>1, <2>2, <1>1, <1>2, <1>4, <1>6
    <3>3. Below(S, b)
      BY <3>1, <3>2 DEF Below
    <3> QED BY <3>3, <2>2 DEF IsChain
  <2> QED BY <2>1, <2>2
<1>11. s[Len(s)] # NoBlock
  BY <1>5
<1> QED BY <1>5, <1>7, <1>8, <1>9, <1>10, <1>11 DEF IsChain

\* Undoing a trail from the tip down to (excluding) a leaves what is up to a.
LEMMA TrailCut ==
    ASSUME NEW S, NEW t \in Block, IsChain(S, t), NEW a \in S,
           NEW r \in Seq(Block), Descends(r, t), Range(r) \subseteq S,
           Cursor(t, r) = a
    PROVE  S \ Range(r) = UpTo(S, a)
<1>1. Len(r) \in Nat /\ \A i \in 1..Len(r) : r[i] \in Block
  OBVIOUS
<1>2. Range(r) = {r[i] : i \in 1..Len(r)}
  BY DEF Range
<1>3. S \subseteq Block /\ \A b \in S : Height[b] <= Height[t]
  BY DEF IsChain
<1>4. Height[a] = Height[t] - Len(r)
  <2>1. CASE r = <<>>
    BY <2>1, <1>1, <1>3 DEF Cursor
  <2>2. CASE r # <<>>
    <3>1. Len(r) \in 1..Len(r) /\ r[Len(r)] \in Block
      BY <2>2, <1>1
    <3>2. Height[r[Len(r)]] = Height[t] - Len(r) + 1
      BY <3>1 DEF Descends
    <3>3. ParentHash[r[Len(r)]] = a
      BY <2>2 DEF Cursor
    <3> QED BY <3>1, <3>2, <3>3, <1>1, <1>3
  <2> QED BY <2>1, <2>2
<1>5. ASSUME NEW b \in Range(r)
      PROVE  Height[b] > Height[a]
  BY <1>1, <1>2, <1>3, <1>4 DEF Descends
<1>6. ASSUME NEW b \in S, Height[b] > Height[a]
      PROVE  b \in Range(r)
  <2> DEFINE i == Height[t] - Height[b] + 1
  <2>1. i \in 1..Len(r)
    BY <1>1, <1>3, <1>4, <1>6
  <2>2. r[i] \in S /\ Height[r[i]] = Height[b]
    BY <2>1, <1>2, <1>3 DEF Descends
  <2>3. r[i] = b
    BY <2>2 DEF IsChain
  <2> QED BY <2>1, <2>3, <1>2
<1> QED BY <1>3, <1>5, <1>6 DEF UpTo

\* Pruning a chain from below leaves a chain.
LEMMA PruneIsChain ==
    ASSUME NEW S, NEW t \in Block, IsChain(S, t)
    PROVE  /\ IsChain(Prune(S, t), t)
           /\ Prune(S, t) \subseteq S
           /\ \A b \in Prune(S, t) : Height[b] >= Height[t] - MaxDepth
<1>1. CASE Height[t] < MaxDepth
  BY <1>1 DEF Prune, IsChain
<1>2. CASE ~(Height[t] < MaxDepth)
  <2> DEFINE T == Prune(S, t)
  <2>1. T = {b \in S : Height[b] >= Height[t] - MaxDepth}
    BY <1>2 DEF Prune
  <2>2. S \subseteq Block /\ t \in S /\ t # NoBlock
    BY DEF IsChain
  <2>3. ASSUME NEW b \in T, Below(T, b)
        PROVE  ParentHash[b] \in T
    <3>1. PICK c \in T : Height[c] < Height[b]
      BY <2>3 DEF Below
    <3>2. Below(S, b) /\ b \in S /\ b \in Block /\ c \in Block
      BY <2>1, <2>2, <3>1 DEF Below
    <3>3. ParentHash[b] \in S /\ ParentHash[b] \in Block
      BY <3>2 DEF IsChain
    <3>4. Height[b] = Height[ParentHash[b]] + 1
      BY <3>2, <3>3
    <3>5. Height[c] >= Height[t] - MaxDepth
      BY <2>1, <3>1
    <3>6. Height[b] \in Nat /\ Height[c] \in Nat /\ Height[t] \in Nat /\ Height[ParentHash[b]] \in Nat
      BY <3>2, <3>3
    <3>7. Height[ParentHash[b]] >= Height[t] - MaxDepth
      BY <3>1, <3>4, <3>5, <3>6
    <3> QED BY <3>3, <3>7, <2>1
  <2>4. t \in T
    BY <2>1, <2>2
  <2> QED BY <2>1, <2>2, <2>3, <2>4 DEF IsChain
<1> QED BY <1>1, <1>2
-----------------------------------------------------------------------------
(* The inductive invariant.                                                *)

\* The empty store and the process that is not up yet satisfy the invariant.
LEMMA InitInv == Init => IInv
BY DEF Init, IInv, TypeOK, BlockOrNone, PC, Result, IsChain, MemoryInv, LoadInv,
       BranchInv, RollbackInv, Up

\* New: the blocks RecentBlocks read, tip first, are a chain that ends in the
\* store's tip.
LEMMA RecentIsChain ==
    ASSUME NEW t \in Block, NEW r \in Seq(Block), r # <<>>, Descends(r, t)
    PROVE  IsChain(Range(r), t)
<1>1. Len(r) \in Nat \ {0} /\ \A i \in 1..Len(r) : r[i] \in Block
  OBVIOUS
<1>2. Range(r) = {r[i] : i \in 1..Len(r)}
  BY DEF Range
<1>3. \A i \in 1..Len(r) : Height[r[i]] = Height[t] - i + 1
  BY DEF Descends
<1>4. t \in Range(r)
  BY <1>1, <1>2 DEF Descends
<1>5. ASSUME NEW b \in Range(r) PROVE Height[b] <= Height[t]
  <2>1. PICK i \in 1..Len(r) : b = r[i]
    BY <1>2
  <2>2. Height[b] = Height[t] - i + 1 /\ Height[t] \in Nat
    BY <1>3, <2>1
  <2> QED BY <1>1, <2>2
<1>6. \A b, c \in Range(r) : Height[b] = Height[c] => b = c
  BY <1>1, <1>2, <1>3
<1>7. ASSUME NEW b \in Range(r), Below(Range(r), b)
      PROVE  ParentHash[b] \in Range(r)
  <2>1. PICK i \in 1..Len(r) : b = r[i]
    BY <1>2
  <2>2. PICK j \in 1..Len(r) : Height[r[j]] < Height[b]
    BY <1>2, <1>7 DEF Below
  <2>3. i < j /\ i + 1 \in 2..Len(r) /\ i + 1 \in 1..Len(r)
    BY <1>1, <1>3, <2>1, <2>2
  <2>4. r[i + 1] = ParentHash[b]
    BY <2>1, <2>3 DEF Descends
  <2> QED BY <2>3, <2>4, <1>2
<1> QED BY <1>1, <1>2, <1>4, <1>5, <1>6, <1>7, SMTT(30) DEF IsChain

\* What Append leaves in place and what it adds.
LEMMA AppendFacts ==
    ASSUME NEW r \in Seq(Block), NEW c \in Block
    PROVE  /\ Append(r, c) \in Seq(Block)
           /\ Len(Append(r, c)) = Len(r) + 1 /\ Len(r) \in Nat
           /\ \A i \in 1..Len(r) : Append(r, c)[i] = r[i]
           /\ Append(r, c)[Len(r) + 1] = c
           /\ Append(r, c) # <<>>
<1>1. Append(r, c) \in Seq(Block) /\ Len(r) \in Nat /\ Len(Append(r, c)) = Len(r) + 1
  OBVIOUS
<1>2. \A i \in 1..Len(r) : Append(r, c)[i] = r[i]
  OBVIOUS
<1>3. Append(r, c)[Len(r) + 1] = c
  OBVIOUS
<1>4. Append(r, c) # <<>>
  BY <1>1
<1> QED BY <1>1, <1>2, <1>3, <1>4

\* What putting a block in front of a sequence leaves in place.
LEMMA PrependFacts ==
    ASSUME NEW s \in Seq(Block), NEW c \in Block
    PROVE  /\ <<c>> \o s \in Seq(Block)
           /\ Len(<<c>> \o s) = Len(s) + 1 /\ Len(s) \in Nat
           /\ (<<c>> \o s)[1] = c
           /\ \A i \in 2..(Len(s) + 1) : (<<c>> \o s)[i] = s[i - 1]
           /\ <<c>> \o s # <<>>
<1> DEFINE q == <<c>> \o s
<1>1. q \in Seq(Block) /\ Len(s) \in Nat /\ Len(q) = Len(s) + 1
  OBVIOUS
<1>2. q[1] = c
  OBVIOUS
<1>3. \A i \in 2..(Len(s) + 1) : q[i] = s[i - 1]
  OBVIOUS
<1>4. q # <<>>
  BY <1>1
<1> QED BY <1>1, <1>2, <1>3, <1>4

\* One more block along the parent links continues a descent.
LEMMA DescendsAppend ==
    ASSUME NEW t \in Block, NEW r \in Seq(Block), Descends(r, t),
           Cursor(t, r) \in Block
    PROVE  /\ Append(r, Cursor(t, r)) \in Seq(Block)
           /\ Descends(Append(r, Cursor(t, r)), t)
           /\ Range(Append(r, Cursor(t, r))) = Range(r) \cup {Cursor(t, r)}
           /\ Len(Append(r, Cursor(t, r))) = Len(r) + 1
           /\ Cursor(t, Append(r, Cursor(t, r))) = ParentHash[Cursor(t, r)]
<1> DEFINE c == Cursor(t, r)
           q == Append(r, c)
<1>1. /\ q \in Seq(Block) /\ Len(q) = Len(r) + 1 /\ Len(r) \in Nat
      /\ \A i \in 1..Len(r) : q[i] = r[i]
      /\ q[Len(r) + 1] = c
      /\ q # <<>>
  BY AppendFacts
<1>2. Range(q) = Range(r) \cup {c}
  <2>1. Range(q) = {q[i] : i \in 1..(Len(r) + 1)}
    BY <1>1 DEF Range
  <2>2. Range(r) = {r[i] : i \in 1..Len(r)}
    BY DEF Range
  <2>3. 1..(Len(r) + 1) = (1..Len(r)) \cup {Len(r) + 1}
    BY <1>1
  <2> QED BY <1>1, <2>1, <2>2, <2>3
<1>3. CASE r = <<>>
  BY <1>1, <1>2, <1>3 DEF Descends, Cursor
<1>4. CASE r # <<>>
  <2>1. Len(r) >= 1 /\ r[Len(r)] \in Block /\ Height[r[Len(r)]] = Height[t] - Len(r) + 1
    BY <1>4, <1>1, SMTT(30) DEF Descends
  <2>2. c = ParentHash[r[Len(r)]] /\ c \in Block
    BY <1>4 DEF Cursor
  <2>3. Height[c] = Height[t] - Len(r)
    BY <2>1, <2>2, <1>1
  <2>4. \A i \in 1..Len(q) : Height[q[i]] = Height[t] - i + 1
    BY <1>1, <2>3 DEF Descends
  <2>5. \A i \in 2..Len(q) : q[i] = ParentHash[q[i - 1]]
    <3>1. ASSUME NEW i \in 2..Len(q) PROVE q[i] = ParentHash[q[i - 1]]
      <4>1. CASE i = Len(r) + 1
        BY <4>1, <1>1, <2>1, <2>2
      <4>2. CASE i # Len(r) + 1
        <5>1. i \in 2..Len(r) /\ i \in 1..Len(r) /\ i - 1 \in 1..Len(r)
          BY <4>2, <1>1
        <5>2. q[i] = r[i] /\ q[i - 1] = r[i - 1]
          BY <1>1, <5>1
        <5> QED BY <5>1, <5>2 DEF Descends
      <4> QED BY <4>1, <4>2
    <3> QED BY <3>1
  <2>6. q[1] = t
    BY <1>1, <1>4, <2>1 DEF Descends
  <2> QED BY <1>1, <1>2, <2>4, <2>5, <2>6 DEF Descends, Cursor
<1> QED BY <1>3, <1>4

\* An update the store accepts was built on the store's own tip, or was the
\* first of a follower that has no tip yet.
LEMMA ConnectsMeans ==
    ASSUME IInv, pc = "commit", Connects
    PROVE  /\ branch \in Seq(Block) /\ Ascends(branch)
           /\ tip # NoBlock => tip = storeTip
           /\ storeTip # NoBlock =>
                /\ storeTip \in Block
                /\ ParentHash[branch[1]] \in storeBlocks
                /\ storeBlocks \ Range(rollback) = UpTo(storeBlocks, ParentHash[branch[1]])
           /\ storeTip = NoBlock => storeBlocks = {} /\ rollback = <<>> /\ Len(branch) = 1
<1>1. branch \in Seq(Block) /\ Ascends(branch) /\ rollback \in Seq(Block)
  BY DEF IInv, TypeOK, BranchInv
<1>2. ASSUME tip # NoBlock PROVE tip = storeTip
  <2>1. storeTip # NoBlock /\ tip \in Block
    BY <1>2 DEF IInv, MemoryInv, TypeOK, BlockOrNone
  <2>2. CASE rollback = <<>>
    BY <2>1, <2>2, <1>2 DEF IInv, RollbackInv, Connects, Cursor
  <2>3. CASE rollback # <<>>
    <3>1. rollback[1] = tip /\ 1 \in 1..Len(rollback)
      BY <2>3, <1>1, <1>2 DEF IInv, RollbackInv, Descends
    <3> QED BY <3>1 DEF Connects
  <2> QED BY <2>2, <2>3
<1>3. ASSUME storeTip # NoBlock
      PROVE  /\ storeTip \in Block
             /\ ParentHash[branch[1]] \in storeBlocks
             /\ storeBlocks \ Range(rollback) = UpTo(storeBlocks, ParentHash[branch[1]])
  <2>1. storeTip \in Block /\ IsChain(storeBlocks, storeTip) /\ storeTip \in storeBlocks
    BY <1>3 DEF IInv, TypeOK, BlockOrNone, IsChain
  <2>2. ParentHash[branch[1]] = Cursor(storeTip, rollback)
    BY <1>3 DEF Connects
  <2>3. CASE tip = NoBlock
    <3>1. rollback = <<>> /\ ParentHash[branch[1]] = storeTip
      BY <2>2, <2>3 DEF IInv, RollbackInv, Cursor
    <3>2. Descends(rollback, storeTip) /\ Range(rollback) = {}
      BY <3>1 DEF Descends, Range
    <3> QED BY <2>1, <2>2, <3>1, <3>2, <1>1, TrailCut
  <2>4. CASE tip # NoBlock
    <3>1. tip = storeTip
      BY <1>2, <2>4
    <3>2. /\ ParentHash[branch[1]] = ancestor /\ ancestor \in window
          /\ Descends(rollback, tip) /\ Range(rollback) \subseteq window
      BY <2>4 DEF IInv, RollbackInv
    <3>3. window \subseteq storeBlocks
      BY <3>1 DEF IInv, MemoryInv, Up
    <3> QED BY <2>1, <2>2, <3>1, <3>2, <3>3, <1>1, TrailCut
  <2> QED BY <2>3, <2>4
<1>4. ASSUME storeTip = NoBlock
      PROVE  storeBlocks = {} /\ rollback = <<>> /\ Len(branch) = 1
  BY <1>4 DEF IInv, MemoryInv, RollbackInv, IsChain
<1> QED BY <1>1, <1>2, <1>3, <1>4

\* The blocks an accepted update leaves in the store are a chain that ends in
\* the update's last block.
LEMMA CommitIsChain ==
    ASSUME IInv, pc = "commit", Connects
    PROVE  /\ NewTip \in Block
           /\ IsChain(Applied(storeBlocks), NewTip)
<1>1. branch \in Seq(Block) /\ Ascends(branch) /\ Len(branch) \in Nat \ {0}
      /\ NewTip \in Block /\ branch[1] \in Block
  BY ConnectsMeans DEF Ascends, NewTip
<1>2. CASE storeTip = NoBlock
  <2>1. Range(branch) = {NewTip}
    <3>1. Len(branch) = 1
      BY <1>2, ConnectsMeans
    <3> QED BY <3>1, <1>1 DEF NewTip, Range
  <2>2. Applied(storeBlocks) = {NewTip}
    BY <1>2, <2>1, ConnectsMeans DEF Applied
  <2> QED BY <1>1, <2>2 DEF IsChain, Below
<1>3. CASE storeTip # NoBlock
  <2> DEFINE a == ParentHash[branch[1]]
  <2>1. a \in storeBlocks /\ storeBlocks \ Range(rollback) = UpTo(storeBlocks, a)
    BY <1>3, ConnectsMeans
  <2>2. storeTip \in BlockOrNone /\ IsChain(storeBlocks, storeTip) /\ a \in Block
    BY <2>1 DEF IInv, TypeOK, IsChain
  <2>3. IsChain(UpTo(storeBlocks, a), a)
    BY <2>1, <2>2, CutIsChain
  <2> QED BY <1>1, <2>1, <2>2, <2>3, GraftIsChain DEF Applied, NewTip
<1> QED BY <1>1, <1>2, <1>3

\* The window Ingest leaves after a commit is a chain that ends in the new
\* tip, and stays part of the store.
LEMMA CommitWindow ==
    ASSUME IInv, pc = "commit", Connects
    PROVE  /\ IsChain(Prune(Applied(window), NewTip), NewTip)
           /\ Prune(Applied(window), NewTip) \subseteq Applied(storeBlocks)
           /\ \A b \in Prune(Applied(window), NewTip) : Height[b] >= Height[NewTip] - MaxDepth
<1>1. branch \in Seq(Block) /\ Ascends(branch) /\ Len(branch) \in Nat \ {0}
      /\ NewTip \in Block /\ branch[1] \in Block
  BY ConnectsMeans DEF Ascends, NewTip
<1>2. IsChain(Applied(window), NewTip) /\ Applied(window) \subseteq Applied(storeBlocks)
  <2>1. CASE tip = NoBlock
    <3>1. window = {} /\ rollback = <<>> /\ Len(branch) = 1
      BY <2>1 DEF IInv, MemoryInv, RollbackInv, IsChain, Up
    <3>2. Range(branch) = {NewTip}
      BY <3>1, <1>1 DEF NewTip, Range
    <3>3. Applied(window) = {NewTip} /\ Range(branch) \subseteq Applied(storeBlocks)
      BY <3>1, <3>2 DEF Applied
    <3> QED BY <1>1, <3>2, <3>3 DEF IsChain, Below
  <2>2. CASE tip # NoBlock
    <3>1. tip = storeTip /\ tip \in Block
      BY <2>2, ConnectsMeans DEF IInv, TypeOK, BlockOrNone
    <3>2. IsChain(window, tip) /\ window \subseteq storeBlocks
      BY <3>1 DEF IInv, MemoryInv, Up
    <3>3. /\ ParentHash[branch[1]] = ancestor /\ ancestor \in window
          /\ Descends(rollback, tip) /\ Range(rollback) \subseteq window
          /\ Cursor(tip, rollback) = ancestor /\ rollback \in Seq(Block)
      BY <2>2 DEF IInv, RollbackInv, TypeOK
    <3>4. window \ Range(rollback) = UpTo(window, ancestor)
      BY <3>1, <3>2, <3>3, TrailCut
    <3>5. IsChain(UpTo(window, ancestor), ancestor) /\ ancestor \in Block
      BY <3>1, <3>2, <3>3, CutIsChain DEF BlockOrNone, IsChain
    <3>6. IsChain(UpTo(window, ancestor) \cup Range(branch), NewTip)
      BY <1>1, <3>3, <3>5, GraftIsChain DEF NewTip
    <3> QED BY <3>2, <3>4, <3>6 DEF Applied
  <2> QED BY <2>1, <2>2
<1> QED BY <1>1, <1>2, PruneIsChain

\* No step of the specification leaves the invariant.
LEMMA NextInv == IInv /\ [Next]_fvars => IInv'
<1> SUFFICES ASSUME IInv, [Next]_fvars PROVE IInv'
  OBVIOUS
<1> USE DEF PC, Result
<1>1. CASE Start
  <2>1. recent = <<>> /\ Range(recent) = {}
    BY <1>1 DEF Start, IInv, LoadInv, Range
  <2>2. Descends(recent, storeTip)
    BY <2>1 DEF Descends
  <2> QED BY <1>1, <2>1, <2>2 DEF Start, IInv, TypeOK, MemoryInv, LoadInv, BranchInv,
         RollbackInv, Up, store, memory, update
<1>2. CASE LoadStep
  <2>1. /\ pc = "load" /\ Cursor(storeTip, recent) \in storeBlocks /\ Len(recent) < MaxDepth
        /\ recent' = Append(recent, Cursor(storeTip, recent))
        /\ recent \in Seq(Block) /\ Descends(recent, storeTip)
        /\ Range(recent) \subseteq storeBlocks
        /\ storeBlocks \subseteq Block
    BY <1>2 DEF LoadStep, MoreRecent, IInv, LoadInv, TypeOK
  <2>2. storeTip \in Block
    BY <2>1 DEF IInv, TypeOK, BlockOrNone, IsChain
  <2>3. /\ recent' \in Seq(Block) /\ Descends(recent', storeTip)
        /\ Range(recent') \subseteq storeBlocks /\ Len(recent') = Len(recent) + 1
    BY <2>1, <2>2, DescendsAppend
  <2> QED BY <1>2, <2>1, <2>3 DEF LoadStep, IInv, TypeOK, MemoryInv, LoadInv, BranchInv,
         RollbackInv, Up, store, memory, update
<1>3. CASE LoadDone
  <2>1. /\ pc = "load" /\ recent \in Seq(Block) /\ Descends(recent, storeTip)
        /\ Range(recent) \subseteq storeBlocks /\ storeBlocks \subseteq Block
        /\ Len(recent) <= MaxDepth /\ storeTip \in BlockOrNone /\ IsChain(storeBlocks, storeTip)
    BY <1>3 DEF LoadDone, IInv, LoadInv, TypeOK
  <2>2. CASE recent = <<>>
    <3>1. window' = {} /\ tip' = NoBlock
      BY <1>3, <2>2 DEF LoadDone, Range
    <3> QED BY <1>3, <2>1, <3>1 DEF LoadDone, IInv, TypeOK, BlockOrNone, MemoryInv, LoadInv,
          BranchInv, RollbackInv, Up, store, update, IsChain
  <2>3. CASE recent # <<>>
    <3>1. recent[1] \in Block /\ tip' = recent[1] /\ recent[1] = storeTip
      BY <1>3, <2>1, <2>3 DEF LoadDone, Descends
    <3>2. IsChain(Range(recent), storeTip)
      BY <2>1, <2>3, <3>1, RecentIsChain
    <3>3. \A i \in 1..Len(recent) : Height[recent[i]] >= Height[storeTip] - MaxDepth
      <4>1. ASSUME NEW i \in 1..Len(recent)
            PROVE  Height[recent[i]] >= Height[storeTip] - MaxDepth
        <5>1. Height[recent[i]] = Height[storeTip] - i + 1 /\ Height[storeTip] \in Nat
          BY <2>1, <3>1 DEF Descends
        <5>2. Len(recent) \in Nat
          BY <2>1
        <5> QED BY <5>1, <5>2, <2>1
      <4> QED BY <4>1
    <3>4. \A b \in Range(recent) : Height[b] >= Height[storeTip] - MaxDepth
      BY <3>3, <2>1 DEF Range
    <3>5. MemoryInv'
      BY <1>3, <2>1, <3>1, <3>2, <3>4 DEF LoadDone, MemoryInv, Up, store
    <3> QED BY <1>3, <2>1, <3>1, <3>5 DEF LoadDone, IInv, TypeOK, BlockOrNone, LoadInv,
          BranchInv, RollbackInv, Up, store, update
  <2> QED BY <2>2, <2>3
<1>4. ASSUME NEW b \in Block, IngestKnown(b)
      PROVE  IInv'
  BY <1>4 DEF IngestKnown, Return, IInv, TypeOK, BlockOrNone, MemoryInv, LoadInv, BranchInv,
     RollbackInv, Up, store, memory
<1>5. ASSUME NEW b \in Block, IngestExtend(b)
      PROVE  IInv'
  <2>1. /\ branch' \in Seq(Block) /\ Ascends(branch') /\ Range(branch') = {b} /\ Len(branch') = 1
        /\ branch'[1] = b
    BY <1>5 DEF IngestExtend, Ascends, Range
  <2>2. /\ window' = window /\ tip' = tip /\ storeTip' = storeTip /\ storeBlocks' = storeBlocks
        /\ rollback' = <<>> /\ ancestor' = tip /\ pc' = "commit" /\ pc = "idle" /\ b \notin window
        /\ result' = result /\ recent' = recent
    BY <1>5 DEF IngestExtend, store, memory, IInv, RollbackInv
  <2>3. tip # NoBlock => tip \in window /\ ParentHash[b] = tip
    BY <1>5, <2>2 DEF IngestExtend, IInv, MemoryInv, Up, IsChain
  <2>4. Descends(rollback', tip') /\ Range(rollback') = {} /\ Cursor(tip', rollback') = tip
    BY <2>2 DEF Descends, Range, Cursor
  <2>5. RollbackInv'
    <3>1. tip # NoBlock => tip \in Block /\ Height[tip] \in Nat
      BY <2>2, <2>3 DEF IInv, TypeOK
    <3> QED BY <2>1, <2>2, <2>3, <2>4, <3>1 DEF RollbackInv
  <2>6. TypeOK'
    BY <2>1, <2>2 DEF IInv, TypeOK
  <2> QED BY <2>1, <2>2, <2>5, <2>6 DEF IInv, MemoryInv, LoadInv, BranchInv, Up
<1>6. ASSUME NEW b \in Block, IngestWalk(b)
      PROVE  IInv'
  <2>1. branch' \in Seq(Block) /\ Ascends(branch') /\ Range(branch') = {b}
    BY <1>6 DEF IngestWalk, Ascends, Range
  <2> QED BY <1>6, <2>1 DEF IngestWalk, IInv, TypeOK, MemoryInv, LoadInv, BranchInv,
        RollbackInv, Up, store, memory
<1>7. CASE WalkFound
  <2>1. /\ pc = "walk" /\ pc' = "rollback" /\ ParentHash[branch[1]] \in window /\ ancestor' = ParentHash[branch[1]]
        /\ window' = window /\ tip' = tip /\ storeTip' = storeTip /\ storeBlocks' = storeBlocks
        /\ rollback' = <<>> /\ branch' = branch /\ recent' = recent /\ result' = result
    BY <1>7 DEF WalkFound, Parent, store, memory, IInv, RollbackInv
  <2>2. Descends(rollback', tip') /\ Range(rollback') = {} /\ Cursor(tip', rollback') = tip
    BY <2>1 DEF Descends, Range, Cursor
  <2>3. tip # NoBlock /\ IsChain(window, tip) /\ tip \in window
    BY <2>1 DEF IInv, RollbackInv, MemoryInv, Up, IsChain
  <2>4. Height[tip] >= Height[ancestor']
    BY <2>1, <2>3 DEF IsChain
  <2>5. TypeOK'
    BY <2>1 DEF IInv, TypeOK, BlockOrNone
  <2> QED BY <2>1, <2>2, <2>3, <2>4, <2>5 DEF IInv, MemoryInv, LoadInv, BranchInv, RollbackInv, Up
<1>8. CASE WalkTooDeep
  BY <1>8 DEF WalkTooDeep, Return, IInv, TypeOK, BlockOrNone, MemoryInv, LoadInv, BranchInv,
     RollbackInv, Up, store, memory
<1>9. CASE WalkFetch
  <2>1. /\ pc = "walk" /\ Parent \in Block /\ Parent \notin window /\ branch' = <<Parent>> \o branch
        /\ branch \in Seq(Block) /\ Ascends(branch) /\ Range(branch) \cap window = {}
    BY <1>9 DEF WalkFetch, IInv, TypeOK, BranchInv
  <2>2. /\ branch' \in Seq(Block) /\ Len(branch') = Len(branch) + 1 /\ Len(branch) \in Nat \ {0}
        /\ branch'[1] = Parent
        /\ \A i \in 2..Len(branch') : branch'[i] = branch[i - 1]
        /\ branch' # <<>>
    BY <2>1, PrependFacts DEF Ascends
  <2>3. Height[branch[1]] = Height[Parent] + 1 /\ branch[1] \in Block
    BY <2>1, <2>2 DEF Parent
  <2>4. \A i \in 1..Len(branch') : Height[branch'[i]] = Height[branch'[1]] + i - 1
    <3>1. ASSUME NEW i \in 1..Len(branch')
          PROVE  Height[branch'[i]] = Height[branch'[1]] + i - 1
      <4>1. CASE i = 1
        BY <2>1, <2>2, <4>1
      <4>2. CASE i # 1
        <5>1. i \in 2..Len(branch') /\ i - 1 \in 1..Len(branch)
          BY <4>2, <2>2
        <5>2. Height[branch[i - 1]] = Height[branch[1]] + (i - 1) - 1
          BY <2>1, <5>1 DEF Ascends
        <5> QED BY <2>1, <2>2, <2>3, <5>1, <5>2
      <4> QED BY <4>1, <4>2
    <3> QED BY <3>1
  <2>5. \A i \in 2..Len(branch') : ParentHash[branch'[i]] = branch'[i - 1]
    <3>1. ASSUME NEW i \in 2..Len(branch')
          PROVE  ParentHash[branch'[i]] = branch'[i - 1]
      <4>1. CASE i = 2
        BY <2>2, <4>1 DEF Parent
      <4>2. CASE i # 2
        <5>1. i - 1 \in 2..Len(branch) /\ i - 1 \in 2..Len(branch')
          BY <4>2, <2>2
        <5>2. branch'[i] = branch[i - 1] /\ branch'[i - 1] = branch[(i - 1) - 1]
          BY <2>2, <5>1
        <5>3. ParentHash[branch[i - 1]] = branch[(i - 1) - 1]
          BY <2>1, <5>1 DEF Ascends
        <5> QED BY <5>2, <5>3
      <4> QED BY <4>1, <4>2
    <3> QED BY <3>1
  <2>6. Range(branch') \cap window = {}
    <3>1. ASSUME NEW i \in 1..Len(branch') PROVE branch'[i] \notin window
      <4>1. CASE i = 1
        BY <2>1, <2>2, <4>1
      <4>2. CASE i # 1
        <5>1. i \in 2..Len(branch') /\ i - 1 \in 1..Len(branch)
          BY <4>2, <2>2
        <5>2. branch'[i] \in Range(branch)
          BY <2>1, <2>2, <5>1 DEF Range
        <5> QED BY <5>2, <2>1
      <4> QED BY <4>1, <4>2
    <3> QED BY <3>1, <2>2 DEF Range
  <2>7. Ascends(branch')
    BY <2>2, <2>4, <2>5 DEF Ascends
  <2> QED BY <1>9, <2>2, <2>6, <2>7 DEF WalkFetch, IInv, TypeOK, MemoryInv, LoadInv,
        BranchInv, RollbackInv, Up, store, memory
<1>10. CASE WalkFail
  BY <1>10 DEF WalkFail, Return, IInv, TypeOK, BlockOrNone, MemoryInv, LoadInv, BranchInv,
     RollbackInv, Up, store, memory
<1>11. CASE RollbackStep
  <2> DEFINE c == Cursor(tip, rollback)
  <2>1. /\ pc = "rollback" /\ c # ancestor /\ tip # NoBlock /\ c \in window
        /\ ancestor \in window /\ Height[c] >= Height[ancestor]
        /\ Descends(rollback, tip) /\ Range(rollback) \subseteq window
        /\ IsChain(window, tip) /\ window \subseteq Block /\ tip \in Block /\ rollback \in Seq(Block)
    BY <1>11 DEF RollbackStep, IInv, TypeOK, BlockOrNone, RollbackInv, MemoryInv, Up
  <2>2. /\ rollback' = Append(rollback, c) /\ UNCHANGED <<pc, recent, branch, ancestor, result>>
        /\ UNCHANGED <<storeBlocks, storeTip, window, tip>>
    BY <1>11, <2>1 DEF RollbackStep, store, memory
  <2>3. /\ rollback' \in Seq(Block) /\ Descends(rollback', tip)
        /\ Range(rollback') \subseteq window
        /\ Cursor(tip, rollback') = ParentHash[c]
    BY <2>1, <2>2, DescendsAppend
  <2>4. Height[ancestor] < Height[c] /\ c \in Block /\ ancestor \in Block
    BY <2>1 DEF IsChain
  <2>5. ParentHash[c] \in window /\ ParentHash[c] \in Block
    BY <2>1, <2>4 DEF IsChain, Below
  <2>6. Height[ParentHash[c]] >= Height[ancestor]
    BY <2>4, <2>5
  <2> QED BY <2>1, <2>2, <2>3, <2>5, <2>6 DEF IInv, TypeOK, MemoryInv, LoadInv, BranchInv,
        RollbackInv, Up
<1>12. CASE RollbackDone
  BY <1>12 DEF RollbackDone, IInv, TypeOK, MemoryInv, LoadInv, BranchInv, RollbackInv, Up,
     store, memory, update
<1>13. CASE CommitOk
  <2>1. /\ NewTip \in Block /\ IsChain(storeBlocks', storeTip') /\ storeTip' = NewTip /\ tip' = NewTip
        /\ IsChain(window', tip') /\ window' \subseteq storeBlocks'
        /\ \A b \in window' : Height[b] >= Height[tip'] - MaxDepth
    BY <1>13, CommitIsChain, CommitWindow DEF CommitOk, StoreCommit, Tracked
  <2>2. storeBlocks' \subseteq Block /\ window' \subseteq Block /\ NewTip # NoBlock
    BY <2>1 DEF IsChain
  <2> QED BY <1>13, <2>1, <2>2 DEF CommitOk, Return, IInv, TypeOK, BlockOrNone, MemoryInv,
        LoadInv, BranchInv, RollbackInv, Up
<1>14. CASE CommitReject
  BY <1>14 DEF CommitReject, Return, IInv, TypeOK, BlockOrNone, MemoryInv, LoadInv, BranchInv,
     RollbackInv, Up, store, memory
<1>15. CASE CommitFail
  BY <1>15 DEF CommitFail, Return, IInv, TypeOK, BlockOrNone, MemoryInv, LoadInv, BranchInv,
     RollbackInv, Up, store, memory
<1>16. CASE CommitLost
  <2>1. NewTip \in Block /\ IsChain(storeBlocks', storeTip') /\ storeTip' = NewTip
    BY <1>16, CommitIsChain DEF CommitLost, StoreCommit
  <2>2. storeBlocks' \subseteq Block /\ NewTip # NoBlock
    BY <2>1 DEF IsChain
  <2>3. NewTip \notin window
    <3>1. Ascends(branch) /\ branch \in Seq(Block) /\ Range(branch) \cap window = {}
      BY <1>16 DEF CommitLost, IInv, BranchInv, TypeOK
    <3>2. NewTip \in Range(branch)
      BY <3>1 DEF Ascends, NewTip, Range
    <3> QED BY <3>1, <3>2
  <2>4. tip \in window \/ tip = NoBlock
    BY <1>16 DEF CommitLost, IInv, MemoryInv, Up, IsChain
  <2>5. tip' # storeTip' /\ window' = window /\ tip' = tip
    BY <1>16, <2>1, <2>2, <2>3, <2>4 DEF CommitLost, memory
  <2>6. MemoryInv'
    BY <1>16, <2>1, <2>2, <2>5 DEF CommitLost, Return, IInv, MemoryInv, Up
  <2> QED BY <1>16, <2>1, <2>2, <2>5, <2>6 DEF CommitLost, Return, IInv, TypeOK, BlockOrNone,
        LoadInv, BranchInv, RollbackInv
<1>17. CASE Crash
  BY <1>17 DEF Crash, IInv, TypeOK, BlockOrNone, MemoryInv, LoadInv, BranchInv, RollbackInv,
     Up, store
<1>18. CASE UNCHANGED fvars
  BY <1>18 DEF fvars, IInv, TypeOK, MemoryInv, LoadInv, BranchInv, RollbackInv, Up
<1> QED BY <1>1, <1>2, <1>3, <1>4, <1>5, <1>6, <1>7, <1>8, <1>9, <1>10, <1>11, <1>12, <1>13,
       <1>14, <1>15, <1>16, <1>17, <1>18 DEF Next, Ingest

-----------------------------------------------------------------------------
(* Theorems.                                                               *)

\* IInv, what holds between any two steps of New, Ingest and ApplyUpdate,
\* is an invariant.
THEOREM Inductive == Spec => []IInv
<1>1. Init => IInv
  BY InitInv
<1>2. IInv /\ [Next]_fvars => IInv'
  BY NextInv
<1> QED BY <1>1, <1>2, PTL DEF Spec

\* Every variable of the follower and of the store keeps its type.
THEOREM TypeCorrect == Spec => []TypeOK
<1>1. IInv => TypeOK
  BY DEF IInv
<1> QED BY <1>1, Inductive, PTL

\* For every block tree, every reorg_depth and every sequence of heads, RPC
\* failures, store failures, lost commit answers and crashes, the rows of
\* blocks are one gapless chain that ends in meta.tip (ApplyUpdate).
THEOREM StoreSafe == Spec => []StoreIsChain
<1>1. IInv => StoreIsChain
  BY DEF IInv, StoreIsChain
<1> QED BY <1>1, Inductive, PTL

\* rollbackFrom never returns its "window broken" error.
THEOREM WindowSafe == Spec => []WindowNeverBroken
<1>1. IInv => WindowNeverBroken
  BY DEF IInv, WindowNeverBroken
<1> QED BY <1>1, Inductive, PTL

\* Whenever the follower's tip is the store's, its window is the gapless top
\* of the stored chain (New, Ingest, prune).
THEOREM WindowFaithful == Spec => []WindowMirrorsStore
<1>1. IInv => WindowMirrorsStore
  BY DEF IInv, WindowMirrorsStore, MemoryInv, Up
<1> QED BY <1>1, Inductive, PTL

\* A follower that missed the answer to a commit moves the store no more until
\* it is restarted (Connects in ApplyUpdate, the tip kept by Ingest).
THEOREM StaleFollowerHarmless == Spec => StaleFollowerCannotCommit
<1>1. IInv /\ [Next]_fvars => [storeTip' # storeTip => tip \in {storeTip, NoBlock}]_fvars
  <2> SUFFICES ASSUME IInv, [Next]_fvars, storeTip' # storeTip
               PROVE  tip \in {storeTip, NoBlock}
    OBVIOUS
  <2>1. CASE CommitOk \/ CommitLost
    BY <2>1, ConnectsMeans DEF CommitOk, CommitLost
  <2>2. CASE ~CommitOk /\ ~CommitLost
    BY <2>2 DEF Next, Start, LoadStep, LoadDone, Ingest, IngestKnown, IngestExtend, IngestWalk,
       WalkFound, WalkTooDeep, WalkFetch, WalkFail, RollbackStep, RollbackDone,
       CommitReject, CommitFail, Crash, fvars, store
  <2> QED BY <2>1, <2>2
<1> QED BY <1>1, Inductive, PTL DEF Spec, StaleFollowerCannotCommit

\* A commit the store accepts is one move of the abstract index.
LEMMA CommitIsMove ==
    ASSUME IInv, pc = "commit", Connects, StoreCommit
    PROVE  Index!Next
<1>1. branch \in Seq(Block) /\ Ascends(branch) /\ Len(branch) \in Nat \ {0}
      /\ NewTip \in Block /\ branch[1] \in Block
  BY ConnectsMeans DEF Ascends, NewTip
<1>2. storeBlocks' = Applied(storeBlocks) /\ storeTip' = NewTip
  BY DEF StoreCommit
<1>3. CASE storeTip = NoBlock
  <2>1. storeBlocks = {} /\ Len(branch) = 1
    BY <1>3, ConnectsMeans
  <2>2. Range(branch) = {NewTip}
    BY <2>1, <1>1 DEF NewTip, Range
  <2>3. storeBlocks' = {NewTip}
    BY <1>2, <2>1, <2>2 DEF Applied
  <2>4. Index!Bootstrap(NewTip)
    BY <1>2, <2>1, <2>3 DEF Index!Bootstrap
  <2> QED BY <1>1, <2>4 DEF Index!Next
<1>4. CASE storeTip # NoBlock
  <2> DEFINE a == ParentHash[branch[1]]
  <2>1. a \in storeBlocks /\ storeBlocks \ Range(rollback) = UpTo(storeBlocks, a)
    BY <1>4, ConnectsMeans
  <2>2. storeBlocks \subseteq Block /\ a \in Block
    BY <2>1 DEF IInv, TypeOK
  <2>3. \A b \in Range(branch) : Height[b] > Height[a] /\ b \in Block
    <3>1. Range(branch) = {branch[i] : i \in 1..Len(branch)}
      BY <1>1 DEF Range
    <3>2. Height[branch[1]] = Height[a] + 1
      BY <1>1, <2>2
    <3>3. ASSUME NEW i \in 1..Len(branch)
          PROVE  Height[branch[i]] > Height[a] /\ branch[i] \in Block
      <4>1. Height[branch[i]] = Height[branch[1]] + i - 1
        BY <1>1 DEF Ascends
      <4> QED BY <1>1, <2>2, <3>2, <4>1
    <3> QED BY <3>1, <3>3
  <2>4. Range(branch) \cap storeBlocks = {}
    <3>1. CASE tip = NoBlock
      <4>1. rollback = <<>>
        BY <3>1 DEF IInv, RollbackInv
      <4>2. Range(rollback) = {}
        BY <4>1 DEF Range
      <4>3. \A b \in storeBlocks : Height[b] <= Height[a]
        BY <2>1, <4>2 DEF UpTo
      <4> QED BY <2>2, <2>3, <4>3
    <3>2. CASE tip # NoBlock
      <4>1. Range(rollback) \subseteq window /\ Range(branch) \cap window = {}
        BY <3>2 DEF IInv, RollbackInv, BranchInv
      <4>2. ASSUME NEW b \in Range(branch), b \in storeBlocks PROVE FALSE
        <5>1. b \notin Range(rollback)
          BY <4>1, <4>2
        <5>2. Height[b] <= Height[a]
          BY <5>1, <4>2, <2>1 DEF UpTo
        <5> QED BY <5>2, <2>2, <2>3, <4>2
      <4> QED BY <4>2
    <3> QED BY <3>1, <3>2
  <2>5. storeBlocks' \cap storeBlocks = UpTo(storeBlocks, a)
    BY <1>2, <2>1, <2>4 DEF Applied
  <2>6. \A b \in storeBlocks' \ storeBlocks : Height[b] > Height[a]
    BY <1>2, <2>3 DEF Applied
  <2>7. NewTip \notin storeBlocks
    <3>1. NewTip \in Range(branch)
      BY <1>1 DEF NewTip, Range
    <3> QED BY <3>1, <2>4
  <2>8. IsChain(storeBlocks', NewTip)
    BY <1>2, CommitIsChain
  <2>9. Index!Move(a, NewTip)
    BY <1>2, <2>1, <2>5, <2>6, <2>7, <2>8
       DEF Index!Move, Index!UpTo, Index!IsChain, Index!Below, UpTo, IsChain, Below
  <2> QED BY <1>1, <2>1, <2>9 DEF Index!Next
<1> QED BY <1>3, <1>4

\* The store, seen through blocks and meta.tip, implements ChainIndex: no
\* fault, crash or reordering of heads makes the index move otherwise than
\* by one atomic extension or reorganisation.
THEOREM Refinement == Spec => ImplementsChainIndex
<1>1. Init => Index!Init
  BY DEF Init, Index!Init
<1>2. IInv /\ [Next]_fvars => [Index!Next]_(Index!vars)
  <2> SUFFICES ASSUME IInv, [Next]_fvars PROVE [Index!Next]_(Index!vars)
    OBVIOUS
  <2>1. CASE CommitOk
    BY <2>1, CommitIsMove DEF CommitOk
  <2>2. CASE CommitLost
    BY <2>2, CommitIsMove DEF CommitLost
  <2>3. CASE ~CommitOk /\ ~CommitLost
    <3>1. UNCHANGED <<storeBlocks, storeTip>>
      BY <2>3 DEF Next, Start, LoadStep, LoadDone, Ingest, IngestKnown, IngestExtend, IngestWalk,
         WalkFound, WalkTooDeep, WalkFetch, WalkFail, RollbackStep, RollbackDone,
         CommitReject, CommitFail, Crash, fvars, store
    <3> QED BY <3>1 DEF Index!vars
  <2> QED BY <2>1, <2>2, <2>3
<1> QED BY <1>1, <1>2, Inductive, PTL DEF Spec, ImplementsChainIndex, Index!Spec

=============================================================================
