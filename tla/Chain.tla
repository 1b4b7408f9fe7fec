------------------------------- MODULE Chain -------------------------------
(***************************************************************************)
(* The block tree the zone node serves (internal/chain/chain.go).          *)
(*                                                                         *)
(* A block is identified with its hash.  What the follower reads of it is  *)
(* its ParentHash and its Height; the body is opaque here and is given a   *)
(* meaning by the Ledger module.  The tree is a constant: a hash commits   *)
(* to its parent, so no block ever changes its place.  What changes is     *)
(* which blocks the node calls its head.                                   *)
(***************************************************************************)
EXTENDS Integers

CONSTANTS
    Block,        \* the hashes of the blocks the node may ever serve
    NoBlock,      \* the empty hash "", "nothing indexed yet"
    Unknown,      \* a parent hash the node has no block for (below genesis)
    ParentHash,   \* chain.Block.ParentHash
    Height        \* chain.Block.Height

ASSUME NoBlockAssumption == NoBlock \notin Block

ASSUME UnknownAssumption == Unknown \notin Block \cup {NoBlock}

ASSUME ParentAssumption == ParentHash \in [Block -> Block \cup {Unknown}]

ASSUME HeightAssumption == Height \in [Block -> Nat]

\* Consensus numbers a block one above its parent.
ASSUME NumberingAssumption ==
    \A b \in Block : ParentHash[b] \in Block => Height[b] = Height[ParentHash[b]] + 1

(***************************************************************************)
(* S is a gapless chain that ends in t: t is its highest block, no two     *)
(* blocks share a height, and the parent of every block but the lowest is  *)
(* in S.  The empty set is the chain that ends in NoBlock.                 *)
(***************************************************************************)
Below(S, b) == \E c \in S : Height[c] < Height[b]

IsChain(S, t) ==
    /\ S \subseteq Block
    /\ t = NoBlock => S = {}
    /\ t # NoBlock => t \in S
    /\ \A b \in S : Height[b] <= Height[t]
    /\ \A b, c \in S : Height[b] = Height[c] => b = c
    /\ \A b \in S : Below(S, b) => ParentHash[b] \in S

\* What is left of S when it is cut back to its block a.
UpTo(S, a) == {b \in S : Height[b] <= Height[a]}

\* S has the parent of each of its blocks that has one.
HasParents(S) == \A c \in S : ParentHash[c] \in Block => ParentHash[c] \in S

\* b and the blocks under it: the least such set that b is in.
Ancestry ==
    [b \in Block |->
        {c \in Block : \A S \in SUBSET Block : b \in S /\ HasParents(S) => c \in S}]

=============================================================================
