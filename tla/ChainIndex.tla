----------------------------- MODULE ChainIndex -----------------------------
(***************************************************************************)
(* What the index promises to whoever reads it: the stored blocks are      *)
(* always one gapless chain, and they change only by one atomic move from  *)
(* a chain to another that agrees with it up to a fork block, dropping     *)
(* everything above the fork and adding a contiguous branch on top of it.  *)
(* No reader ever sees half of a reorganisation.                           *)
(***************************************************************************)
EXTENDS Chain

VARIABLES chain, tip

vars == <<chain, tip>>

Init == chain = {} /\ tip = NoBlock

\* The first block ever indexed: indexing may start anywhere in the tree.
Bootstrap(new) ==
    /\ chain = {}
    /\ chain' = {new}
    /\ tip' = new

\* Extension (a is the tip) or reorganisation (a is below the tip).
Move(a, new) ==
    /\ a \in chain
    /\ new \notin chain
    /\ tip' = new
    /\ chain' \cap chain = UpTo(chain, a)
    /\ \A b \in chain' \ chain : Height[b] > Height[a]
    /\ IsChain(chain', new)

Next ==
    \E new \in Block : Bootstrap(new) \/ \E a \in chain : Move(a, new)

Spec == Init /\ [][Next]_vars
=============================================================================
