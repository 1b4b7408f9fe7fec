----------------------------- MODULE MCFollower -----------------------------
(***************************************************************************)
(* A small tree for TLC: a trunk g1..g5 whose first block's parent is      *)
(* outside the tree, a branch a3..a5 that leaves it at g2, a fork c4 of   *)
(* g3 and a rival first block x1.                                          *)
(***************************************************************************)
EXTENDS Follower, TLC

MCBlock == {"g1", "g2", "g3", "g4", "g5", "a3", "a4", "a5", "c4", "x1"}

MCParentHash ==
    "g1" :> "?" @@ "g2" :> "g1" @@ "g3" :> "g2" @@ "g4" :> "g3" @@ "g5" :> "g4" @@
    "a3" :> "g2" @@ "a4" :> "a3" @@ "a5" :> "a4" @@
    "c4" :> "g3" @@ "x1" :> "?"

MCHeight ==
    "g1" :> 1 @@ "g2" :> 2 @@ "g3" :> 3 @@ "g4" :> 4 @@ "g5" :> 5 @@
    "a3" :> 3 @@ "a4" :> 4 @@ "a5" :> 5 @@
    "c4" :> 4 @@ "x1" :> 1
=============================================================================
