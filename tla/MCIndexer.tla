----------------------------- MODULE MCIndexer -----------------------------
(***************************************************************************)
(* A trunk g1..g5 and a branch b3..b6 that leaves it at g2.  With          *)
(* MaxDepth = 2 the branch can be joined while the window still holds g2,  *)
(* its head can be farther ahead than the window is deep (catch-up), and   *)
(* an index that has followed the trunk to its end has lost the fork.      *)
(***************************************************************************)
EXTENDS Indexer, TLC

MCBlock == {"g1", "g2", "g3", "g4", "g5", "b3", "b4", "b5", "b6"}

MCParentHash ==
    "g1" :> "?" @@ "g2" :> "g1" @@ "g3" :> "g2" @@ "g4" :> "g3" @@ "g5" :> "g4" @@
    "b3" :> "g2" @@ "b4" :> "b3" @@ "b5" :> "b4" @@ "b6" :> "b5"

MCHeight ==
    "g1" :> 1 @@ "g2" :> 2 @@ "g3" :> 3 @@ "g4" :> 4 @@ "g5" :> 5 @@
    "b3" :> 3 @@ "b4" :> 4 @@ "b5" :> 5 @@ "b6" :> 6

\* For the run with liveness: the trunk up to g4 and the whole branch.
MCSmallBlock == MCBlock \ {"g5"}
MCSmallParentHash == [b \in MCSmallBlock |-> MCParentHash[b]]
MCSmallHeight == [b \in MCSmallBlock |-> MCHeight[b]]
=============================================================================
