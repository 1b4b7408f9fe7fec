---------------------------- MODULE MCReconcile ----------------------------
(***************************************************************************)
(* A trunk a1, a2, a3 and a branch b2 from a1.  Denomination 0 is trimmed  *)
(* two blocks after its creation, denomination 1 never.                    *)
(*                                                                         *)
(* a1  t1 makes two trimmable and two lasting outputs                      *)
(* a2  t2 spends a trimmable and a lasting output                          *)
(* a3  the deadline of t1's trimmable outputs                              *)
(* b2  t3 spends the same two in the other order and makes a conversion    *)
(***************************************************************************)
EXTENDS Reconcile

MCBlock == {"a1", "a2", "a3", "b2"}

MCParentHash == "a1" :> "?" @@ "a2" :> "a1" @@ "a3" :> "a2" @@ "b2" :> "a1"

MCHeight == "a1" :> 1 @@ "a2" :> 2 @@ "a3" :> 3 @@ "b2" :> 2

Out(d) == [denom |-> d, lock |-> 0, qi |-> TRUE]
Conv(d) == [denom |-> d, lock |-> 0, qi |-> FALSE]
QiTx(h, ins, outs) == [kind |-> "qi", hash |-> h, ins |-> ins, outs |-> outs]

MCBody ==
    "a1" :> <<QiTx("t1", <<>>, <<Out(0), Out(0), Out(1), Out(1)>>)>> @@
    "a2" :> <<QiTx("t2", <<<<"t1", 1>>, <<"t1", 2>>>>, <<Out(1)>>)>> @@
    "a3" :> <<>> @@
    "b2" :> <<QiTx("t3", <<<<"t1", 2>>, <<"t1", 1>>>>, <<Conv(1)>>)>>

MCTrimDepth == 0 :> 2 @@ 1 :> 0
MCLockDepth == [i \in 0..3 |-> i + 1]

\* An output's address is its index, but t2 pays to the address of t1's last.
MCOwner ==
    [op \in {r.op : r \in UNION {Creates(b) : b \in MCBlock}} |-> IF op[1] = "t2" THEN 3 ELSE op[2]]

\* The trunk up to height n, of which the decoder has seen what lies above u.
Trunk(n) == SubSeq(<<"a1", "a2", "a3">>, 1, n)

Stored(n, u) ==
    LET s == Trunk(n)
        decoded == FlattenSeq([i \in DOMAIN s |-> IF i > u THEN FlattenSeq(ApplyBlock(s[i])) ELSE <<>>])
    IN [FoldLeft(Exec, EmptyDb, decoded) EXCEPT !.blocks = ToSet(s), !.tip = s[n]]

MCStoredDbs == {EmptyDb} \cup {Stored(n, u) : n \in 1..3, u \in 0..2}

\* Behaviours are followed until no property speaks of them any more.  A pass
\* that was disturbed before its verification goes on like one that failed.
Clean ==
    /\ ~raced /\ ~foreign /\ (whole \/ ~crossed)
    /\ rec.pc \in {"sample", "node", "db", "ok", "mismatch"} => quiet

Symmetry == Permutations(Process)
MCNBlocks == {2, 3, 5, 13}
=============================================================================
