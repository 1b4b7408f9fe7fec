------------------------------ MODULE MCLedger ------------------------------
(***************************************************************************)
(* A trunk g1..g5 and a branch b3, b4 from g2.  Denomination 0 is trimmed  *)
(* two blocks after its creation, denomination 1 never.                    *)
(*                                                                         *)
(* g1  a coinbase with a lockup, one without data; a Qi transaction t1     *)
(*     with a trimmable, a lasting, a locked trimmable and a second        *)
(*     trimmable output                                                    *)
(* g2  t2 spends the lasting output and makes a trimmable one and a        *)
(*     conversion; t3 spends t2's in the same block                        *)
(* g3  the deadline of t1's first output; an inbound conversion ETX        *)
(* b3  spends that output in the block of its deadline                     *)
(* g4  t5 spends an output of t4 of g3; b4 includes t4 and t5 together, so *)
(*     the same transactions sit at other heights of the other branch      *)
(* x4  has a transaction the decoder refuses, after two it decodes         *)
(***************************************************************************)
EXTENDS Reads

MCBlock == {"g1", "g2", "g3", "g4", "g5", "b3", "b4", "x4"}

MCParentHash ==
    "g1" :> "?" @@ "g2" :> "g1" @@ "g3" :> "g2" @@ "g4" :> "g3" @@ "g5" :> "g4" @@
    "b3" :> "g2" @@ "b4" :> "b3" @@ "x4" :> "g3"

MCHeight ==
    "g1" :> 1 @@ "g2" :> 2 @@ "g3" :> 3 @@ "g4" :> 4 @@ "g5" :> 5 @@ "b3" :> 3 @@ "b4" :> 4 @@ "x4" :> 4

Out(d) == [denom |-> d, lock |-> 0, qi |-> TRUE]
Locked(d, l) == [denom |-> d, lock |-> l, qi |-> TRUE]
Conv(d) == [denom |-> d, lock |-> 0, qi |-> FALSE]

QiTx(h, ins, outs) == [kind |-> "qi", hash |-> h, ins |-> ins, outs |-> outs]
Etx(k, h, lockup, val, outs) ==
    [kind |-> k, hash |-> h, toQi |-> TRUE, hasValue |-> val, lockup |-> lockup, outs |-> outs]

T1 == QiTx("t1", <<>>, <<Out(0), Out(1), Locked(0, 9), Out(0)>>)
T2 == QiTx("t2", <<<<"t1", 1>>>>, <<Out(0), Conv(1), Out(0)>>)
T3 == QiTx("t3", <<<<"t2", 0>>>>, <<Out(1)>>)
T4 == QiTx("t4", <<<<"t0", 0>>, <<"t3", 0>>>>, <<Conv(0), Out(0)>>)
T5 == QiTx("t5", <<<<"t4", 1>>>>, <<Out(1)>>)
T6 == QiTx("t6", <<<<"t1", 0>>>>, <<Out(0)>>)

MCBody ==
    "g1" :> <<Etx("coinbase", "e1", 1, TRUE, <<Out(0), Out(1)>>),
              Etx("coinbase", "e2", 7, TRUE, <<Out(1)>>), T1>> @@
    "g2" :> <<T2, T3, [kind |-> "other", hash |-> "q", outs |-> <<>>, ins |-> <<>>]>> @@
    "g3" :> <<T4, Etx("conversion", "e3", 0, TRUE, <<Out(0)>>)>> @@
    "g4" :> <<T5, Etx("conversion", "e4", 0, FALSE, <<Out(1)>>)>> @@
    "g5" :> <<>> @@
    "b3" :> <<T6>> @@
    "b4" :> <<Etx("conversion", "e3", 0, TRUE, <<Out(0)>>), T4, T5>> @@
    "x4" :> <<T5, QiTx("t7", <<>>, <<Out(0)>>), [kind |-> "bad", hash |-> "t8", ins |-> <<>>, outs |-> <<>>]>>

MCTrimDepth == 0 :> 2 @@ 1 :> 0
MCLockDepth == [i \in 0..3 |-> i + 1]

\* Outputs of even index pay to address 0, the others to address 1.
MCOwner == [op \in Ops(UNION {Creates(b) : b \in MCBlock}) |-> op[2] % 2]

Q(k, a) == [kind |-> k, arg |-> a]

MCAsked ==
    {Q("balance", 0), Q("balance", 1), Q("block", 2), Q("block", 3), Q("block", 4),
     Q("tx", "t4"), Q("tx", "t6"), Q("tx", "e3"), Q("stats", {}),
     Q("utxo", <<"t4", 1>>), Q("outpoints", {0, 1})}
=============================================================================
