------------------------------ MODULE MCDerive ------------------------------
(***************************************************************************)
(* Denominations 1, 2, 5 and 10, at most five outputs (indices 0..4), and  *)
(* gas limits from "skip the cap" (0) over "not even TxGas" to more than   *)
(* the outputs can use.                                                    *)
(***************************************************************************)
EXTENDS Derive

MCDenomValue == 0 :> 1 @@ 1 :> 2 @@ 2 :> 5 @@ 3 :> 10
MCValues == 0..60
MCGasLimits == {0, 1, 2, 3, 4, 5, 6, 8, 13, 14, 20}
=============================================================================
