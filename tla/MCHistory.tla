----------------------------- MODULE MCHistory -----------------------------
(***************************************************************************)
(* Three heights; two outputs of one transaction at height 1, two          *)
(* transactions at height 2, one output at height 3.                       *)
(***************************************************************************)
EXTENDS History

Row(b, t, i) == [block |-> b, tx |-> t, index |-> i]
MCRows == {Row(1, 1, 0), Row(1, 1, 1), Row(2, 0, 0), Row(2, 1, 0), Row(3, 0, 0)}
MCLimits == -1..4   \* 1..3 is the documented range
=============================================================================
