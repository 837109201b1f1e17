------------------------------- MODULE MCGears -------------------------------
(***************************************************************************)
(* Gears on a row of five cells: two tanks, one of them two cells from the *)
(* first gear and the other far from it.                                   *)
(***************************************************************************)
EXTENDS Gears, TLC

CONSTANTS t1, t2

MCHome == t1 :> 0 @@ t2 :> 4
=============================================================================
