---------------------------- MODULE MCTankMotion ----------------------------
(***************************************************************************)
(* TankMotion on a field of 9 by 7 positions with tanks and walls of side  *)
(* 2 and speeds 1 to 3: as on the real field, a tank crosses less than a   *)
(* wall and a tank in one frame and cannot reach the wrap-around in one.   *)
(***************************************************************************)
EXTENDS TankMotion, TLC

CONSTANTS t1, t2

MCStart == t1 :> <<3, 3>> @@ t2 :> <<7, 1>>
OneLayouts == {{<<5, 1>>, <<6, 4>>}, {<<1, 5>>}}
=============================================================================
