------------------------------- MODULE MCCoins -------------------------------
(***************************************************************************)
(* Coins with the two tanks and the three coins of the game and two spots: *)
(* gold and silver start together, as a tank can meet two coins at once.   *)
(***************************************************************************)
EXTENDS Coins, TLC

CONSTANTS a, b

MCValue == 0 :> 3 @@ 1 :> 2 @@ 2 :> 1
MCHome == 0 :> a @@ 1 :> a @@ 2 :> b
=============================================================================
