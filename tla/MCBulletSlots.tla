---------------------------- MODULE MCBulletSlots ----------------------------
(***************************************************************************)
(* BulletSlots with one or two tanks.  Life is larger than Period, so that *)
(* bullets of several shots are in flight together and the array fills.    *)
(***************************************************************************)
EXTENDS BulletSlots

CONSTANTS t1, t2
=============================================================================
