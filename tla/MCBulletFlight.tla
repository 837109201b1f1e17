---------------------------- MODULE MCBulletFlight ----------------------------
(***************************************************************************)
(* BulletFlight on a small screen with every place the tank can stand.     *)
(***************************************************************************)
EXTENDS BulletFlight

SmallPlaces == (0 .. 23 - 6) \X (0 .. 18 - 6)
SmallWalls == {<<0, 0>>, <<15, 4>>}
=============================================================================
