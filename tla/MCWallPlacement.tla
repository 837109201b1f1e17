--------------------------- MODULE MCWallPlacement ---------------------------
(***************************************************************************)
(* WallPlacement with the numbers of game.c: the coins at (320, 240),      *)
(* (320, 100) and (320, 380) by their centres, the gears at (304, 24) and  *)
(* (304, 414), the tanks at (200, 200) and (400, 400).  In the committed   *)
(* tankworld.elf the words before back_up_positions (0x0801b6fc) are the   *)
(* end of the table of colours, 0 and 0x0f0f0f00: a wall at (0, 768).      *)
(***************************************************************************)
EXTENDS WallPlacement

GameDefault ==
  <<<<304, 224>>, <<304, 84>>, <<304, 364>>, <<304, 24>>, <<304, 414>>>>
GameStarts == {<<200, 200>>, <<400, 400>>}
GameBefore == <<0, 768>>
GameBackUps == <<<<100, 150>>, <<100, 182>>, <<508, 150>>, <<508, 182>>>>

(* Every place check_gears can draw by lot.                                *)
GameSpots == {<<32 * i, 32 * j>> : i \in 0 .. 19, j \in 0 .. 14}
=============================================================================
