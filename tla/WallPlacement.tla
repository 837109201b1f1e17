---------------------------- MODULE WallPlacement ----------------------------
(***************************************************************************)
(* draw_wall of game.c: the walls of the map chosen in the menu are        *)
(* written into the wall registers one by one; a wall that would lie on a  *)
(* coin or a gear is replaced by the next of four back-up positions.       *)
(* Before, in the same report, check_gears puts back the coins and gears   *)
(* that have gone; later reports call both again, and draw_wall returns at *)
(* once.  The tanks may collect coins and gears at any time: after KEY[0]  *)
(* a key left in control_reg moves them before the game starts.            *)
(*                                                                         *)
(* All positions are those of the code: <<x, y>> of the upper left corner, *)
(* in pixels.                                                              *)
(***************************************************************************)
EXTENDS Menu, Sequences

CONSTANTS
  Unit,      (* COMMON_UNIT (32).                                          *)
  Width,     (* SCREEN_WIDTH_PIXEL (640).                                  *)
  Height,    (* SCREEN_HEIGHT_PIXEL (480).                                 *)
  NCoins,    (* COIN_TYPES (3).                                            *)
  NGears,    (* GEAR_TYPES (2).                                            *)
  Default,   (* The default places of the coins, then of the gears.        *)
  Spots,     (* Places that check_gears may draw by lot.                   *)
  Starts,    (* Where the tanks start.                                     *)
  BackUps,   (* back_up_positions.                                         *)
  Before,    (* back_up_positions[-1]: what the build has in memory before *)
             (* the array, as read from bits 10..1 and 20..11.             *)
  MaxTaken   (* How many coins and gears are collected; a bound.           *)

Coins == 1 .. NCoins
Prop == 1 .. NCoins + NGears
Place == Nat \X Nat
Gone == <<>>
Drawing == 99

ASSUME PlacementAssumption ==
  /\ Unit \in Nat \ {0} /\ Width \in Nat /\ Height \in Nat
  /\ MaxTaken \in Nat
  /\ NCoins \in Nat /\ NGears \in Nat
  /\ NCoins + NGears \in 1 .. Drawing - 1
  /\ Default \in [Prop -> Place]
  /\ Spots \subseteq Place /\ Starts \subseteq Place
  /\ BackUps \in Seq(Place)
  /\ Before \in Place

VARIABLES
  at,       (* at[p]: where the coin or gear p is, or Gone.                *)
  turn,     (* 0 between two reports, the p check_gears is at, or Drawing. *)
  walls,    (* The positions written so far, in the order of the registers.*)
  pulled,   (* i of __pull_back_up_walls.                                  *)
  taken     (* How many coins and gears have been collected.               *)

vars == <<menu, at, turn, walls, pulled, taken>>

There == {at[p] : p \in {q \in Prop : at[q] # Gone}}

(* n walls in a row and n walls in a column from <<x, y>> on.              *)
Row(x, y, n) == [i \in 1 .. n |-> <<x + (i - 1) * Unit, y>>]

Column(x, y, n) == [i \in 1 .. n |-> <<x, y + (i - 1) * Unit>>]

(* The walls of map m: U; I, the middle line of which is drawn as a row    *)
(* (game.c:356-359); C; and for no map or a combination of maps an I whose *)
(* middle line is a column (game.c:393-396).                               *)
Plan(m) ==
  CASE m = 1 -> Column(240, 144, 6) \o Column(368, 144, 6) \o Row(272, 304, 3)
    [] m = 2 -> Row(272, 112, 3) \o Row(272, 336, 3) \o Row(304, 144, 6)
    [] m = 4 -> Row(272, 160, 4) \o Row(272, 288, 4) \o Column(240, 160, 5)
    [] OTHER -> Row(272, 112, 3) \o Row(272, 336, 3) \o Column(304, 144, 6)

(* _check_overlap: rectangles that only touch overlap, too.                *)
Touch(p, q) ==
  /\ p[1] <= q[1] + Unit /\ q[1] <= p[1] + Unit
  /\ p[2] <= q[2] + Unit /\ q[2] <= p[2] + Unit

(* The numbers of Plan fit walls of 32 pixels, lots are multiples of 32,   *)
(* and the maps lie between columns 240 and 464 and rows 112 and 336, the  *)
(* back-up positions beside them, and where the tanks start clear of both. *)
ASSUME FieldAssumption ==
  /\ Unit = 32
  /\ \A s \in Spots : s[1] % 16 = 0 /\ s[2] % 16 = 0
  /\ \A s \in Starts : \/ s[1] + Unit < 240 \/ s[1] > 464 + Unit
                        \/ s[2] + Unit < 112 \/ s[2] > 336 + Unit
  /\ \A i \in 1 .. Len(BackUps) : BackUps[i][1] < 240 \/ BackUps[i][1] > 464
  /\ \A i, j \in 1 .. Len(BackUps) : BackUps[i] = BackUps[j] => i = j
  /\ \A w \in {BackUps[i] : i \in 1 .. Len(BackUps)} \union {Before} :
       \A s \in Starts : ~Touch(w, s)

(* A faulty variant of Blocked: only equal positions overlap.              *)
SamePlace(p) == p \in There

Blocked(p) == \E q \in There : Touch(p, q)

Init ==
  /\ MenuInit
  /\ at = Default
  /\ turn = 0
  /\ walls = << >>
  /\ pulled = 0
  /\ taken = 0

Undrawn == Len(walls) < Len(Plan(map))

(* check_gear_legal_pos: for a coin it is called with the centre.  The     *)
(* registers that hold no wall are taken for walls at the origin.          *)
Offset(p) == IF p \in Coins THEN Unit \div 2 ELSE 0

Registers ==
  {walls[i] : i \in 1 .. Len(walls)}
    \union (IF Len(walls) < 16 THEN {<<0, 0>>} ELSE {})

(* A faulty variant of Legal: the walls are forgotten.                     *)
ClearOfCoins(p, s) ==
  \A q \in Coins : at[q] # Gone => ~Touch(s, at[q])

Legal(p, s) ==
  LET c == <<s[1] + Offset(p), s[2] + Offset(p)>>
  IN  /\ c[1] < Width /\ c[2] < Height
      /\ \A q \in Coins : at[q] # Gone => ~Touch(c, at[q])
      /\ \A w \in Registers : ~Touch(c, w)

(* A report in a game that is not over.                                    *)
Report ==
  /\ started /\ turn = 0
  /\ Undrawn \/ taken > 0  (* Otherwise the report does nothing here. *)
  /\ turn' = 1
  /\ UNCHANGED <<menu, at, walls, pulled, taken>>

(* check_gears puts p somewhere else, or not if the lot is no good place   *)
(* or too close to the last one, which is left open here (see Gears).      *)
CheckGear ==
  /\ turn \in Prop
  /\ \/ UNCHANGED at
     \/ /\ at[turn] = Gone
        /\ \E s \in Spots : Legal(turn, s) /\ at' = [at EXCEPT ![turn] = s]
  /\ turn' = IF turn + 1 \in Prop THEN turn + 1 ELSE IF Undrawn THEN Drawing ELSE 0
  /\ UNCHANGED <<menu, walls, pulled, taken>>

NextWall == Plan(map)[Len(walls) + 1]

(* The wall w is written; with the last one draw_wall returns.             *)
WriteWall(w) ==
  /\ walls' = Append(walls, w)
  /\ turn' = IF Len(walls) + 1 = Len(Plan(map)) THEN 0 ELSE Drawing
  /\ UNCHANGED <<menu, at, taken>>

DrawPlanned ==
  /\ turn = Drawing /\ ~Blocked(NextWall)
  /\ WriteWall(NextWall)
  /\ UNCHANGED pulled

(* The back-up position itself is not checked against anything.            *)
DrawBackUp ==
  /\ turn = Drawing /\ Blocked(NextWall)
  /\ pulled < Len(BackUps)
  /\ WriteWall(BackUps[pulled + 1])
  /\ pulled' = pulled + 1

(* __pull_back_up_walls returns -1, which is used as an index: undefined,  *)
(* and in the committed build a wall below the screen.                     *)
DrawBefore ==
  /\ turn = Drawing /\ Blocked(NextWall)
  /\ pulled = Len(BackUps)
  /\ WriteWall(Before)
  /\ UNCHANGED pulled

(* The hardware takes a coin or a gear off the screen.                     *)
Take ==
  /\ taken < MaxTaken
  /\ \E p \in Prop : at[p] # Gone /\ at' = [at EXCEPT ![p] = Gone]
  /\ taken' = taken + 1
  /\ UNCHANGED <<menu, turn, walls, pulled>>

Next ==
  \/ MenuNext /\ UNCHANGED <<at, turn, walls, pulled, taken>>
  \/ Report \/ CheckGear
  \/ DrawPlanned \/ DrawBackUp \/ DrawBefore
  \/ Take

Spec == Init /\ [][Next]_vars

-----------------------------------------------------------------------------
(* Properties.                                                             *)

Drawn == {walls[i] : i \in 1 .. Len(walls)}

Planned == Drawn \ ({BackUps[i] : i \in 1 .. Len(BackUps)} \union {Before})

(* Squares that have more than a border in common.                         *)
Cover(p, q) ==
  /\ p[1] < q[1] + Unit /\ q[1] < p[1] + Unit
  /\ p[2] < q[2] + Unit /\ q[2] < p[2] + Unit

TypeOK ==
  /\ MenuTypeOK
  /\ at \in [Prop -> Place \union {Gone}]
  /\ turn \in Prop \union {0, Drawing}
  /\ walls \in Seq(Place) /\ Len(walls) <= 15
  /\ pulled \in 0 .. Len(BackUps)
  /\ taken \in 0 .. MaxTaken

(* No wall of the map covers a part of a coin or gear that is there,       *)
(* whichever of them came first: draw_wall looks at the things that are    *)
(* there, check_gears at the walls (game.c:276-312, 658-672).              *)
WallsClearOfProps ==
  \A w \in Planned : \A q \in There : ~Cover(w, q)

(* Whatever is collected meanwhile, no wall of any map lies on the place   *)
(* where a tank starts: this is what TankMotion assumes of the layouts.    *)
WallsClearOfStarts ==
  \A w \in Drawn : \A s \in Starts : ~Touch(w, s)

(* No wall is drawn twice as long as the back-up positions last: they are  *)
(* none of the planned ones and each is used once (game.c:269-273).        *)
WallsDistinct ==
  \A i, j \in 1 .. Len(walls) :
    i # j /\ walls[i] # Before => walls[i] # walls[j]

(* The planned walls cover no coin or gear that is there; no wall at all   *)
(* touches the start of a tank or is drawn twice, except the one from      *)
(* before the array (game.c:264-312).  Exempt are coins and gears under    *)
(* the back-up positions and Before: these are written without a check     *)
(* (game.c:294-306, "legal" in game.c:275), and check_gears may put a coin *)
(* half onto one of them (game.c:691).                                     *)
WallsInv ==
  TypeOK /\ WallsClearOfProps /\ WallsClearOfStarts /\ WallsDistinct

(* If one map was chosen in the menu, once or several times, and no other  *)
(* with it, the walls that are not back-ups are those its case of          *)
(* draw_wall lists, in its order; if none was chosen, or different ones,   *)
(* they are those of the default case, whatever was chosen last            *)
(* (game.c:316, 575).  It does not say that the cases list what their      *)
(* comments say: case 2 draws its "middel vertical line" (game.c:356) as a *)
(* row, so that the I chosen is not the I of the default case.             *)
MapAsChosen ==
  LET m == IF \E b \in chosen : chosen = {b} THEN CHOOSE b \in chosen : TRUE
           ELSE 0
  IN  /\ Len(walls) <= Len(Plan(m))
      /\ \A i \in 1 .. Len(walls) :
           walls[i] \in Planned => walls[i] = Plan(m)[i]

(* "if wall is not legal, then we pull one legal position from             *)
(* back_up_positions" (game.c:275): there is a back-up for every such wall.*)
BackUpsSuffice == Before \notin Drawn
=============================================================================
