------------------------------ MODULE TankMotion ------------------------------
(***************************************************************************)
(* The tank bases of tank.sv (update_base, check_border, check_wall and    *)
(* the position and speed registers of tank_position_direction) together   *)
(* with the two software writers they depend on: the control register that *)
(* main.c writes after every keyboard report and the wall registers that   *)
(* game_init clears and draw_wall fills.                                   *)
(*                                                                         *)
(* Every position is a pair <<x, y>> of the upper left corner, in          *)
(* registers that wrap at Modulus (2^10).  base_direction only selects the *)
(* picture that Color_Mapper.sv draws and is left out.                     *)
(***************************************************************************)
EXTENDS Integers

CONSTANTS
  Tank,         (* The tanks.                                              *)
  Start,        (* The position every tank takes on Reset.                 *)
  Size,         (* Side of a tank and of a wall (32).                      *)
  XLast,        (* Last legal upper left x of a tank (639 - 32).           *)
  YLast,        (* Last legal upper left y of a tank (479 - 32).           *)
  Modulus,      (* Position registers hold 0 .. Modulus - 1 (1024).        *)
  DoubleBelow,  (* A speed below this one is doubled by a speed gear (4).  *)
  MaxSpeed,     (* No gear raises this speed (10).                         *)
  Layouts,      (* The sets of wall positions draw_wall can produce.       *)
  MaxResets     (* How often KEY[0] is pressed; a bound of the model.      *)

(* An unused wall register holds 0; check_wall ignores its valid bit and   *)
(* sees a wall at the origin.  No layout fills all 16 registers, so this   *)
(* wall is always there.                                                   *)
Ghost == <<0, 0>>

(* The rectangles at p and q, both of side Size, have a point in common.   *)
Overlap(p, q) ==
  /\ p[1] < q[1] + Size /\ p[1] + Size > q[1]
  /\ p[2] < q[2] + Size /\ p[2] + Size > q[2]

Register == 0 .. Modulus - 1
Position == Register \X Register

(* A tank is never moved as far as a wall and a tank are wide, and neither *)
(* the last column nor the first one is within one move of the wrap-around *)
(* of the registers.                                                       *)
ASSUME GeometryAssumption ==
  /\ Size \in Nat /\ XLast \in Nat /\ YLast \in Nat
  /\ Modulus \in Nat /\ MaxSpeed \in Nat /\ DoubleBelow \in Nat
  /\ 0 < MaxSpeed /\ MaxSpeed < 2 * Size
  /\ 2 * DoubleBelow <= MaxSpeed + 2
  /\ XLast + MaxSpeed < Modulus /\ YLast + MaxSpeed < Modulus

ASSUME StartAssumption ==
  \A t \in Tank :
    /\ Start[t] \in Position
    /\ Start[t][1] <= XLast /\ Start[t][2] <= YLast
    /\ ~Overlap(Start[t], Ghost)

ASSUME LayoutAssumption ==
  \A L \in Layouts :
    /\ L \subseteq Position
    /\ \A t \in Tank : \A w \in L : ~Overlap(Start[t], w)

ASSUME ResetAssumption == MaxResets \in Nat

VARIABLES
  pos,     (* tank_x, tank_y of every tank.                                *)
  speed,   (* The speed register of every tank.                            *)
  key,     (* The base byte of every tank in control_reg: 0 none, 1 left,  *)
           (* 2 down, 3 up, 4 right.                                       *)
  walls,   (* The positions held by the 16 wall registers.                 *)
  layout,  (* The layout that draw_wall is writing or has written.         *)
  phase,   (* Where main.c is: before game_init, in the menu, in the game. *)
  resets   (* Presses of KEY[0] so far.                                    *)

vars == <<pos, speed, key, walls, layout, phase, resets>>

Init ==
  /\ pos = [t \in Tank |-> Start[t]]
  /\ speed = [t \in Tank |-> 1]
  /\ key = [t \in Tank |-> 0]
  /\ walls = {Ghost}
  /\ layout = {}
  /\ phase = "boot"
  /\ resets = 0

-----------------------------------------------------------------------------
(* The frame clock.                                                        *)

(* v modulo Modulus, for a v that is less than one Modulus out of range.   *)
Wrap(v) ==
  IF v < 0 THEN v + Modulus ELSE IF v >= Modulus THEN v - Modulus ELSE v

(* Where the key held for t would take it.                                 *)
Target(t) ==
  LET x == pos[t][1]
      y == pos[t][2]
      s == speed[t]
  IN CASE key[t] = 1 -> <<Wrap(x - s), y>>
       [] key[t] = 2 -> <<x, Wrap(y + s)>>
       [] key[t] = 3 -> <<x, Wrap(y - s)>>
       [] key[t] = 4 -> <<Wrap(x + s), y>>
       [] OTHER -> pos[t]

(* Faulty variants of OutOfBounds: a border one pixel off, none at all.    *)
OneTooFar(p) == p[1] > XLast + 1 \/ p[2] > YLast + 1
NoBorder(p) == p[1] > Modulus \/ p[2] > Modulus

OutOfBounds(p) == p[1] > XLast \/ p[2] > YLast

(* A faulty variant of Stops: the walls are forgotten.                     *)
BorderOnly(p) == OutOfBounds(p)

Stops(p) == OutOfBounds(p) \/ \E w \in walls : Overlap(p, w)

(* A faulty variant of Faster: the upper limit is forgotten.               *)
NoTopSpeed(s) == IF s < DoubleBelow THEN 2 * s ELSE s + 1

(* What a speed gear makes of the speed s.                                 *)
Faster(s) ==
  CASE s < DoubleBelow -> 2 * s
    [] s >= DoubleBelow /\ s < MaxSpeed -> s + 1
    [] OTHER -> s

(* One frame: all tanks move at once.  boosted is the set of tanks whose   *)
(* to_speed input is up, an input from props.sv.                           *)
Frame ==
  \E boosted \in SUBSET Tank :
    /\ pos' = [t \in Tank |-> IF Stops(Target(t)) THEN pos[t] ELSE Target(t)]
    /\ speed' = [t \in Tank |->
                   IF t \in boosted THEN Faster(speed[t]) ELSE speed[t]]
    /\ UNCHANGED <<key, walls, layout, phase, resets>>

-----------------------------------------------------------------------------
(* The software and the reset key.                                         *)

(* game_init: every wall register is cleared, the game is not started.     *)
(* control_reg is left as it was.                                          *)
GameInit ==
  /\ phase = "boot"
  /\ walls' = {Ghost}
  /\ phase' = "menu"
  /\ UNCHANGED <<pos, speed, key, layout, resets>>

(* ENTER in the menu: the next report makes draw_wall write a layout.      *)
StartGame ==
  /\ phase = "menu"
  /\ layout' \in Layouts
  /\ phase' = "game"
  /\ UNCHANGED <<pos, speed, key, walls, resets>>

(* draw_wall writes one register after the other.                          *)
DrawWall ==
  /\ phase = "game"
  /\ \E w \in layout \ walls : walls' = walls \union {w}
  /\ UNCHANGED <<pos, speed, key, layout, phase, resets>>

(* ramsetctl(transfer_code(...)), which main.c reaches after draw_wall.    *)
WriteControl ==
  /\ phase = "game"
  /\ layout \subseteq walls
  /\ key' \in [Tank -> 0 .. 4]
  /\ UNCHANGED <<pos, speed, walls, layout, phase, resets>>

(* KEY[0] resets the tank registers and restarts the processor; neither    *)
(* control_reg nor the wall registers have a reset.                        *)
Reset ==
  /\ resets < MaxResets
  /\ pos' = [t \in Tank |-> Start[t]]
  /\ speed' = [t \in Tank |-> 1]
  /\ layout' = {}
  /\ phase' = "boot"
  /\ resets' = resets + 1
  /\ UNCHANGED <<key, walls>>

Next == Frame \/ GameInit \/ StartGame \/ DrawWall \/ WriteControl \/ Reset

Spec == Init /\ [][Next]_vars

(* vs is generated by a free running counter: frames never stop coming.    *)
FairSpec == Spec /\ WF_vars(Frame)

-----------------------------------------------------------------------------
(* Properties.                                                             *)

(* The registers hold what the code can put there; in particular no speed  *)
(* exceeds MaxSpeed, whatever gears are taken.                             *)
TypeOK ==
  /\ pos \in [Tank -> Position]
  /\ speed \in [Tank -> 1 .. MaxSpeed]
  /\ key \in [Tank -> 0 .. 4]
  /\ walls \subseteq Position
  /\ layout \subseteq Position
  /\ phase \in {"boot", "menu", "game"}
  /\ resets \in 0 .. MaxResets

(* No tank is ever, even partly, off the screen, although check_border has *)
(* no lower bound and a move past zero wraps around (tank.sv:296-303).     *)
InField == \A t \in Tank : pos[t][1] <= XLast /\ pos[t][2] <= YLast

(* No tank stands in a wall (doc/README.md:467).                           *)
ClearOfWalls == \A t \in Tank : \A w \in walls : ~Overlap(pos[t], w)

(* Until KEY[0] is pressed during a game, no tank ever stands in a wall:   *)
(* the walls are drawn before any key can move a tank.                     *)
ClearBeforeReset == resets = 0 => ClearOfWalls

(* The points strictly between two ends of a straight move, and its ends.  *)
Between(p, q) ==
  {r \in Position :
     /\ \/ p[1] <= r[1] /\ r[1] <= q[1]
        \/ q[1] <= r[1] /\ r[1] <= p[1]
     /\ \/ p[2] <= r[2] /\ r[2] <= q[2]
        \/ q[2] <= r[2] /\ r[2] <= p[2]}

(* A frame never carries a tank through a wall, however fast it is: a tank *)
(* that was clear of the walls stays clear of them at every point of its   *)
(* path, though only the end of the path is checked (tank.sv:69-97).       *)
NoTunnelling ==
  [][Frame =>
       \A t \in Tank :
         (\A w \in walls : ~Overlap(pos[t], w))
           => \A r \in Between(pos[t], pos'[t]) :
                \A w \in walls : ~Overlap(r, w)]_vars

(* A key that is held runs the tank aground: from some frame on every move *)
(* it asks for is refused and the tank no longer moves.                    *)
RunsAground ==
  \A t \in Tank : \A k \in 1 .. 4 :
    <>[](key[t] = k) => <>[](Stops(Target(t)))
===============================================================================
