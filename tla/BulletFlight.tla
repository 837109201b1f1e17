----------------------------- MODULE BulletFlight -----------------------------
(***************************************************************************)
(* One bullet of tank.sv: where it is spawned around the firing tank, how  *)
(* the ball module moves it, turns it at the borders and ends it in a wall *)
(* or in a tank, and how alive_bullet_cnt ends it when it flies for long.  *)
(* The tanks stand still; when a bullet may be spawned, and in which slot, *)
(* is the subject of BulletSlots.                                          *)
(*                                                                         *)
(* Directions are those of the code: 0 up, 1 up left, 2 left, 3 down left, *)
(* 4 down, 5 down right, 6 right, 7 up right.                              *)
(***************************************************************************)
EXTENDS Integers

CONSTANTS
  XMax,      (* Ball_X_Max, the last column of the screen (639).           *)
  YMax,      (* Ball_Y_Max, the last row of the screen (479).              *)
  Margin,    (* Ball_Size: how far from a border a bullet bounces (4).     *)
  Size,      (* Side of a tank and of a wall (32).                         *)
  Modulus,   (* The coordinates have 10 bits (1024).                       *)
  LifeTime,  (* alive_bullet_cnt has 10 bits too (1024).                   *)
  Places,    (* Where the firing tank may stand: upper left corners.       *)
  Walls      (* The positions in the wall registers, with the unused ones  *)
             (* that read as <<0, 0>>.                                     *)

(* A margin exists, and the centre line of a tank lies outside it.         *)
ASSUME ScreenAssumption ==
  /\ Margin \in Nat \ {0} /\ Size \in Nat /\ XMax \in Nat /\ YMax \in Nat
  /\ Modulus \in Nat /\ LifeTime \in Nat \ {0, 1}
  /\ Margin < Size \div 2
  /\ Margin + Size < XMax /\ Margin + Size < YMax
  /\ XMax + 2 * Margin < Modulus /\ YMax + 2 * Margin < Modulus
  /\ \A p \in Places : /\ p[1] \in 0 .. XMax - Size
                       /\ p[2] \in 0 .. YMax - Size

VARIABLES
  tank,     (* The firing tank.                                            *)
  x, y,     (* The bullet's coordinates, in 10 bits.                       *)
  dir,      (* Its direction.                                              *)
  state,    (* "none", "fresh" in its first frame, "flying", "gone" in a   *)
            (* wall or a tank, "expired" by its age.                       *)
  alive,    (* alive_bullet_cnt: 1 in the first frame, wraps to 0.         *)
  shot,     (* Where and in which direction it was fired: history.         *)
  corner    (* Whether two borders asked for a bounce at once: history.    *)

flight == <<tank, x, y, dir, state, alive, shot, corner>>

Direction == 0 .. 7
InFlight == state \in {"fresh", "flying"}

DX(d) == IF d \in {1, 2, 3} THEN -1 ELSE IF d \in {5, 6, 7} THEN 1 ELSE 0
DY(d) == IF d \in {0, 1, 7} THEN -1 ELSE IF d \in {3, 4, 5} THEN 1 ELSE 0

(* The direction with the given motions.                                   *)
Encode(dx, dy) == CHOOSE d \in Direction : DX(d) = dx /\ DY(d) = dy

(* A faulty variant of Spawn: the corner of the tank, not its middle.      *)
SpawnAtCorner(p, d) ==
  <<IF DX(d) = -1 THEN p[1] - 1 ELSE p[1] + Size,
    IF DY(d) = -1 THEN p[2] - 1 ELSE p[2] + Size>>

(* Beside, above or below the tank on the side of d.  The registers are    *)
(* packed with a 32 bit subtraction: x = -1 sets every bit of y as well.   *)
Spawn(p, d) ==
  LET sx == CASE DX(d) = -1 -> p[1] - 1
              [] DX(d) = 1 -> p[1] + Size
              [] OTHER -> p[1] + Size \div 2
      sy == CASE DY(d) = -1 -> p[2] - 1
              [] DY(d) = 1 -> p[2] + Size
              [] OTHER -> p[2] + Size \div 2
  IN IF sx < 0 THEN <<Modulus - 1, Modulus - 1>>
     ELSE <<sx % Modulus, sy % Modulus>>

AtBottom == (y + Margin) % Modulus >= YMax
AtTop    == (y - Margin) % Modulus <= 0
AtRight  == (x + Margin) % Modulus >= XMax

(* A faulty variant of AtLeft: the unsigned distance is compared with < 0. *)
LeftBelow0 == (x - Margin) % Modulus < 0

AtLeft   == (x - Margin) % Modulus <= 0

(* Only the first border found makes the bullet turn.                      *)
NextDir ==
  CASE AtBottom -> Encode(DX(dir), -1)
    [] ~AtBottom /\ AtTop -> Encode(DX(dir), 1)
    [] ~AtBottom /\ ~AtTop /\ AtRight -> Encode(-1, DY(dir))
    [] ~AtBottom /\ ~AtTop /\ ~AtRight /\ AtLeft -> Encode(1, DY(dir))
    [] OTHER -> dir

(* The position advances by the motion before the turn.                    *)
NextX == (x + DX(dir)) % Modulus
NextY == (y + DY(dir)) % Modulus

(* A faulty variant of InTank: the coordinates are mixed up.               *)
MixedUp(p) ==
  /\ x >= p[2] /\ x < p[2] + Size
  /\ y >= p[1] /\ y < p[1] + Size

InTank(p) ==
  /\ x >= p[1] /\ x < p[1] + Size
  /\ y >= p[2] /\ y < p[2] + Size

(* ball_size in ball_check_wall is declared with one bit: it is 0.         *)
InWall(a, b) ==
  \E w \in Walls : /\ a >= w[1] /\ a <= w[1] + Size
                   /\ b >= w[2] /\ b <= w[2] + Size

FlightInit ==
  /\ tank \in Places
  /\ x = 0 /\ y = 0 /\ dir = 0
  /\ state = "none"
  /\ alive = 0
  /\ shot = <<0, 0, 0>>
  /\ corner = FALSE

Fire ==
  /\ state = "none"
  /\ \E d \in Direction :
       /\ x' = Spawn(tank, d)[1]
       /\ y' = Spawn(tank, d)[2]
       /\ dir' = d
       /\ shot' = <<Spawn(tank, d)[1], Spawn(tank, d)[2], d>>
  /\ state' = "fresh"
  /\ alive' = 1
  /\ UNCHANGED <<tank, corner>>

Fly ==
  /\ InFlight /\ alive # 0
  /\ ~InTank(tank)
  /\ ~InWall(NextX, NextY)
  /\ x' = NextX
  /\ y' = NextY
  /\ dir' = NextDir
  /\ state' = "flying"
  /\ alive' = (alive + 1) % LifeTime
  /\ corner' = (corner \/ ((AtTop \/ AtBottom) /\ (AtLeft \/ AtRight)))
  /\ UNCHANGED <<tank, shot>>

(* A bullet in a tank, or one whose next position is in a wall, is zeroed. *)
Vanish ==
  /\ InFlight /\ alive # 0
  /\ InTank(tank) \/ InWall(NextX, NextY)
  /\ x' = 0 /\ y' = 0 /\ dir' = 0
  /\ state' = "gone"
  /\ alive' = (alive + 1) % LifeTime
  /\ UNCHANGED <<tank, shot, corner>>

(* The age has wrapped: the bullet is zeroed wherever it is.               *)
Expire ==
  /\ InFlight /\ alive = 0
  /\ x' = 0 /\ y' = 0 /\ dir' = 0
  /\ state' = "expired"
  /\ alive' = 0
  /\ UNCHANGED <<tank, shot, corner>>

FlightNext == Fire \/ Fly \/ Vanish \/ Expire

FlightSpec == FlightInit /\ [][FlightNext]_flight

(* The frame clock never stops.                                            *)
FlightFairSpec == FlightSpec /\ WF_flight(Fly \/ Vanish \/ Expire)

-----------------------------------------------------------------------------
(* Properties.                                                             *)

FlightTypeOK ==
  /\ tank \in Places
  /\ x \in 0 .. Modulus - 1 /\ y \in 0 .. Modulus - 1
  /\ dir \in Direction
  /\ state \in {"none", "fresh", "flying", "gone", "expired"}
  /\ alive \in 0 .. LifeTime - 1
  /\ corner \in BOOLEAN

OnScreen == x <= XMax /\ y <= YMax

(* Fired at least a margin away from the border it is fired at.            *)
FiredInside ==
  /\ tank[1] > Margin /\ tank[1] + Size < XMax - Margin
  /\ tank[2] > Margin /\ tank[2] + Size < YMax - Margin

(* A bullet fired from inside the margins leaves the screen only after two *)
(* borders have asked for a bounce in one frame: every other bounce is     *)
(* taken, though the left and the top border are only noticed in the one   *)
(* frame in which the distance is exactly Margin (tank.sv:225-235).        *)
BouncesUnlessCorner == InFlight /\ FiredInside /\ ~corner => OnScreen

(* A bullet fired left or right stays in its row, one fired up or down     *)
(* stays in its column: it never meets a border that would turn it into a  *)
(* diagonal bullet.                                                        *)
StraightStaysStraight ==
  InFlight => /\ DY(shot[3]) = 0 => y = shot[2] /\ DY(dir) = 0
              /\ DX(shot[3]) = 0 => x = shot[1] /\ DX(dir) = 0

(* A bullet is never inside a wall except in the frame it is fired in, so  *)
(* it never crosses one.                                                   *)
NoBulletInWall == state = "flying" => ~InWall(x, y)

Straight == shot[3] \in {0, 2, 4, 6}

(* The way of a straight shot to the line it turns at ...                  *)
Gap ==
  CASE shot[3] = 0 -> shot[2] - Margin
    [] shot[3] = 2 -> shot[1] - Margin
    [] shot[3] = 4 -> YMax - Margin - shot[2]
    [] OTHER       -> XMax - Margin - shot[1]

(* ... and its age in the frame it is back in the tank: it turns one frame *)
(* late, and the tank begins one pixel behind the place it was fired at.   *)
Way == 2 * Gap + 4

(* A straight shot that is back before it is too old.                      *)
ComesBack == FiredInside /\ Straight /\ Way < LifeTime

(* A straight bullet is only taken away by its age if the way to the       *)
(* border and back is too long for it: on the screen of the code never if  *)
(* it is fired up or down, and if it is fired left or right only from 510  *)
(* pixels or more before the column it turns at.                           *)
ExpiresOnlyAfar ==
  state = "expired" /\ FiredInside /\ Straight => Way >= LifeTime

(* Where a bullet may be and when it may end: it keeps its line, is in no  *)
(* wall (tank.sv:222-240) and does not expire early (tank.sv:487-495).     *)
FlightInv ==
  /\ FlightTypeOK
  /\ StraightStaysStraight
  /\ NoBulletInWall
  /\ ExpiresOnlyAfar

(* A straight bullet fired from inside the margins, by a tank that stands  *)
(* still, ends in a wall or comes back and hits the tank that fired it,    *)
(* provided the way back is short enough for its age: a bullet fired left  *)
(* or right across most of the screen expires before it is back.           *)
StraightComesBack ==
  (InFlight /\ ComesBack) ~> (state = "gone")
=============================================================================
