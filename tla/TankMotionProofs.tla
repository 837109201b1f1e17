--------------------------- MODULE TankMotionProofs ---------------------------
(***************************************************************************)
(* Proofs about TankMotion for every field, tank size, speed limit and set *)
(* of wall layouts that its assumptions allow.                             *)
(***************************************************************************)
EXTENDS TankMotion, TLAPS

(* A register that moves by at most MaxSpeed stays a register.             *)
LEMMA WrapRange ==
  ASSUME NEW v \in Int, 0 - MaxSpeed <= v, v < Modulus + MaxSpeed
  PROVE  Wrap(v) \in Register
BY GeometryAssumption DEF Wrap, Register

(* A speed gear keeps the speed in its range.                              *)
LEMMA FasterRange ==
  ASSUME NEW s \in 1 .. MaxSpeed
  PROVE  Faster(s) \in 1 .. MaxSpeed
BY GeometryAssumption DEF Faster

(* The place a key asks for is a position the registers can hold.          *)
LEMMA TargetType ==
  ASSUME TypeOK, NEW t \in Tank
  PROVE  Target(t) \in Position
<1> DEFINE x == pos[t][1]
           y == pos[t][2]
           s == speed[t]
<1>1. x \in Register /\ y \in Register /\ s \in 1 .. MaxSpeed /\ key[t] \in 0 .. 4
  BY DEF TypeOK, Position
<1>2. /\ Wrap(x - s) \in Register /\ Wrap(x + s) \in Register
      /\ Wrap(y - s) \in Register /\ Wrap(y + s) \in Register
  <2>1. /\ x - s \in Int /\ 0 - MaxSpeed <= x - s /\ x - s < Modulus + MaxSpeed
        /\ x + s \in Int /\ 0 - MaxSpeed <= x + s /\ x + s < Modulus + MaxSpeed
    BY <1>1, GeometryAssumption DEF Register
  <2>2. /\ y - s \in Int /\ 0 - MaxSpeed <= y - s /\ y - s < Modulus + MaxSpeed
        /\ y + s \in Int /\ 0 - MaxSpeed <= y + s /\ y + s < Modulus + MaxSpeed
    BY <1>1, GeometryAssumption DEF Register
  <2> HIDE DEF x, y, s
  <2>3. QED BY <2>1, <2>2, WrapRange
<1>3. pos[t] \in Position
  BY DEF TypeOK
<1>4. QED
  BY <1>1, <1>2, <1>3 DEF Target, Position

(* The registers keep their ranges.                                        *)
THEOREM TypeCorrect == Spec => []TypeOK
<1>1. Init => TypeOK
  BY GeometryAssumption, StartAssumption, ResetAssumption
     DEF Init, TypeOK, Ghost, Position, Register
<1>2. TypeOK /\ [Next]_vars => TypeOK'
  <2> SUFFICES ASSUME TypeOK, [Next]_vars PROVE TypeOK'
    OBVIOUS
  <2>1. CASE Frame
    <3>1. pos' \in [Tank -> Position]
      BY <2>1, TargetType DEF Frame, TypeOK
    <3>2. speed' \in [Tank -> 1 .. MaxSpeed]
      BY <2>1, FasterRange DEF Frame, TypeOK
    <3>3. QED BY <2>1, <3>1, <3>2 DEF Frame, TypeOK
  <2>2. CASE GameInit
    BY <2>2, GeometryAssumption DEF GameInit, TypeOK, Ghost, Position, Register
  <2>3. CASE StartGame
    BY <2>3, LayoutAssumption DEF StartGame, TypeOK
  <2>4. CASE DrawWall
    BY <2>4 DEF DrawWall, TypeOK
  <2>5. CASE WriteControl
    BY <2>5 DEF WriteControl, TypeOK
  <2>6. CASE Reset
    BY <2>6, GeometryAssumption, StartAssumption, ResetAssumption
       DEF Reset, TypeOK
  <2>7. CASE UNCHANGED vars
    BY <2>7 DEF vars, TypeOK
  <2>8. QED
    BY <2>1, <2>2, <2>3, <2>4, <2>5, <2>6, <2>7 DEF Next
<1>3. QED BY <1>1, <1>2, PTL DEF Spec

(* No tank is ever off the screen.                                         *)
THEOREM FieldSafe == Spec => []InField
<1>1. Init => InField
  BY StartAssumption DEF Init, InField
<1>2. TypeOK /\ InField /\ [Next]_vars => InField'
  <2> SUFFICES ASSUME TypeOK, InField, [Next]_vars PROVE InField'
    OBVIOUS
  <2>1. CASE Frame
    <3> SUFFICES ASSUME NEW t \in Tank
                 PROVE  pos'[t][1] <= XLast /\ pos'[t][2] <= YLast
      BY DEF InField
    <3>1. CASE Stops(Target(t))
      BY <2>1, <3>1 DEF Frame, InField
    <3>2. CASE ~Stops(Target(t))
      <4>1. pos'[t] = Target(t)
        BY <2>1, <3>2 DEF Frame
      <4>2. ~OutOfBounds(Target(t))
        BY <3>2 DEF Stops
      <4>3. Target(t)[1] \in Int /\ Target(t)[2] \in Int
        BY TargetType DEF Position, Register
      <4>4. QED BY <4>1, <4>2, <4>3, GeometryAssumption DEF OutOfBounds
    <3>3. QED BY <3>1, <3>2
  <2>2. CASE GameInit \/ StartGame \/ DrawWall \/ WriteControl \/ UNCHANGED vars
    BY <2>2 DEF GameInit, StartGame, DrawWall, WriteControl, vars, InField
  <2>3. CASE Reset
    BY <2>3, StartAssumption DEF Reset, InField
  <2>4. QED BY <2>1, <2>2, <2>3 DEF Next
<1>3. QED BY <1>1, <1>2, TypeCorrect, PTL DEF Spec

(***************************************************************************)
(* ClearBeforeReset is not inductive: DrawWall may put a wall anywhere in  *)
(* the layout.  What saves the tanks is that they have not moved yet.      *)
(***************************************************************************)

(* Before the first reset, as long as walls are still to be drawn, no key  *)
(* was ever written and every tank stands where it started.                *)
Parked ==
  resets = 0 /\ (phase = "game" => ~(layout \subseteq walls))
    => \A t \in Tank : pos[t] = Start[t] /\ key[t] = 0

(* Before the first reset the walls are the ghost and walls of the layout. *)
Drawn ==
  resets = 0 =>
    /\ walls \subseteq {Ghost} \union layout
    /\ layout \in Layouts \union {{}}
    /\ phase # "game" => layout = {}

WallInv == ClearBeforeReset /\ Parked /\ Drawn

(* Only a tank whose key is down changes its place in a frame.             *)
LEMMA NoKeyNoMove ==
  ASSUME TypeOK, Frame, NEW t \in Tank, key[t] = 0
  PROVE  pos'[t] = pos[t]
BY DEF Frame, Target

(* Every wall a layout can hold is clear of every starting tank.           *)
LEMMA StartsClear ==
  ASSUME NEW L \in Layouts \union {{}}, NEW w \in {Ghost} \union L,
         NEW t \in Tank
  PROVE  ~Overlap(Start[t], w)
BY StartAssumption, LayoutAssumption

(* Until the first reset no tank ever stands in a wall.                    *)
THEOREM WallSafe == Spec => []ClearBeforeReset
<1>1. Init => WallInv
  <2> SUFFICES ASSUME Init PROVE WallInv
    OBVIOUS
  <2>1. Parked /\ Drawn
    BY DEF Init, Parked, Drawn
  <2>2. ClearBeforeReset
    BY StartAssumption DEF Init, ClearBeforeReset, ClearOfWalls
  <2>3. QED BY <2>1, <2>2 DEF WallInv
<1>2. TypeOK /\ WallInv /\ [Next]_vars => WallInv'
  <2> SUFFICES ASSUME TypeOK, WallInv, [Next]_vars PROVE WallInv'
    OBVIOUS
  <2> USE DEF WallInv
  <2>1. CASE Frame
    <3>1. Drawn'
      BY <2>1 DEF Frame, Drawn
    <3>2. Parked'
      BY <2>1, NoKeyNoMove DEF Frame, Parked
    <3>3. ClearBeforeReset'
      <4> SUFFICES ASSUME resets' = 0, NEW t \in Tank, NEW w \in walls'
                   PROVE  ~Overlap(pos'[t], w)
        BY DEF ClearBeforeReset, ClearOfWalls
      <4>1. resets = 0 /\ w \in walls
        BY <2>1 DEF Frame
      <4>2. CASE Stops(Target(t))
        BY <2>1, <4>1, <4>2 DEF Frame, ClearBeforeReset, ClearOfWalls
      <4>3. CASE ~Stops(Target(t))
        BY <2>1, <4>1, <4>3 DEF Frame, Stops
      <4>4. QED BY <4>2, <4>3
    <3>4. QED BY <3>1, <3>2, <3>3
  <2>2. CASE GameInit
    <3>1. Parked' /\ Drawn'
      BY <2>2 DEF GameInit, Parked, Drawn
    <3>2. ClearBeforeReset'
      BY <2>2, StartAssumption
         DEF GameInit, Parked, ClearBeforeReset, ClearOfWalls
    <3>3. QED BY <3>1, <3>2
  <2>3. CASE StartGame
    <3>1. Parked' /\ ClearBeforeReset'
      BY <2>3 DEF StartGame, Parked, ClearBeforeReset, ClearOfWalls
    <3>2. Drawn'
      BY <2>3 DEF StartGame, Drawn
    <3>3. QED BY <3>1, <3>2
  <2>4. CASE DrawWall
    <3>1. Drawn'
      BY <2>4 DEF DrawWall, Drawn
    <3>2. resets = 0 => \A t \in Tank : pos[t] = Start[t] /\ key[t] = 0
      BY <2>4 DEF DrawWall, Parked
    <3>3. Parked'
      BY <2>4, <3>2 DEF DrawWall, Parked
    <3>4. ClearBeforeReset'
      BY <2>4, <3>1, <3>2, StartsClear
         DEF DrawWall, Drawn, ClearBeforeReset, ClearOfWalls
    <3>5. QED BY <3>1, <3>3, <3>4
  <2>5. CASE WriteControl
    BY <2>5 DEF WriteControl, Parked, Drawn, ClearBeforeReset, ClearOfWalls
  <2>6. CASE Reset
    <3>1. resets' # 0
      BY <2>6 DEF Reset, TypeOK
    <3>2. QED BY <3>1 DEF Parked, Drawn, ClearBeforeReset
  <2>7. CASE UNCHANGED vars
    BY <2>7 DEF vars, Parked, Drawn, ClearBeforeReset, ClearOfWalls
  <2>8. QED
    BY <2>1, <2>2, <2>3, <2>4, <2>5, <2>6, <2>7 DEF Next
<1>3. WallInv => ClearBeforeReset
  BY DEF WallInv
<1>4. QED BY <1>1, <1>2, <1>3, TypeCorrect, PTL DEF Spec

(***************************************************************************)
(* No tunnelling: a move is straight and shorter than a wall and a tank,   *)
(* so a wall that is clear of both its ends is clear of all of it.         *)
(***************************************************************************)

(* A step along one axis that is shorter than a tank and a wall.           *)
ShortStep(p, q) ==
  \/ p[2] = q[2] /\ p[1] - q[1] < 2 * Size /\ q[1] - p[1] < 2 * Size
  \/ p[1] = q[1] /\ p[2] - q[2] < 2 * Size /\ q[2] - p[2] < 2 * Size

(* A wall clear of both ends of a short step is clear of its whole path.   *)
LEMMA PathClear ==
  ASSUME NEW p \in Position, NEW q \in Position, NEW w \in Position,
         NEW r \in Between(p, q),
         ShortStep(p, q), ~Overlap(p, w), ~Overlap(q, w)
  PROVE  ~Overlap(r, w)
<1>1. /\ p[1] \in Int /\ p[2] \in Int /\ q[1] \in Int /\ q[2] \in Int
      /\ w[1] \in Int /\ w[2] \in Int /\ r[1] \in Int /\ r[2] \in Int
  BY GeometryAssumption DEF Position, Register, Between
<1>2. /\ \/ p[1] <= r[1] /\ r[1] <= q[1]
         \/ q[1] <= r[1] /\ r[1] <= p[1]
      /\ \/ p[2] <= r[2] /\ r[2] <= q[2]
         \/ q[2] <= r[2] /\ r[2] <= p[2]
  BY DEF Between
<1>3. CASE p[2] = q[2] /\ p[1] - q[1] < 2 * Size /\ q[1] - p[1] < 2 * Size
  BY <1>1, <1>2, <1>3, GeometryAssumption DEF Overlap
<1>4. CASE p[1] = q[1] /\ p[2] - q[2] < 2 * Size /\ q[2] - p[2] < 2 * Size
  BY <1>1, <1>2, <1>4, GeometryAssumption DEF Overlap
<1>5. QED BY <1>3, <1>4 DEF ShortStep

(* A key whose move is not refused moves the tank by one short step: a     *)
(* move that wraps around ends out of bounds.                              *)
LEMMA AcceptedStep ==
  ASSUME TypeOK, InField, NEW t \in Tank, ~OutOfBounds(Target(t))
  PROVE  ShortStep(pos[t], Target(t))
<1> DEFINE x == pos[t][1]
           y == pos[t][2]
           s == speed[t]
<1>1. /\ pos[t] \in Position /\ x \in Int /\ y \in Int /\ s \in Int
      /\ 0 <= x /\ x <= XLast /\ 0 <= y /\ y <= YLast
      /\ 1 <= s /\ s <= MaxSpeed
  BY GeometryAssumption DEF TypeOK, InField, Position, Register
<1>2. CASE key[t] = 1
  <2>1. Target(t) = <<Wrap(x - s), y>>
    BY <1>2 DEF Target
  <2>2. Wrap(x - s) = x - s
    <3>1. ~(Wrap(x - s) > XLast)
      BY <2>1 DEF OutOfBounds
    <3>2. QED BY <1>1, <3>1, GeometryAssumption DEF Wrap
  <2>3. QED BY <1>1, <2>1, <2>2, GeometryAssumption DEF ShortStep
<1>3. CASE key[t] = 2
  <2>1. Target(t) = <<x, Wrap(y + s)>>
    BY <1>3 DEF Target
  <2>2. Wrap(y + s) = y + s
    BY <1>1, GeometryAssumption DEF Wrap
  <2>3. QED BY <1>1, <2>1, <2>2, GeometryAssumption DEF ShortStep
<1>4. CASE key[t] = 3
  <2>1. Target(t) = <<x, Wrap(y - s)>>
    BY <1>4 DEF Target
  <2>2. Wrap(y - s) = y - s
    <3>1. ~(Wrap(y - s) > YLast)
      BY <2>1 DEF OutOfBounds
    <3>2. QED BY <1>1, <3>1, GeometryAssumption DEF Wrap
  <2>3. QED BY <1>1, <2>1, <2>2, GeometryAssumption DEF ShortStep
<1>5. CASE key[t] = 4
  <2>1. Target(t) = <<Wrap(x + s), y>>
    BY <1>5 DEF Target
  <2>2. Wrap(x + s) = x + s
    BY <1>1, GeometryAssumption DEF Wrap
  <2>3. QED BY <1>1, <2>1, <2>2, GeometryAssumption DEF ShortStep
<1>6. CASE key[t] \notin {1, 2, 3, 4}
  <2>1. Target(t) = pos[t]
    BY <1>6 DEF Target
  <2>2. QED BY <1>1, <2>1, GeometryAssumption DEF ShortStep
<1>7. QED BY <1>2, <1>3, <1>4, <1>5, <1>6

(* A frame carries no tank through a wall.                                 *)
THEOREM PathSafe == Spec => NoTunnelling
<1> DEFINE Safe == Frame =>
       \A t \in Tank :
         (\A w \in walls : ~Overlap(pos[t], w))
           => \A r \in Between(pos[t], pos'[t]) :
                \A w \in walls : ~Overlap(r, w)
<1>1. TypeOK /\ InField => Safe
  <2> SUFFICES ASSUME TypeOK, InField, Frame, NEW t \in Tank,
                      \A v \in walls : ~Overlap(pos[t], v),
                      NEW r \in Between(pos[t], pos'[t]), NEW w \in walls
               PROVE  ~Overlap(r, w)
    OBVIOUS
  <2>1. pos[t] \in Position /\ w \in Position /\ Target(t) \in Position
    BY TargetType DEF TypeOK
  <2>2. CASE Stops(Target(t))
    <3>1. pos'[t] = pos[t]
      BY <2>2 DEF Frame
    <3>2. ShortStep(pos[t], pos[t])
      BY <2>1, GeometryAssumption DEF ShortStep, Position, Register
    <3>3. QED BY <2>1, <3>1, <3>2, PathClear
  <2>3. CASE ~Stops(Target(t))
    <3>1. pos'[t] = Target(t)
      BY <2>3 DEF Frame
    <3>2. ~OutOfBounds(Target(t)) /\ ~Overlap(Target(t), w)
      BY <2>3 DEF Stops
    <3>3. ShortStep(pos[t], Target(t))
      BY <3>2, AcceptedStep
    <3>4. QED BY <2>1, <3>1, <3>2, <3>3, PathClear
  <2>4. QED BY <2>2, <2>3
<1>2. QED BY <1>1, TypeCorrect, FieldSafe, PTL DEF NoTunnelling
=============================================================================
