-------------------------------- MODULE Gears --------------------------------
(***************************************************************************)
(* One gear (the health gear or the speed gear, which are the same         *)
(* circuit): the register of props.sv in the 50 MHz domain, the flag       *)
(* (cured in feedback.sv, speed_up in tank.sv) by which the 60 Hz frame    *)
(* domain reports that the gear was taken, and check_gears of game.c,      *)
(* which puts a new gear on the screen.                                    *)
(*                                                                         *)
(* The 32 by 32 cells of the screen are the places a gear can be in; a     *)
(* tank has its rectangle over the centre of exactly one of them.  The     *)
(* model has one row of cells.                                             *)
(***************************************************************************)
EXTENDS Integers

CONSTANTS
  Tank,      (* The tanks.                                                 *)
  Width,     (* Number of cells.                                           *)
  Far,       (* A new gear is at least this many cells from the last one:  *)
             (* REGENERATE_RADIUS in cells (60 pixels, 2 cells).           *)
  Default,   (* The cell in which game_init puts the gear.                 *)
  Home,      (* The cell every tank starts in.                             *)
  PowerUp,   (* The values the flag, which has no reset, may power up with. *)
  MaxResets  (* How often KEY[0] is pressed; a bound of the model.         *)

Cell == 0 .. Width - 1
None == Width

ASSUME CellAssumption ==
  /\ Width \in Nat /\ Far \in Nat \ {0}
  /\ Default \in Cell
  /\ Home \in [Tank -> Cell \ {Default}]
  /\ PowerUp \subseteq BOOLEAN
  /\ MaxResets \in Nat

VARIABLES
  gear,     (* The cell of the gear, None when the valid bit is 0.         *)
  flag,     (* cured or speed_up.                                          *)
  cell,     (* cell[t]: the cell tank t is over.                           *)
  last,     (* last_gear_pos of check_gears.                               *)
  ticked,   (* A CLK edge without a write came since the last frame edge.  *)
  phase,    (* "boot" before game_init, then "run".                        *)
  resets,   (* Presses of KEY[0] so far.                                   *)
  raced,    (* The flag was up when the gear was written: history.         *)
  fed       (* Frames in which the gear was given to a tank: history.      *)

hardware == <<flag, cell>>
history == <<raced, fed>>
vars == <<gear, hardware, last, ticked, phase, resets, history>>

Near(a, b) == a - b < Far /\ b - a < Far

Init ==
  /\ gear = None
  /\ flag \in PowerUp
  /\ cell = Home
  /\ last = Default
  /\ ticked = FALSE
  /\ phase = "boot"
  /\ resets = 0
  /\ raced = FALSE /\ fed = 0

-----------------------------------------------------------------------------
(* The 50 MHz domain.                                                      *)

(* A faulty variant of Clk: the flag does not clear the register.          *)
ClkKeeps ==
  /\ ticked' = TRUE
  /\ UNCHANGED <<gear, hardware, last, phase, resets, history>>

(* A CLK edge without a write to the register.                             *)
Clk ==
  /\ gear' = IF flag THEN None ELSE gear
  /\ ticked' = TRUE
  /\ UNCHANGED <<hardware, last, phase, resets, history>>

(* A CLK edge with a write: the write wins over the flag.                  *)
Written(c) ==
  /\ gear' = c
  /\ raced' = flag /\ fed' = 0
  /\ UNCHANGED <<hardware, ticked, resets>>

GameInit ==
  /\ phase = "boot"
  /\ phase' = "run"
  /\ Written(Default)
  /\ UNCHANGED last

(* check_gears found the valid bit 0; only software ever sets it, so that  *)
(* it is still 0 when the new position is written.                         *)
CheckGears ==
  /\ phase = "run"
  /\ gear = None
  /\ \E c \in Cell :
       /\ ~Near(c, last)
       /\ Written(c)
       /\ last' = c
  /\ UNCHANGED phase

-----------------------------------------------------------------------------
(* The frame domain.                                                       *)

(* to_cure and to_speed: the tanks over the gear.                          *)
Touching == {t \in Tank : cell[t] = gear}

(* Faulty variants of NextFlag: it blinks by itself, it is never cleared.  *)
FlagBlinks == ~flag
FlagSticks == flag \/ Touching # {}

NextFlag == ~flag /\ Touching # {}

(* A frame edge; thousands of CLK edges come between two of them.  A tank  *)
(* moves less than a cell.                                                 *)
Frame ==
  /\ ticked
  /\ ticked' = FALSE
  /\ flag' = NextFlag
  /\ cell' \in [Tank -> Cell]
  /\ \A t \in Tank : cell'[t] - cell[t] \in {-1, 0, 1}
  /\ fed' = IF Touching # {} THEN fed + 1 ELSE fed
  /\ UNCHANGED <<gear, last, phase, resets, raced>>

(* KEY[0]: props.sv and tank.sv clear the gear and put the tanks back, the *)
(* processor restarts with its initial data; the flag stays.               *)
Reset ==
  /\ resets < MaxResets
  /\ resets' = resets + 1
  /\ gear' = None
  /\ cell' = Home
  /\ last' = Default
  /\ phase' = "boot"
  /\ raced' = FALSE /\ fed' = 0
  /\ UNCHANGED <<flag, ticked>>

Next == Clk \/ GameInit \/ CheckGears \/ Frame \/ Reset

Spec == Init /\ [][Next]_vars

(* Both clocks run for ever, and the keyboard goes on sending reports:     *)
(* every report of a running game calls check_gears.                       *)
FairSpec ==
  Spec /\ WF_vars(Clk) /\ WF_vars(Frame) /\ WF_vars(GameInit \/ CheckGears)

-----------------------------------------------------------------------------
(* Properties.                                                             *)

TypeOK ==
  /\ gear \in Cell \union {None}
  /\ flag \in BOOLEAN
  /\ cell \in [Tank -> Cell]
  /\ last \in Cell
  /\ ticked \in BOOLEAN
  /\ phase \in {"boot", "run"}
  /\ resets \in 0 .. MaxResets
  /\ raced \in BOOLEAN /\ fed \in Nat

(* The slow flag reaches the fast register in time: a gear that was put    *)
(* there while the flag was down is given away in one frame only, and no   *)
(* gear in more than two (props.sv:44-48, feedback.sv:73-74).              *)
AtMostTwice == fed <= 2 /\ (~raced => fed <= 1)

(* What is true of the two registers and the flags in every state: with it *)
(* no gear is fed more than twice (props.sv:44-48, feedback.sv:73-74).     *)
GearsInv == TypeOK /\ AtMostTwice

(* A gear put there while the flag was down is never lost: it goes only    *)
(* after a tank has had it.                                                *)
OnlyTakenGearsGo ==
  [][(gear # None /\ ~raced /\ Clk /\ gear' = None) => fed = 1]_vars

(* "if any gear is not on screen, [...] we put a new gear on the screen"   *)
(* (game.c:680): a missing gear comes back and is then not wiped out by    *)
(* the flag, although new gears written while the flag is up are lost.     *)
GearComesBack == (gear = None) ~> (gear # None /\ ~flag)
=============================================================================
