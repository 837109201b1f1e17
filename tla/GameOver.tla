------------------------------- MODULE GameOver -------------------------------
(***************************************************************************)
(* The health of the two tanks, which feedback.sv counts in the frame      *)
(* domain, and how main.c and draw_score_panel (game.c) read it to end the *)
(* game.  health is unsigned and wraps below zero; the software looks at   *)
(* it only while it handles a keyboard report, with one bus read after the *)
(* other (vga_ctrl is volatile), between which frames may come.            *)
(*                                                                         *)
(* The menu is reduced to the ENTER that starts the game.                  *)
(***************************************************************************)
EXTENDS Integers

CONSTANTS
  Full,       (* The health of a tank after KEY[0] (5).                    *)
  Alive,      (* A greater health is taken for one below zero (25).        *)
  Win,        (* draw_score_panel compares with this number (50).          *)
  Word,       (* health is counted modulo Word (2^32).                     *)
  Bullets,    (* How many bullets can hit a tank in one frame (16).        *)
  MaxHits,    (* Hits on each tank between two resets; a bound.            *)
  MaxGears,   (* Gears given away between two resets; a bound.             *)
  MaxResets   (* How often KEY[0] is pressed; a bound.                     *)

Tank == {0, 1}

ASSUME HealthAssumption ==
  /\ Full \in Nat \ {0} /\ Alive \in Nat /\ Win \in Nat /\ Word \in Nat
  /\ Bullets \in Nat /\ MaxHits \in Nat /\ MaxGears \in Nat
  /\ MaxResets \in Nat
  /\ Full <= Alive /\ Alive < Win
  /\ Full + MaxGears < Win
  /\ Win + MaxHits < Word

VARIABLES
  health,   (* health_attr_reg.                                            *)
  keys,     (* Whether control_reg holds a key, of any tank.               *)
  active,   (* A key has moved the tanks since they were reset: they may   *)
            (* be away from their places, and bullets in flight.           *)
  phase,    (* Where main.c is: "boot" before game_init, "menu", "poll"    *)
            (* for the next report, "check" in the test for the end,       *)
            (* "play", "panel" and "panel2" in draw_score_panel.           *)
  read,     (* Which of the four reads of the test is next.                *)
  winner,   (* What the score panel shows: the winner or NoOne.            *)
  taken,    (* taken[t]: hits on t since the last reset: history.          *)
  fed,      (* fed[t]: frames in which t got a gear since: history.        *)
  since,    (* What happened since the report arrived: history.            *)
  resets    (* Presses of KEY[0] so far.                                   *)

software == <<phase, read, winner>>
vars == <<health, keys, active, software, taken, fed, since, resets>>

NoOne == 2

(* What is left of a tank.                                                 *)
Dead(t) == taken[t] >= Full + fed[t]
Overfed(t) == Full + fed[t] - taken[t] > Alive

(* The tanks that were dead when the report arrived; those that were dead, *)
(* or had too much health, or got a gear, or whose health changed since.   *)
Nothing == [dead |-> {}, died |-> {}, over |-> {}, fed |-> {}, changed |-> {}]

Init ==
  /\ health = [t \in Tank |-> Full]
  /\ keys = FALSE
  /\ active = FALSE
  /\ phase = "boot" /\ read = 0 /\ winner = NoOne
  /\ taken = [t \in Tank |-> 0]
  /\ fed = [t \in Tank |-> 0]
  /\ since = Nothing
  /\ resets = 0

-----------------------------------------------------------------------------
(* The frame domain.                                                       *)

(* A faulty variant of NextHealth: the subtraction stops at zero.          *)
Unwrapped(h, hit, cure) == h - hit + cure

NextHealth(h, hit, cure) == (h + Word - hit + cure) % Word

One(t, S) == IF t \in S THEN 1 ELSE 0

Handling == phase \in {"check", "play", "panel", "panel2"}

(* A frame edge: hit[t] bullets are in tank t, the tanks in cured over the *)
(* health gear, which is on the screen once game_init put it there.        *)
FrameStep(hit, cured) ==
  /\ \A t \in Tank : hit[t] > 0 => active
  /\ cured # {} => active /\ phase # "boot"
  /\ health' = [t \in Tank |->
                  NextHealth(health[t], hit[t], One(t, cured))]
  /\ taken' = [t \in Tank |-> taken[t] + hit[t]]
  /\ fed' = [t \in Tank |-> fed[t] + One(t, cured)]
  /\ \A t \in Tank : taken'[t] <= MaxHits
  /\ fed'[0] + fed'[1] <= MaxGears
  /\ active' = (active \/ keys)
  /\ since' =
       IF Handling
       THEN [since EXCEPT
               !.died = @ \union {t \in Tank : Dead(t)'},
               !.over = @ \union {t \in Tank : Overfed(t)'},
               !.fed = @ \union cured,
               !.changed = @ \union cured \union {t \in Tank : hit[t] > 0}]
       ELSE Nothing
  /\ UNCHANGED <<keys, software, resets>>

Frame ==
  \E hit \in [Tank -> 0 .. Bullets], cured \in SUBSET Tank :
    FrameStep(hit, cured)

-----------------------------------------------------------------------------
(* The main loop.                                                          *)

hardware == <<health, active, taken, fed, resets>>

GameInit ==
  /\ phase = "boot"
  /\ phase' = "menu"
  /\ UNCHANGED <<hardware, keys, read, winner, since>>

(* A faulty variant of StartGame: the menu writes the keys, too.           *)
StartWithKeys ==
  /\ phase = "menu"
  /\ keys' \in BOOLEAN
  /\ phase' \in {"menu", "poll"}
  /\ UNCHANGED <<hardware, read, winner, since>>

(* ENTER in the menu.                                                      *)
StartGame ==
  /\ phase = "menu"
  /\ phase' = "poll"
  /\ UNCHANGED <<hardware, keys, read, winner, since>>

(* kbdPoll delivers a report.                                              *)
Report ==
  /\ phase = "poll"
  /\ phase' = "check"
  /\ read' = 0
  /\ since' = [Nothing EXCEPT
                 !.dead = {t \in Tank : Dead(t)},
                 !.died = {t \in Tank : Dead(t)},
                 !.over = {t \in Tank : Overfed(t)}]
  /\ UNCHANGED <<hardware, keys, winner>>

(* Faulty variants of Found: the reads in another order, no test for more  *)
(* than Alive.                                                             *)
WrapFirst(r) ==
  IF r < 2 THEN health[r] > Alive ELSE health[r - 2] = 0
ZeroOnly(r) ==
  r < 2 /\ health[r] = 0

(* health[0] == 0 || health[1] == 0 || health[0] > 25 || health[1] > 25    *)
Found(r) ==
  IF r < 2 THEN health[r] = 0 ELSE health[r - 2] > Alive

Check ==
  /\ phase = "check"
  /\ phase' = IF Found(read) THEN "panel"
              ELSE IF read = 3 THEN "play"
              ELSE "check"
  /\ read' = IF ~Found(read) /\ read < 3 THEN read + 1 ELSE 0
  /\ UNCHANGED <<hardware, keys, winner, since>>

(* check_gears, draw_wall and draw_status_bars, then ramsetctl.            *)
Play ==
  /\ phase = "play"
  /\ keys' \in BOOLEAN
  /\ phase' = "poll"
  /\ since' = Nothing
  /\ UNCHANGED <<hardware, read, winner>>

(* draw_score_panel: health[0] < 50 && health[0] > 0, again in two reads.  *)
Panel ==
  /\ phase = "panel"
  /\ IF health[0] < Win
     THEN phase' = "panel2" /\ UNCHANGED <<winner, since>>
     ELSE phase' = "poll" /\ winner' = 1 /\ since' = Nothing
  /\ UNCHANGED <<hardware, keys, read>>

(* A faulty variant of Panel2: the second half of the test is forgotten.   *)
LeftWins ==
  /\ phase = "panel2"
  /\ winner' = 0
  /\ phase' = "poll"
  /\ since' = Nothing
  /\ UNCHANGED <<hardware, keys, read>>

Panel2 ==
  /\ phase = "panel2"
  /\ winner' = IF health[0] > 0 THEN 0 ELSE 1
  /\ phase' = "poll"
  /\ since' = Nothing
  /\ UNCHANGED <<hardware, keys, read>>

(* KEY[0]: control_reg has no reset.                                       *)
Reset ==
  /\ resets < MaxResets
  /\ resets' = resets + 1
  /\ health' = [t \in Tank |-> Full]
  /\ taken' = [t \in Tank |-> 0]
  /\ fed' = [t \in Tank |-> 0]
  /\ active' = FALSE
  /\ phase' = "boot" /\ read' = 0 /\ winner' = NoOne
  /\ since' = Nothing
  /\ UNCHANGED keys

Next ==
  \/ Frame \/ Reset
  \/ GameInit \/ StartGame \/ Report \/ Check \/ Play \/ Panel \/ Panel2

Spec == Init /\ [][Next]_vars

(* The processor goes on, and in a game that is not over the players go on *)
(* pressing and releasing keys, so that reports keep coming.               *)
FairSpec ==
  Spec /\ WF_vars(Report \/ Check \/ Play \/ Panel \/ Panel2)

-----------------------------------------------------------------------------
(* Properties.                                                             *)

TypeOK ==
  /\ health \in [Tank -> 0 .. Word - 1]
  /\ keys \in BOOLEAN /\ active \in BOOLEAN
  /\ phase \in {"boot", "menu", "poll", "check", "play", "panel", "panel2"}
  /\ read \in 0 .. 3
  /\ winner \in Tank \union {NoOne}
  /\ taken \in [Tank -> 0 .. MaxHits]
  /\ fed \in [Tank -> 0 .. MaxGears]
  /\ since \in [dead : SUBSET Tank, died : SUBSET Tank, over : SUBSET Tank,
                fed : SUBSET Tank, changed : SUBSET Tank]
  /\ resets \in 0 .. MaxResets

(* Until KEY[0] is pressed the game starts with two tanks of full health:  *)
(* no key is written, and so no bullet fired, before.                      *)
FirstGameIsFair ==
  resets = 0 /\ phase \in {"boot", "menu"} => \A t \in Tank : health[t] = Full

(* A tank that was dead when the report arrived is found dead by the four  *)
(* reads, whatever hits it meanwhile, unless it gets a gear: no key is     *)
(* written for it.  That the test for zero comes before the test for a     *)
(* wrapped health matters (main.c:216-227).                                *)
DeadDoNotSteer == [][Play => since.dead \subseteq since.fed]_vars

(* The tank the panel calls the loser was dead while the report was        *)
(* handled, as long as the health of tank 0 does not change between the    *)
(* reads and no tank has more than Alive (main.c:216, game.c:419).         *)
LoserWasDead ==
  [][(Panel \/ Panel2) /\ phase' = "poll" =>
       \/ 1 - winner' \in since.died
       \/ 0 \in since.changed
       \/ since.over # {}]_vars

(* A dead tank that gets no gear is noticed: the panel is shown, unless    *)
(* KEY[0] is pressed.                                                      *)
DeathIsShown ==
  \A t \in Tank :
    (phase = "poll" /\ Dead(t)) ~> (winner # NoOne \/ ~Dead(t))
=============================================================================
