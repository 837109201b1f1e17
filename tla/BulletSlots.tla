----------------------------- MODULE BulletSlots -----------------------------
(***************************************************************************)
(* The fire pipeline of tank_position_direction (tank.sv): the fire latch, *)
(* the slow clock counter that gives every tank one chance to shoot in     *)
(* Period frames, the search for a hole in the tank's bullet array, the    *)
(* spawning of the bullet one frame later and the aging of the bullets.    *)
(* Where a bullet is belongs to BulletFlight; here the geometry only says  *)
(* which bullets are spent, that is for which the ball module outputs 0.   *)
(*                                                                         *)
(* The counters fire_scc of the tanks are reset and advance together, so   *)
(* there is one scc; of its 8 bits the code only looks at the value modulo *)
(* fire_scc_num, a power of 2.                                             *)
(***************************************************************************)
EXTENDS Integers

CONSTANTS
  Tank,     (* The tanks.                                                  *)
  N,        (* Slots in the bullet array of a tank: ARRAY_SIZE (8).        *)
  Period,   (* fire_scc_num (16).                                          *)
  Life      (* The age counters hold 0 .. Life - 1 (1024).                 *)

ASSUME SlotAssumption == N \in Nat \ {0}
ASSUME PeriodAssumption == Period \in Nat /\ Period > 2
ASSUME LifeAssumption == Life \in Nat /\ Life > 1

Slot == 0 .. N - 1

(* hole_ind = ARRAY_SIZE: nothing is to be spawned.                        *)
NoHole == N

VARIABLES
  fire,    (* fire[t]: the trigger of t is latched.                        *)
  scc,     (* fire_scc modulo Period.                                      *)
  hole,    (* hole_ind[t]: the slot to spawn in at the next frame.         *)
  valid,   (* valid[t][s]: bit 0 of bullet_array[t][s].                    *)
  age      (* age[t][s]: alive_bullet_cnt[t][s].                           *)

vars == <<fire, scc, hole, valid, age>>

Cleared(x) == [t \in Tank |-> x]
ClearedSlots(x) == [t \in Tank |-> [s \in Slot |-> x]]

Init ==
  /\ fire = Cleared(FALSE)
  /\ scc = 0
  /\ hole = Cleared(NoHole)
  /\ valid = ClearedSlots(FALSE)
  /\ age = ClearedSlots(0)

Live(t) == {s \in Slot : valid[t][s]}
Free(t) == {s \in Slot : ~valid[t][s]}

(* A faulty variant of FirstFree: the array is not searched.               *)
AlwaysSlot0(t) == 0

FirstFree(t) == CHOOSE s \in Free(t) : \A r \in Free(t) : s <= r

(* A faulty variant of NextFire: the latch is cleared before it is used.   *)
ClearedEarly(t, pressed) ==
  scc # Period - 1 /\ (fire[t] \/ t \in pressed)

(* The latch is cleared one frame after it was looked at, also when the    *)
(* trigger is pressed in that frame.                                       *)
NextFire(t, pressed) == scc # 1 /\ (fire[t] \/ t \in pressed)

(* A faulty variant of NextHole: the counter is not looked at.             *)
HoleEveryFrame(t) ==
  IF fire[t] /\ Free(t) # {} THEN FirstFree(t) ELSE NoHole

NextHole(t) ==
  IF fire[t] /\ scc = 0 /\ Free(t) # {} THEN FirstFree(t) ELSE NoHole

(* A faulty variant of Flies: the age is not looked at.                    *)
FliesForEver(t, s) == valid[t][s]

(* A bullet in slot s flies on: it is valid, its age has not wrapped to 0. *)
Flies(t, s) == valid[t][s] /\ age[t][s] # 0

NextValid(t, s, spent) == s = hole[t] \/ (Flies(t, s) /\ s \notin spent[t])

(* A faulty variant of NextAge: a counter that never wraps.                *)
WideAge(t, s) ==
  IF s = hole[t] THEN 1 ELSE IF Flies(t, s) THEN age[t][s] + 1 ELSE 0

NextAge(t, s) ==
  IF s = hole[t] THEN 1
  ELSE IF Flies(t, s) THEN (age[t][s] + 1) % Life
  ELSE 0

(* One frame, for the set of tanks whose turret byte is 3 and for the      *)
(* slots whose next_bullet_array entry is 0 because of a hit or a wall.    *)
FrameStep(pressed, spent) ==
  /\ fire' = [t \in Tank |-> NextFire(t, pressed)]
  /\ scc' = (scc + 1) % Period
  /\ hole' = [t \in Tank |-> NextHole(t)]
  /\ valid' = [t \in Tank |-> [s \in Slot |-> NextValid(t, s, spent)]]
  /\ age' = [t \in Tank |-> [s \in Slot |-> NextAge(t, s)]]

Frame ==
  \E pressed \in SUBSET Tank :
    \E spent \in [Tank -> SUBSET Slot] :
      /\ \A t \in Tank : spent[t] \subseteq Live(t)
      /\ FrameStep(pressed, spent)

Reset ==
  /\ fire' = Cleared(FALSE)
  /\ scc' = 0
  /\ hole' = Cleared(NoHole)
  /\ valid' = ClearedSlots(FALSE)
  /\ age' = ClearedSlots(0)

Next == Frame \/ Reset

Spec == Init /\ [][Next]_vars

(* vs is generated by a free running counter: frames never stop coming.    *)
FairSpec == Spec /\ WF_vars(Frame)

-----------------------------------------------------------------------------
(* Properties.                                                             *)

TypeOK ==
  /\ fire \in [Tank -> BOOLEAN]
  /\ scc \in 0 .. Period - 1
  /\ hole \in [Tank -> Slot \union {NoHole}]
  /\ valid \in [Tank -> [Slot -> BOOLEAN]]
  /\ age \in [Tank -> [Slot -> 0 .. Life - 1]]

(* A slot that was found free is still free when the bullet is spawned in  *)
(* it one frame later: no shot ever overwrites a bullet in flight, and a   *)
(* slot is only pending in the frame after the search (tank.sv:458-509).   *)
HoleIsFree ==
  \A t \in Tank : hole[t] # NoHole => scc = 1 /\ ~valid[t][hole[t]]

(* Every tank behaves as the gun of module Gun.  While a slot is pending   *)
(* the chance will be taken; otherwise the latch decides.  This is         *)
(* \A t \in Tank : Fires(t)!Spec, written as one step formula.             *)
Fires(t) ==
  INSTANCE Gun WITH
    live  <- Live(t),
    armed <- IF scc = 1 THEN hole[t] # NoHole ELSE fire[t],
    wait  <- (Period + 1 - scc) % Period

ImplementsGun ==
  /\ \A t \in Tank : Fires(t)!Init
  /\ [][\A t \in Tank : [Fires(t)!Next]_(Fires(t)!vars)]_vars

(* Every bullet leaves the screen in the end, even one that bounces for    *)
(* ever: its age wraps to 0 and the slot is given back (tank.sv:488-494).  *)
BulletsEnd ==
  \A t \in Tank : \A s \in Slot : valid[t][s] ~> ~valid[t][s]
=============================================================================
