--------------------------------- MODULE Gun ---------------------------------
(***************************************************************************)
(* What the fire logic of tank.sv promises of one tank, without the        *)
(* two-frame pipeline that finds a slot and the counters that age bullets: *)
(* one chance to shoot every Period frames, taken if the trigger was       *)
(* latched before the gun aims and a slot is free then; a shot never takes *)
(* the slot of a bullet in flight; bullets may leave at any frame.         *)
(***************************************************************************)
EXTENDS Integers

CONSTANTS
  Slot,    (* The slots of the tank's bullet array.                        *)
  Period   (* Frames between two chances to shoot.                         *)

VARIABLES
  live,    (* The slots of the bullets in flight.                          *)
  armed,   (* Whether the next chance will be taken.                       *)
  wait     (* Frames until the next chance.                                *)

vars == <<live, armed, wait>>

Init == live = {} /\ armed = FALSE /\ wait = 1

Countdown == wait' = (wait + Period - 1) % Period

(* The trigger may be latched, and once latched stays so.                  *)
Carry ==
  /\ wait \notin {0, 1}
  /\ Countdown
  /\ armed' \in {armed, TRUE}
  /\ live' \in SUBSET live

(* The last frame before the chance: with no free slot it will be missed.  *)
Aim ==
  /\ wait = 1
  /\ Countdown
  /\ armed' = (armed /\ live # Slot)
  /\ live' \in SUBSET live

Shoot ==
  /\ wait = 0
  /\ armed
  /\ Countdown
  /\ armed' = FALSE
  /\ \E s \in Slot \ live : \E left \in SUBSET live : live' = left \union {s}

HoldFire ==
  /\ wait = 0
  /\ ~armed
  /\ Countdown
  /\ armed' = FALSE
  /\ live' \in SUBSET live

Reset == live' = {} /\ armed' = FALSE /\ wait' = 1

Next == Carry \/ Aim \/ Shoot \/ HoldFire \/ Reset

Spec == Init /\ [][Next]_vars
=============================================================================
