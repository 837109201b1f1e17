------------------------------- MODULE Reports -------------------------------
(***************************************************************************)
(* What polling a keyboard promises: while it is polled the reports that   *)
(* it makes reach the main loop in order, none lost and none twice, until  *)
(* a transfer is given up while the controller still works on it.  With    *)
(* another keyboard all starts anew, and what the old one had to say is    *)
(* dropped.                                                                *)
(***************************************************************************)
EXTENDS Naturals

VARIABLES
  made,     (* Reports made so far; they are numbered.                     *)
  taken,    (* The number of the report the main loop had last.            *)
  polling,  (* The keyboard is polled.                                     *)
  trusted   (* No transfer has been given up since the controller's reset. *)

vars == <<made, taken, polling, trusted>>

Init == made = 0 /\ taken = 0 /\ polling = FALSE /\ trusted = TRUE

Make == made' = made + 1 /\ UNCHANGED <<taken, polling, trusted>>

Begin == polling' = TRUE /\ UNCHANGED <<made, taken, trusted>>

Take ==
  /\ polling /\ taken < made
  /\ taken' = taken + 1
  /\ UNCHANGED <<made, polling, trusted>>

Replug ==
  /\ taken' = made
  /\ polling' = FALSE
  /\ trusted' \in {trusted, TRUE}
  /\ UNCHANGED made

GiveUp ==
  /\ trusted' = FALSE
  /\ polling' \in {polling, TRUE}
  /\ UNCHANGED <<made, taken>>

LoseOrRepeat ==
  /\ ~trusted
  /\ taken' \in 0 .. made
  /\ UNCHANGED <<made, polling, trusted>>

Next == Make \/ Begin \/ Take \/ Replug \/ GiveUp \/ LoseOrRepeat

Spec == Init /\ [][Next]_vars
=============================================================================
