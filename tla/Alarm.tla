------------------------------- MODULE Alarm ---------------------------------
(***************************************************************************)
(* The system clock of the board support package and the one alarm that    *)
(* is registered with it: alt_alarm_start and what alt_tick does for an    *)
(* alarm whose callback asks for the same delay every time.                *)
(***************************************************************************)
EXTENDS Integers

CONSTANTS
  Period,   (* alt_ticks_per_second().                                     *)
  Wrap,     (* The values of alt_u32.                                      *)
  BootTicks (* The ticks of the clock before the alarm is started.         *)

ASSUME AlarmAssumption ==
  /\ Period \in Nat /\ Period > 0
  /\ Wrap \in Nat /\ Wrap > Period + 1
  /\ BootTicks \in 0 .. Wrap - 1

VARIABLES
  nticks,   (* _alt_nticks.                                                *)
  time,     (* alarm->time.                                                *)
  rollover  (* alarm->rollover: time lies behind the next zero of nticks.  *)

clock == <<nticks, time, rollover>>

AlarmStart ==
  /\ nticks = BootTicks
  /\ time = (Period + nticks + 1) % Wrap
  /\ rollover = (time < nticks)

Now == (nticks + 1) % Wrap

Waiting == rollover /\ Now # 0

(* A faulty variant of Expired: the flag is not looked at.                 *)
ExpiredUnflagged == time <= Now

(* The callback is made at this tick.                                      *)
Expired == time <= Now /\ ~Waiting

AlarmTick ==
  /\ nticks' = Now
  /\ \/ /\ Expired
        /\ time' = (time + Period) % Wrap
        /\ rollover' = (time' < Now)
     \/ /\ ~Expired
        /\ rollover' = Waiting
        /\ UNCHANGED time
=============================================================================
