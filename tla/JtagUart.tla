------------------------------ MODULE JtagUart -------------------------------
(***************************************************************************)
(* The interrupt-driven driver of the JTAG UART, which carries what the    *)
(* main loop prints: altera_avalon_jtag_uart_write, the interrupt routine, *)
(* and the routine that the alarm calls every second to find out whether   *)
(* there is a host.  The program writes in blocking mode and never reads,  *)
(* so that what the host types fills the receive buffer for good.          *)
(*                                                                         *)
(* Interrupts do not nest.  The interrupt routine runs to its end before   *)
(* the writer or the clock goes on; the host goes on all the time.         *)
(***************************************************************************)
EXTENDS Integers, Sequences, Alarm

CONSTANTS
  BUF_LEN,    (* ALTERA_AVALON_JTAG_UART_BUF_LEN.                          *)
  RX_LEN,     (* The same of rx_buf: instances can differ.                 *)
  WDepth,     (* The depth of the write FIFO of the device ...             *)
  WThreshold, (* ... and the level at which it asks for more.              *)
  RDepth,     (* The depth of the read FIFO of the device ...              *)
  RThreshold, (* ... and the room in it at which it wants to be read.      *)
  Timeout,    (* sp->timeout: alarms until the host is taken to be gone.   *)
  INT_MAX,
  MaxCount    (* Bound: the longest write.                                 *)

ASSUME JtagUartAssumption ==
  /\ BUF_LEN \in Nat /\ BUF_LEN > 1 /\ RX_LEN \in Nat /\ RX_LEN > 1
  /\ WDepth \in Nat /\ WThreshold \in Nat /\ WThreshold < WDepth
  /\ RDepth \in Nat /\ RThreshold \in Nat /\ RThreshold < RDepth
  /\ Timeout \in Nat /\ Timeout > 1
  /\ INT_MAX \in Nat /\ INT_MAX >= Timeout + 2
  /\ MaxCount \in Nat /\ MaxCount > 0

MinOf(a, b) == IF a < b THEN a ELSE b

Index == 0 .. BUF_LEN - 1

(* The bytes that are written bear numbers, enough of them to tell those   *)
(* on the way from one another.                                            *)
Capacity == BUF_LEN - 1 + WDepth
Bytes == BUF_LEN * WDepth + BUF_LEN
Byte == 0 .. Bytes - 1

VARIABLES
  pc,            (* Where altera_avalon_jtag_uart_write is.                *)
  count,         (* What is left to copy.                                  *)
  out, n,        (* Its locals; here, a local that is not used any more    *)
                 (* becomes zero.                                          *)
  sent,          (* The number of the next byte to be buffered.            *)
  tx_in, tx_out, tx_buf,
  rx_count,      (* The number of bytes in rx_buf.                         *)
  re, we,        (* irq_enable, and the enable bits of the device.         *)
  isr,           (* Where the interrupt routine is.                        *)
  ri, wi, space, (* Its locals: the control register as it read it.        *)
  host_inactive,
  wfifo, rfifo,  (* The FIFOs of the device; rfifo is only a number.       *)
  pause_irq,     (* The host has paused while the read FIFO held bytes.    *)
  ac,            (* The activity bit of the device, set when the host      *)
                 (* types or pauses; that it takes a byte does not set it. *)
  quiet          (* Ticks since the host last typed or paused: history.    *)

writer == <<pc, count, out, n, sent, tx_in, tx_buf>>
control == <<isr, ri, wi, space>>
line == <<ac, quiet>>
vars == <<writer, tx_out, rx_count, re, we, control, host_inactive, wfifo,
          rfifo, pause_irq, line, clock>>

Init ==
  /\ pc = "idle" /\ count = 0 /\ out = 0 /\ n = 0 /\ sent = 0
  /\ tx_in = 0 /\ tx_out = 0 /\ tx_buf = [i \in Index |-> 0]
  /\ rx_count = 0 /\ re = TRUE /\ we = FALSE
  /\ isr = "off" /\ ri = FALSE /\ wi = FALSE /\ space = 0
  /\ host_inactive = 0
  /\ wfifo = << >> /\ rfifo = 0 /\ pause_irq = FALSE
  /\ ac \in BOOLEAN /\ quiet = 0
  /\ AlarmStart

-----------------------------------------------------------------------------
(* altera_avalon_jtag_uart_write.                                          *)

WriterStep ==
  /\ isr = "off"
  /\ UNCHANGED <<tx_out, rx_count, re, control, host_inactive, wfifo, rfifo,
                 pause_irq, line, clock>>

Write ==
  /\ pc = "idle" /\ pc' = "room"
  /\ count' \in 1 .. MaxCount
  /\ UNCHANGED <<out, n, sent, tx_in, tx_buf, we>>
  /\ WriterStep

(* A faulty variant of Room: the buffer is filled up, and looks empty.     *)
RoomToTheLast(o) == IF tx_in < o THEN o - tx_in ELSE BUF_LEN - tx_in

(* What fits in one piece when tx_out is o.                                *)
Room(o) ==
  IF tx_in < o THEN o - 1 - tx_in
  ELSE IF o > 0 THEN BUF_LEN - tx_in
  ELSE BUF_LEN - 1 - tx_in

MeasureRoom ==
  /\ pc = "room"
  /\ LET room == Room(tx_out)
     IN \/ room = 0 /\ pc' = "kick" /\ out' = tx_out /\ UNCHANGED n
        \/ room # 0 /\ pc' = "copy" /\ n' = MinOf(room, count) /\ UNCHANGED out
  /\ UNCHANGED <<count, sent, tx_in, tx_buf, we>>
  /\ WriterStep

Copy ==
  /\ pc = "copy" /\ pc' = "publish"
  /\ tx_buf' = [i \in Index |-> IF i \in tx_in .. tx_in + n - 1
                                  THEN (sent + (i - tx_in)) % Bytes
                                  ELSE tx_buf[i]]
  /\ count' = count - n
  /\ UNCHANGED <<out, n, sent, tx_in, we>>
  /\ WriterStep

Publish ==
  /\ pc = "publish" /\ pc' = IF count > 0 THEN "room" ELSE "kick"
  /\ tx_in' = (tx_in + n) % BUF_LEN
  /\ sent' = (sent + n) % Bytes
  /\ n' = 0
  /\ UNCHANGED <<count, out, tx_buf, we>>
  /\ WriterStep

(* Interrupts are off from the change of irq_enable to the write of the    *)
(* control register.                                                       *)
Kick ==
  /\ pc = "kick" /\ pc' = IF count > 0 THEN "wait" ELSE "idle"
  /\ we' = TRUE
  /\ UNCHANGED <<count, out, n, sent, tx_in, tx_buf>>
  /\ WriterStep

Waited == out # tx_out \/ host_inactive >= Timeout

StopWaiting ==
  /\ pc = "wait" /\ Waited /\ pc' = "check"
  /\ out' = 0
  /\ UNCHANGED <<count, n, sent, tx_in, tx_buf, we>>
  /\ WriterStep

(* Even when there is space again, a second without activity is enough for *)
(* the writer to return with what it has copied, or with -EIO.             *)
Check ==
  /\ pc = "check" /\ pc' = IF host_inactive # 0 THEN "idle" ELSE "room"
  /\ count' = IF host_inactive # 0 THEN 0 ELSE count
  /\ UNCHANGED <<out, n, sent, tx_in, tx_buf, we>>
  /\ WriterStep

Writer == MeasureRoom \/ Copy \/ Publish \/ Kick \/ StopWaiting \/ Check

-----------------------------------------------------------------------------
(* altera_avalon_jtag_uart_irq.                                            *)

IsrStep == UNCHANGED <<writer, host_inactive, line, clock>>

(* The read FIFO is almost full, or the host waits after what it typed.    *)
RI == re /\ (pause_irq \/ RDepth - rfifo <= RThreshold)
WI == we /\ Len(wfifo) <= WThreshold

(* The read of the control register, on which the routine ends or not.     *)
ReadControl ==
  /\ \/ isr = "off" /\ (RI \/ WI)
     \/ isr = "control"
  /\ isr' = IF RI \/ WI THEN "serve" ELSE "off"
  /\ ri' = RI /\ wi' = WI
  /\ space' = IF WI THEN WDepth - Len(wfifo) ELSE 0
  /\ UNCHANGED <<tx_out, rx_count, re, we, wfifo, rfifo, pause_irq>>
  /\ IsrStep

(* A faulty variant of StillEnabled: the receive interrupt is left on.     *)
AlwaysEnabled(k) == re

(* Receive interrupts are turned off when the buffer is full and the FIFO  *)
(* is not empty.                                                           *)
StillEnabled(k) == re /\ rfifo = k

Pending == (tx_in - tx_out) % BUF_LEN

Buffered(k) == [i \in 1 .. k |-> tx_buf[(tx_out + i - 1) % BUF_LEN]]

(* A faulty variant of MoreToSend: one pass of the routine is enough.      *)
NoMoreToSend(k) == FALSE

(* The FIFO took k bytes; there may be more.                               *)
MoreToSend(k) == k = space

(* What is in the read FIFO, as far as there is room for it (to read at   *)
(* all clears the request that the pause of the host made); and as much    *)
(* from the transmit buffer as the FIFO had room for when the register was *)
(* read.  Transmit interrupts are turned off when there was room for more. *)
Serve ==
  /\ isr = "serve" /\ isr' = "control"
  /\ LET k == IF ri THEN MinOf(rfifo, RX_LEN - 1 - rx_count) ELSE 0
     IN /\ rx_count' = rx_count + k
        /\ rfifo' = rfifo - k
        /\ re' = IF ri THEN StillEnabled(k) ELSE re
  /\ pause_irq' = (pause_irq /\ ~(ri /\ rx_count < RX_LEN - 1))
  /\ LET k == IF wi THEN MinOf(space, Pending) ELSE 0
     IN /\ wfifo' = wfifo \o Buffered(k)
        /\ tx_out' = (tx_out + k) % BUF_LEN
        /\ we' = IF wi THEN we /\ MoreToSend(k) ELSE we
  /\ ri' = FALSE /\ wi' = FALSE /\ space' = 0
  /\ IsrStep

Isr == ReadControl \/ Serve

-----------------------------------------------------------------------------
(* The clock and altera_avalon_jtag_uart_timeout.                          *)

(* A faulty variant of Longer: it does not stop.                           *)
LongerForEver(seconds) == seconds + 1

Longer(seconds) == IF seconds < INT_MAX - 2 THEN seconds + 1 ELSE seconds

CheckForHost ==
  /\ ac' = FALSE
  /\ host_inactive' = IF ac THEN 0 ELSE Longer(host_inactive)

(* Bound: quiet stops where host_inactive does.                            *)
MaxQuiet == INT_MAX * Period

Tick ==
  /\ isr = "off"
  /\ AlarmTick
  /\ quiet' = MinOf(quiet + 1, MaxQuiet)
  /\ IF Expired THEN CheckForHost ELSE UNCHANGED <<ac, host_inactive>>
  /\ UNCHANGED <<writer, tx_out, rx_count, re, we, control, wfifo, rfifo,
                 pause_irq>>

-----------------------------------------------------------------------------
(* The host, which may stop at any time, and may be active for ever        *)
(* without taking a byte.                                                  *)

Active == ac' = TRUE /\ quiet' = 0

HostStep ==
  UNCHANGED <<writer, tx_out, rx_count, re, we, control, host_inactive, clock>>

HostReceive ==
  /\ wfifo # << >> /\ wfifo' = Tail(wfifo)
  /\ UNCHANGED <<rfifo, pause_irq, line>>
  /\ HostStep

(* The device does not take what is typed when its FIFO is full.           *)
HostType ==
  /\ Active
  /\ rfifo' = MinOf(rfifo + 1, RDepth)
  /\ UNCHANGED <<wfifo, pause_irq>>
  /\ HostStep

HostPause ==
  /\ Active
  /\ pause_irq' = (pause_irq \/ rfifo > 0)
  /\ UNCHANGED <<wfifo, rfifo>>
  /\ HostStep

Next ==
  \/ Write \/ Writer \/ Isr \/ Tick
  \/ HostReceive \/ HostType \/ HostPause

Spec == Init /\ [][Next]_vars

(* The interrupts are taken, and the processor goes on.  Nothing is asked  *)
(* of the host here: WriteReturns says which hosts it is about.            *)
FairSpec ==
  /\ Spec
  /\ WF_vars(Isr) /\ WF_vars(Writer) /\ WF_vars(Tick)

-----------------------------------------------------------------------------
(* Properties.                                                             *)

TypeOK ==
  /\ pc \in {"idle", "room", "copy", "publish", "kick", "wait", "check"}
  /\ count \in 0 .. MaxCount /\ out \in Index /\ n \in 0 .. MaxCount
  /\ sent \in Byte
  /\ tx_in \in Index /\ tx_out \in Index /\ tx_buf \in [Index -> Byte]
  /\ rx_count \in 0 .. RX_LEN - 1 /\ re \in BOOLEAN /\ we \in BOOLEAN
  /\ isr \in {"off", "control", "serve"}
  /\ ri \in BOOLEAN /\ wi \in BOOLEAN /\ space \in 0 .. WDepth
  /\ host_inactive \in 0 .. INT_MAX - 2
  /\ wfifo \in Seq(Byte) /\ Len(wfifo) <= WDepth /\ rfifo \in 0 .. RDepth
  /\ pause_irq \in BOOLEAN /\ ac \in BOOLEAN /\ quiet \in 0 .. MaxQuiet
  /\ nticks \in 0 .. Wrap - 1 /\ time \in 0 .. Wrap - 1 /\ rollover \in BOOLEAN

(* What is in the transmit buffer is never forgotten: unless the writer is *)
(* about to turn it on, the transmit interrupt is on, whichever way the    *)
(* interrupt routine, which turns it off, and the writer, which turns it   *)
(* on, have met.                                                           *)
NeverForgotten ==
  Pending # 0 => we \/ pc \in {"room", "copy", "publish", "kick"}

(* host_inactive measures the silence of the host, in seconds, also where  *)
(* the tick counter starts again at zero: at most two less than there was  *)
(* of it, and never more, unless the host was active since the last alarm, *)
(* of which altera_avalon_jtag_uart_timeout will learn from the activity   *)
(* bit.                                                                    *)
MeasuresSilence ==
  /\ ~ac => host_inactive * Period <= quiet
  /\ quiet <= (host_inactive + 2) * Period \/ host_inactive = INT_MAX - 2

Queue == wfifo \o Buffered(Pending)

P == INSTANCE Pipe WITH queue <- Queue

(* The driver and the FIFO of the device implement the pipe: nothing is    *)
(* lost, doubled or overtaken between memcpy, tx_in, tx_out and the FIFO.  *)
ImplementsPipe == P!Spec

(* The hosts that make a write end: those that take bytes again and again, *)
(* and those that show no activity any more.                               *)
ReadsOrFallsSilent == []<>(Len(wfifo) <= WThreshold) \/ <>[]~ac

(* With such a host a write returns: it takes the bytes, or it is found to *)
(* be inactive, also when what it has typed fills the receive buffer.      *)
(* Exempt is the host that stays active and never takes a byte again: the  *)
(* activity keeps host_inactive at zero and the full FIFO keeps tx_out     *)
(* where it is, and altera_avalon_jtag_uart_write waits for ever.          *)
WriteReturns == ReadsOrFallsSilent => ((pc # "idle") ~> (pc = "idle"))
=============================================================================
