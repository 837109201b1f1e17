----------------------------- MODULE UsbTransfer -----------------------------
(***************************************************************************)
(* The transfers of the USB host, packet by packet: XferDispatchPkt with   *)
(* its retries, the control transfers and XferInTransfer on top of it, and *)
(* the calls in the order in which the HID probe and the main loop make    *)
(* them.  The MAX3421E controller and a keyboard are the other side;       *)
(* packets and handshakes are lost, and the controller may be late.        *)
(***************************************************************************)
EXTENDS Integers, Sequences

CONSTANTS
  NakLimit,   (* USB_NAK_LIMIT, 200.                                       *)
  RetryLimit, (* USB_RETRY_LIMIT, 3.                                       *)
  Packets,    (* Packets of the configuration descriptor.                  *)
  MaxReports, (* Reports the keyboard makes; a bound of the model.         *)
  MaxSlow     (* Transfers the controller is late with; a bound.           *)

ASSUME TransferAssumption ==
  /\ NakLimit \in Nat \ {0} /\ RetryLimit \in Nat \ {0} /\ Packets \in Nat \ {0}
  /\ MaxReports \in Nat /\ MaxSlow \in Nat

VARIABLES
  call,    (* The call being made, "Failed" when the probe gave up.        *)
  stage,   (* "idle" between calls, or the packet that is dispatched.      *)
  nak,     (* nak_count.                                                   *)
  retry,   (* retry_count.                                                 *)
  saved,   (* epinfo[ep].rcvToggle for the endpoints 0 and 1.              *)
  got,     (* The packets read by the current or last transfer.            *)
  done,    (* HXFRDNIRQ.                                                   *)
  hrsl,    (* The result field of HRSL.                                    *)
  rcvtog,  (* The receive toggle of the controller, RCVTOGRD.              *)
  rcvdav,  (* RCVDAVIRQ.                                                   *)
  fifo,    (* The packet in RCVFIFO.                                       *)
  flight,  (* The packet on its way, as <<stage, call>>, or NoFlight.       *)
  dtog,    (* The device's data toggles for its endpoints 0 and 1.         *)
  dpos,    (* The packet the device sends next in the current request.     *)
  made,    (* Reports the keyboard has made.                               *)
  head,    (* The report it sends next.                                    *)
  last,    (* The report that main had last: history.                      *)
  slow,    (* Transfers the controller was late with so far.               *)
  broken   (* One of them since the last reset of the controller: history. *)

software == <<call, stage, nak, retry, saved, got>>
chip == <<done, hrsl, rcvtog, rcvdav, fifo, flight>>
keyboard == <<dtog, dpos, made, head>>
history == <<last, slow, broken>>
vars == <<software, chip, keyboard, history>>

Calls == {"GetConf", "SetConf", "SetProto", "GetIdle", "GetProto", "Poll"}
Reads == {"GetConf", "GetIdle", "GetProto"}   (* Control calls with data.  *)
Stages == {"SETUP", "IN", "OUTHS", "INHS"}

Size(c) == IF c = "GetConf" THEN Packets ELSE 1
Endpoint(c) == IF c = "Poll" THEN 1 ELSE 0
NoPacket == <<"none", 0>>
NoFlight == <<>>

Init ==
  /\ call = "GetConf" /\ stage = "idle" /\ nak = 0 /\ retry = 0
  /\ saved = [ep \in 0 .. 1 |-> 0] /\ got = <<>>
  /\ done = FALSE /\ hrsl = "OK" /\ rcvtog = 0 /\ rcvdav = FALSE
  /\ fifo = NoPacket /\ flight = NoFlight
  /\ dtog = [ep \in 0 .. 1 |-> 0] /\ dpos = 1
  /\ made = 0 /\ head = 1
  /\ last = 0 /\ slow = 0 /\ broken = FALSE

-----------------------------------------------------------------------------
(* The device and the controller.                                          *)

MakeReport ==
  /\ made < MaxReports
  /\ made' = made + 1
  /\ UNCHANGED <<software, chip, dtog, dpos, head, history>>

(* What the endpoint has to send to the request c.                         *)
Packet(c) == IF c = "Poll" THEN <<c, head>> ELSE <<c, dpos>>
HasPacket(c) == IF c = "Poll" THEN head <= made ELSE dpos <= Size(c)

(* The device takes note of a handshake: on to the next packet.            *)
Acknowledged(c) ==
  /\ dtog' = [dtog EXCEPT ![Endpoint(c)] = 1 - @]
  /\ IF c = "Poll" THEN head' = head + 1 /\ UNCHANGED dpos
                   ELSE dpos' = dpos + 1 /\ UNCHANGED head
  /\ UNCHANGED made

(* A control transfer starts with DATA1, and the keyboard with DATA0 when  *)
(* it is given a configuration.                                            *)
Commanded(c) ==
  /\ dtog' = [ep \in 0 .. 1 |-> IF ep = 0 THEN 1 ELSE IF c = "SetConf" THEN 0 ELSE dtog[1]]
  /\ dpos' = 1
  /\ UNCHANGED <<made, head>>

(* The packet has run its course with the result r.                        *)
Result(r) == done' = TRUE /\ hrsl' = r /\ flight' = NoFlight

(* Nothing came back: lost either way.                                     *)
Lost ==
  /\ Result("TIMEOUT")
  /\ UNCHANGED <<rcvtog, rcvdav, fifo, keyboard>>

(* A device that is not ready, or does not know the request.               *)
Refused(c) ==
  /\ \/ Result("NAK") /\ (c = "Poll" => ~HasPacket(c))
     \/ Result("STALL") /\ c # "Poll"
  /\ UNCHANGED <<rcvtog, rcvdav, fifo, keyboard>>

(* The device has the SETUP packet or the handshake, and its answer        *)
(* reaches the controller or not.                                          *)
Sent(s, c) ==
  /\ s # "IN"
  /\ Result("OK") \/ Result("TIMEOUT")
  /\ IF s = "SETUP" THEN Commanded(c) ELSE UNCHANGED keyboard
  /\ UNCHANGED <<rcvtog, rcvdav, fifo>>

(* Data with the toggle that is expected goes into the FIFO; with the      *)
(* other one it is the last packet once more, acknowledged and dropped.    *)
(* The acknowledgement reaches the device or not.                          *)
Received(s, c) ==
  /\ s = "IN" /\ HasPacket(c)
  /\ IF dtog[Endpoint(c)] = rcvtog
       THEN Result("OK") /\ rcvtog' = 1 - rcvtog /\ rcvdav' = TRUE /\ fifo' = Packet(c)
       ELSE Result("TOGERR") /\ UNCHANGED <<rcvtog, rcvdav, fifo>>
  /\ Acknowledged(c) \/ UNCHANGED keyboard

(* A packet completes, perhaps after the host has given it up.             *)
Complete ==
  /\ flight # NoFlight
  /\ LET s == flight[1]  c == flight[2]
     IN Lost \/ Refused(c) \/ Sent(s, c) \/ Received(s, c)
  /\ UNCHANGED <<software, history>>

-----------------------------------------------------------------------------
(* The host.                                                               *)

(* MAXreg_wr(rHXFR, token | ep).                                           *)
Launch(s) ==
  /\ stage' = s
  /\ flight' = <<s, call>> /\ hrsl' = "BUSY"

(* A new call of XferDispatchPkt.                                          *)
Dispatch(s) == Launch(s) /\ nak' = 0 /\ retry' = 0

(* The call returns r.  A probe that fails ends the enumeration, the       *)
(* results of GetDriverandReport are only printed, polls go on for ever.   *)
Return(r) ==
  /\ stage' = "idle" /\ nak' = 0 /\ retry' = 0
  /\ call' = CASE call \in {"GetConf", "SetConf", "SetProto"} /\ r # "OK" -> "Failed"
               [] call = "GetConf" /\ r = "OK" -> "SetConf"
               [] call = "SetConf" /\ r = "OK" -> "SetProto"
               [] call = "SetProto" /\ r = "OK" -> "GetIdle"
               [] call = "GetIdle" -> "GetProto"
               [] call \in {"GetProto", "Poll"} -> "Poll"

(* A faulty variant of HID_init: the toggles stay.                         *)
HID_initNot == saved

HID_init == [saved EXCEPT ![1] = 0]

(* The start of a call: kbdPoll begins with XferInTransfer and its saved   *)
(* toggle, the others with XferCtrlReq; HID_init comes before SetConf.     *)
Start ==
  /\ stage = "idle" /\ call \in Calls
  /\ got' = <<>>
  /\ IF call = "Poll" THEN Dispatch("IN") /\ rcvtog' = saved[1]
                      ELSE Dispatch("SETUP") /\ UNCHANGED rcvtog
  /\ saved' = IF call = "SetConf" THEN HID_init ELSE saved
  /\ UNCHANGED <<call, done, rcvdav, fifo, keyboard, history>>

(* HXFRDNIRQ is seen and cleared.                                          *)
Seen == stage # "idle" /\ done /\ done' = FALSE

(* NAK or no answer: the same packet again, up to the limit.               *)
Again ==
  /\ Seen
  /\ \/ hrsl = "NAK" /\ nak + 1 < NakLimit /\ nak' = nak + 1 /\ UNCHANGED retry
     \/ hrsl = "TIMEOUT" /\ retry + 1 < RetryLimit /\ retry' = retry + 1 /\ UNCHANGED nak
  /\ Launch(stage)
  /\ UNCHANGED <<call, saved, got, rcvtog, rcvdav, fifo, keyboard, history>>

(* Any other result but success, a limit reached, or success without data  *)
(* (0xf0) ends the call.                                                   *)
Fail ==
  /\ Seen
  /\ hrsl # "OK" \/ (stage = "IN" /\ ~rcvdav)
  /\ hrsl = "NAK" => nak + 1 = NakLimit
  /\ hrsl = "TIMEOUT" => retry + 1 = RetryLimit
  /\ Return(IF hrsl = "OK" THEN "RCVERR" ELSE hrsl)
  /\ UNCHANGED <<saved, got, hrsl, rcvtog, rcvdav, fifo, flight, keyboard, history>>

(* The SETUP packet has been acknowledged: data stage with DATA1, or       *)
(* straight to the handshake.                                              *)
Setup ==
  /\ Seen /\ hrsl = "OK" /\ stage = "SETUP"
  /\ IF call \in Reads
       THEN /\ saved' = [saved EXCEPT ![0] = 1] /\ rcvtog' = 1
            /\ Dispatch("IN")
       ELSE Dispatch("INHS") /\ UNCHANGED <<saved, rcvtog>>
  /\ UNCHANGED <<call, got, rcvdav, fifo, keyboard, history>>

(* Faulty variants of Save: the toggle is not saved, or that of the other  *)
(* endpoint is.                                                            *)
SaveNot == UNCHANGED saved
SaveFirst == saved' = [saved EXCEPT ![0] = rcvtog]

Save == saved' = [saved EXCEPT ![Endpoint(call)] = rcvtog]

(* A faulty variant of Enough: one packet less.                            *)
EnoughEarly(g) == Len(g) + 1 >= Size(call)

Enough(g) == Len(g) >= Size(call)

(* XferInTransfer reads a packet, and another one until all has come.      *)
Read ==
  /\ Seen /\ hrsl = "OK" /\ stage = "IN" /\ rcvdav
  /\ got' = Append(got, fifo)
  /\ rcvdav' = FALSE
  /\ last' = IF fifo[1] = "Poll" /\ call = "Poll" THEN fifo[2] ELSE last
  /\ \/ ~Enough(got') /\ Dispatch("IN") /\ UNCHANGED <<call, saved>>
     \/ Enough(got') /\ Save
          /\ IF call = "Poll" THEN Return("OK") /\ UNCHANGED <<flight, hrsl>>
                              ELSE Dispatch("OUTHS") /\ UNCHANGED call
  /\ UNCHANGED <<rcvtog, fifo, keyboard, slow, broken>>

Handshaken ==
  /\ Seen /\ hrsl = "OK" /\ stage \in {"OUTHS", "INHS"}
  /\ Return("OK")
  /\ UNCHANGED <<saved, got, hrsl, rcvtog, rcvdav, fifo, flight, keyboard, history>>

(* 5000 ms without HXFRDNIRQ: 0xff, and the packet stays on its way.       *)
GiveUp ==
  /\ stage # "idle" /\ ~done /\ slow < MaxSlow
  /\ Return("GIVENUP")
  /\ slow' = slow + 1 /\ broken' = TRUE
  /\ UNCHANGED <<saved, got, chip, keyboard, last>>

(* Another keyboard, between two calls.  The controller is reset only when *)
(* the device before was running (main.c:278).                             *)
Replug ==
  /\ stage = "idle"
  /\ call' = "GetConf"
  /\ dtog' = [ep \in 0 .. 1 |-> 0] /\ dpos' = 1 /\ head' = made + 1 /\ last' = made
  /\ IF call \in {"GetIdle", "GetProto", "Poll"}
       THEN /\ done' = FALSE /\ hrsl' = "OK" /\ rcvtog' = 0 /\ rcvdav' = FALSE
            /\ fifo' = NoPacket /\ flight' = NoFlight /\ broken' = FALSE
       ELSE UNCHANGED <<chip, broken>>
  /\ UNCHANGED <<stage, nak, retry, saved, got, made, slow>>

Host == Start \/ Again \/ Fail \/ Setup \/ Read \/ Handshaken

Next == MakeReport \/ Complete \/ Host \/ GiveUp \/ Replug

Spec == Init /\ [][Next]_vars

(* The processor and the controller go on, and of many reports and         *)
(* acknowledgements sent some arrive.                                      *)
FairSpec ==
  /\ Spec
  /\ WF_vars(Host) /\ WF_vars(Complete)
  /\ SF_vars(Complete /\ head' # head)

-----------------------------------------------------------------------------
(* Properties.                                                             *)

TypeOK ==
  /\ call \in Calls \union {"Failed"} /\ stage \in Stages \union {"idle"}
  /\ nak \in 0 .. NakLimit - 1 /\ retry \in 0 .. RetryLimit - 1
  /\ saved \in [0 .. 1 -> 0 .. 1] /\ got \in Seq(Calls \X Nat) /\ Len(got) <= Packets
  /\ done \in BOOLEAN /\ rcvdav \in BOOLEAN
  /\ flight \in Stages \X Calls \union {NoFlight}
  /\ hrsl \in {"OK", "NAK", "TIMEOUT", "STALL", "TOGERR", "BUSY"}
  /\ rcvtog \in 0 .. 1 /\ fifo \in Calls \X Nat \union {NoPacket}
  /\ dtog \in [0 .. 1 -> 0 .. 1] /\ dpos \in Nat
  /\ made \in 0 .. MaxReports /\ head \in 1 .. MaxReports + 1
  /\ last \in 0 .. MaxReports /\ slow \in 0 .. MaxSlow /\ broken \in BOOLEAN

(* A control read that went well has all the packets of its own request,   *)
(* each once and in order, although any of them may have been sent twice   *)
(* (transfer.c:107-120).                                                   *)
ReadsWhole ==
  \A c \in Reads :
    call = c /\ stage = "OUTHS" /\ ~broken =>
      got = [i \in 1 .. Size(c) |-> <<c, i>>]

(* A transfer stays within its retries and keeps what it has read in order *)
(* (transfer.c:107-190).                                                   *)
TransferInv == TypeOK /\ ReadsWhole

(* Between two polls the toggle saved for the keyboard is the one it will  *)
(* use, or the keyboard did not hear the acknowledgement and will repeat   *)
(* the report that main has had, with the other toggle.                    *)
TogglesAgree ==
  call = "Poll" /\ stage = "idle" /\ ~broken =>
    \/ saved[1] = dtog[1] /\ head = last + 1
    \/ saved[1] # dtog[1] /\ head = last

(* The reports reach the main loop as Reports promises.                    *)
R == INSTANCE Reports WITH
  taken <- last, polling <- call = "Poll", trusted <- ~broken
ImplementsReports == R!Spec

(* While the same keyboard is polled, every report it makes arrives: a     *)
(* lost acknowledgement cannot leave the two toggles apart for ever.       *)
Unread == call = "Poll" /\ ~broken /\ last < made
ReportsArrive == []<>~Unread
=============================================================================
