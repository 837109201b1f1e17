-------------------------- MODULE UsbTransferProofs --------------------------
(***************************************************************************)
(* The transfers implement Reports and read whole descriptors, for any     *)
(* limits of the retries, any length of the descriptor and any number of   *)
(* reports: the one-bit toggles keep host and keyboard in step, although   *)
(* packets and handshakes are lost and packets are sent twice.             *)
(***************************************************************************)
EXTENDS UsbTransfer, SequenceTheorems, TLAPS

(* The packet the device is about to send and the packets the host has.    *)
Pos == IF call = "Poll" THEN head ELSE dpos
Had == IF call = "Poll" THEN last ELSE Len(got)

(* Host and device are in step, or the device has not heard the last       *)
(* acknowledgement and will send that packet once more.                    *)
InStep(tog) ==
  \/ tog = dtog[Endpoint(call)] /\ Pos = Had + 1
  \/ tog # dtog[Endpoint(call)] /\ Pos = Had

(* A packet has come and is not read yet.                                  *)
Arrived == stage = "IN" /\ done /\ hrsl = "OK"

(* The stages of the calls, whatever happens.                              *)
Staged ==
  /\ stage # "idle" => call \in Calls
  /\ stage = "SETUP" => call # "Poll" /\ got = <<>>
  /\ stage = "IN" => call \in Reads \union {"Poll"} /\ Len(got) < Size(call)
  /\ stage = "OUTHS" => call \in Reads
  /\ stage = "INHS" => call \in {"SetConf", "SetProto"}

(* Only reports that were made are on their way, whatever happens.         *)
Numbered ==
  /\ head <= made + 1 /\ last <= made
  /\ fifo[1] = "Poll" => fifo[2] <= made
  /\ rcvdav => fifo # NoPacket

(* The rest is true until a transfer is given up: the controller works for *)
(* the call that is made and nothing else,                                 *)
Serving ==
  /\ stage = "idle" => ~done
  /\ done => flight = NoFlight
  /\ ~done => flight = IF stage = "idle" THEN NoFlight ELSE <<stage, call>>
  /\ rcvdav <=> Arrived

(* the SETUP packet has told the device what the host takes for granted,   *)
Addressed == stage = "SETUP" /\ done /\ hrsl = "OK"
Prepared ==
  /\ call # "Poll" => head = last + 1
  /\ call = "SetConf" /\ stage # "idle" => saved[1] = 0
  /\ \/ call = "SetConf" /\ (stage = "INHS" \/ Addressed)
     \/ call \in {"SetProto", "GetIdle", "GetProto"}
     => saved[1] = 0 /\ dtog[1] = 0
  /\ call \in Reads /\ Addressed => dtog[0] = 1 /\ dpos = 1

(* and the toggles keep both sides in step.                                *)
Stepping ==
  /\ stage = "IN" /\ ~Arrived => InStep(rcvtog)
  /\ Arrived => /\ fifo = <<call, Had + 1>>
                /\ \/ rcvtog = dtog[Endpoint(call)] /\ Pos = Had + 2
                   \/ rcvtog # dtog[Endpoint(call)] /\ Pos = Had + 1
  /\ call = "Poll" /\ stage = "IN" =>
       rcvtog = IF Arrived THEN 1 - saved[1] ELSE saved[1]
  /\ call = "Poll" /\ stage = "idle" => InStep(saved[1])

Reading ==
  call \in Reads /\ stage \in {"IN", "OUTHS"} =>
    /\ \A i \in 1 .. Len(got) : got[i] = <<call, i>>
    /\ stage = "OUTHS" => Len(got) = Size(call)

Sound == Serving /\ Prepared /\ Stepping /\ Reading

(* The inductive invariant.                                                *)
IInv == TypeOK /\ Staged /\ Numbered /\ (~broken => Sound)

-----------------------------------------------------------------------------
(* The types, in the groups in which they change.                          *)

SoftTypes ==
  /\ call \in Calls \union {"Failed"} /\ stage \in Stages \union {"idle"}
  /\ nak \in 0 .. NakLimit - 1 /\ retry \in 0 .. RetryLimit - 1
  /\ saved \in [0 .. 1 -> 0 .. 1]

GotTypes == got \in Seq(Calls \X Nat) /\ Len(got) <= Packets

ChipTypes ==
  /\ flight \in Stages \X Calls \union {NoFlight}
  /\ hrsl \in {"OK", "NAK", "TIMEOUT", "STALL", "TOGERR", "BUSY"}
  /\ rcvtog \in 0 .. 1 /\ fifo \in Calls \X Nat \union {NoPacket}

FlagTypes == done \in BOOLEAN /\ rcvdav \in BOOLEAN /\ broken \in BOOLEAN

DeviceTypes ==
  /\ dtog \in [0 .. 1 -> 0 .. 1] /\ dpos \in Nat
  /\ made \in 0 .. MaxReports /\ head \in 1 .. MaxReports + 1

HistoryTypes == last \in 0 .. MaxReports /\ slow \in 0 .. MaxSlow

LEMMA Types ==
  TypeOK <=> /\ SoftTypes /\ GotTypes /\ ChipTypes /\ FlagTypes
             /\ DeviceTypes /\ HistoryTypes
PROOF
  BY Zenon
  DEF TypeOK, SoftTypes, GotTypes, ChipTypes, FlagTypes, DeviceTypes, HistoryTypes

LEMMA TypesAfter ==
  ASSUME SoftTypes', GotTypes', ChipTypes', FlagTypes', DeviceTypes', HistoryTypes'
  PROVE  TypeOK'
PROOF
  BY Zenon
  DEF TypeOK, SoftTypes, GotTypes, ChipTypes, FlagTypes, DeviceTypes, HistoryTypes

LEMMA EmptyGot == <<>> \in Seq(Calls \X Nat) /\ Len(<<>>) = 0
PROOF
  BY EmptySeq

LEMMA Sizes == \A c : Size(c) \in Nat /\ 0 < Size(c) /\ Size(c) <= Packets
PROOF
  BY TransferAssumption DEF Size

LEMMA InitIInv == Init => IInv
PROOF
<1> SUFFICES ASSUME Init PROVE IInv
  OBVIOUS
<1>1. SoftTypes /\ ChipTypes /\ DeviceTypes /\ HistoryTypes
  BY TransferAssumption
  DEF Init, SoftTypes, ChipTypes, DeviceTypes, HistoryTypes, Calls, NoFlight
<1>2. GotTypes
  BY TransferAssumption, EmptyGot DEF Init, GotTypes
<1>3. FlagTypes
  BY DEF Init, FlagTypes
<1>4. Staged /\ Numbered
  BY DEF Init, Staged, Numbered, NoPacket
<1>5. Serving /\ Prepared /\ Stepping /\ Reading
  BY DEF Init, Serving, Prepared, Stepping, Reading, Arrived, Addressed, Reads
<1> QED
  BY <1>1, <1>2, <1>3, <1>4, <1>5, Types DEF IInv, Sound

(* What the host does next when a call returns.                            *)
LEMMA Returned ==
  ASSUME NEW r, call \in Calls, Return(r)
  PROVE  /\ call' \in Calls \union {"Failed"}
         /\ stage' = "idle" /\ nak' = 0 /\ retry' = 0
         /\ call' = "Poll" <=> call \in {"GetProto", "Poll"}
         /\ call' = "SetProto" => call = "SetConf" /\ r = "OK"
         /\ call' = "GetIdle" => call = "SetProto"
         /\ call' = "GetProto" => call = "GetIdle"
         /\ call' = "SetConf" => call = "GetConf"
         /\ call' # "GetConf"
PROOF
  BY DEF Return, Calls

LEMMA DeviceStepTypes ==
  ASSUME IInv, MakeReport \/ Complete
  PROVE  TypeOK'
PROOF
<1>1. /\ SoftTypes /\ GotTypes /\ ChipTypes /\ FlagTypes
      /\ DeviceTypes /\ HistoryTypes
  BY Types DEF IInv
<1>2. UNCHANGED <<software, history>>
  BY DEF MakeReport, Complete
<1>3. SoftTypes' /\ GotTypes' /\ HistoryTypes' /\ broken' = broken
  BY <1>1, <1>2 DEF SoftTypes, GotTypes, HistoryTypes, software, history
<1>4. CASE MakeReport
  <2>1. ChipTypes' /\ FlagTypes'
    BY <1>1, <1>3, <1>4 DEF MakeReport, ChipTypes, FlagTypes, chip
  <2>2. DeviceTypes'
    BY <1>1, <1>4, TransferAssumption DEF MakeReport, DeviceTypes
  <2> QED
    BY <1>3, <2>1, <2>2, TypesAfter
<1>5. CASE Complete
  <2>1. PICK s, c : /\ flight = <<s, c>> /\ s \in Stages /\ c \in Calls
                    /\ Lost \/ Refused(c) \/ Sent(s, c) \/ Received(s, c)
    BY <1>1, <1>5 DEF Complete, ChipTypes
  <2>2. Lost \/ Refused(c) \/ Sent(s, c) => UNCHANGED <<rcvtog, rcvdav, fifo>>
    BY DEF Lost, Refused, Sent
  <2>3. /\ done' = TRUE /\ flight' = NoFlight
        /\ hrsl' \in {"OK", "NAK", "TIMEOUT", "STALL", "TOGERR"}
    BY <2>1 DEF Lost, Refused, Sent, Received, Result
  <2>4. Packet(c) \in Calls \X Nat
    BY <1>1, <2>1 DEF Packet, DeviceTypes
  <2>5. ChipTypes'
    BY <1>1, <2>1, <2>2, <2>3, <2>4 DEF Received, ChipTypes
  <2>6. FlagTypes'
    BY <1>1, <1>3, <2>1, <2>2, <2>3 DEF Received, FlagTypes
  <2>7. CASE Lost \/ Refused(c)
    BY <1>1, <1>3, <2>5, <2>6, <2>7, TypesAfter
    DEF Lost, Refused, DeviceTypes, keyboard
  <2>8. CASE Sent(s, c)
    <3>1. DeviceTypes'
      BY <1>1, <2>8, TransferAssumption DEF Sent, Commanded, DeviceTypes, keyboard
    <3> QED
      BY <1>3, <2>5, <2>6, <3>1, TypesAfter
  <2>9. CASE Received(s, c)
    <3>1. CASE UNCHANGED keyboard
      BY <1>1, <1>3, <2>5, <2>6, <3>1, TypesAfter DEF DeviceTypes, keyboard
    <3>2. CASE Acknowledged(c)
      <4>1. Endpoint(c) \in 0 .. 1
        BY DEF Endpoint
      <4>2. dtog' \in [0 .. 1 -> 0 .. 1]
        BY <1>1, <3>2, <4>1 DEF Acknowledged, DeviceTypes
      <4>3. c = "Poll" => head <= made
        BY <2>9 DEF Received, HasPacket
      <4>4. DeviceTypes'
        BY <1>1, <3>2, <4>2, <4>3, TransferAssumption DEF Acknowledged, DeviceTypes
      <4> QED
        BY <1>3, <2>5, <2>6, <4>4, TypesAfter
    <3> QED
      BY <2>9, <3>1, <3>2 DEF Received
  <2> QED
    BY <2>1, <2>7, <2>8, <2>9
<1> QED
  BY <1>4, <1>5

LEMMA HostStepTypes ==
  ASSUME IInv, Host \/ GiveUp \/ Replug
  PROVE  TypeOK'
PROOF
<1>1. /\ SoftTypes /\ GotTypes /\ ChipTypes /\ FlagTypes
      /\ DeviceTypes /\ HistoryTypes
  BY Types DEF IInv
<1>2. Staged /\ Numbered
  BY DEF IInv
<1>3. CASE Start
  <2>1. FlagTypes' /\ DeviceTypes' /\ HistoryTypes'
    BY <1>1, <1>3 DEF Start, FlagTypes, DeviceTypes, HistoryTypes, keyboard, history
  <2>2. GotTypes'
    BY <1>1, <1>3, EmptyGot, TransferAssumption DEF Start, GotTypes
  <2>3. SoftTypes'
    BY <1>1, <1>3, TransferAssumption
    DEF Start, Dispatch, Launch, HID_init, SoftTypes, Stages
  <2>4. ChipTypes'
    BY <1>1, <1>3 DEF Start, Dispatch, Launch, ChipTypes, SoftTypes, Stages
  <2> QED
    BY <2>1, <2>2, <2>3, <2>4, TypesAfter
<1>4. CASE Again
  <2>1. GotTypes' /\ FlagTypes' /\ DeviceTypes' /\ HistoryTypes'
    BY <1>1, <1>4
    DEF Again, Seen, GotTypes, FlagTypes, DeviceTypes, HistoryTypes, keyboard, history
  <2>2. SoftTypes'
    BY <1>1, <1>4, TransferAssumption DEF Again, Launch, SoftTypes
  <2>3. stage \in Stages /\ call \in Calls
    BY <1>1, <1>2, <1>4 DEF Again, Seen, Staged, SoftTypes
  <2>4. ChipTypes'
    BY <1>1, <1>4, <2>3 DEF Again, Launch, ChipTypes
  <2> QED
    BY <2>1, <2>2, <2>4, TypesAfter
<1>5. CASE Fail \/ Handshaken \/ GiveUp
  <2>1. call \in Calls
    BY <1>2, <1>5 DEF Fail, Handshaken, GiveUp, Seen, Staged
  <2>2. /\ call' \in Calls \union {"Failed"} /\ stage' = "idle"
        /\ nak' = 0 /\ retry' = 0
    BY <1>5, <2>1, Returned DEF Fail, Handshaken, GiveUp
  <2>3. SoftTypes'
    BY <1>1, <1>5, <2>2, TransferAssumption DEF Fail, Handshaken, GiveUp, SoftTypes
  <2>4. GotTypes' /\ ChipTypes' /\ DeviceTypes'
    BY <1>1, <1>5
    DEF Fail, Handshaken, GiveUp, GotTypes, ChipTypes, DeviceTypes, keyboard, chip
  <2>5. FlagTypes'
    BY <1>1, <1>5
    DEF Fail, Handshaken, GiveUp, Seen, FlagTypes, chip, history
  <2>6. HistoryTypes'
    BY <1>1, <1>5, TransferAssumption
    DEF Fail, Handshaken, GiveUp, HistoryTypes, history
  <2> QED
    BY <2>3, <2>4, <2>5, <2>6, TypesAfter
<1>6. CASE Setup
  <2>1. GotTypes' /\ FlagTypes' /\ DeviceTypes' /\ HistoryTypes'
    BY <1>1, <1>6
    DEF Setup, Seen, GotTypes, FlagTypes, DeviceTypes, HistoryTypes, keyboard, history
  <2>2. call \in Calls
    BY <1>2, <1>6 DEF Setup, Staged
  <2>3. SoftTypes'
    BY <1>1, <1>6, TransferAssumption
    DEF Setup, Dispatch, Launch, SoftTypes, Stages
  <2>4. ChipTypes'
    BY <1>1, <1>6, <2>2 DEF Setup, Dispatch, Launch, ChipTypes, Stages
  <2> QED
    BY <2>1, <2>3, <2>4, TypesAfter
<1>7. CASE Read
  <2>1. call \in Calls /\ Len(got) < Size(call)
    BY <1>2, <1>7 DEF Read, Staged
  <2>2. fifo \in Calls \X Nat
    BY <1>1, <1>2, <1>7 DEF Read, Numbered, ChipTypes
  <2>3. got' \in Seq(Calls \X Nat) /\ Len(got') = Len(got) + 1
    BY <1>1, <1>7, <2>2, AppendProperties DEF Read, GotTypes
  <2>4. GotTypes'
    <3>1. Size(call) \in Nat /\ Size(call) <= Packets
      BY Sizes
    <3>2. Len(got) \in Nat
      BY <1>1, LenProperties DEF GotTypes
    <3> QED
      BY <2>1, <2>3, <3>1, <3>2, TransferAssumption DEF GotTypes
  <2>5. FlagTypes' /\ DeviceTypes'
    BY <1>1, <1>7 DEF Read, Seen, FlagTypes, DeviceTypes, keyboard
  <2>6. HistoryTypes'
    <3>1. fifo[2] \in Nat /\ (fifo[1] = "Poll" => fifo[2] <= made)
      BY <1>2, <2>2 DEF Numbered
    <3>2. last' \in 0 .. MaxReports
      BY <1>1, <1>7, <3>1, TransferAssumption
      DEF Read, HistoryTypes, DeviceTypes
    <3> QED
      BY <1>1, <1>7, <3>2 DEF Read, HistoryTypes
  <2>7. ASSUME Dispatch("IN") \/ Dispatch("OUTHS"), call' = call
        PROVE  /\ call' \in Calls \union {"Failed"} /\ stage' \in Stages
               /\ nak' \in 0 .. NakLimit - 1 /\ retry' \in 0 .. RetryLimit - 1
               /\ flight' \in Stages \X Calls /\ hrsl' = "BUSY"
    BY <2>1, <2>7, TransferAssumption DEF Dispatch, Launch, Stages
  <2>8. ASSUME Return("OK")
        PROVE  /\ call' \in Calls \union {"Failed"} /\ stage' = "idle"
               /\ nak' \in 0 .. NakLimit - 1 /\ retry' \in 0 .. RetryLimit - 1
    BY <2>1, <2>8, Returned, TransferAssumption
  <2>9. saved' \in [0 .. 1 -> 0 .. 1]
    <3>1. Endpoint(call) \in 0 .. 1
      BY DEF Endpoint
    <3> QED
      BY <1>1, <1>7, <3>1 DEF Read, Save, SoftTypes, ChipTypes
  <2>10. SoftTypes'
    BY <1>7, <2>7, <2>8, <2>9 DEF Read, SoftTypes
  <2>11. ChipTypes'
    BY <1>1, <1>7, <2>7 DEF Read, ChipTypes
  <2> QED
    BY <2>4, <2>5, <2>6, <2>10, <2>11, TypesAfter
<1>8. CASE Replug
  <2>1. SoftTypes'
    BY <1>1, <1>8 DEF Replug, SoftTypes, Calls
  <2>2. GotTypes'
    BY <1>1, <1>8 DEF Replug, GotTypes
  <2>3. ChipTypes'
    BY <1>1, <1>8 DEF Replug, ChipTypes, chip
  <2>4. FlagTypes'
    BY <1>1, <1>8 DEF Replug, FlagTypes, chip
  <2>5. DeviceTypes' /\ HistoryTypes'
    BY <1>1, <1>8, TransferAssumption DEF Replug, DeviceTypes, HistoryTypes
  <2> QED
    BY <2>1, <2>2, <2>3, <2>4, <2>5, TypesAfter
<1> QED
  BY <1>3, <1>4, <1>5, <1>6, <1>7, <1>8 DEF Host

-----------------------------------------------------------------------------
(* The stages and the numbers of the reports.                              *)

LEMMA DeviceStepStaged ==
  ASSUME IInv, MakeReport \/ Complete
  PROVE  Staged' /\ Numbered'
PROOF
<1>1. ChipTypes /\ DeviceTypes /\ HistoryTypes /\ Staged /\ Numbered
  BY Types DEF IInv
<1>2. Staged' /\ last' = last
  BY <1>1 DEF MakeReport, Complete, Staged, software, history
<1>3. CASE MakeReport
  <2>1. fifo[1] = "Poll" => fifo[2] \in Nat
    BY <1>1 DEF ChipTypes, NoPacket
  <2> QED
    BY <1>1, <1>2, <1>3, <2>1
    DEF MakeReport, Numbered, chip, DeviceTypes, HistoryTypes
<1>4. CASE Complete
  <2>1. PICK s, c : /\ flight = <<s, c>> /\ s \in Stages /\ c \in Calls
                    /\ Lost \/ Refused(c) \/ Sent(s, c) \/ Received(s, c)
    BY <1>1, <1>4 DEF Complete, ChipTypes
  <2>2. CASE Lost \/ Refused(c) \/ Sent(s, c)
    <3>1. UNCHANGED <<rcvdav, fifo, made, head>>
      BY <2>2 DEF Lost, Refused, Sent, Commanded, keyboard
    <3> QED
      BY <1>1, <1>2, <3>1 DEF Numbered
  <2>3. CASE Received(s, c)
    <3>1. made' = made /\ head' <= made + 1
      BY <1>1, <2>3
      DEF Received, Acknowledged, HasPacket, keyboard, Numbered, DeviceTypes
    <3>2. Packet(c) # NoPacket /\ (Packet(c)[1] = "Poll" => Packet(c)[2] <= made)
      BY <2>1, <2>3 DEF Received, HasPacket, Packet, NoPacket, Calls
    <3>3. UNCHANGED <<rcvdav, fifo>> \/ fifo' = Packet(c)
      BY <2>3 DEF Received
    <3> QED
      BY <1>1, <1>2, <3>1, <3>2, <3>3 DEF Numbered
  <2> QED
    BY <2>1, <2>2, <2>3
<1> QED
  BY <1>3, <1>4

LEMMA HostStepStaged ==
  ASSUME IInv, Host \/ GiveUp \/ Replug
  PROVE  Staged' /\ Numbered'
PROOF
<1>1. /\ SoftTypes /\ GotTypes /\ ChipTypes /\ DeviceTypes
      /\ Staged /\ Numbered
  BY Types DEF IInv
<1>2. CASE Start
  <2>1. Numbered'
    BY <1>1, <1>2 DEF Start, Numbered, keyboard, history
  <2>2. got' = <<>> /\ call' = call /\ call \in Calls
    BY <1>2 DEF Start
  <2>3. Len(got') = 0 /\ 0 < Size(call')
    BY <2>2, EmptyGot, Sizes
  <2>4. stage' = IF call = "Poll" THEN "IN" ELSE "SETUP"
    BY <1>2 DEF Start, Dispatch, Launch
  <2> QED
    BY <2>1, <2>2, <2>3, <2>4 DEF Staged
<1>3. CASE Again
  BY <1>1, <1>3 DEF Again, Launch, Staged, Numbered, keyboard, history
<1>4. CASE Fail \/ Handshaken \/ GiveUp
  <2>1. stage' = "idle"
    BY <1>4 DEF Fail, Handshaken, GiveUp, Return
  <2>2. UNCHANGED <<keyboard, fifo, rcvdav, last>>
    BY <1>4 DEF Fail, Handshaken, GiveUp, chip, history
  <2> QED
    BY <1>1, <2>1, <2>2 DEF Staged, Numbered, keyboard
<1>5. CASE Setup
  <2>1. Numbered' /\ call' = call /\ got' = got
    BY <1>1, <1>5 DEF Setup, Numbered, keyboard, history
  <2>2. call \in Calls /\ call # "Poll" /\ got = <<>>
    BY <1>1, <1>5 DEF Setup, Staged
  <2>3. Len(got) = 0 /\ 0 < Size(call)
    BY <2>2, EmptyGot, Sizes
  <2>4. \/ call \in Reads /\ stage' = "IN"
        \/ call \in {"SetConf", "SetProto"} /\ stage' = "INHS"
    BY <1>5, <2>2 DEF Setup, Dispatch, Launch, Calls, Reads
  <2> QED
    BY <2>1, <2>2, <2>3, <2>4 DEF Staged
<1>6. CASE Read
  <2>1. call \in Reads \union {"Poll"}
    BY <1>1, <1>6 DEF Read, Staged
  <2>2. Numbered'
    BY <1>1, <1>6 DEF Read, Numbered, keyboard
  <2>3. CASE ~Enough(got') /\ Dispatch("IN") /\ call' = call
    <3>1. fifo \in Calls \X Nat
      BY <1>1, <1>6 DEF Read, Numbered, ChipTypes
    <3>2. Len(got') \in Nat /\ Size(call) \in Nat
      BY <1>1, <1>6, <3>1, AppendProperties, LenProperties, Sizes
      DEF Read, GotTypes
    <3> QED
      BY <2>1, <2>2, <2>3, <3>2
      DEF Staged, Enough, Dispatch, Launch, Calls, Reads
  <2>4. CASE call = "Poll" /\ Return("OK")
    BY <2>2, <2>4 DEF Staged, Return
  <2>5. CASE call # "Poll" /\ Dispatch("OUTHS") /\ call' = call
    BY <2>1, <2>2, <2>5 DEF Staged, Dispatch, Launch, Calls, Reads
  <2> QED
    BY <1>6, <2>3, <2>4, <2>5 DEF Read
<1>7. CASE Replug
  <2>1. stage' = "idle"
    BY <1>7 DEF Replug
  <2>2. UNCHANGED <<fifo, rcvdav>> \/ (fifo' = NoPacket /\ ~rcvdav')
    BY <1>7 DEF Replug, chip
  <2>3. head' = made + 1 /\ last' = made /\ made' = made
    BY <1>7 DEF Replug
  <2>4. Numbered'
    BY <1>1, <2>2, <2>3 DEF Numbered, NoPacket, DeviceTypes
  <2> QED
    BY <2>1, <2>4 DEF Staged
<1> QED
  BY <1>2, <1>3, <1>4, <1>5, <1>6, <1>7 DEF Host

-----------------------------------------------------------------------------
(* The toggles.                                                            *)

LEMMA Bits ==
  ASSUME TypeOK
  PROVE  /\ Endpoint(call) \in 0 .. 1 /\ rcvtog \in 0 .. 1
         /\ dtog \in [0 .. 1 -> 0 .. 1] /\ dtog[Endpoint(call)] \in 0 .. 1
         /\ saved \in [0 .. 1 -> 0 .. 1]
         /\ Pos \in Nat /\ Had \in Nat
PROOF
<1>1. Endpoint(call) \in 0 .. 1
  BY DEF Endpoint
<1>2. Len(got) \in Nat
  BY LenProperties DEF TypeOK
<1> QED
  BY <1>1, <1>2, TransferAssumption DEF TypeOK, Pos, Had

LEMMA CompleteSound ==
  ASSUME IInv, Complete, ~broken, Sound
  PROVE  Sound'
PROOF
<1>1. /\ ~done /\ stage # "idle" /\ flight = <<stage, call>> /\ ~rcvdav
      /\ stage = "IN" => InStep(rcvtog)
  BY DEF Complete, Sound, Serving, Stepping, Arrived
<1>2. UNCHANGED <<call, stage, saved, got, last>>
  BY DEF Complete, software, history
<1>3. Lost \/ Refused(call) \/ Sent(stage, call) \/ Received(stage, call)
  BY <1>1 DEF Complete
<1>4. done' /\ flight' = NoFlight
  BY <1>3 DEF Lost, Refused, Sent, Received, Result
<1>5. Staged /\ Prepared /\ Stepping /\ Reading
  BY DEF IInv, Sound
<1>6. Reading'
  BY <1>2, <1>5 DEF Reading
<1>7. CASE hrsl' # "OK" /\ UNCHANGED <<rcvtog, rcvdav, keyboard>>
  <2>1. ~Arrived' /\ ~Addressed' /\ Serving'
    BY <1>1, <1>2, <1>4, <1>7 DEF Arrived, Addressed, Serving
  <2>2. Prepared'
    BY <1>2, <1>5, <1>7, <2>1 DEF Prepared, keyboard
  <2>3. Stepping'
    BY <1>1, <1>2, <1>5, <1>7, <2>1
    DEF Stepping, InStep, Pos, Had, keyboard, Arrived
  <2> QED
    BY <1>6, <2>1, <2>2, <2>3 DEF Sound
<1>8. CASE Sent(stage, call)
  <2>1. stage # "IN" /\ UNCHANGED <<rcvtog, rcvdav>>
    BY <1>8 DEF Sent
  <2>2. Serving'
    BY <1>1, <1>2, <1>4, <2>1 DEF Serving, Arrived
  <2>3. Stepping'
    BY <1>1, <1>2, <2>1 DEF Stepping, Arrived
  <2>4. CASE stage = "SETUP"
    <3>1. Commanded(call) /\ call # "Poll"
      BY <1>5, <1>8, <2>4 DEF Sent, Staged
    <3>2. /\ dtog'[0] = 1 /\ dpos' = 1 /\ head' = head
          /\ dtog'[1] = IF call = "SetConf" THEN 0 ELSE dtog[1]
      BY <3>1 DEF Commanded
    <3>3. Prepared'
      BY <1>1, <1>2, <1>5, <2>4, <3>1, <3>2 DEF Prepared, Addressed
    <3> QED
      BY <1>6, <2>2, <2>3, <3>3 DEF Sound
  <2>5. CASE stage # "SETUP"
    <3>1. UNCHANGED keyboard
      BY <1>8, <2>5 DEF Sent
    <3>2. Prepared'
      BY <1>2, <1>5, <2>5, <3>1 DEF Prepared, Addressed, keyboard
    <3> QED
      BY <1>6, <2>2, <2>3, <3>2 DEF Sound
  <2> QED
    BY <2>4, <2>5
<1>9. CASE Received(stage, call)
  <2>1. stage = "IN" /\ InStep(rcvtog) /\ call \in Reads \union {"Poll"}
    BY <1>1, <1>5, <1>9 DEF Received, Staged
  <2>2. Acknowledged(call) \/ UNCHANGED keyboard
    BY <1>9 DEF Received
  <2>3. /\ Endpoint(call) \in 0 .. 1 /\ rcvtog \in 0 .. 1
        /\ dtog \in [0 .. 1 -> 0 .. 1] /\ dtog[Endpoint(call)] \in 0 .. 1
        /\ Pos \in Nat /\ Had \in Nat
    BY Bits DEF IInv
  <2>4. \/ dtog'[Endpoint(call)] = 1 - dtog[Endpoint(call)] /\ Pos' = Pos + 1
        \/ dtog'[Endpoint(call)] = dtog[Endpoint(call)] /\ Pos' = Pos
    BY <1>2, <2>2, <2>3 DEF Acknowledged, Pos, keyboard
  <2>5. Had' = Had /\ Endpoint(call') = Endpoint(call)
    BY <1>2 DEF Had
  <2>6. Prepared'
    <3>1. call # "Poll" => Endpoint(call) = 0 /\ head' = head /\ dtog'[1] = dtog[1]
      BY <2>2, <2>3 DEF Endpoint, Acknowledged, keyboard
    <3> QED
      BY <1>2, <1>5, <2>1, <3>1 DEF Prepared, Addressed, Reads
  <2>7. CASE dtog[Endpoint(call)] = rcvtog
    <3>1. hrsl' = "OK" /\ rcvtog' = 1 - rcvtog /\ rcvdav' /\ fifo' = Packet(call)
      BY <1>9, <2>7 DEF Received, Result
    <3>2. Arrived' /\ Arrived' = TRUE
      BY <1>2, <1>4, <2>1, <3>1 DEF Arrived
    <3>3. Pos = Had + 1 /\ Packet(call) = <<call, Had + 1>>
      BY <2>1, <2>7, <2>3 DEF InStep, Packet, Pos
    <3>4. \/ rcvtog' = dtog'[Endpoint(call)] /\ Pos' = Had + 2
          \/ rcvtog' # dtog'[Endpoint(call)] /\ Pos' = Had + 1
      BY <2>3, <2>4, <2>7, <3>1, <3>3
    <3>5. call = "Poll" => rcvtog' = 1 - saved[1]
      BY <1>1, <1>5, <2>1, <3>1 DEF Stepping, Arrived
    <3>6. Stepping'
      BY <1>2, <2>1, <2>5, <3>1, <3>2, <3>3, <3>4, <3>5 DEF Stepping
    <3>7. Serving'
      BY <1>2, <1>4, <2>1, <3>1, <3>2 DEF Serving
    <3> QED
      BY <1>6, <2>6, <3>6, <3>7 DEF Sound
  <2>8. CASE dtog[Endpoint(call)] # rcvtog
    <3>1. hrsl' = "TOGERR" /\ UNCHANGED <<rcvtog, rcvdav>>
      BY <1>9, <2>8 DEF Received, Result
    <3>2. ~Arrived'
      BY <3>1 DEF Arrived
    <3>3. Pos = Had
      BY <2>1, <2>8 DEF InStep
    <3>4. \/ rcvtog = dtog'[Endpoint(call)] /\ Pos' = Had + 1
          \/ rcvtog # dtog'[Endpoint(call)] /\ Pos' = Had
      BY <2>3, <2>4, <2>8, <3>3
    <3>5. InStep(rcvtog)'
      BY <2>5, <3>1, <3>4 DEF InStep
    <3>6. call = "Poll" => rcvtog' = saved[1]
      BY <1>1, <1>5, <2>1, <3>1 DEF Stepping, Arrived
    <3>7. Stepping'
      BY <1>2, <2>1, <3>2, <3>5, <3>6 DEF Stepping
    <3>8. Serving'
      BY <1>1, <1>2, <1>4, <2>1, <3>1, <3>2 DEF Serving
    <3> QED
      BY <1>6, <2>6, <3>7, <3>8 DEF Sound
  <2> QED
    BY <2>7, <2>8
<1> QED
  BY <1>3, <1>7, <1>8, <1>9 DEF Lost, Refused, Result

(* A call that returns with r leaves host and keyboard in step.            *)
LEMMA ReturnSound ==
  ASSUME IInv, Sound, done, NEW r, Return(r), ~done', ~rcvdav',
         flight' = flight, keyboard' = keyboard, call \in Calls,
         \/ call = "Poll" /\ InStep(saved[1])'
         \/ call # "Poll" /\ last' = last /\ saved'[1] = saved[1],
         r = "OK" /\ call = "SetConf" => stage = "INHS"
  PROVE  Sound'
PROOF
<1>1. /\ stage' = "idle"
      /\ call' = "Poll" <=> call \in {"GetProto", "Poll"}
      /\ call' = "SetProto" => call = "SetConf" /\ r = "OK"
      /\ call' = "GetIdle" => call = "SetProto"
      /\ call' = "GetProto" => call = "GetIdle"
  BY Returned
<1>2. Serving'
  BY <1>1 DEF Sound, Serving, Arrived
<1>3. Prepared'
  BY <1>1 DEF Sound, Prepared, Addressed, keyboard, Reads
<1>4. Reading'
  BY <1>1 DEF Reading
<1>5. call' = "Poll" => InStep(saved[1])'
  <2>1. CASE call = "GetProto"
    <3>1. saved'[1] = 0 /\ dtog'[1] = 0 /\ head' = last' + 1
      BY <2>1 DEF Sound, Prepared, keyboard
    <3> QED
      BY <3>1 DEF InStep, Pos, Had, Endpoint
  <2> QED
    BY <1>1, <2>1
<1>6. Stepping'
  BY <1>1, <1>5 DEF Stepping, Arrived
<1> QED
  BY <1>2, <1>3, <1>4, <1>6 DEF Sound

LEMMA HostSound ==
  ASSUME IInv, Host, ~broken, Sound
  PROVE  Sound'
PROOF
<1>1. /\ Staged /\ Serving /\ Prepared /\ Stepping /\ Reading
      /\ GotTypes /\ SoftTypes
  BY Types DEF IInv, Sound
<1>2. CASE Start
  <2>1. /\ UNCHANGED <<call, done, rcvdav, keyboard, last>> /\ call \in Calls
        /\ got' = <<>> /\ flight' = <<stage', call>>
        /\ stage' = IF call = "Poll" THEN "IN" ELSE "SETUP"
        /\ call = "Poll" => rcvtog' = saved[1]
        /\ saved' = IF call = "SetConf" THEN HID_init ELSE saved
    BY <1>2 DEF Start, Dispatch, Launch, history
  <2>2. stage = "idle" /\ ~done /\ ~rcvdav
    BY <1>1, <1>2 DEF Start, Serving, Arrived
  <2>3. ~Arrived' /\ ~Addressed' /\ Serving'
    BY <2>1, <2>2 DEF Serving, Arrived, Addressed
  <2>4. call = "SetConf" => saved'[1] = 0
    BY <1>1, <2>1 DEF HID_init, SoftTypes
  <2>5. Prepared'
    BY <1>1, <2>1, <2>3, <2>4 DEF Prepared, keyboard
  <2>6. call = "Poll" => InStep(rcvtog)' /\ saved' = saved
    BY <1>1, <2>1, <2>2 DEF Stepping, InStep, Pos, Had, keyboard
  <2>7. Stepping'
    BY <2>1, <2>3, <2>6 DEF Stepping
  <2>8. Len(got') = 0
    BY <2>1, EmptyGot
  <2>9. Reading'
    BY <2>1, <2>8 DEF Reading, Reads
  <2> QED
    BY <2>3, <2>5, <2>7, <2>9 DEF Sound
<1>3. CASE Again
  <2>1. /\ UNCHANGED <<call, stage, saved, got, rcvtog, rcvdav, keyboard, last>>
        /\ ~done' /\ flight' = <<stage, call>> /\ hrsl # "OK" /\ stage # "idle"
    BY <1>3 DEF Again, Seen, Launch, history
  <2>2. ~Arrived /\ ~Arrived' /\ ~Addressed' /\ Serving'
    BY <1>1, <2>1 DEF Serving, Arrived, Addressed
  <2>3. Prepared'
    BY <1>1, <2>1, <2>2 DEF Prepared, keyboard
  <2>4. Stepping'
    BY <1>1, <2>1, <2>2 DEF Stepping, InStep, Pos, Had, keyboard
  <2>5. Reading'
    BY <1>1, <2>1 DEF Reading
  <2> QED
    BY <2>2, <2>3, <2>4, <2>5 DEF Sound
<1>4. CASE Fail
  <2>1. /\ stage # "idle" /\ done /\ ~done' /\ call \in Calls
        /\ UNCHANGED <<saved, got, rcvtog, rcvdav, flight, keyboard, last>>
    BY <1>1, <1>4 DEF Fail, Seen, Staged, history
  <2>2. hrsl # "OK" /\ ~Arrived /\ ~rcvdav
    BY <1>1, <1>4, <2>1 DEF Fail, Serving, Arrived
  <2>3. Return(hrsl)
    BY <1>4, <2>2 DEF Fail
  <2>4. CASE call = "Poll"
    <3>1. stage = "IN" /\ call' = "Poll"
      BY <1>1, <2>1, <2>3, <2>4, Returned DEF Staged, SoftTypes, Stages, Reads
    <3>2. InStep(saved[1])'
      BY <1>1, <2>1, <2>2, <2>4, <3>1
      DEF Stepping, InStep, Pos, Had, keyboard
    <3> QED
      BY <2>1, <2>2, <2>3, <2>4, <3>2, ReturnSound
  <2>5. CASE call # "Poll"
    BY <2>1, <2>2, <2>3, <2>5, ReturnSound
  <2> QED
    BY <2>4, <2>5
<1>5. CASE Setup
  <2>1. /\ stage = "SETUP" /\ done /\ ~done' /\ Addressed /\ call \in Calls
        /\ call # "Poll" /\ got = <<>> /\ Len(got) = 0
        /\ UNCHANGED <<call, got, rcvdav, keyboard, last>>
    BY <1>1, <1>5, EmptyGot DEF Setup, Seen, Staged, Addressed, history
  <2>2. ~rcvdav
    BY <1>1, <2>1 DEF Serving, Arrived
  <2>3. CASE call \in Reads
    <3>1. /\ rcvtog' = 1 /\ saved'[1] = saved[1]
          /\ stage' = "IN" /\ flight' = <<"IN", call>>
      BY <1>1, <1>5, <2>3 DEF Setup, Dispatch, Launch, SoftTypes
    <3>2. ~Arrived' /\ ~Addressed' /\ Serving'
      BY <2>1, <2>2, <3>1 DEF Serving, Arrived, Addressed
    <3>3. dtog'[0] = 1 /\ dpos' = 1
      BY <1>1, <2>1, <2>3 DEF Prepared, keyboard
    <3>4. InStep(rcvtog)'
      BY <2>1, <3>1, <3>3 DEF InStep, Pos, Had, Endpoint
    <3>5. Stepping'
      BY <2>1, <3>1, <3>2, <3>4 DEF Stepping
    <3>6. Prepared'
      BY <1>1, <2>1, <2>3, <3>1, <3>2 DEF Prepared, Reads, keyboard
    <3>7. Reading'
      BY <2>1, <3>1 DEF Reading
    <3> QED
      BY <3>2, <3>5, <3>6, <3>7 DEF Sound
  <2>4. CASE call \notin Reads
    <3>1. UNCHANGED <<saved, rcvtog>> /\ stage' = "INHS" /\ flight' = <<"INHS", call>>
      BY <1>5, <2>4 DEF Setup, Dispatch, Launch
    <3>2. ~Arrived' /\ ~Addressed' /\ Serving'
      BY <2>1, <2>2, <3>1 DEF Serving, Arrived, Addressed
    <3>3. Prepared'
      BY <1>1, <2>1, <2>4, <3>1, <3>2 DEF Prepared, keyboard
    <3>4. Stepping' /\ Reading'
      BY <2>1, <3>1, <3>2 DEF Stepping, Reading
    <3> QED
      BY <3>2, <3>3, <3>4 DEF Sound
  <2> QED
    BY <2>3, <2>4
<1>6. CASE Handshaken
  <2>1. /\ stage \in {"OUTHS", "INHS"} /\ done /\ ~done' /\ Return("OK")
        /\ UNCHANGED <<saved, got, rcvtog, rcvdav, flight, keyboard, last>>
    BY <1>6 DEF Handshaken, Seen, history
  <2>2. call \in Calls /\ call # "Poll" /\ (call = "SetConf" => stage = "INHS")
    BY <1>1, <2>1 DEF Staged, Reads
  <2>3. ~rcvdav
    BY <1>1, <2>1 DEF Serving, Arrived
  <2> QED
    BY <2>1, <2>2, <2>3, ReturnSound
<1>7. CASE Read
  <2>1. /\ Arrived /\ done /\ ~done' /\ ~rcvdav' /\ got' = Append(got, fifo)
        /\ UNCHANGED <<rcvtog, keyboard>>
        /\ last' = IF fifo[1] = "Poll" /\ call = "Poll" THEN fifo[2] ELSE last
        /\ call \in Reads \union {"Poll"} /\ Len(got) < Size(call)
    BY <1>1, <1>7 DEF Read, Seen, Arrived, Staged
  <2>2. /\ fifo = <<call, Had + 1>>
        /\ \/ rcvtog = dtog[Endpoint(call)] /\ Pos = Had + 2
           \/ rcvtog # dtog[Endpoint(call)] /\ Pos = Had + 1
    BY <1>1, <2>1 DEF Stepping
  <2>3. /\ Had \in Nat /\ Pos \in Nat /\ Endpoint(call) \in 0 .. 1
        /\ rcvtog \in 0 .. 1 /\ saved \in [0 .. 1 -> 0 .. 1]
    BY Bits DEF IInv
  <2>4. fifo \in Calls \X Nat
    BY <2>1, <2>2, <2>3 DEF Calls, Reads
  <2>5. /\ Len(got') = Len(got) + 1 /\ Len(got) \in Nat
        /\ \A i \in 1 .. Len(got) : got'[i] = got[i]
        /\ got'[Len(got) + 1] = fifo
    BY <1>1, <2>1, <2>4, AppendProperties, LenProperties DEF GotTypes
  <2>6. Size(call) \in Nat
    BY Sizes
  <2>7. flight = NoFlight
    BY <1>1, <2>1 DEF Serving
  <2>8. CASE call = "Poll"
    <3>1. Enough(got')
      BY <2>5, <2>8 DEF Enough, Size
    <3>2. Return("OK") /\ flight' = flight /\ Save
      BY <1>7, <2>8, <3>1 DEF Read
    <3>3. saved'[1] = rcvtog /\ last' = last + 1 /\ call' = "Poll"
      BY <2>1, <2>2, <2>3, <2>8, <3>2, Returned
      DEF Save, Endpoint, Had, Calls
    <3>4. InStep(saved[1])'
      BY <2>1, <2>2, <2>3, <2>8, <3>3
      DEF InStep, Pos, Had, Endpoint, keyboard
    <3> QED
      BY <2>1, <2>8, <3>2, <3>4, ReturnSound DEF Calls
  <2>9. CASE call \in Reads
    <3>1. last' = last /\ call # "Poll"
      BY <2>1, <2>9 DEF Reads
    <3>2. \A i \in 1 .. Len(got') : got'[i] = <<call, i>>
      <4> SUFFICES ASSUME NEW i \in 1 .. Len(got') PROVE got'[i] = <<call, i>>
        OBVIOUS
      <4>1. CASE i \in 1 .. Len(got)
        BY <1>1, <2>1, <2>5, <2>9, <4>1 DEF Reading, Arrived
      <4>2. CASE i = Len(got) + 1
        BY <2>2, <2>5, <3>1, <4>2 DEF Had
      <4> QED
        BY <2>5, <4>1, <4>2
    <3>3. CASE ~Enough(got') /\ Dispatch("IN") /\ UNCHANGED <<call, saved>>
      <4>1. stage' = "IN" /\ flight' = <<"IN", call>> /\ call' = call /\ saved' = saved
        BY <3>3 DEF Dispatch, Launch
      <4>2. ~Arrived' /\ ~Addressed' /\ Serving'
        BY <2>1, <4>1 DEF Serving, Arrived, Addressed
      <4>3. InStep(rcvtog)'
        BY <2>1, <2>2, <2>3, <2>5, <3>1, <4>1 DEF InStep, Pos, Had, keyboard
      <4>4. Stepping'
        BY <3>1, <4>1, <4>2, <4>3 DEF Stepping
      <4>5. Prepared'
        BY <1>1, <2>1, <2>9, <3>1, <4>1, <4>2 DEF Prepared, Reads, keyboard
      <4>6. Reading'
        BY <3>2, <4>1 DEF Reading
      <4> QED
        BY <4>2, <4>4, <4>5, <4>6 DEF Sound
    <3>4. CASE Enough(got') /\ Save /\ Dispatch("OUTHS") /\ call' = call
      <4>1. stage' = "OUTHS" /\ flight' = <<"OUTHS", call>> /\ saved'[1] = saved[1]
        BY <2>3, <3>1, <3>4 DEF Dispatch, Launch, Save, Endpoint
      <4>2. ~Arrived' /\ ~Addressed' /\ Serving'
        BY <2>1, <3>4, <4>1 DEF Serving, Arrived, Addressed
      <4>3. Len(got') = Size(call)
        BY <2>1, <2>5, <2>6, <3>4 DEF Enough
      <4>4. Stepping' /\ Reading'
        BY <3>1, <3>2, <3>4, <4>1, <4>2, <4>3 DEF Stepping, Reading
      <4>5. Prepared'
        BY <1>1, <2>1, <2>9, <3>1, <3>4, <4>1, <4>2 DEF Prepared, Reads, keyboard
      <4> QED
        BY <4>2, <4>4, <4>5 DEF Sound
    <3> QED
      BY <1>7, <3>1, <3>3, <3>4 DEF Read
  <2> QED
    BY <2>1, <2>8, <2>9
<1> QED
  BY <1>2, <1>3, <1>4, <1>5, <1>6, <1>7 DEF Host

LEMMA ReplugSound ==
  ASSUME IInv, Replug, ~broken'
  PROVE  Sound'
PROOF
<1>1. stage' = "idle" /\ call' = "GetConf" /\ head' = made + 1 /\ last' = made
  BY DEF Replug
<1>2. ~done' /\ ~rcvdav' /\ flight' = NoFlight
  <2>1. CASE UNCHANGED <<chip, broken>>
    BY <2>1 DEF Replug, IInv, Sound, Serving, Arrived, chip
  <2>2. CASE ~UNCHANGED <<chip, broken>>
    BY <2>2 DEF Replug
  <2> QED
    BY <2>1, <2>2
<1>3. Serving' /\ Prepared' /\ Stepping' /\ Reading'
  BY <1>1, <1>2 DEF Serving, Prepared, Stepping, Reading, Arrived, Addressed, Reads
<1> QED
  BY <1>3 DEF Sound

LEMMA NextIInv == IInv /\ [Next]_vars => IInv'
PROOF
<1> SUFFICES ASSUME IInv, [Next]_vars PROVE IInv'
  OBVIOUS
<1>1. CASE UNCHANGED vars
  <2>1. TypeOK'
    BY <1>1 DEF vars, software, chip, keyboard, history, IInv, TypeOK
  <2>2. Staged' /\ Numbered' /\ broken' = broken
    BY <1>1
    DEF vars, software, chip, keyboard, history, IInv, Staged, Numbered
  <2>3. Sound => Sound'
    BY <1>1
    DEF vars, software, chip, keyboard, history, Sound, Serving, Prepared,
        Stepping, Reading, InStep, Pos, Had, Arrived, Addressed
  <2> QED
    BY <2>1, <2>2, <2>3 DEF IInv
<1>2. CASE Next
  <2>1. TypeOK' /\ Staged' /\ Numbered'
    BY <1>2, DeviceStepTypes, HostStepTypes, DeviceStepStaged, HostStepStaged
    DEF Next
  <2>2. ASSUME ~broken' PROVE Sound'
    <3>1. CASE MakeReport
      <4>1. UNCHANGED <<software, chip, dtog, dpos, head, history>>
        BY <3>1 DEF MakeReport
      <4>2. Sound
        BY <2>2, <4>1 DEF history, IInv
      <4> QED
        BY <4>1, <4>2
        DEF software, chip, history, Sound, Serving, Prepared, Stepping,
            Reading, InStep, Pos, Had, Arrived, Addressed
    <3>2. CASE Complete
      BY <2>2, <3>2, CompleteSound DEF Complete, history, IInv
    <3>3. CASE Host
      <4>1. broken' = broken
        BY <3>3
        DEF Host, Start, Again, Fail, Setup, Read, Handshaken, history
      <4> QED
        BY <2>2, <3>3, <4>1, HostSound DEF IInv
    <3>4. CASE Replug
      BY <2>2, <3>4, ReplugSound
    <3> QED
      BY <1>2, <2>2, <3>1, <3>2, <3>3, <3>4 DEF Next, GiveUp
  <2> QED
    BY <2>1, <2>2 DEF IInv
<1> QED
  BY <1>1, <1>2

LEMMA AlwaysIInv == Spec => []IInv
PROOF
  BY InitIInv, NextIInv, PTL DEF Spec

-----------------------------------------------------------------------------
(* The counters stay below their limits, a transfer keeps within the       *)
(* length asked for, and a control read that goes well has every packet of *)
(* its request once and in order (transfer.c:107-190).                     *)
THEOREM TransfersKeepOrder == Spec => []TransferInv
PROOF
<1>1. ASSUME IInv, NEW c \in Reads, call = c, stage = "OUTHS", ~broken
      PROVE  got = [i \in 1 .. Size(c) |-> <<c, i>>]
  <2>1. /\ \A i \in 1 .. Len(got) : got[i] = <<call, i>>
        /\ Len(got) = Size(call)
    BY <1>1 DEF IInv, Sound, Reading
  <2>2. got \in Seq(Calls \X Nat)
    BY <1>1 DEF IInv, TypeOK
  <2>3. got = [i \in 1 .. Len(got) |-> got[i]]
    BY <2>2, LenProperties
  <2> QED
    BY <1>1, <2>1, <2>3
<1>2. IInv => TransferInv
  BY <1>1 DEF IInv, TransferInv, ReadsWhole
<1> QED
  BY <1>2, AlwaysIInv, PTL

(* Between two polls the saved toggle is the one the keyboard will use, or *)
(* the keyboard will repeat the report that main has had, with the other   *)
(* toggle (transfer.c:101, 218).                                           *)
THEOREM StepsTogether == Spec => []TogglesAgree
PROOF
<1>1. ASSUME IInv, call = "Poll", stage = "idle", ~broken
      PROVE  \/ saved[1] = dtog[1] /\ head = last + 1
             \/ saved[1] # dtog[1] /\ head = last
  BY <1>1 DEF IInv, Sound, Stepping, InStep, Pos, Had, Endpoint
<1>2. IInv => TogglesAgree
  BY <1>1 DEF TogglesAgree
<1> QED
  BY <1>2, AlwaysIInv, PTL

-----------------------------------------------------------------------------
(* The refinement.                                                         *)

LEMMA InitRefined == Init => R!Init
PROOF
  BY DEF Init, R!Init

(* The steps of calls that return.                                         *)
LEMMA ReturnRefined ==
  ASSUME NEW r, call \in Calls, Return(r), UNCHANGED <<made, last, broken>>
  PROVE  [R!Next]_R!vars
PROOF
<1>1. (call' = "Poll") <=> (call \in {"GetProto", "Poll"})
  BY Returned
<1>2. CASE call = "GetProto"
  <2>1. R!Begin
    BY <1>1, <1>2 DEF R!Begin
  <2> QED
    BY <2>1 DEF R!Next
<1>3. CASE call # "GetProto"
  <2>1. (call' = "Poll") = (call = "Poll")
    BY <1>1, <1>3
  <2> QED
    BY <2>1 DEF R!vars
<1> QED
  BY <1>2, <1>3

(* A report that is read is the next one, once the transfers can be        *)
(* trusted, and one that was made in any case.                             *)
LEMMA ReadRefined ==
  ASSUME IInv, Read
  PROVE  [R!Next]_R!vars
PROOF
<1>1. /\ ChipTypes /\ FlagTypes /\ DeviceTypes /\ HistoryTypes
      /\ Staged /\ Numbered /\ (~broken => Sound)
  BY Types DEF IInv
<1>2. /\ stage = "IN" /\ done /\ hrsl = "OK" /\ rcvdav
      /\ made' = made /\ broken' = broken
      /\ last' = IF fifo[1] = "Poll" /\ call = "Poll" THEN fifo[2] ELSE last
  BY DEF Read, Seen, keyboard
<1>3. call' = "Poll" <=> call = "Poll"
  BY <1>1, <1>2, Returned DEF Read, Staged
<1>4. (call' = "Poll") = (call = "Poll")
  BY <1>3
<1>5. CASE last' = last
  BY <1>2, <1>4, <1>5 DEF R!vars
<1>6. CASE last' # last
  <2>1. call = "Poll" /\ fifo[1] = "Poll" /\ last' = fifo[2]
    BY <1>2, <1>6
  <2>2. fifo \in Calls \X Nat
    BY <1>1, <1>2 DEF Numbered, ChipTypes
  <2>3. last' \in 0 .. made
    BY <1>1, <2>1, <2>2 DEF Numbered, DeviceTypes
  <2>4. CASE broken
    <3>1. R!LoseOrRepeat
      BY <1>2, <1>4, <2>3, <2>4 DEF R!LoseOrRepeat
    <3> QED
      BY <3>1 DEF R!Next
  <2>5. CASE ~broken
    <3>1. last' = last + 1
      BY <1>1, <1>2, <2>1, <2>5 DEF Sound, Stepping, Arrived, Had
    <3>2. last < made
      BY <1>1, <2>3, <3>1 DEF HistoryTypes, DeviceTypes
    <3>3. R!Take
      BY <1>2, <1>4, <2>1, <3>1, <3>2 DEF R!Take
    <3> QED
      BY <3>3 DEF R!Next
  <2> QED
    BY <2>4, <2>5
<1> QED
  BY <1>5, <1>6

LEMMA NextRefined == IInv /\ [Next]_vars => [R!Next]_R!vars
PROOF
<1> SUFFICES ASSUME IInv, [Next]_vars PROVE [R!Next]_R!vars
  OBVIOUS
<1>1. Staged
  BY DEF IInv
<1>2. CASE UNCHANGED vars
  BY <1>2 DEF vars, software, keyboard, history, R!vars
<1>3. CASE MakeReport
  <2>1. R!Make
    BY <1>3 DEF MakeReport, R!Make, software, history
  <2> QED
    BY <2>1 DEF R!Next
<1>4. CASE Complete
  <2>1. UNCHANGED <<call, last, broken>>
    BY <1>4 DEF Complete, software, history
  <2>2. made' = made
    BY <1>4
    DEF Complete, Lost, Refused, Sent, Received, Commanded, Acknowledged, keyboard
  <2> QED
    BY <2>1, <2>2 DEF R!vars
<1>5. CASE Start \/ Again \/ Setup
  <2>1. UNCHANGED <<call, made, last, broken>>
    BY <1>5 DEF Start, Again, Setup, keyboard, history
  <2> QED
    BY <2>1 DEF R!vars
<1>6. CASE Fail \/ Handshaken
  <2>1. call \in Calls /\ UNCHANGED <<made, last, broken>>
    BY <1>1, <1>6 DEF Fail, Handshaken, Seen, Staged, keyboard, history
  <2> QED
    BY <1>6, <2>1, ReturnRefined DEF Fail, Handshaken
<1>7. CASE Read
  BY <1>7, ReadRefined
<1>8. CASE GiveUp
  <2>1. call \in Calls
    BY <1>1, <1>8 DEF GiveUp, Staged
  <2>2. /\ UNCHANGED <<made, last>> /\ broken' = TRUE
        /\ (call' = "Poll") \in {call = "Poll", TRUE}
    BY <1>8, <2>1, Returned DEF GiveUp, keyboard
  <2>3. R!GiveUp
    BY <2>2 DEF R!GiveUp
  <2> QED
    BY <2>3 DEF R!Next
<1>9. CASE Replug
  <2>1. /\ last' = made /\ made' = made /\ call' = "GetConf"
        /\ (~broken') \in {~broken, TRUE}
    BY <1>9 DEF Replug
  <2>2. R!Replug
    BY <2>1 DEF R!Replug
  <2> QED
    BY <2>2 DEF R!Next
<1> QED
  BY <1>2, <1>3, <1>4, <1>5, <1>6, <1>7, <1>8, <1>9 DEF Next, Host

(* The reports reach the main loop as Reports promises: in order, none     *)
(* lost and none twice, until a transfer is given up (transfer.c:89-225).  *)
THEOREM TransfersImplementReports == Spec => ImplementsReports
PROOF
<1>1. IInv /\ [Next]_vars => [R!Next]_R!vars
  BY NextRefined
<1> QED
  BY <1>1, InitRefined, AlwaysIInv, PTL DEF Spec, ImplementsReports, R!Spec
=============================================================================
