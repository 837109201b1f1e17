------------------------------- MODULE UsbHost -------------------------------
(***************************************************************************)
(* The USB host: the interrupt task of the MAX3421E controller, the        *)
(* enumeration state machine USB_Task with the device table, the HID       *)
(* probes and the part of the main loop that starts, watches and restarts  *)
(* them.  One socket: devices come and go at any moment, also between two  *)
(* steps of the loop.                                                      *)
(*                                                                         *)
(* A transfer is one choice here, success or failure; how one is carried   *)
(* out is the subject of UsbTransfer.                                      *)
(***************************************************************************)
EXTENDS Integers

CONSTANTS
  Device,     (* The devices that may be plugged in.                       *)
  Low,        (* Low[d]: d is a low-speed device.                          *)
  Kind,       (* Kind[d]: the driver for d, UNINIT when there is none.     *)
  NumDevices  (* USB_NUMDEVICES.                                           *)

UNINIT == 0
HID_K == 1
HID_M == 2

ASSUME UsbAssumption ==
  /\ Low \in [Device -> BOOLEAN]
  /\ Kind \in [Device -> {UNINIT, HID_K, HID_M}]
  /\ {"se0", "se1"} \cap Device = {}
  /\ NumDevices \in Nat /\ NumDevices > 1

(* usb_task_state: the high digit is the state, the low one the substate.  *)
DETACHED == 0
DET_INITIALIZE == 1
WAIT_FOR_DEVICE == 3
ILLEGAL == 4
ATTACHED == 16
SETTLE == 17
RESET_DEVICE == 18
WAIT_RESET_COMPLETE == 19
WAIT_SOF == 20
GET_DESCRIPTOR == 21
ADDRESSING == 32
CONFIGURING == 48
RUNNING == 64
ERROR == 255

Masked(s) == (s \div 16) * 16

Addr == 0 .. NumDevices
Given == 1 .. NumDevices - 1   (* The addresses that may be given away.    *)

VARIABLES
  state,     (* usb_task_state.                                            *)
  epinfo,    (* devtable[].epinfo: "NULL", "dev0ep" or "hid_ep".           *)
  devclass,  (* devtable[].devclass.                                       *)
  tmp_addr,  (* The address given last.                                    *)
  hid_addr,  (* hid_device.addr.                                           *)
  usb_delay, (* The end of the settle time, as the clock stands to it:     *)
             (* "ahead", "over", or "beyond" what the clock ever shows.    *)
  pc,        (* Where the main loop is.                                    *)
  flag,      (* runningdebugflag.                                          *)
  device,    (* The driver that main chose.                                *)
  condet,    (* CONDETIRQ.                                                 *)
  busevent,  (* BUSEVENTIRQ.                                               *)
  heard,     (* BUSEVENTIRQ as MaxIntHandler read it.                      *)
  resetting, (* BUSRST: the controller is resetting the bus.               *)
  lowspeed,  (* LOWSPEED of the MODE register.                             *)
  line,      (* "se0", "se1" or the device on the bus.                     *)
  daddr,     (* The address the device answers to; NumDevices: none yet.   *)
  fresh,     (* No probe has acted on the last change of line: history.    *)
  failed     (* The enumeration met an error of a transfer or ran out of   *)
             (* addresses: history.                                        *)

table == <<epinfo, devclass>>
task == <<state, table, tmp_addr, hid_addr, usb_delay>>
main == <<flag, device>>
irqs == <<condet, busevent, heard>>
chip == <<irqs, resetting, lowspeed>>
bus == <<line, daddr>>
history == <<fresh, failed>>
vars == <<task, pc, main, chip, bus, history>>

Empty == [a \in Addr |-> IF a = 0 THEN "dev0ep" ELSE "NULL"]
NoClass == [a \in Addr |-> UNINIT]

Init ==
  /\ state = DET_INITIALIZE
  /\ epinfo = [a \in Addr |-> "NULL"] /\ devclass = NoClass
  /\ tmp_addr = 0 /\ hid_addr = 0 /\ usb_delay \in {"over", "ahead"}
  /\ pc = "boot" /\ flag = FALSE /\ device = UNINIT
  /\ condet = FALSE /\ busevent = FALSE /\ heard = FALSE
  /\ resetting = FALSE /\ lowspeed = FALSE
  /\ line \in {"se0"} \union Device /\ daddr = NumDevices
  /\ fresh = TRUE /\ failed = FALSE

-----------------------------------------------------------------------------
(* The bus, the clock and the controller.                                  *)

(* A device is plugged in, perhaps over an illegal state of the contacts,  *)
(* or out.  The controller takes note.                                     *)
Plug ==
  /\ line' \in IF line \in Device THEN {"se0"}
               ELSE ({"se0", "se1"} \union Device) \ {line}
  /\ daddr' = NumDevices
  /\ condet' = TRUE
  /\ fresh' = TRUE
  /\ UNCHANGED <<task, pc, main, busevent, heard, resetting, lowspeed, failed>>

(* The bus reset ends: a bus event, and perhaps a connection detect        *)
(* interrupt (MAX3421E.c:170).                                             *)
ResetDone ==
  /\ resetting
  /\ resetting' = FALSE
  /\ busevent' = TRUE
  /\ condet' \in {condet, TRUE}
  /\ daddr' = IF line \in Device THEN 0 ELSE daddr
  /\ UNCHANGED <<task, pc, main, heard, lowspeed, line, history>>

(* The clock, (alt_nticks() * 1000) / alt_ticks_per_second() in 32 bits,   *)
(* passes the end of the settle time, or starts again at zero; an end that *)
(* was set just before that is beyond what it ever shows.  A step of the   *)
(* clock matters only when the task is about to look at it.                *)
Tick ==
  /\ pc = "task"
  /\ usb_delay' = CASE usb_delay = "ahead" -> "over"
                     [] usb_delay = "over" -> "ahead"
                     [] usb_delay = "beyond" -> "beyond"
  /\ UNCHANGED <<state, table, tmp_addr, hid_addr, pc, main, chip, bus, history>>

-----------------------------------------------------------------------------
(* MAX_busprobe: J and K say whether the speed of the device is the one    *)
(* that is set, so that either way the right one is set.                   *)

(* A faulty variant: a connected device in the state RUNNING is not new.   *)
ProbedButRunning(s) ==
  IF line \in Device
    THEN IF s \in {WAIT_RESET_COMPLETE, RUNNING} THEN s ELSE ATTACHED
  ELSE IF line = "se1" THEN ILLEGAL
  ELSE IF Masked(s) # DETACHED THEN DET_INITIALIZE ELSE WAIT_FOR_DEVICE

(* A faulty variant: a bus without a device is no event of its own.        *)
ProbedStays(s) ==
  IF line \in Device
    THEN IF s = WAIT_RESET_COMPLETE THEN s ELSE ATTACHED
  ELSE s

Probed(s) ==
  IF line \in Device
    THEN IF s = WAIT_RESET_COMPLETE THEN s ELSE ATTACHED
  ELSE IF line = "se1" THEN ILLEGAL
  ELSE IF Masked(s) # DETACHED THEN DET_INITIALIZE ELSE WAIT_FOR_DEVICE

ProbedSpeed(s, low) ==
  IF line \in Device /\ s # WAIT_RESET_COMPLETE THEN Low[line]
  ELSE IF line = "se0" /\ Masked(s) = DETACHED THEN FALSE
  ELSE low

(* The probe disregards a device that it finds during a bus reset.         *)
ProbeActs(s) == ~(line \in Device /\ s = WAIT_RESET_COMPLETE)

(* MAX3421E_init up to the probe: every register of the chip starts anew.  *)
InitProbe ==
  /\ pc \in {"boot", "reinit"}
  /\ state' = Probed(state)
  /\ lowspeed' = ProbedSpeed(state, FALSE)
  /\ busevent' = FALSE /\ condet' = FALSE /\ resetting' = FALSE
  /\ fresh' = (fresh /\ ~ProbeActs(state)) /\ failed' = FALSE
  /\ pc' = "initack"
  /\ UNCHANGED <<table, tmp_addr, hid_addr, usb_delay, main, heard, bus>>

USB_init == epinfo' = Empty /\ devclass' = NoClass

(* The end of MAX3421E_init, which clears the interrupt whatever has       *)
(* happened since the probe, and USB_init.                                 *)
InitAck ==
  /\ pc = "initack"
  /\ condet' = FALSE
  /\ USB_init
  /\ pc' = "int"
  /\ UNCHANGED <<state, tmp_addr, hid_addr, usb_delay, main, busevent, heard,
                 resetting, lowspeed, bus, history>>

Advanced(s) == (s + 1) % 256

(* MAX3421E_Task: only connection detect interrupts are enabled.  A bus    *)
(* event that is pending at that time advances the state the probe set.    *)
Interrupt ==
  /\ pc = "int" /\ condet
  /\ heard' = busevent
  /\ state' = IF busevent THEN Advanced(Probed(state)) ELSE Probed(state)
  /\ lowspeed' = ProbedSpeed(state, lowspeed)
  /\ fresh' = (fresh /\ ~ProbeActs(state))
  /\ failed' = (failed /\ ~ProbeActs(state))
  /\ pc' = "intack"
  /\ UNCHANGED <<table, tmp_addr, hid_addr, usb_delay, main, condet, busevent,
                 resetting, bus>>

NoInterrupt ==
  /\ pc = "int" /\ ~condet
  /\ pc' = "task"
  /\ UNCHANGED <<task, main, chip, bus, history>>

(* MaxIntHandler clears what it read, and what came since with it.         *)
InterruptAck ==
  /\ pc = "intack"
  /\ condet' = FALSE
  /\ busevent' = (busevent /\ ~heard)
  /\ heard' = FALSE
  /\ pc' = "task"
  /\ UNCHANGED <<task, main, resetting, lowspeed, bus, history>>

-----------------------------------------------------------------------------
(* USB_Task.                                                               *)

TaskStep ==
  /\ pc = "task" /\ pc' = "app"
  /\ UNCHANGED <<main, heard, lowspeed, line, fresh>>

Go(s) == state' = s

(* The device on the bus hears what is sent to address a.                  *)
Hears(a) == line \in Device /\ daddr = a /\ lowspeed = Low[line] /\ ~resetting

Detached ==
  /\ state = DET_INITIALIZE /\ Go(WAIT_FOR_DEVICE)
  /\ USB_init
  /\ UNCHANGED <<tmp_addr, hid_addr, usb_delay, condet, busevent, resetting, daddr, failed>>
  /\ TaskStep

AttachedStart ==
  /\ state = ATTACHED /\ Go(SETTLE)
  /\ usb_delay' \in {"ahead", "beyond"}
  /\ UNCHANGED <<table, tmp_addr, hid_addr, condet, busevent, resetting, daddr, failed>>
  /\ TaskStep

Settled ==
  /\ state = SETTLE /\ usb_delay = "over" /\ Go(RESET_DEVICE)
  /\ UNCHANGED <<table, tmp_addr, hid_addr, usb_delay, condet, busevent, resetting, daddr, failed>>
  /\ TaskStep

ResetDevice ==
  /\ state = RESET_DEVICE /\ Go(WAIT_RESET_COMPLETE)
  /\ busevent' = FALSE
  /\ resetting' = TRUE
  /\ condet' \in {condet, TRUE}
  /\ UNCHANGED <<table, tmp_addr, hid_addr, usb_delay, daddr, failed>>
  /\ TaskStep

(* The end of the reset, then the wait for a frame, whose test             *)
(* rHIRQ | bmFRAMEIRQ is always true.                                      *)
AwaitReset ==
  /\ \/ state = WAIT_RESET_COMPLETE /\ ~resetting /\ Go(WAIT_SOF)
     \/ state = WAIT_SOF /\ Go(GET_DESCRIPTOR)
  /\ UNCHANGED <<table, tmp_addr, hid_addr, usb_delay, condet, busevent, resetting, daddr, failed>>
  /\ TaskStep

(* The first request decides; the results of the others are not looked at. *)
GetDescriptor ==
  /\ state = GET_DESCRIPTOR
  /\ \/ Hears(0) /\ Go(ADDRESSING) /\ UNCHANGED failed
     \/ Go(ERROR) /\ failed' = (failed \/ Hears(0))
  /\ UNCHANGED <<table, tmp_addr, hid_addr, usb_delay, condet, busevent, resetting, daddr>>
  /\ TaskStep

Unused == {a \in Given : epinfo[a] = "NULL"}

NextAddr == {a \in Unused : \A b \in Unused : a <= b}

(* The entry is taken before the device is asked and stays when it fails.  *)
Address ==
  /\ state = ADDRESSING
  /\ \/ \E a \in NextAddr :
          /\ epinfo' = [epinfo EXCEPT ![a] = epinfo[0]]
          /\ \/ /\ Hears(0) /\ Go(CONFIGURING)
                /\ daddr' = a /\ tmp_addr' = a
                /\ UNCHANGED failed
             \/ /\ Go(ERROR)
                /\ daddr' \in IF Hears(0) THEN {0, a} ELSE {daddr}
                /\ failed' = (failed \/ Hears(0))
                /\ UNCHANGED tmp_addr
     \/ /\ Unused = {} /\ Go(ERROR)
        /\ failed' = TRUE
        /\ UNCHANGED <<epinfo, tmp_addr, daddr>>
  /\ UNCHANGED <<devclass, hid_addr, usb_delay, condet, busevent, resetting>>
  /\ TaskStep

(* The probe of driver c has found its device and switches the entry to    *)
(* the endpoints of the HID driver.                                        *)
Claim(c) ==
  /\ devclass' = [devclass EXCEPT ![tmp_addr] = c]
  /\ epinfo' = [epinfo EXCEPT ![tmp_addr] = "hid_ep"]
  /\ hid_addr' = tmp_addr

(* The drivers are tried in turn, mouse before keyboard, and at most one   *)
(* claims the device: it is configured, or it fails and keeps its entry.   *)
Configure ==
  /\ state = CONFIGURING
  /\ \/ /\ Hears(tmp_addr) /\ Kind[line] # UNINIT
        /\ Claim(Kind[line])
        /\ \/ Go(RUNNING) /\ UNCHANGED failed
           \/ Go(ERROR) /\ failed' = TRUE
     \/ /\ Go(ERROR)
        /\ failed' = (failed \/ Hears(tmp_addr))
        /\ UNCHANGED <<table, hid_addr>>
  /\ UNCHANGED <<tmp_addr, usb_delay, condet, busevent, resetting, daddr>>
  /\ TaskStep

(* Everything else: the task does nothing.                                 *)
Idle ==
  /\ \/ Masked(state) = DETACHED /\ state # DET_INITIALIZE
     \/ state = SETTLE /\ usb_delay # "over"
     \/ state = WAIT_RESET_COMPLETE /\ resetting
     \/ state \in {RUNNING, ERROR}
  /\ UNCHANGED <<task, condet, busevent, resetting, daddr, failed>>
  /\ TaskStep

USB_Task ==
  \/ Detached \/ AttachedStart \/ Settled \/ ResetDevice \/ AwaitReset
  \/ GetDescriptor \/ Address \/ Configure \/ Idle

-----------------------------------------------------------------------------
(* The rest of the main loop.                                              *)

InUse == {a \in Given : epinfo[a] # "NULL"}

(* The class of the last entry; a faulty variant takes the first one.      *)
DriverFirst == devclass[CHOOSE a \in InUse : \A b \in InUse : a <= b]
Driver == devclass[CHOOSE a \in InUse : \A b \in InUse : b <= a]

(* A faulty variant of Restart: the restart is forgotten.                  *)
NoRestart ==
  /\ UNCHANGED main
  /\ pc' = "int"

Restart ==
  /\ flag' = FALSE /\ pc' = IF flag THEN "reinit" ELSE "int"
  /\ UNCHANGED device

MainLoop ==
  /\ pc = "app"
  /\ \/ /\ state = RUNNING /\ ~flag
        /\ flag' = TRUE /\ device' = Driver
        /\ pc' = "int"
     \/ /\ (state = RUNNING /\ flag) \/ state = ERROR
        /\ pc' = "int"
        /\ UNCHANGED main
     \/ /\ state \notin {RUNNING, ERROR}
        /\ Restart
  /\ UNCHANGED <<task, chip, bus, history>>

Software ==
  \/ InitProbe \/ InitAck \/ Interrupt \/ NoInterrupt \/ InterruptAck
  \/ USB_Task \/ MainLoop

Next == Plug \/ ResetDone \/ Tick \/ Software

Spec == Init /\ [][Next]_vars

(* The processor, the clock and the controller go on.  A pass of the loop  *)
(* takes far less time than the clock needs to come round, so that the end *)
(* of the settle time is met; and the end of a reset, 50 ms after its      *)
(* beginning, does not always fall between MAX3421E_Task and USB_Task.     *)
FairSpec ==
  /\ Spec
  /\ WF_vars(Software)
  /\ SF_vars(Tick) /\ SF_vars(Settled)
  /\ WF_vars(ResetDone) /\ SF_vars(pc # "task" /\ ResetDone)

-----------------------------------------------------------------------------
(* Properties.                                                             *)

TypeOK ==
  /\ state \in DETACHED .. ILLEGAL + 1 \union ATTACHED .. GET_DESCRIPTOR
               \union {ADDRESSING, CONFIGURING, RUNNING, ERROR}
  /\ epinfo \in [Addr -> {"NULL", "dev0ep", "hid_ep"}]
  /\ devclass \in [Addr -> {UNINIT, HID_K, HID_M}]
  /\ tmp_addr \in Addr /\ hid_addr \in Addr
  /\ usb_delay \in {"ahead", "over", "beyond"}
  /\ pc \in {"boot", "reinit", "initack", "int", "intack", "task", "app"}
  /\ flag \in BOOLEAN /\ device \in {UNINIT, HID_K, HID_M}
  /\ condet \in BOOLEAN /\ busevent \in BOOLEAN /\ heard \in BOOLEAN
  /\ resetting \in BOOLEAN /\ lowspeed \in BOOLEAN
  /\ line \in {"se0", "se1"} \union Device /\ daddr \in Addr
  /\ fresh \in BOOLEAN /\ failed \in BOOLEAN

(* While the state is RUNNING, what is polled exists: the entry polled has *)
(* the two endpoints of the HID driver, kbdPoll reads the second of them;  *)
(* entry 1, which GetDriverandReport asks (main.c:57), is in use.          *)
PollsWired ==
  state = RUNNING =>
    /\ epinfo[hid_addr] = "hid_ep"
    /\ epinfo[1] # "NULL"

(* While the state is RUNNING and the line has not changed, the device     *)
(* polled is the one plugged in: it has the address and the speed the host *)
(* uses, and its driver is the one in the table.                           *)
ServesTheDevice ==
  state = RUNNING /\ ~fresh =>
    /\ Hears(hid_addr)
    /\ devclass[hid_addr] = Kind[line]

(* main polls with the driver of the device that runs now, never with that *)
(* of the one before, whatever entries failed devices left in the table.   *)
DriverIsCurrent == state = RUNNING /\ flag => device = devclass[hid_addr]

(* Whatever comes, goes and fails: what the running state and the main     *)
(* loop poll is there and is what they take it for (transfer.c:228-375,    *)
(* main.c:193-209).                                                        *)
HostInv == TypeOK /\ PollsWired /\ DriverIsCurrent

(* The settle time, once begun, never ends.                                *)
Late == state = SETTLE /\ usb_delay = "beyond"

(* A keyboard or mouse that is plugged in for good and noticed is polled   *)
(* in the end, with its driver, unless a transfer fails, no address is     *)
(* left or the settle time ends too late.                                  *)
Noticed == line \in Device /\ Kind[line] # UNINIT /\ ~fresh /\ ~failed /\ ~Late
Polled == state = RUNNING /\ flag /\ line \in Device /\ device = Kind[line]
PluggedIsServed == <>[]Noticed => <>[]Polled

(* A device that is gone for good and noticed is not polled any more, and  *)
(* the host waits for the next one.                                        *)
Gone == line = "se0" /\ ~fresh
Waiting == Masked(state) = DETACHED /\ ~flag
UnpluggedIsNoticed == <>[]Gone => <>[]Waiting

(* "when nothing is connected to ( or just disconnected from) USB bus":    *)
(* "cleanup device data structures" (transfer.c:256, 260).                 *)
CleanWhenDetached ==
  Masked(state) = DETACHED /\ line = "se0" /\ ~fresh /\ pc = "int" => InUse = {}
=============================================================================
