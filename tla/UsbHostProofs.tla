---------------------------- MODULE UsbHostProofs ----------------------------
(***************************************************************************)
(* What is polled is there and is what the program takes it for, for any   *)
(* number of devices and any length of the device table, whatever comes,   *)
(* goes and fails on the bus.                                              *)
(***************************************************************************)
EXTENDS UsbHost, TLAPS

(* Entry 0 is in place once USB_init has run.                              *)
RootInPlace == pc \notin {"boot", "initack"} => epinfo[0] = "dev0ep"

(* The entries in use are the first ones: addresses are given in order and *)
(* only USB_init takes them back.                                          *)
InOrder ==
  \A a, b \in Given : a <= b /\ epinfo[b] # "NULL" => epinfo[a] # "NULL"

(* Address a is in use and none above it is.                               *)
Last(a) ==
  /\ a \in Given /\ epinfo[a] # "NULL"
  /\ \A b \in Given : epinfo[b] # "NULL" => b <= a

(* The device that is being configured has the address given last ...      *)
Configured == state = CONFIGURING => Last(tmp_addr) /\ (fresh \/ Hears(tmp_addr))

(* ... and keeps it while it runs.                                         *)
Runs ==
  state = RUNNING =>
    /\ Last(hid_addr) /\ epinfo[hid_addr] = "hid_ep"
    /\ fresh \/ (Hears(hid_addr) /\ devclass[hid_addr] = Kind[line])

(* MAX3421E_init leaves no device configured behind.                       *)
Restarted == pc = "initack" => state \notin {CONFIGURING, RUNNING}

(* runningdebugflag outlives the state RUNNING by at most one step of      *)
(* USB_Task, and no device is configured in one step.                      *)
FlagLags ==
  flag => \/ state = RUNNING /\ pc # "boot" /\ pc # "reinit"
          \/ /\ pc \in {"intack", "task"}
             /\ state \in {1, 2, 3, 4, 5, ATTACHED, SETTLE}
          \/ /\ pc = "app"
             /\ state \in {1, 2, 3, 4, 5, ATTACHED, SETTLE, RESET_DEVICE}

(* The inductive invariant.                                                *)
Enumerated ==
  /\ RootInPlace /\ InOrder /\ Configured /\ Runs /\ Restarted /\ FlagLags
  /\ DriverIsCurrent

IInv == TypeOK /\ Enumerated

USE DEF UNINIT, HID_K, HID_M, DETACHED, DET_INITIALIZE, WAIT_FOR_DEVICE,
        ILLEGAL, ATTACHED, SETTLE, RESET_DEVICE, WAIT_RESET_COMPLETE, WAIT_SOF,
        GET_DESCRIPTOR, ADDRESSING, CONFIGURING, RUNNING, ERROR

-----------------------------------------------------------------------------
(* The operators.                                                          *)

LEMMA AddrFacts ==
  /\ 0 \in Addr /\ NumDevices \in Addr /\ 1 \in Given
  /\ Given \subseteq Addr /\ \A a \in Given : a \in Nat /\ a # 0
PROOF
  BY UsbAssumption DEF Addr, Given

LEMMA EmptyTable ==
  /\ Empty \in [Addr -> {"NULL", "dev0ep", "hid_ep"}]
  /\ NoClass \in [Addr -> {UNINIT, HID_K, HID_M}]
  /\ Empty[0] = "dev0ep"
  /\ \A a \in Given : Empty[a] = "NULL"
PROOF
  BY AddrFacts DEF Empty, NoClass

(* The state after a probe, without and with a bus event.                  *)
LEMMA AfterProbe ==
  ASSUME NEW s
  PROVE  /\ Probed(s) \in {DET_INITIALIZE, WAIT_FOR_DEVICE, ILLEGAL, ATTACHED,
                           WAIT_RESET_COMPLETE}
         /\ s # WAIT_RESET_COMPLETE => Probed(s) # WAIT_RESET_COMPLETE
PROOF
  BY DEF Probed

LEMMA AfterEvent ==
  ASSUME NEW s \in {DET_INITIALIZE, WAIT_FOR_DEVICE, ILLEGAL, ATTACHED,
                    WAIT_RESET_COMPLETE}
  PROVE  Advanced(s) = s + 1
PROOF
  BY DEF Advanced

(* The last address in use is the one whose driver main chooses.           *)
LEMMA DriverOfLast ==
  ASSUME NEW a, Last(a)
  PROVE  Driver = devclass[a]
PROOF
<1>1. a \in InUse /\ \A b \in InUse : b <= a
  BY DEF Last, InUse
<1>2. \A c \in InUse : (\A b \in InUse : b <= c) => c = a
  <2> SUFFICES ASSUME NEW c \in InUse, \A b \in InUse : b <= c PROVE c = a
    OBVIOUS
  <2>1. a <= c /\ c <= a
    BY <1>1
  <2>2. a \in Nat /\ c \in Nat
    BY AddrFacts DEF InUse, Last
  <2> QED
    BY <2>1, <2>2
<1>3. (CHOOSE c \in InUse : \A b \in InUse : b <= c) = a
  BY <1>1, <1>2
<1> QED
  BY <1>3 DEF Driver

-----------------------------------------------------------------------------
(* The types, those of the flags apart.                                    *)

Endpoints == [Addr -> {"NULL", "dev0ep", "hid_ep"}]
Classes == [Addr -> {UNINIT, HID_K, HID_M}]
States ==
  DETACHED .. ILLEGAL + 1 \union ATTACHED .. GET_DESCRIPTOR
    \union {ADDRESSING, CONFIGURING, RUNNING, ERROR}
Places == {"boot", "reinit", "initack", "int", "intack", "task", "app"}

Flags ==
  /\ flag \in BOOLEAN /\ condet \in BOOLEAN /\ busevent \in BOOLEAN
  /\ heard \in BOOLEAN /\ resetting \in BOOLEAN /\ lowspeed \in BOOLEAN
  /\ fresh \in BOOLEAN /\ failed \in BOOLEAN

Tables ==
  /\ epinfo \in Endpoints /\ devclass \in Classes
  /\ tmp_addr \in Addr /\ hid_addr \in Addr

Rest ==
  /\ state \in States /\ pc \in Places
  /\ usb_delay \in {"ahead", "over", "beyond"}
  /\ device \in {UNINIT, HID_K, HID_M}
  /\ line \in {"se0", "se1"} \union Device /\ daddr \in Addr

LEMMA Types == TypeOK <=> Flags /\ Tables /\ Rest
PROOF
  BY Zenon
  DEF TypeOK, Flags, Tables, Rest, Endpoints, Classes, States, Places

LEMMA TypesAfter == ASSUME Flags', Tables', Rest' PROVE TypeOK'
PROOF
  BY Zenon
  DEF TypeOK, Flags, Tables, Rest, Endpoints, Classes, States, Places

LEMMA InitTypes == Init => TypeOK
PROOF
<1> SUFFICES ASSUME Init PROVE TypeOK
  OBVIOUS
<1>1. Flags
  BY DEF Init, Flags
<1>2. Tables
  BY EmptyTable, AddrFacts DEF Init, Tables, Endpoints, Classes
<1>3. Rest
  BY AddrFacts DEF Init, Rest, States, Places
<1> QED
  BY <1>1, <1>2, <1>3, Types

LEMMA ProbeTypes ==
  ASSUME Flags
  PROVE  /\ Probed(state) \in States /\ Advanced(Probed(state)) \in States
         /\ ProbedSpeed(state, FALSE) \in BOOLEAN
         /\ ProbedSpeed(state, lowspeed) \in BOOLEAN
PROOF
<1>1. Probed(state) \in States /\ Advanced(Probed(state)) \in States
  BY AfterProbe, AfterEvent DEF States
<1>2. ASSUME NEW l \in BOOLEAN
      PROVE  ProbedSpeed(state, l) \in BOOLEAN
  BY UsbAssumption DEF ProbedSpeed
<1> QED
  BY <1>1, <1>2 DEF Flags

(* The bus, the clock and the controller.                                  *)
LEMMA OutsideTypes ==
  ASSUME TypeOK, Plug \/ ResetDone \/ Tick
  PROVE  TypeOK'
PROOF
<1>1. Flags /\ Tables /\ Rest
  BY Types
<1>2. Tables'
  BY <1>1 DEF Plug, ResetDone, Tick, Tables, task, table
<1>3. CASE Plug
  <2>1. Flags'
    BY <1>1, <1>3 DEF Plug, Flags, main
  <2>2. Rest'
    BY <1>1, <1>3, AddrFacts DEF Plug, Rest, task, main
  <2> QED
    BY <1>2, <2>1, <2>2, TypesAfter
<1>4. CASE ResetDone
  <2>1. Flags'
    BY <1>1, <1>4 DEF ResetDone, Flags, main, history
  <2>2. Rest'
    BY <1>1, <1>4, AddrFacts DEF ResetDone, Rest, task, main
  <2> QED
    BY <1>2, <2>1, <2>2, TypesAfter
<1>5. CASE Tick
  <2>1. Flags'
    BY <1>1, <1>5 DEF Tick, Flags, main, chip, irqs, history
  <2>2. usb_delay' \in {"ahead", "over", "beyond"}
    BY <1>1, <1>5 DEF Tick, Rest
  <2>3. Rest'
    BY <1>1, <1>5, <2>2 DEF Tick, Rest, main, bus
  <2> QED
    BY <1>2, <2>1, <2>3, TypesAfter
<1> QED
  BY <1>3, <1>4, <1>5

(* The interrupt task.                                                     *)
LEMMA ControllerTypes ==
  ASSUME TypeOK,
         InitProbe \/ InitAck \/ Interrupt \/ NoInterrupt \/ InterruptAck
  PROVE  TypeOK'
PROOF
<1>1. Flags /\ Tables /\ Rest
  BY Types
<1>2. CASE InitProbe
  <2>1. Flags'
    BY <1>1, <1>2, ProbeTypes DEF InitProbe, Flags, main
  <2>2. Tables' /\ Rest'
    BY <1>1, <1>2, ProbeTypes
    DEF InitProbe, Tables, Rest, Places, table, main, bus
  <2> QED
    BY <2>1, <2>2, TypesAfter
<1>3. CASE InitAck
  <2>1. Flags'
    BY <1>1, <1>3 DEF InitAck, Flags, main, history
  <2>2. Tables'
    BY <1>1, <1>3, EmptyTable
    DEF InitAck, USB_init, Tables, Endpoints, Classes
  <2>3. Rest'
    BY <1>1, <1>3 DEF InitAck, Rest, Places, main, bus
  <2> QED
    BY <2>1, <2>2, <2>3, TypesAfter
<1>4. CASE Interrupt
  <2>1. Flags'
    BY <1>1, <1>4, ProbeTypes DEF Interrupt, Flags, main
  <2>2. Tables' /\ Rest'
    BY <1>1, <1>4, ProbeTypes
    DEF Interrupt, Tables, Rest, Places, table, main, bus
  <2> QED
    BY <2>1, <2>2, TypesAfter
<1>5. CASE NoInterrupt
  <2>1. Flags' /\ Tables'
    BY <1>1, <1>5
    DEF NoInterrupt, Flags, Tables, task, table, main, chip, irqs, history
  <2>2. Rest'
    BY <1>1, <1>5 DEF NoInterrupt, Rest, Places, task, main, bus
  <2> QED
    BY <2>1, <2>2, TypesAfter
<1>6. CASE InterruptAck
  <2>1. Flags'
    BY <1>1, <1>6 DEF InterruptAck, Flags, main, history
  <2>2. Tables' /\ Rest'
    BY <1>1, <1>6
    DEF InterruptAck, Tables, Rest, Places, task, table, main, bus
  <2> QED
    BY <2>1, <2>2, TypesAfter
<1> QED
  BY <1>2, <1>3, <1>4, <1>5, <1>6

(* USB_Task and the rest of the main loop.                                 *)
LEMMA TaskTypes ==
  ASSUME TypeOK, USB_Task
  PROVE  TypeOK'
PROOF
<1>1. Flags /\ Tables /\ Rest
  BY Types
<1>2. TaskStep
  BY DEF USB_Task, Detached, AttachedStart, Settled, ResetDevice, AwaitReset,
         GetDescriptor, Address, Configure, Idle
<1>3. /\ UNCHANGED <<flag, device, heard, lowspeed, line, fresh>>
      /\ pc' = "app"
  BY <1>2 DEF TaskStep, main
<1>4. /\ condet' \in BOOLEAN /\ busevent' \in BOOLEAN
      /\ resetting' \in BOOLEAN /\ failed' \in BOOLEAN
  <2>1. ASSUME condet' = condet, busevent' = busevent, resetting' = resetting
        PROVE  condet' \in BOOLEAN /\ busevent' \in BOOLEAN /\ resetting' \in BOOLEAN
    BY <1>1, <2>1 DEF Flags
  <2>2. CASE ResetDevice
    BY <1>1, <2>2 DEF ResetDevice, Flags
  <2>3. CASE GetDescriptor
    BY <1>1, <2>1, <2>3 DEF GetDescriptor, Flags
  <2>4. CASE Address
    BY <1>1, <2>1, <2>4 DEF Address, Flags
  <2>5. CASE Configure
    BY <1>1, <2>1, <2>5 DEF Configure, Flags
  <2>6. CASE Detached \/ AttachedStart \/ Settled \/ AwaitReset \/ Idle
    BY <1>1, <2>1, <2>6
    DEF Detached, AttachedStart, Settled, AwaitReset, Idle, Flags
  <2> QED
    BY <2>2, <2>3, <2>4, <2>5, <2>6 DEF USB_Task
<1>5. Flags'
  BY <1>1, <1>3, <1>4 DEF Flags
<1>6. /\ state' \in States /\ usb_delay' \in {"ahead", "over", "beyond"}
  <2>1. \/ state' = state
        \/ state' \in {WAIT_FOR_DEVICE, SETTLE, RESET_DEVICE, ERROR, RUNNING,
                       WAIT_RESET_COMPLETE, WAIT_SOF, GET_DESCRIPTOR,
                       ADDRESSING, CONFIGURING}
    BY DEF USB_Task, Detached, AttachedStart, Settled, ResetDevice, AwaitReset,
           GetDescriptor, Address, Configure, Idle, Go, task
  <2>2. usb_delay' = usb_delay \/ usb_delay' \in {"ahead", "beyond"}
    BY DEF USB_Task, Detached, AttachedStart, Settled, ResetDevice, AwaitReset,
           GetDescriptor, Address, Configure, Idle, task
  <2> QED
    BY <1>1, <2>1, <2>2 DEF Rest, States
<1>7. CASE Address
  <2>1. NextAddr \subseteq Addr
    BY AddrFacts DEF NextAddr, Unused
  <2>2. epinfo[0] \in {"NULL", "dev0ep", "hid_ep"}
    BY <1>1, AddrFacts DEF Tables, Endpoints
  <2>3. epinfo' \in Endpoints /\ tmp_addr' \in Addr /\ daddr' \in Addr
    BY <1>1, <1>7, <2>1, <2>2, AddrFacts DEF Address, Tables, Rest, Endpoints
  <2>4. Tables' /\ Rest'
    BY <1>1, <1>3, <1>6, <1>7, <2>3 DEF Address, Tables, Rest, Places
  <2> QED
    BY <1>5, <2>4, TypesAfter
<1>8. CASE Configure
  <2>1. line \in Device => Kind[line] \in {UNINIT, HID_K, HID_M}
    BY UsbAssumption
  <2>2. epinfo' \in Endpoints /\ devclass' \in Classes /\ hid_addr' \in Addr
    BY <1>1, <1>8, <2>1
    DEF Configure, Claim, Hears, table, Tables, Endpoints, Classes
  <2>3. Tables' /\ Rest'
    BY <1>1, <1>3, <1>6, <1>8, <2>2 DEF Configure, Tables, Rest, Places
  <2> QED
    BY <1>5, <2>3, TypesAfter
<1>9. CASE Detached
  <2>1. Tables'
    BY <1>1, <1>9, EmptyTable DEF Detached, USB_init, Tables, Endpoints, Classes
  <2>2. Rest'
    BY <1>1, <1>3, <1>6, <1>9 DEF Detached, Rest, Places
  <2> QED
    BY <1>5, <2>1, <2>2, TypesAfter
<1>10. CASE \/ AttachedStart \/ Settled \/ ResetDevice \/ AwaitReset
            \/ GetDescriptor \/ Idle
  <2>1. Tables' /\ daddr' = daddr
    BY <1>1, <1>10
    DEF AttachedStart, Settled, ResetDevice, AwaitReset, GetDescriptor, Idle,
        Tables, task, table
  <2>2. Rest'
    BY <1>1, <1>3, <1>6, <2>1 DEF Rest, Places
  <2> QED
    BY <1>5, <2>1, <2>2, TypesAfter
<1> QED
  BY <1>7, <1>8, <1>9, <1>10 DEF USB_Task

LEMMA MainTypes ==
  ASSUME TypeOK, Last(hid_addr) \/ state # RUNNING, MainLoop
  PROVE  TypeOK'
PROOF
<1>1. Flags /\ Tables /\ Rest
  BY Types
<1>2. Flags'
  <2>1. flag' \in BOOLEAN
    BY <1>1 DEF MainLoop, Restart, Flags, main
  <2> QED
    BY <1>1, <2>1 DEF MainLoop, Flags, chip, irqs, history
<1>3. Tables'
  BY <1>1 DEF MainLoop, Tables, task, table
<1>4. state = RUNNING => Driver \in {UNINIT, HID_K, HID_M}
  BY <1>1, DriverOfLast, AddrFacts DEF Tables, Classes, Last
<1>5. Rest'
  BY <1>1, <1>4 DEF MainLoop, Restart, Rest, Places, task, main, bus
<1> QED
  BY <1>2, <1>3, <1>5, TypesAfter

LEMMA NextTypes ==
  ASSUME IInv, [Next]_vars
  PROVE  TypeOK'
PROOF
<1>1. TypeOK /\ (Last(hid_addr) \/ state # RUNNING)
  BY DEF IInv, Enumerated, Runs
<1>2. CASE UNCHANGED vars
  BY <1>1, <1>2
  DEF TypeOK, vars, task, table, main, chip, irqs, bus, history
<1>3. CASE Next
  BY <1>1, <1>3, OutsideTypes, ControllerTypes, TaskTypes, MainTypes
  DEF Next, Software
<1> QED
  BY <1>2, <1>3

-----------------------------------------------------------------------------
(* The enumeration.                                                        *)

LEMMA InitEnumerated == Init => Enumerated
PROOF
  BY AddrFacts
  DEF Init, Enumerated, RootInPlace, InOrder, Configured, Runs, Restarted,
      FlagLags, DriverIsCurrent

(* What is in use and who hears it stays while the table and the bus do.   *)
LEMMA SameTable ==
  ASSUME IInv, UNCHANGED <<state, table, tmp_addr, hid_addr>>,
         fresh' \/ UNCHANGED <<line, daddr, lowspeed, resetting, fresh>>
  PROVE  InOrder' /\ Configured' /\ Runs'
PROOF
<1>1. InOrder'
  BY DEF IInv, Enumerated, InOrder, table
<1>2. Configured'
  BY DEF IInv, Enumerated, Configured, Last, Hears, table
<1>3. Runs'
  BY DEF IInv, Enumerated, Runs, Last, Hears, table
<1> QED
  BY <1>1, <1>2, <1>3

LEMMA OutsideKeeps ==
  ASSUME IInv, Plug \/ ResetDone \/ Tick
  PROVE  Enumerated'
PROOF
<1>1. UNCHANGED <<state, table, tmp_addr, hid_addr, pc, main>>
  BY DEF Plug, ResetDone, Tick, task
<1>2. RootInPlace' /\ Restarted' /\ FlagLags' /\ DriverIsCurrent'
  BY <1>1
  DEF IInv, Enumerated, RootInPlace, Restarted, FlagLags, DriverIsCurrent,
      table, main
<1>3. CASE Plug \/ Tick
  <2>1. fresh' \/ UNCHANGED <<line, daddr, lowspeed, resetting, fresh>>
    BY <1>3 DEF Plug, Tick, chip, bus, history
  <2> QED
    BY <1>1, <1>2, <2>1, SameTable DEF Enumerated
<1>4. CASE ResetDone
  <2>1. resetting /\ fresh' = fresh
    BY <1>4 DEF ResetDone, history
  <2>2. state \in {CONFIGURING, RUNNING} => fresh'
    BY <2>1 DEF IInv, Enumerated, Configured, Runs, Hears
  <2>3. InOrder' /\ Configured' /\ Runs'
    BY <1>1, <2>2
    DEF IInv, Enumerated, InOrder, Configured, Runs, Last, table
  <2> QED
    BY <1>2, <2>3 DEF Enumerated
<1> QED
  BY <1>3, <1>4

LEMMA ControllerKeeps ==
  ASSUME IInv,
         InitProbe \/ InitAck \/ Interrupt \/ NoInterrupt \/ InterruptAck
  PROVE  Enumerated'
PROOF
<1> USE DEF Configured, Runs, Restarted, DriverIsCurrent
<1>1. CASE InitProbe
  <2>1. state' \notin {CONFIGURING, RUNNING}
    BY <1>1, AfterProbe DEF InitProbe
  <2>2. ~flag'
    BY <1>1 DEF InitProbe, main, IInv, Enumerated, FlagLags
  <2>3. RootInPlace' /\ InOrder'
    BY <1>1 DEF InitProbe, RootInPlace, InOrder, table, IInv, Enumerated
  <2> QED
    BY <2>1, <2>2, <2>3 DEF Enumerated, FlagLags
<1>2. CASE InitAck
  <2>1. state' \notin {CONFIGURING, RUNNING} /\ ~flag'
    BY <1>2 DEF InitAck, main, IInv, Enumerated, FlagLags
  <2>2. RootInPlace' /\ InOrder'
    BY <1>2, EmptyTable DEF InitAck, USB_init, RootInPlace, InOrder
  <2>3. pc' = "int"
    BY <1>2 DEF InitAck
  <2> QED
    BY <2>1, <2>2, <2>3 DEF Enumerated, FlagLags
<1>3. CASE Interrupt
  <2>1. pc' = "intack" /\ flag' = flag
    BY <1>3 DEF Interrupt, main
  <2>2. state' \in {1, 2, 3, 4, 5, ATTACHED, SETTLE, WAIT_RESET_COMPLETE, WAIT_SOF}
    BY <1>3, AfterProbe, AfterEvent DEF Interrupt
  <2>3. flag => state = RUNNING
    BY <1>3 DEF Interrupt, IInv, Enumerated, FlagLags
  <2>4. flag => state' \in {1, 2, 3, 4, 5, ATTACHED, SETTLE}
    BY <1>3, <2>3, AfterProbe, AfterEvent DEF Interrupt
  <2>5. RootInPlace' /\ InOrder'
    BY <1>3 DEF Interrupt, RootInPlace, InOrder, table, IInv, Enumerated
  <2> QED
    BY <2>1, <2>2, <2>4, <2>5 DEF Enumerated, FlagLags
<1>4. CASE NoInterrupt \/ InterruptAck
  <2>1. /\ UNCHANGED <<state, table, tmp_addr, hid_addr, main>> /\ pc' = "task"
        /\ UNCHANGED <<line, daddr, lowspeed, resetting, fresh>>
    BY <1>4 DEF NoInterrupt, InterruptAck, task, chip, bus, history
  <2>2. InOrder' /\ Configured' /\ Runs'
    BY <2>1, SameTable
  <2>3. RootInPlace' /\ FlagLags' /\ DriverIsCurrent'
    BY <1>4, <2>1
    DEF NoInterrupt, InterruptAck, RootInPlace, FlagLags, table, main,
        IInv, Enumerated
  <2> QED
    BY <2>1, <2>2, <2>3 DEF Enumerated
<1> QED
  BY <1>1, <1>2, <1>3, <1>4

(* The address that is given is the first one after those in use.          *)
LEMMA GivenLast ==
  ASSUME IInv, Address, NEW a \in NextAddr,
         epinfo' = [epinfo EXCEPT ![a] = epinfo[0]]
  PROVE  Last(a)' /\ InOrder' /\ epinfo'[0] = epinfo[0]
PROOF
<1>1. epinfo \in Endpoints /\ epinfo[0] = "dev0ep"
  BY DEF IInv, TypeOK, Endpoints, Enumerated, RootInPlace, Address, TaskStep
<1>2. a \in Given /\ epinfo[a] = "NULL" /\ \A b \in Unused : a <= b
  BY DEF NextAddr, Unused
<1>3. \A b \in Given : epinfo[b] # "NULL" => b <= a
  <2> SUFFICES ASSUME NEW b \in Given, epinfo[b] # "NULL", ~(b <= a)
               PROVE  FALSE
    OBVIOUS
  <2>1. a <= b
    BY <1>2, AddrFacts
  <2> QED
    BY <1>2, <2>1 DEF IInv, Enumerated, InOrder
<1>4. epinfo'[a] = "dev0ep"
  BY <1>1, <1>2, AddrFacts DEF Endpoints
<1>5. \A b \in Given : b # a => epinfo'[b] = epinfo[b]
  BY <1>1, AddrFacts DEF Endpoints
<1>6. \A b \in Given : epinfo'[b] # "NULL" => b <= a
  BY <1>2, <1>3, <1>5, AddrFacts
<1>7. \A b \in Given : b <= a => epinfo'[b] # "NULL"
  <2> SUFFICES ASSUME NEW b \in Given, b <= a, b # a PROVE epinfo[b] # "NULL"
    BY <1>4, <1>5
  <2> QED
    BY <1>2, AddrFacts DEF Unused
<1>8. InOrder'
  <2> SUFFICES ASSUME NEW b \in Given, NEW c \in Given, b <= c, epinfo'[c] # "NULL"
               PROVE  epinfo'[b] # "NULL"
    BY DEF InOrder
  <2>1. b <= a
    BY <1>2, <1>6, AddrFacts
  <2> QED
    BY <1>7, <2>1
<1> QED
  BY <1>1, <1>2, <1>4, <1>6, <1>8, AddrFacts DEF Last, Endpoints

LEMMA TaskKeeps ==
  ASSUME IInv, USB_Task
  PROVE  Enumerated'
PROOF
<1>1. TaskStep
  BY DEF USB_Task, Detached, AttachedStart, Settled, ResetDevice, AwaitReset,
         GetDescriptor, Address, Configure, Idle
<1>2. /\ UNCHANGED <<flag, device, lowspeed, line, fresh>>
      /\ pc = "task" /\ pc' = "app"
  BY <1>1 DEF TaskStep, main
<1>3. flag => state \in {1, 2, 3, 4, 5, ATTACHED, SETTLE, RUNNING}
  BY <1>2 DEF IInv, Enumerated, FlagLags
<1>4. epinfo[0] = "dev0ep"
  BY <1>2 DEF IInv, Enumerated, RootInPlace
<1>5. CASE Detached \/ AttachedStart \/ Settled \/ ResetDevice \/ AwaitReset
           \/ GetDescriptor
  <2>1. \/ state = DET_INITIALIZE /\ state' = WAIT_FOR_DEVICE
        \/ state = ATTACHED /\ state' = SETTLE
        \/ state = SETTLE /\ state' = RESET_DEVICE
        \/ state = RESET_DEVICE /\ state' = WAIT_RESET_COMPLETE
        \/ state = WAIT_RESET_COMPLETE /\ state' = WAIT_SOF
        \/ state = WAIT_SOF /\ state' = GET_DESCRIPTOR
        \/ state = GET_DESCRIPTOR /\ state' \in {ADDRESSING, ERROR}
    <3>1. CASE Detached
      BY <3>1 DEF Detached, Go
    <3>2. CASE AttachedStart
      BY <3>2 DEF AttachedStart, Go
    <3>3. CASE Settled
      BY <3>3 DEF Settled, Go
    <3>4. CASE ResetDevice
      BY <3>4 DEF ResetDevice, Go
    <3>5. CASE AwaitReset
      BY <3>5 DEF AwaitReset, Go
    <3>6. CASE GetDescriptor
      BY <3>6 DEF GetDescriptor, Go
    <3> QED
      BY <1>5, <3>1, <3>2, <3>3, <3>4, <3>5, <3>6
  <2>2. /\ state' \notin {CONFIGURING, RUNNING}
        /\ flag => state' \in {3, SETTLE, RESET_DEVICE}
    BY <1>3, <2>1
  <2>3. epinfo' = epinfo \/ epinfo' = Empty
    BY <1>5
    DEF Detached, AttachedStart, Settled, ResetDevice, AwaitReset,
        GetDescriptor, USB_init, table
  <2>4. RootInPlace' /\ InOrder'
    BY <1>4, <2>3, EmptyTable DEF RootInPlace, InOrder, IInv, Enumerated
  <2> QED
    BY <1>2, <2>2, <2>4
    DEF Enumerated, Configured, Runs, Restarted, FlagLags, DriverIsCurrent
<1>6. CASE Address
  <2>1. ~flag'
    BY <1>2, <1>3, <1>6 DEF Address
  <2>2. CASE Unused = {} /\ Go(ERROR) /\ UNCHANGED epinfo
    BY <1>2, <1>4, <2>1, <2>2
    DEF Go, Enumerated, RootInPlace, InOrder, Configured, Runs, Restarted,
        FlagLags, DriverIsCurrent, IInv
  <2>3. ASSUME NEW a \in NextAddr,
               epinfo' = [epinfo EXCEPT ![a] = epinfo[0]],
               \/ Hears(0) /\ Go(CONFIGURING) /\ daddr' = a /\ tmp_addr' = a
               \/ Go(ERROR)
        PROVE  Enumerated'
    <3>1. Last(a)' /\ InOrder' /\ epinfo'[0] = "dev0ep"
      BY <1>4, <1>6, <2>3, GivenLast
    <3>2. RootInPlace' /\ Restarted' /\ FlagLags' /\ DriverIsCurrent'
      BY <1>2, <2>1, <3>1
      DEF RootInPlace, Restarted, FlagLags, DriverIsCurrent
    <3>3. state' # RUNNING
      BY <2>3 DEF Go
    <3>4. resetting' = resetting
      BY <1>6 DEF Address
    <3>5. state' = CONFIGURING => tmp_addr' = a /\ Hears(a)'
      BY <1>2, <2>3, <3>4 DEF Go, Hears
    <3>6. state' = CONFIGURING => Last(tmp_addr)' /\ Hears(tmp_addr)'
      BY <3>1, <3>5 DEF Last, Hears
    <3> QED
      BY <3>1, <3>2, <3>3, <3>6 DEF Enumerated, Configured, Runs
  <2> QED
    BY <1>6, <2>2, <2>3 DEF Address
<1>7. CASE Configure
  <2>1. ~flag' /\ UNCHANGED <<tmp_addr, daddr, resetting>>
    BY <1>2, <1>3, <1>7 DEF Configure
  <2>2. Last(tmp_addr)
    BY <1>7 DEF Configure, IInv, Enumerated, Configured
  <2>3. epinfo \in Endpoints /\ devclass \in Classes /\ tmp_addr \in Addr
    BY DEF IInv, TypeOK, Endpoints, Classes
  <2>4. CASE Go(ERROR) /\ UNCHANGED <<table, hid_addr>>
    BY <1>2, <1>4, <2>1, <2>4
    DEF Go, table, Enumerated, RootInPlace, InOrder, Configured, Runs,
        Restarted, FlagLags, DriverIsCurrent, IInv
  <2>5. CASE /\ Hears(tmp_addr) /\ Claim(Kind[line])
             /\ Go(RUNNING) \/ Go(ERROR)
    <3>1. /\ epinfo'[tmp_addr] = "hid_ep" /\ devclass'[tmp_addr] = Kind[line]
          /\ \A b \in Addr : b # tmp_addr => epinfo'[b] = epinfo[b]
          /\ hid_addr' = tmp_addr
      BY <2>3, <2>5 DEF Claim, Endpoints, Classes
    <3>2. \A b \in Given : (epinfo'[b] # "NULL") <=> (epinfo[b] # "NULL")
      BY <2>2, <3>1, AddrFacts DEF Last
    <3>3. epinfo'[0] = "dev0ep"
      BY <1>4, <2>2, <3>1, AddrFacts DEF Last
    <3>4. InOrder'
      BY <3>2 DEF InOrder, IInv, Enumerated
    <3>5. Last(hid_addr)' /\ epinfo'[hid_addr'] = "hid_ep"
      BY <2>2, <3>1, <3>2 DEF Last
    <3>6. Hears(hid_addr)' /\ devclass'[hid_addr'] = Kind[line']
      BY <1>2, <2>1, <2>5, <3>1 DEF Hears
    <3>7. Runs' /\ Configured'
      BY <2>5, <3>5, <3>6 DEF Runs, Configured, Go
    <3> QED
      BY <1>2, <2>1, <3>3, <3>4, <3>7
      DEF Enumerated, RootInPlace, Restarted, FlagLags, DriverIsCurrent
  <2> QED
    BY <1>7, <2>4, <2>5 DEF Configure
<1>8. CASE Idle
  <2>1. UNCHANGED <<state, table, tmp_addr, hid_addr>>
    BY <1>8 DEF Idle, task
  <2>2. UNCHANGED <<line, daddr, lowspeed, resetting, fresh>>
    BY <1>2, <1>8 DEF Idle
  <2>3. InOrder' /\ Configured' /\ Runs'
    BY <2>1, <2>2, SameTable
  <2>4. RootInPlace' /\ Restarted' /\ FlagLags' /\ DriverIsCurrent'
    BY <1>2, <1>3, <1>4, <2>1
    DEF RootInPlace, Restarted, FlagLags, DriverIsCurrent, table,
        IInv, Enumerated
  <2> QED
    BY <2>3, <2>4 DEF Enumerated
<1> QED
  BY <1>5, <1>6, <1>7, <1>8 DEF USB_Task

LEMMA MainKeeps ==
  ASSUME IInv, MainLoop
  PROVE  Enumerated'
PROOF
<1>1. /\ UNCHANGED <<state, table, tmp_addr, hid_addr>>
      /\ UNCHANGED <<line, daddr, lowspeed, resetting, fresh>>
      /\ pc = "app" /\ pc' \in {"int", "reinit"}
  BY DEF MainLoop, Restart, task, chip, bus, history
<1>2. InOrder' /\ Configured' /\ Runs'
  BY <1>1, SameTable
<1>3. RootInPlace' /\ Restarted'
  BY <1>1 DEF RootInPlace, Restarted, table, IInv, Enumerated
<1>4. CASE state = RUNNING /\ ~flag
  <2>1. device' = devclass[hid_addr] /\ pc' = "int"
    BY <1>4, DriverOfLast DEF MainLoop, IInv, Enumerated, Runs
  <2> QED
    BY <1>1, <1>2, <1>3, <1>4, <2>1
    DEF Enumerated, FlagLags, DriverIsCurrent, table
<1>5. CASE (state = RUNNING /\ flag) \/ state = ERROR
  <2>1. UNCHANGED main /\ pc' = "int"
    BY <1>5 DEF MainLoop
  <2>2. FlagLags' /\ DriverIsCurrent'
    BY <1>1, <1>5, <2>1
    DEF FlagLags, DriverIsCurrent, main, table, IInv, Enumerated
  <2> QED
    BY <1>2, <1>3, <2>2 DEF Enumerated
<1>6. CASE state \notin {RUNNING, ERROR}
  <2>1. ~flag'
    BY <1>6 DEF MainLoop, Restart
  <2> QED
    BY <1>2, <1>3, <2>1 DEF Enumerated, FlagLags, DriverIsCurrent
<1> QED
  BY <1>4, <1>5, <1>6

LEMMA NextIInv == IInv /\ [Next]_vars => IInv'
PROOF
<1> SUFFICES ASSUME IInv, [Next]_vars PROVE IInv'
  OBVIOUS
<1>1. CASE Next
  BY <1>1, OutsideKeeps, ControllerKeeps, TaskKeeps, MainKeeps, NextTypes
  DEF Next, Software, IInv
<1>2. CASE UNCHANGED vars
  <2>1. /\ UNCHANGED <<state, table, tmp_addr, hid_addr, pc, main>>
        /\ UNCHANGED <<line, daddr, lowspeed, resetting, fresh>>
    BY <1>2 DEF vars, task, chip, bus, history
  <2>2. InOrder' /\ Configured' /\ Runs'
    BY <2>1, SameTable
  <2>3. RootInPlace' /\ Restarted' /\ FlagLags' /\ DriverIsCurrent'
    BY <2>1
    DEF IInv, Enumerated, RootInPlace, Restarted, FlagLags, DriverIsCurrent,
        table, main
  <2> QED
    BY <2>2, <2>3, NextTypes DEF IInv, Enumerated
<1> QED
  BY <1>1, <1>2

LEMMA AlwaysIInv == Spec => []IInv
PROOF
<1>1. Init => IInv
  BY InitTypes, InitEnumerated DEF IInv
<1> QED
  BY <1>1, NextIInv, PTL DEF Spec

-----------------------------------------------------------------------------
(* The entry that is polled and entry 1, which GetDriverandReport asks, are *)
(* in use, and main polls with the driver of the device that runs now      *)
(* (transfer.c:228-375, main.c:50-62, 193-209).                            *)
THEOREM PollsWhatIsThere == Spec => []HostInv
PROOF
<1>1. ASSUME IInv, state = RUNNING PROVE epinfo[1] # "NULL"
  <2>1. Last(hid_addr)
    BY <1>1 DEF IInv, Enumerated, Runs
  <2>2. 1 <= hid_addr
    BY <2>1, AddrFacts DEF Last
  <2> QED
    BY <1>1, <2>1, <2>2, AddrFacts DEF Last, IInv, Enumerated, InOrder
<1>2. IInv => HostInv
  BY <1>1 DEF IInv, Enumerated, Runs, HostInv, PollsWired
<1> QED
  BY <1>2, AlwaysIInv, PTL

(* While the state is RUNNING and the line has not changed, the device on  *)
(* the bus has the address, the speed and the driver the host polls it     *)
(* with (transfer.c:289-360).                                              *)
THEOREM ServesWhatIsPlugged == Spec => []ServesTheDevice
PROOF
<1>1. IInv => ServesTheDevice
  BY DEF IInv, Enumerated, Runs, ServesTheDevice
<1> QED
  BY <1>1, AlwaysIInv, PTL
=============================================================================
