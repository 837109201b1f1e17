--------------------------- MODULE JtagUartProofs ----------------------------
(***************************************************************************)
(* The type invariant of JtagUart, that the transmit interrupt is never    *)
(* forgotten, and that host_inactive measures the silence of the host, for *)
(* every length of the buffers and FIFOs, every rate and width of the tick *)
(* counter and every timeout.                                              *)
(***************************************************************************)
EXTENDS JtagUart, TLAPS

(* A write copies no more than it was given, and the interrupt routine     *)
(* puts no more into the FIFO than fits: the host only makes room.         *)
Fits ==
  /\ pc = "copy" => n <= count
  /\ isr = "serve" => space + Len(wfifo) <= WDepth

(* The ticks until the alarm.                                              *)
Left == (time - nticks) % Wrap

(* The alarm is set at most a period (at the start, one more) from now,    *)
(* and the flag says whether the counter starts again before that.         *)
OnTime ==
  /\ Left \in 1 .. Period + 1
  /\ rollover = (time < nticks)

(* With the ticks since the last alarm, Period - Left, the silence of the  *)
(* host is known up to a period.  Before the first tick there is none.     *)
Silence ==
  /\ Left = Period + 1 => host_inactive = 0
  /\ ~ac => host_inactive * Period + (Period - Left) <= quiet
  /\ ac => quiet <= Period - Left + 1
  /\ \/ ac
     \/ host_inactive = INT_MAX - 2
     \/ quiet <= host_inactive * Period + Period + (Period - Left) + 1

IInv == TypeOK /\ Fits /\ NeverForgotten /\ OnTime /\ Silence

LEMMA BytesPositive == Bytes \in Nat /\ Bytes > 0
<1>1. \A a, b \in Nat : a * b \in Nat
  OBVIOUS
<1> QED
  BY <1>1, JtagUartAssumption DEF Bytes

(* An index of the buffer, moved on around the end.                        *)
LEMMA Around ==
  ASSUME NEW L \in Nat, L > 0, NEW i \in 0 .. L - 1, NEW k \in 0 .. L
  PROVE  (i + k) % L = IF i + k < L THEN i + k ELSE i + k - L
  OBVIOUS

(* What is left between two indices.                                       *)
LEMMA Between ==
  ASSUME NEW L \in Nat, L > 0, NEW i \in 0 .. L - 1, NEW j \in 0 .. L - 1
  PROVE  (i - j) % L = IF j <= i THEN i - j ELSE i - j + L
  OBVIOUS

ClockType ==
  nticks \in 0 .. Wrap - 1 /\ time \in 0 .. Wrap - 1 /\ rollover \in BOOLEAN

(* The alarm goes off exactly when a tick is left, also around the zero of *)
(* the counter, and then has the whole period before it.                   *)
LEMMA ClockStarts == AlarmStart => ClockType /\ OnTime /\ Left = Period + 1
<1>1. SUFFICES ASSUME AlarmStart PROVE ClockType /\ OnTime /\ Left = Period + 1
  OBVIOUS
<1>2. nticks \in 0 .. Wrap - 1 /\ Period + 1 \in 0 .. Wrap /\ Wrap \in Nat /\ Wrap > 0
  BY <1>1, AlarmAssumption DEF AlarmStart
<1>3. time = IF nticks + (Period + 1) < Wrap THEN nticks + (Period + 1)
             ELSE nticks + (Period + 1) - Wrap
  <2>1. time = (nticks + (Period + 1)) % Wrap
    BY <1>1, <1>2, AlarmAssumption DEF AlarmStart
  <2> QED
    BY <2>1, <1>2, Around
<1>4. time \in 0 .. Wrap - 1
  BY <1>2, <1>3, AlarmAssumption
<1>5. Left = Period + 1
  <2>1. Left = IF nticks <= time THEN time - nticks ELSE time - nticks + Wrap
    BY <1>2, <1>4, Between DEF Left
  <2> QED
    BY <2>1, <1>2, <1>3, AlarmAssumption
<1> QED
  BY <1>1, <1>2, <1>4, <1>5, AlarmAssumption DEF AlarmStart, ClockType, OnTime

LEMMA ClockTicks ==
  ASSUME ClockType, OnTime, AlarmTick
  PROVE  /\ ClockType' /\ OnTime'
         /\ Expired <=> Left = 1
         /\ Left' = IF Expired THEN Period ELSE Left - 1
<1>1. Wrap \in Nat /\ Wrap > 0 /\ Period \in 0 .. Wrap /\ 1 \in 0 .. Wrap
  BY AlarmAssumption
<1>2. nticks' = IF nticks + 1 < Wrap THEN nticks + 1 ELSE nticks + 1 - Wrap
  BY <1>1, Around DEF ClockType, AlarmTick, Now
<1>3. nticks' \in 0 .. Wrap - 1 /\ Now = nticks'
  BY <1>1, <1>2 DEF ClockType, AlarmTick
<1>4. Left = IF nticks <= time THEN time - nticks ELSE time - nticks + Wrap
  BY <1>1, Between DEF ClockType, Left
<1>5. Expired <=> Left = 1
  <2>1. rollover <=> time < nticks
    BY DEF OnTime
  <2>2. Expired <=> time <= nticks' /\ ~(time < nticks /\ nticks' # 0)
    BY <1>3, <2>1 DEF Expired, Waiting
  <2> QED
    BY <1>1, <1>2, <1>4, <2>2, AlarmAssumption DEF ClockType, OnTime
<1>6. CASE Expired
  <2>1. time' = IF time + Period < Wrap THEN time + Period ELSE time + Period - Wrap
    BY <1>1, <1>6, Around DEF ClockType, AlarmTick
  <2>2. time' \in 0 .. Wrap - 1
    BY <1>1, <2>1, AlarmAssumption DEF ClockType
  <2>3. Left' = IF nticks' <= time' THEN time' - nticks' ELSE time' - nticks' + Wrap
    BY <1>1, <1>3, <2>2, Between DEF Left
  <2>4. time = nticks'
    BY <1>1, <1>2, <1>4, <1>5, <1>6 DEF ClockType
  <2>5. Left' = Period
    <3>1. Left' = IF time <= time' THEN time' - time ELSE time' - time + Wrap
      BY <2>3, <2>4
    <3>2. time \in 0 .. Wrap - 1 /\ Period \in 1 .. Wrap - 1
      BY <1>1, AlarmAssumption DEF ClockType
    <3> HIDE DEF Left
    <3> QED
      BY <1>1, <2>1, <3>1, <3>2
  <2>6. rollover' = (time' < nticks')
    BY <1>3, <1>6 DEF AlarmTick
  <2>7. rollover' \in BOOLEAN
    BY <2>6
  <2>8. Left' \in 1 .. Period + 1
    BY <2>5, AlarmAssumption
  <2> QED
    BY <1>3, <1>5, <1>6, <2>2, <2>5, <2>6, <2>7, <2>8 DEF ClockType, OnTime
<1>7. CASE ~Expired
  <2>1. time' = time /\ rollover' = Waiting
    BY <1>7 DEF AlarmTick
  <2>2. Left' = IF nticks' <= time THEN time - nticks' ELSE time - nticks' + Wrap
    BY <1>1, <1>3, <2>1, Between DEF ClockType, Left
  <2>3. Left' = Left - 1
    BY <1>1, <1>2, <1>4, <1>5, <1>7, <2>2, AlarmAssumption DEF ClockType, OnTime
  <2>4. rollover' <=> time' < nticks'
    <3>1. rollover <=> time < nticks
      BY DEF OnTime
    <3>2. rollover' <=> time < nticks /\ nticks' # 0
      BY <1>3, <2>1, <3>1 DEF Waiting
    <3> QED
      BY <1>1, <1>2, <1>4, <1>5, <1>7, <2>1, <3>2 DEF ClockType, OnTime
  <2>5. rollover' \in BOOLEAN
    BY <2>1 DEF ClockType, Waiting
  <2>6. rollover' = (time' < nticks')
    BY <2>4, <2>5
  <2>7. Left' \in 1 .. Period + 1
    BY <1>5, <1>7, <2>3, AlarmAssumption DEF OnTime
  <2>8. time' \in 0 .. Wrap - 1
    BY <2>1 DEF ClockType
  <2> QED
    BY <1>3, <1>5, <1>7, <2>3, <2>5, <2>6, <2>7, <2>8 DEF ClockType, OnTime
<1> QED
  BY <1>6, <1>7

-----------------------------------------------------------------------------
(* The types.                                                              *)

LEMMA ModByte == \A x \in Int : x % Bytes \in Byte
<1>1. ASSUME NEW B \in Nat, B > 0, NEW x \in Int PROVE x % B \in 0 .. B - 1
  BY <1>1
<1> QED
  BY <1>1, BytesPositive DEF Byte

LEMMA ModIndex == \A x \in Int : x % BUF_LEN \in Index
<1>1. ASSUME NEW B \in Nat, B > 0, NEW x \in Int PROVE x % B \in 0 .. B - 1
  BY <1>1
<1> QED
  BY <1>1, JtagUartAssumption DEF Index

LEMMA PendingType == TypeOK => Pending \in Index
<1>1. TypeOK => tx_in - tx_out \in Int
  BY JtagUartAssumption DEF TypeOK, Index
<1> QED
  BY <1>1, ModIndex DEF Pending

(* The parts of TypeOK, as the steps touch them.                           *)
WriterType ==
  /\ pc \in {"idle", "room", "copy", "publish", "kick", "wait", "check"}
  /\ count \in 0 .. MaxCount /\ out \in Index /\ n \in 0 .. MaxCount
  /\ sent \in Byte
  /\ tx_in \in Index /\ tx_buf \in [Index -> Byte]

IsrType ==
  /\ tx_out \in Index
  /\ rx_count \in 0 .. RX_LEN - 1 /\ re \in BOOLEAN /\ we \in BOOLEAN
  /\ isr \in {"off", "control", "serve"}
  /\ ri \in BOOLEAN /\ wi \in BOOLEAN /\ space \in 0 .. WDepth
  /\ wfifo \in Seq(Byte) /\ Len(wfifo) <= WDepth /\ rfifo \in 0 .. RDepth
  /\ pause_irq \in BOOLEAN

LineType ==
  /\ host_inactive \in 0 .. INT_MAX - 2
  /\ ac \in BOOLEAN /\ quiet \in 0 .. MaxQuiet

LEMMA Types == TypeOK <=> WriterType /\ IsrType /\ LineType /\ ClockType
  BY DEF TypeOK, WriterType, IsrType, LineType, ClockType

LEMMA InitTypes == Init => TypeOK /\ Fits
<1>1. SUFFICES ASSUME Init PROVE TypeOK /\ Fits
  OBVIOUS
<1>2. ClockType
  BY <1>1, ClockStarts DEF Init
<1>3. 0 \in Byte /\ 0 \in Index /\ MaxQuiet \in Nat
  <2>1. \A a, b \in Nat : a * b \in Nat
    OBVIOUS
  <2> QED
    BY <2>1, BytesPositive, JtagUartAssumption, AlarmAssumption DEF Byte, Index, MaxQuiet
<1>4. << >> \in Seq(Byte) /\ Len(<< >>) = 0
  OBVIOUS
<1>5. tx_buf \in [Index -> Byte]
  BY <1>1, <1>3 DEF Init
<1>6. WriterType
  BY <1>1, <1>3, <1>5, JtagUartAssumption DEF Init, WriterType
<1>7. IsrType
  <2>1. wfifo \in Seq(Byte) /\ Len(wfifo) <= WDepth /\ rfifo \in 0 .. RDepth
    BY <1>1, <1>4, JtagUartAssumption DEF Init
  <2>2. tx_out \in Index /\ rx_count \in 0 .. RX_LEN - 1 /\ space \in 0 .. WDepth
    BY <1>1, <1>3, JtagUartAssumption DEF Init
  <2>3. re \in BOOLEAN /\ we \in BOOLEAN /\ ri \in BOOLEAN /\ wi \in BOOLEAN
        /\ isr = "off" /\ pause_irq \in BOOLEAN
    BY <1>1 DEF Init
  <2> QED
    BY <2>1, <2>2, <2>3 DEF IsrType
<1>8. LineType
  BY <1>1, <1>3, JtagUartAssumption DEF Init, LineType
<1> QED
  BY <1>1, <1>2, <1>6, <1>7, <1>8, Types DEF Init, Fits

LEMMA WriterTypes ==
  ASSUME TypeOK, Fits, Write \/ Writer
  PROVE  TypeOK' /\ Fits'
<1>1. WriterType /\ IsrType /\ LineType /\ ClockType
  BY Types
<1>2. (IsrType /\ LineType /\ ClockType)'
  <2>1. we' \in BOOLEAN
    BY <1>1 DEF IsrType, Write, Writer, MeasureRoom, Copy, Publish, Kick, StopWaiting, Check
  <2> QED
    BY <1>1, <2>1 DEF IsrType, LineType, ClockType, Write, Writer, MeasureRoom, Copy,
       Publish, Kick, StopWaiting, Check, WriterStep, control, line, clock
<1>3. isr' = isr /\ space' = space /\ wfifo' = wfifo
  BY DEF Write, Writer, MeasureRoom, Copy, Publish, Kick, StopWaiting, Check, WriterStep,
     control
<1>4. WriterType' /\ (pc' = "copy" => n' <= count')
  <2>1. CASE Write
    BY <1>1, <2>1 DEF Write, WriterType
  <2>2. CASE MeasureRoom
    <3>1. Room(tx_out) \in Int
      BY <1>1, JtagUartAssumption DEF Room, WriterType, IsrType, Index
    <3>2. Room(tx_out) >= 0
      BY <1>1, JtagUartAssumption DEF Room, WriterType, IsrType, Index
    <3>3. CASE Room(tx_out) = 0
      BY <1>1, <2>2, <3>3 DEF MeasureRoom, WriterType, IsrType
    <3>4. CASE Room(tx_out) # 0
      <4>1. pc' = "copy" /\ n' = MinOf(Room(tx_out), count) /\ out' = out
        BY <2>2, <3>4 DEF MeasureRoom
      <4>2. n' \in 0 .. MaxCount /\ n' <= count
        BY <1>1, <3>1, <3>2, <4>1, JtagUartAssumption DEF MinOf, WriterType
      <4> QED
        BY <1>1, <2>2, <4>1, <4>2 DEF MeasureRoom, WriterType
    <3> QED
      BY <3>3, <3>4
  <2>3. CASE Copy
    <3>1. tx_buf' \in [Index -> Byte]
      <4>1. \A i \in Index : (sent + (i - tx_in)) % Bytes \in Byte
        <5>1. sent \in Int /\ tx_in \in Int /\ \A i \in Index : i \in Int
          BY <1>1, BytesPositive DEF WriterType, Index, Byte
        <5> QED
          BY <5>1, ModByte
      <4> QED
        BY <1>1, <2>3, <4>1 DEF Copy, WriterType
    <3>2. count' \in 0 .. MaxCount
      BY <1>1, <2>3, JtagUartAssumption DEF Copy, WriterType, Fits
    <3> QED
      BY <1>1, <2>3, <3>1, <3>2 DEF Copy, WriterType
  <2>4. CASE Publish
    <3>1. tx_in' \in Index
      BY <1>1, <2>4, ModIndex, JtagUartAssumption DEF Publish, WriterType, Index
    <3>2. sent' \in Byte
      BY <1>1, <2>4, ModByte, BytesPositive, JtagUartAssumption DEF Publish, WriterType, Byte
    <3> QED
      BY <1>1, <2>4, <3>1, <3>2, JtagUartAssumption DEF Publish, WriterType
  <2>5. CASE Kick
    BY <1>1, <2>5 DEF Kick, WriterType
  <2>6. CASE StopWaiting
    BY <1>1, <2>6, JtagUartAssumption DEF StopWaiting, WriterType, Index
  <2>7. CASE Check
    BY <1>1, <2>7, JtagUartAssumption DEF Check, WriterType
  <2> QED
    BY <2>1, <2>2, <2>3, <2>4, <2>5, <2>6, <2>7 DEF Writer
<1>5. TypeOK'
  BY <1>2, <1>4 DEF TypeOK, WriterType, IsrType, LineType, ClockType
<1> QED
  BY <1>3, <1>4, <1>5 DEF Fits

(* What the interrupt routine takes from the buffer.                       *)
Moved == IF wi THEN MinOf(space, Pending) ELSE 0

LEMMA MovedType ==
  ASSUME TypeOK
  PROVE  /\ Moved \in Nat /\ Moved <= Pending /\ Moved <= space
         /\ Buffered(Moved) \in Seq(Byte) /\ Len(Buffered(Moved)) = Moved
<1>1. Pending \in Index /\ Pending >= 0
  BY PendingType, JtagUartAssumption DEF Index
<1>2. Moved \in Nat /\ Moved <= Pending /\ Moved <= space
  BY <1>1, JtagUartAssumption DEF TypeOK, Moved, MinOf, Index
<1>3. \A i \in 1 .. Moved : tx_buf[(tx_out + i - 1) % BUF_LEN] \in Byte
  <2>1. tx_out \in Int
    BY JtagUartAssumption DEF TypeOK, Index
  <2>2. \A i \in 1 .. Moved : tx_out + i - 1 \in Int
    BY <1>2, <2>1
  <2> QED
    BY <2>2, ModIndex DEF TypeOK
<1>4. Buffered(Moved) \in [1 .. Moved -> Byte]
  BY <1>3 DEF Buffered
<1> QED
  BY <1>2, <1>4

LEMMA ServeTypes ==
  ASSUME TypeOK, Fits, Serve
  PROVE  TypeOK' /\ Fits'
<1>1. WriterType' /\ LineType' /\ ClockType'
  BY Types DEF Serve, IsrStep, writer, line, clock, WriterType, LineType, ClockType
<1>2. (/\ rx_count \in 0 .. RX_LEN - 1 /\ re \in BOOLEAN /\ rfifo \in 0 .. RDepth
       /\ pause_irq \in BOOLEAN)'
  <2> DEFINE k == IF ri THEN MinOf(rfifo, RX_LEN - 1 - rx_count) ELSE 0
  <2>1. k \in Nat /\ k <= rfifo /\ k <= RX_LEN - 1 - rx_count
    BY JtagUartAssumption DEF TypeOK, MinOf
  <2>2. rx_count' = rx_count + k /\ rfifo' = rfifo - k
    BY DEF Serve
  <2>3. re' \in BOOLEAN
    BY DEF Serve, StillEnabled, TypeOK
  <2>4. pause_irq' \in BOOLEAN
    BY DEF Serve, TypeOK
  <2> HIDE DEF k
  <2> QED
    BY <2>1, <2>2, <2>3, <2>4, JtagUartAssumption DEF TypeOK
<1>3. tx_out' = (tx_out + Moved) % BUF_LEN /\ wfifo' = wfifo \o Buffered(Moved)
  BY DEF Serve, Moved
<1>4. tx_out' \in Index
  <2>1. tx_out + Moved \in Int
    BY MovedType, JtagUartAssumption DEF TypeOK, Index
  <2> QED
    BY <1>3, <2>1, ModIndex
<1>5. wfifo' \in Seq(Byte) /\ Len(wfifo') <= WDepth
  <2>1. wfifo' \in Seq(Byte) /\ Len(wfifo') = Len(wfifo) + Moved
    <3>1. wfifo \in Seq(Byte)
      BY DEF TypeOK
    <3>2. \A t \in Seq(Byte) : wfifo \o t \in Seq(Byte) /\ Len(wfifo \o t) = Len(wfifo) + Len(t)
      BY <3>1
    <3> QED
      BY <1>3, <3>2, MovedType
  <2>2. space + Len(wfifo) <= WDepth /\ space \in Nat /\ Len(wfifo) \in Nat
    BY JtagUartAssumption DEF Fits, Serve, TypeOK
  <2> QED
    BY <2>1, <2>2, MovedType, JtagUartAssumption
<1>6. isr' = "control" /\ ri' = FALSE /\ wi' = FALSE /\ space' = 0 /\ we' \in BOOLEAN
  BY DEF Serve, MoreToSend, TypeOK
<1>7. IsrType'
  <2>1. space' \in 0 .. WDepth
    BY <1>6, JtagUartAssumption
  <2> QED
    BY <1>2, <1>4, <1>5, <1>6, <2>1, Zenon DEF IsrType
<1> QED
  BY <1>1, <1>6, <1>7 DEF TypeOK, WriterType, IsrType, LineType, ClockType, Fits, Serve,
     IsrStep, writer

LEMMA ReadControlTypes ==
  ASSUME TypeOK, Fits, ReadControl
  PROVE  TypeOK' /\ Fits'
<1>1. WriterType' /\ LineType' /\ ClockType'
  BY Types DEF ReadControl, IsrStep, writer, line, clock, WriterType, LineType, ClockType
<1>2. space' \in 0 .. WDepth /\ space' + Len(wfifo') <= WDepth
  <2>1. Len(wfifo) \in Nat /\ Len(wfifo) <= WDepth
    BY DEF TypeOK
  <2> QED
    BY <2>1, JtagUartAssumption DEF ReadControl
<1>3. IsrType'
  BY <1>2 DEF ReadControl, RI, WI, TypeOK, IsrType
<1> QED
  BY <1>1, <1>2, <1>3 DEF TypeOK, WriterType, IsrType, LineType, ClockType, Fits,
     ReadControl, IsrStep, writer

LEMMA TickTypes ==
  ASSUME TypeOK, Fits, OnTime, Tick
  PROVE  TypeOK' /\ Fits' /\ OnTime'
<1>1. ClockType' /\ OnTime'
  BY ClockTicks DEF Tick, TypeOK, ClockType
<1>2. LineType'
  <2>1. MaxQuiet \in Nat
    <3>1. \A a, b \in Nat : a * b \in Nat
      OBVIOUS
    <3> QED
      BY <3>1, JtagUartAssumption, AlarmAssumption DEF MaxQuiet
  <2>2. quiet' \in 0 .. MaxQuiet
    BY <2>1 DEF Tick, MinOf, TypeOK
  <2>3. ac' \in BOOLEAN
    BY DEF Tick, CheckForHost, TypeOK
  <2>4. host_inactive' \in 0 .. INT_MAX - 2
    <3>1. host_inactive' \in {0, host_inactive, Longer(host_inactive)}
      BY DEF Tick, CheckForHost
    <3> QED
      BY <3>1, JtagUartAssumption DEF Longer, TypeOK
  <2> QED
    BY <2>2, <2>3, <2>4 DEF LineType
<1>3. WriterType' /\ IsrType' /\ Fits'
  BY Types DEF Tick, writer, control, WriterType, IsrType, Fits
<1> QED
  BY <1>1, <1>2, <1>3 DEF TypeOK, WriterType, IsrType, LineType, ClockType

LEMMA HostTypes ==
  ASSUME TypeOK, Fits, HostReceive \/ HostType \/ HostPause
  PROVE  TypeOK' /\ Fits'
<1>1. WriterType' /\ ClockType'
  BY Types DEF HostReceive, HostType, HostPause, HostStep, writer, clock, WriterType,
     ClockType
<1>2. LineType'
  <2>1. CASE HostReceive
    BY <2>1 DEF HostReceive, HostStep, line, TypeOK, LineType
  <2>2. CASE HostType \/ HostPause
    <3>1. MaxQuiet \in Nat
      <4>1. \A a, b \in Nat : a * b \in Nat
        OBVIOUS
      <4> QED
        BY <4>1, JtagUartAssumption, AlarmAssumption DEF MaxQuiet
    <3>2. ac' = TRUE /\ quiet' = 0 /\ host_inactive' = host_inactive
      BY <2>2 DEF HostType, HostPause, HostStep, Active
    <3>3. quiet' \in 0 .. MaxQuiet
      BY <3>1, <3>2
    <3> QED
      BY <3>2, <3>3 DEF TypeOK, LineType
  <2> QED
    BY <2>1, <2>2
<1>3. /\ wfifo' \in Seq(Byte) /\ Len(wfifo') <= Len(wfifo) /\ rfifo' \in 0 .. RDepth
      /\ pause_irq' \in BOOLEAN
  <2>1. CASE HostReceive
    BY <2>1 DEF HostReceive, TypeOK
  <2>2. CASE HostType
    BY <2>2, JtagUartAssumption DEF HostType, MinOf, TypeOK
  <2>3. CASE HostPause
    BY <2>3, JtagUartAssumption DEF HostPause, TypeOK
  <2> QED
    BY <2>1, <2>2, <2>3
<1>4. UNCHANGED <<writer, tx_out, rx_count, re, we, control>>
  BY DEF HostReceive, HostType, HostPause, HostStep
<1>5. Len(wfifo) \in Nat /\ Len(wfifo') \in Nat
  BY <1>3 DEF TypeOK
<1>6. IsrType'
  BY <1>3, <1>4, <1>5, JtagUartAssumption DEF TypeOK, IsrType, control
<1>7. Fits'
  BY <1>3, <1>4, <1>5, JtagUartAssumption DEF TypeOK, Fits, control, writer
<1> QED
  BY <1>1, <1>2, <1>6, <1>7 DEF TypeOK, WriterType, IsrType, LineType, ClockType

-----------------------------------------------------------------------------
(* The transmit interrupt.                                                 *)

LEMMA ServeLeaves ==
  ASSUME TypeOK, Serve
  PROVE  Pending' = Pending - Moved
<1>1. tx_in' = tx_in /\ tx_out' = (tx_out + Moved) % BUF_LEN
  BY DEF Serve, IsrStep, writer, Moved
<1>2. BUF_LEN \in Nat /\ BUF_LEN > 0
  BY JtagUartAssumption
<1>3. tx_in \in 0 .. BUF_LEN - 1 /\ tx_out \in 0 .. BUF_LEN - 1
  BY DEF TypeOK, Index
<1>4. Pending = IF tx_out <= tx_in THEN tx_in - tx_out ELSE tx_in - tx_out + BUF_LEN
  BY <1>2, <1>3, Between DEF Pending
<1>5. Moved \in 0 .. BUF_LEN /\ Moved <= Pending
  BY <1>2, <1>3, <1>4, MovedType
<1>6. tx_out' = IF tx_out + Moved < BUF_LEN THEN tx_out + Moved ELSE tx_out + Moved - BUF_LEN
  BY <1>1, <1>2, <1>3, <1>5, Around
<1>7. tx_out' \in 0 .. BUF_LEN - 1
  BY <1>2, <1>3, <1>5, <1>6
<1>8. Pending' = IF tx_out' <= tx_in THEN tx_in - tx_out' ELSE tx_in - tx_out' + BUF_LEN
  BY <1>1, <1>2, <1>3, <1>7, Between DEF Pending
<1> QED
  BY <1>2, <1>3, <1>4, <1>5, <1>6, <1>8

LEMMA ForgottenStep ==
  ASSUME TypeOK, NeverForgotten, [Next]_vars
  PROVE  NeverForgotten'
<1>1. CASE Write \/ MeasureRoom \/ Copy \/ StopWaiting \/ Check
  <2>1. tx_in' = tx_in /\ tx_out' = tx_out /\ we' = we
    BY <1>1 DEF Write, MeasureRoom, Copy, StopWaiting, Check, WriterStep
  <2>2. pc \in {"room", "copy", "publish", "kick"} => pc' \in {"room", "copy", "publish", "kick"}
    BY <1>1 DEF Write, MeasureRoom, Copy, StopWaiting, Check
  <2> QED
    BY <2>1, <2>2 DEF NeverForgotten, Pending
<1>2. CASE Publish
  BY <1>2 DEF Publish, NeverForgotten
<1>3. CASE Kick
  BY <1>3 DEF Kick, NeverForgotten
<1>4. CASE Serve
  <2>1. Pending' = Pending - Moved /\ pc' = pc
    BY <1>4, ServeLeaves DEF Serve, IsrStep, writer
  <2>2. Pending \in Nat /\ Moved \in Nat /\ space \in Nat
    BY PendingType, MovedType, JtagUartAssumption DEF TypeOK, Index
  <2>3. CASE wi
    <3>1. we' = (we /\ Moved = space)
      BY <1>4, <2>3 DEF Serve, MoreToSend, Moved
    <3>2. Pending' # 0 => Moved = space /\ Pending # 0
      BY <2>1, <2>2, <2>3 DEF Moved, MinOf
    <3> QED
      BY <2>1, <3>1, <3>2 DEF NeverForgotten
  <2>4. CASE ~wi
    <3>1. we' = we /\ Moved = 0
      BY <1>4, <2>4 DEF Serve, Moved
    <3> QED
      BY <2>1, <2>2, <3>1 DEF NeverForgotten
  <2> QED
    BY <2>3, <2>4
<1>5. CASE ReadControl \/ Tick \/ HostReceive \/ HostType \/ HostPause \/ UNCHANGED vars
  BY <1>5 DEF ReadControl, IsrStep, Tick, HostReceive, HostType, HostPause, HostStep,
     vars, writer, NeverForgotten, Pending
<1> QED
  BY <1>1, <1>2, <1>3, <1>4, <1>5 DEF Next, Writer, Isr

-----------------------------------------------------------------------------
(* The silence of the host.                                                *)

LEMMA Products ==
  ASSUME NEW a \in Nat, NEW b \in Nat, NEW q \in Nat
  PROVE  /\ a * q \in Nat /\ (a + 1) * q = a * q + q /\ (a + 2) * q = a * q + q + q
         /\ a <= b => a * q <= b * q
  OBVIOUS

LEMMA SilenceStarts == Init => Silence
<1>1. SUFFICES ASSUME Init PROVE Silence
  OBVIOUS
<1>2. Left = Period + 1
  BY <1>1, ClockStarts DEF Init
<1>3. host_inactive = 0 /\ quiet = 0 /\ ac \in BOOLEAN
  BY <1>1 DEF Init
<1>4. host_inactive * Period = 0
  BY <1>3, AlarmAssumption
<1> QED
  BY <1>2, <1>3, <1>4, AlarmAssumption DEF Silence

LEMMA SilenceTick ==
  ASSUME TypeOK, OnTime, Silence, Tick
  PROVE  Silence'
<1> DEFINE product == host_inactive * Period
           most == (INT_MAX - 2) * Period
<1>1. /\ Period \in Nat /\ Period > 0
      /\ host_inactive \in Nat /\ INT_MAX - 2 \in Nat /\ host_inactive <= INT_MAX - 2
      /\ quiet \in Nat /\ ac \in BOOLEAN
  <2>1. \A a, b \in Nat : a * b \in Nat
    OBVIOUS
  <2>2. MaxQuiet \in Nat
    BY <2>1, JtagUartAssumption, AlarmAssumption DEF MaxQuiet
  <2> QED
    BY <2>2, JtagUartAssumption, AlarmAssumption DEF TypeOK
<1>2. product \in Nat /\ most \in Nat /\ product <= most
  BY <1>1, Products
<1>3. MaxQuiet = most + Period + Period
  <2>1. INT_MAX = (INT_MAX - 2) + 2
    BY JtagUartAssumption
  <2> QED
    BY <1>1, <2>1, Products DEF MaxQuiet
<1>4. ClockType /\ AlarmTick
  BY DEF Tick, TypeOK, ClockType
<1>5. Left \in 1 .. Period + 1 /\ (Expired <=> Left = 1)
      /\ Left' = IF Expired THEN Period ELSE Left - 1
  BY <1>4, ClockTicks DEF OnTime
<1>6. quiet' = IF quiet + 1 < MaxQuiet THEN quiet + 1 ELSE MaxQuiet
  BY DEF Tick, MinOf
<1>7. CASE ~Expired
  <2>1. ac' = ac /\ host_inactive' = host_inactive /\ Left' = Left - 1 /\ Left # 1
    BY <1>5, <1>7 DEF Tick
  <2>2. (host_inactive * Period)' = product
    BY <2>1
  <2> HIDE DEF product, most
  <2>3. ~ac => product + (Period - (Left - 1)) <= quiet'
    BY <1>1, <1>2, <1>3, <1>5, <1>6, <2>1 DEF Silence, product
  <2>4. ac => quiet' <= Period - (Left - 1) + 1
    BY <1>1, <1>2, <1>3, <1>5, <1>6, <2>1 DEF Silence
  <2>5. \/ ac \/ host_inactive = INT_MAX - 2
        \/ quiet' <= product + Period + (Period - (Left - 1)) + 1
    BY <1>1, <1>2, <1>3, <1>5, <1>6, <2>1 DEF Silence, product
  <2> QED
    BY <1>1, <1>5, <2>1, <2>2, <2>3, <2>4, <2>5 DEF Silence
<1>8. CASE Expired
  <2>1. Left = 1 /\ Left' = Period /\ ac' = FALSE
        /\ host_inactive' = IF ac THEN 0 ELSE Longer(host_inactive)
    BY <1>5, <1>8 DEF Tick, CheckForHost
  <2>2. CASE ac
    <3>1. host_inactive' = 0 /\ (host_inactive * Period)' = 0
      BY <1>1, <2>1, <2>2
    <3>2. 0 <= quiet' /\ quiet' <= 0 + Period + 0 + 1
      BY <1>1, <1>2, <1>3, <1>6, <2>1, <2>2 DEF Silence
    <3> QED
      BY <1>1, <2>1, <3>1, <3>2 DEF Silence
  <2>3. CASE ~ac /\ host_inactive < INT_MAX - 2
    <3>1. host_inactive' = host_inactive + 1
      BY <2>1, <2>3 DEF Longer
    <3>2. (host_inactive * Period)' = product + Period
      BY <1>1, <3>1, Products
    <3>3. host_inactive + 1 <= INT_MAX - 2 /\ host_inactive + 1 \in Nat
      BY <1>1, <2>3
    <3>4. product + Period <= most
      BY <1>1, <3>3, Products
    <3> HIDE DEF product, most
    <3>5. product + Period <= quiet'
      BY <1>1, <1>2, <1>3, <1>6, <2>1, <2>3, <3>4 DEF Silence, product
    <3>6. quiet' <= product + Period + Period + 0 + 1
      BY <1>1, <1>2, <1>3, <1>6, <2>1, <2>3, <3>4 DEF Silence, product
    <3> QED
      BY <1>1, <1>2, <2>1, <3>2, <3>5, <3>6 DEF Silence
  <2>4. CASE ~ac /\ host_inactive = INT_MAX - 2
    <3>1. host_inactive' = INT_MAX - 2 /\ (host_inactive * Period)' = most
      BY <2>1, <2>4 DEF Longer
    <3>2. product = most
      BY <2>4
    <3> HIDE DEF product, most
    <3>3. most <= quiet'
      BY <1>1, <1>2, <1>3, <1>6, <2>1, <2>4, <3>2 DEF Silence, product
    <3> QED
      BY <1>1, <1>2, <2>1, <3>1, <3>3 DEF Silence
  <2> QED
    BY <1>1, <2>2, <2>3, <2>4
<1> QED
  BY <1>7, <1>8

LEMMA SilenceStep ==
  ASSUME TypeOK, OnTime, Silence, [Next]_vars
  PROVE  Silence'
<1>1. CASE Tick
  BY <1>1, SilenceTick
<1>2. CASE HostType \/ HostPause
  <2>1. ac' = TRUE /\ quiet' = 0 /\ host_inactive' = host_inactive /\ UNCHANGED clock
    BY <1>2 DEF HostType, HostPause, HostStep, Active
  <2>2. Left' = Left /\ Left <= Period + 1 /\ Left \in Int
    BY <2>1, AlarmAssumption DEF Left, clock, OnTime
  <2> QED
    BY <2>1, <2>2, AlarmAssumption DEF Silence
<1>3. CASE Write \/ Writer \/ Isr \/ HostReceive \/ UNCHANGED vars
  <2>1. UNCHANGED <<host_inactive, line, clock>>
    BY <1>3 DEF Write, Writer, MeasureRoom, Copy, Publish, Kick, StopWaiting, Check,
       WriterStep, Isr, ReadControl, Serve, IsrStep, HostReceive, HostStep, vars
  <2> QED
    BY <2>1 DEF Silence, Left, line, clock
<1> QED
  BY <1>1, <1>2, <1>3 DEF Next

LEMMA SilenceMeasured ==
  ASSUME TypeOK, OnTime, Silence
  PROVE  MeasuresSilence
<1> DEFINE product == host_inactive * Period
<1>1. /\ Period \in Nat /\ Period > 0 /\ host_inactive \in Nat
      /\ Left \in 1 .. Period + 1 /\ quiet \in Int
  <2>1. quiet \in Int
    BY DEF TypeOK
  <2> QED
    BY <2>1, JtagUartAssumption, AlarmAssumption DEF TypeOK, OnTime
<1>2. product \in Nat /\ (host_inactive + 2) * Period = product + Period + Period
  BY <1>1, Products
<1> HIDE DEF product
<1>3. ~ac => product <= quiet
  <2>1. CASE Left = Period + 1
    <3>1. product = 0
      BY <1>1, <2>1 DEF Silence, product
    <3> QED
      BY <3>1 DEF TypeOK
  <2>2. CASE Left # Period + 1
    BY <1>1, <1>2, <2>2 DEF Silence, product
  <2> QED
    BY <2>1, <2>2
<1>4. quiet <= product + Period + Period \/ host_inactive = INT_MAX - 2
  BY <1>1, <1>2 DEF Silence, product
<1> QED
  BY <1>2, <1>3, <1>4 DEF MeasuresSilence, product

-----------------------------------------------------------------------------
(* The theorems.                                                           *)

LEMMA InitIInv == Init => IInv
<1>1. SUFFICES ASSUME Init PROVE IInv
  OBVIOUS
<1>2. Pending = 0
  <2>1. tx_in = 0 /\ tx_out = 0 /\ BUF_LEN \in Nat /\ BUF_LEN > 0
    BY <1>1, JtagUartAssumption DEF Init
  <2> QED
    BY <2>1, Between DEF Pending
<1>3. NeverForgotten
  BY <1>2 DEF NeverForgotten
<1>4. OnTime
  BY <1>1, ClockStarts DEF Init
<1> QED
  BY <1>1, <1>3, <1>4, InitTypes, SilenceStarts DEF IInv

LEMMA NextIInv == IInv /\ [Next]_vars => IInv'
<1>1. SUFFICES ASSUME IInv, [Next]_vars PROVE IInv'
  OBVIOUS
<1>2. TypeOK' /\ Fits' /\ OnTime'
  <2>1. CASE Tick
    BY <1>1, <2>1, TickTypes DEF IInv
  <2>2. CASE Write \/ Writer \/ Isr \/ HostReceive \/ HostType \/ HostPause
    <3>1. TypeOK' /\ Fits'
      BY <1>1, <2>2, WriterTypes, ServeTypes, ReadControlTypes, HostTypes DEF IInv, Isr
    <3>2. UNCHANGED clock
      BY <2>2 DEF Write, Writer, MeasureRoom, Copy, Publish, Kick, StopWaiting, Check,
         WriterStep, Isr, ReadControl, Serve, IsrStep, HostReceive, HostType,
         HostPause, HostStep
    <3>3. OnTime'
      BY <1>1, <3>2 DEF IInv, OnTime, Left, clock
    <3> QED
      BY <3>1, <3>3
  <2>3. CASE UNCHANGED vars
    BY <1>1, <2>3 DEF IInv, TypeOK, Fits, OnTime, Left, vars, writer, control, line, clock
  <2> QED
    BY <1>1, <2>1, <2>2, <2>3 DEF Next
<1> QED
  BY <1>1, <1>2, ForgottenStep, SilenceStep DEF IInv

(* In every reachable state the variables have their types: no index of    *)
(* the transmit buffer, no FIFO and no counter of the driver runs over.    *)
THEOREM TypesHold == Spec => []TypeOK
<1>1. IInv => TypeOK
  BY DEF IInv
<1> QED
  BY <1>1, InitIInv, NextIInv, PTL DEF Spec

(* What the main loop has printed is never left in the buffer with the     *)
(* transmit interrupt turned off.                                          *)
THEOREM NothingForgotten == Spec => []NeverForgotten
<1>1. IInv => NeverForgotten
  BY DEF IInv
<1> QED
  BY <1>1, InitIInv, NextIInv, PTL DEF Spec

(* host_inactive is never early and never two seconds late, for every rate *)
(* of the clock and over every overflow of the tick counter.               *)
THEOREM SilenceIsMeasured == Spec => []MeasuresSilence
<1>1. IInv => MeasuresSilence
  BY SilenceMeasured DEF IInv
<1> QED
  BY <1>1, InitIInv, NextIInv, PTL DEF Spec

-----------------------------------------------------------------------------
(***************************************************************************)
(* JtagUart implements Pipe, for every size of the buffer and of the FIFO: *)
(* no interleaving of the writer, the interrupt routine and the host       *)
(* loses, doubles or reorders a byte.                                      *)
(***************************************************************************)

(* The piece that is being copied goes into free space, in one piece, and  *)
(* is there before tx_in makes it known.                                   *)
Copied ==
  /\ pc \in {"room", "wait", "check"} => count > 0
  /\ pc \in {"copy", "publish"} =>
       n > 0 /\ tx_in + n <= BUF_LEN /\ n + Pending <= BUF_LEN - 1
  /\ pc = "publish" => \A i \in 0 .. n - 1 : tx_buf[tx_in + i] = (sent + i) % Bytes

PInv == IInv /\ Copied

-----------------------------------------------------------------------------
(* Sequences of bytes.                                                     *)

LEMMA CatSeq ==
  ASSUME NEW s \in Seq(Byte), NEW t \in Seq(Byte)
  PROVE  /\ s \o t \in Seq(Byte)
         /\ Len(s \o t) = Len(s) + Len(t)
         /\ \A i \in 1 .. Len(s) + Len(t) :
              (s \o t)[i] = IF i <= Len(s) THEN s[i] ELSE t[i - Len(s)]
  OBVIOUS

LEMMA SameSeq ==
  ASSUME NEW s \in Seq(Byte), NEW t \in Seq(Byte), Len(s) = Len(t),
         \A i \in 1 .. Len(s) : s[i] = t[i]
  PROVE  s = t
  OBVIOUS

LEMMA CatAssoc ==
  ASSUME NEW s \in Seq(Byte), NEW t \in Seq(Byte), NEW u \in Seq(Byte)
  PROVE  (s \o t) \o u = s \o (t \o u)
<1>1. /\ (s \o t) \o u \in Seq(Byte) /\ s \o (t \o u) \in Seq(Byte)
      /\ Len((s \o t) \o u) = Len(s) + Len(t) + Len(u)
      /\ Len(s \o (t \o u)) = Len(s) + Len(t) + Len(u)
  BY CatSeq
<1>2. ASSUME NEW i \in 1 .. Len(s) + Len(t) + Len(u)
      PROVE  ((s \o t) \o u)[i] = (s \o (t \o u))[i]
  <2>0. Len(s) \in Nat /\ Len(t) \in Nat /\ Len(u) \in Nat
    OBVIOUS
  <2>1. CASE i <= Len(s)
    BY <2>0, <2>1, CatSeq
  <2>2. CASE i > Len(s) /\ i <= Len(s) + Len(t)
    BY <2>0, <2>2, CatSeq
  <2>3. CASE i > Len(s) + Len(t)
    BY <2>0, <2>3, CatSeq
  <2> QED
    BY <2>0, <2>1, <2>2, <2>3
<1> QED
  BY <1>1, <1>2, SameSeq

LEMMA CatTail ==
  ASSUME NEW s \in Seq(Byte), NEW t \in Seq(Byte), s # << >>
  PROVE  s \o t # << >> /\ Tail(s \o t) = Tail(s) \o t
<1>1. Len(s) \in Nat /\ Len(s) > 0 /\ Len(t) \in Nat
  OBVIOUS
<1>2. s \o t # << >> /\ Tail(s) \in Seq(Byte) /\ Len(Tail(s)) = Len(s) - 1
  BY <1>1, CatSeq
<1>3. Tail(s \o t) \in Seq(Byte) /\ Len(Tail(s \o t)) = Len(s) + Len(t) - 1
  BY <1>1, <1>2, CatSeq
<1>4. Tail(s) \o t \in Seq(Byte) /\ Len(Tail(s) \o t) = Len(s) + Len(t) - 1
  BY <1>1, <1>2, CatSeq
<1>5. ASSUME NEW i \in 1 .. Len(s) + Len(t) - 1
      PROVE  Tail(s \o t)[i] = (Tail(s) \o t)[i]
  <2>1. Tail(s \o t)[i] = (s \o t)[i + 1]
    BY <1>1, <1>2, <1>3, CatSeq
  <2>2. (Tail(s) \o t)[i] = IF i <= Len(s) - 1 THEN Tail(s)[i] ELSE t[i - (Len(s) - 1)]
    BY <1>1, <1>2, CatSeq
  <2>3. (s \o t)[i + 1] = IF i + 1 <= Len(s) THEN s[i + 1] ELSE t[i + 1 - Len(s)]
    BY <1>1, CatSeq
  <2>4. i <= Len(s) - 1 => Tail(s)[i] = s[i + 1]
    BY <1>1, <1>2
  <2>5. i - (Len(s) - 1) = i + 1 - Len(s) /\ (i <= Len(s) - 1 <=> i + 1 <= Len(s))
    BY <1>1
  <2> QED
    BY <2>1, <2>2, <2>3, <2>4, <2>5
<1> QED
  BY <1>2, <1>3, <1>4, <1>5, SameSeq

LEMMA BufferedSeq ==
  ASSUME TypeOK, NEW k \in Nat
  PROVE  /\ Buffered(k) \in Seq(Byte) /\ Len(Buffered(k)) = k
         /\ \A i \in 1 .. k : Buffered(k)[i] = tx_buf[(tx_out + i - 1) % BUF_LEN]
<1>1. \A i \in 1 .. k : tx_buf[(tx_out + i - 1) % BUF_LEN] \in Byte
  <2>1. tx_out \in Int
    BY JtagUartAssumption DEF TypeOK, Index
  <2>2. \A i \in 1 .. k : tx_out + i - 1 \in Int
    BY <2>1
  <2> QED
    BY <2>2, ModIndex DEF TypeOK
<1>2. Buffered(k) \in [1 .. k -> Byte]
  BY <1>1 DEF Buffered
<1> QED
  BY <1>2 DEF Buffered

LEMMA PendingIs ==
  ASSUME TypeOK
  PROVE  /\ BUF_LEN \in Nat /\ BUF_LEN > 1
         /\ tx_in \in 0 .. BUF_LEN - 1 /\ tx_out \in 0 .. BUF_LEN - 1
         /\ Pending \in 0 .. BUF_LEN - 1
         /\ Pending = IF tx_out <= tx_in THEN tx_in - tx_out ELSE tx_in - tx_out + BUF_LEN
<1>1. BUF_LEN \in Nat /\ BUF_LEN > 1
  BY JtagUartAssumption
<1>2. tx_in \in 0 .. BUF_LEN - 1 /\ tx_out \in 0 .. BUF_LEN - 1
  BY DEF TypeOK, Index
<1>3. Pending = IF tx_out <= tx_in THEN tx_in - tx_out ELSE tx_in - tx_out + BUF_LEN
  BY <1>1, <1>2, Between DEF Pending
<1> QED
  BY <1>1, <1>2, <1>3

LEMMA QueueSeq ==
  ASSUME TypeOK
  PROVE  Queue \in Seq(Byte) /\ Len(Queue) = Len(wfifo) + Pending
<1>1. Pending \in Nat /\ wfifo \in Seq(Byte)
  BY PendingIs DEF TypeOK
<1> QED
  BY <1>1, BufferedSeq, CatSeq DEF Queue

-----------------------------------------------------------------------------
(* The steps of the writer.                                                *)

LEMMA RoomFits ==
  ASSUME TypeOK
  PROVE  /\ Room(tx_out) \in Nat
         /\ tx_in + Room(tx_out) <= BUF_LEN /\ Room(tx_out) + Pending <= BUF_LEN - 1
  BY PendingIs DEF Room

LEMMA CopiedMeasure ==
  ASSUME TypeOK, Copied, MeasureRoom
  PROVE  Copied'
<1>1. CASE Room(tx_out) = 0
  BY <1>1 DEF MeasureRoom, Copied
<1>2. CASE Room(tx_out) # 0
  <2>1. /\ pc' = "copy" /\ n' = MinOf(Room(tx_out), count)
        /\ UNCHANGED <<tx_in, tx_out>>
    BY <1>2 DEF MeasureRoom, WriterStep
  <2>2. Pending' = Pending
    BY <2>1 DEF Pending
  <2>3. count \in Nat /\ count > 0
    BY JtagUartAssumption DEF TypeOK, Copied, MeasureRoom
  <2>4. n' \in Nat /\ n' > 0 /\ n' <= Room(tx_out)
    BY <1>2, <2>1, <2>3, RoomFits DEF MinOf
  <2>5. tx_in + n' <= BUF_LEN /\ n' + Pending <= BUF_LEN - 1
    BY <2>4, RoomFits, PendingIs
  <2> QED
    BY <2>1, <2>2, <2>4, <2>5 DEF Copied
<1> QED
  BY <1>1, <1>2 DEF MeasureRoom

(* The piece is put where nothing is pending: the buffered bytes stay.     *)
LEMMA CopyKeeps ==
  ASSUME TypeOK, Copied, Copy
  PROVE  Copied' /\ Queue' = Queue
<1>0. /\ BUF_LEN \in Nat /\ BUF_LEN > 0
      /\ tx_in \in 0 .. BUF_LEN - 1 /\ tx_out \in 0 .. BUF_LEN - 1
  BY PendingIs
<1>1. /\ n \in Nat /\ n > 0 /\ tx_in + n <= BUF_LEN /\ n + Pending <= BUF_LEN - 1
      /\ sent \in Int
  BY JtagUartAssumption, BytesPositive DEF TypeOK, Copied, Copy, Byte
<1>2. UNCHANGED <<tx_in, tx_out, n, sent, wfifo>> /\ pc' = "publish" /\ Pending' = Pending
  BY DEF Copy, WriterStep, Pending
<1>3. \A i \in 0 .. n - 1 : tx_buf'[tx_in + i] = (sent + i) % Bytes
  <2> TAKE i \in 0 .. n - 1
  <2>1. tx_in + i \in Index /\ tx_in + i \in tx_in .. tx_in + n - 1 /\ (tx_in + i) - tx_in = i
    BY <1>1, PendingIs DEF Index
  <2> QED
    BY <2>1 DEF Copy
<1>4. \A i \in 1 .. Pending :
        tx_buf'[(tx_out + i - 1) % BUF_LEN] = tx_buf[(tx_out + i - 1) % BUF_LEN]
  <2> TAKE i \in 1 .. Pending
  <2> DEFINE j == (tx_out + i - 1) % BUF_LEN
  <2>1. j = IF tx_out + (i - 1) < BUF_LEN THEN tx_out + (i - 1) ELSE tx_out + (i - 1) - BUF_LEN
    <3>1. i - 1 \in 0 .. BUF_LEN /\ tx_out + i - 1 = tx_out + (i - 1)
      BY PendingIs
    <3> QED
      BY <1>0, <3>1, Around
  <2>2. j \in Index
    BY <2>1, PendingIs DEF Index
  <2>3. j \notin tx_in .. tx_in + n - 1
    BY <1>1, <2>1, PendingIs
  <2> QED
    BY <2>2, <2>3 DEF Copy
<1>5. Buffered(Pending)' = Buffered(Pending)
  BY <1>2, <1>4 DEF Buffered
<1> QED
  BY <1>1, <1>2, <1>3, <1>5 DEF Copied, Queue

(* What is published is what a write accepts: the next numbers.            *)
LEMMA PublishAccepts ==
  ASSUME TypeOK, Copied, Publish
  PROVE  Copied' /\ P!Accept
<1>0. /\ BUF_LEN \in Nat /\ BUF_LEN > 0
      /\ tx_in \in 0 .. BUF_LEN - 1 /\ tx_out \in 0 .. BUF_LEN - 1
  BY PendingIs
<1>1. /\ n \in Nat /\ n > 0 /\ tx_in + n <= BUF_LEN /\ n + Pending <= BUF_LEN - 1
      /\ sent \in Int
  BY JtagUartAssumption, BytesPositive DEF TypeOK, Copied, Publish, Byte
<1>2. UNCHANGED <<tx_out, tx_buf, wfifo>> /\ tx_in' = (tx_in + n) % BUF_LEN
      /\ sent' = (sent + n) % Bytes
  BY DEF Publish, WriterStep
<1>3. tx_in' = IF tx_in + n < BUF_LEN THEN tx_in + n ELSE tx_in + n - BUF_LEN
  <2>1. n \in 0 .. BUF_LEN
    BY <1>1, PendingIs
  <2> QED
    BY <1>0, <1>2, <2>1, Around
<1>4. tx_in' \in 0 .. BUF_LEN - 1
  BY <1>1, <1>3, PendingIs
<1>5. Pending' = Pending + n
  <2>1. Pending' = IF tx_out <= tx_in' THEN tx_in' - tx_out ELSE tx_in' - tx_out + BUF_LEN
    BY <1>0, <1>2, <1>4, Between DEF Pending
  <2> QED
    BY <1>1, <1>3, <2>1, PendingIs
<1>6. ASSUME NEW i \in 1 .. n
      PROVE  tx_buf[(tx_out + (Pending + i) - 1) % BUF_LEN] = (sent + i - 1) % Bytes
  <2>1. Pending + i - 1 \in 0 .. BUF_LEN
        /\ tx_out + (Pending + i) - 1 = tx_out + (Pending + i - 1)
    BY <1>1, PendingIs
  <2>2. (tx_out + (Pending + i) - 1) % BUF_LEN =
          IF tx_out + (Pending + i - 1) < BUF_LEN THEN tx_out + (Pending + i - 1)
          ELSE tx_out + (Pending + i - 1) - BUF_LEN
    BY <1>0, <2>1, Around
  <2>3. (tx_out + (Pending + i) - 1) % BUF_LEN = tx_in + (i - 1)
    BY <1>1, <2>2, PendingIs
  <2>4. i - 1 \in 0 .. n - 1 /\ sent + (i - 1) = sent + i - 1
    BY <1>1
  <2>5. tx_buf[tx_in + (i - 1)] = (sent + (i - 1)) % Bytes
    BY <2>4 DEF Copied, Publish
  <2> QED
    BY <2>3, <2>4, <2>5
<1> DEFINE N == P!Numbered(sent, n)
<1>7. N \in Seq(Byte) /\ Len(N) = n /\ \A i \in 1 .. n : N[i] = (sent + i - 1) % Bytes
  <2>1. N = [i \in 1 .. n |-> (sent + i - 1) % Bytes]
    BY DEF P!Numbered
  <2>2. \A i \in 1 .. n : sent + i - 1 \in Int
    BY <1>1
  <2>3. \A i \in 1 .. n : (sent + i - 1) % Bytes \in Byte
    BY <2>2, ModByte
  <2> HIDE DEF N
  <2> QED
    BY <1>1, <2>1, <2>3
<1> HIDE DEF N
<1>8. Buffered(Pending)' = Buffered(Pending) \o N
  <2>1. Buffered(Pending)' = Buffered(Pending + n)
    BY <1>2, <1>5 DEF Buffered
  <2>2. Pending \in Nat /\ Pending + n \in Nat
    BY <1>1, PendingIs
  <2>3. /\ Buffered(Pending + n) \in Seq(Byte) /\ Len(Buffered(Pending + n)) = Pending + n
        /\ Buffered(Pending) \in Seq(Byte) /\ Len(Buffered(Pending)) = Pending
    BY <2>2, BufferedSeq
  <2>4. /\ Buffered(Pending) \o N \in Seq(Byte) /\ Len(Buffered(Pending) \o N) = Pending + n
        /\ \A i \in 1 .. Pending + n : (Buffered(Pending) \o N)[i] =
             IF i <= Pending THEN Buffered(Pending)[i] ELSE N[i - Pending]
    BY <1>7, <2>3, CatSeq
  <2>5. ASSUME NEW i \in 1 .. Pending + n
        PROVE  Buffered(Pending + n)[i] = (Buffered(Pending) \o N)[i]
    <3>1. Buffered(Pending + n)[i] = tx_buf[(tx_out + i - 1) % BUF_LEN]
      BY <2>2, BufferedSeq
    <3>2. CASE i <= Pending
      <4>1. i \in 1 .. Pending
        BY <2>2, <3>2
      <4>2. Buffered(Pending)[i] = tx_buf[(tx_out + i - 1) % BUF_LEN]
        BY <2>2, <4>1, BufferedSeq
      <4> QED
        BY <2>4, <3>1, <3>2, <4>2
    <3>3. CASE i > Pending
      <4>1. i - Pending \in 1 .. n /\ Pending + (i - Pending) = i
        BY <1>1, <2>2, <3>3
      <4>2. tx_buf[(tx_out + i - 1) % BUF_LEN] = (sent + (i - Pending) - 1) % Bytes
        BY <1>6, <4>1
      <4>3. N[i - Pending] = (sent + (i - Pending) - 1) % Bytes
        BY <1>7, <4>1
      <4>4. ~(i <= Pending)
        BY <2>2, <3>3
      <4>5. (Buffered(Pending) \o N)[i] = N[i - Pending]
        BY <2>4, <4>4
      <4> QED
        BY <3>1, <4>2, <4>3, <4>5
    <3>4. i <= Pending \/ i > Pending
      BY <2>2
    <3> QED
      BY <3>2, <3>3, <3>4
  <2> QED
    BY <2>1, <2>3, <2>4, <2>5, SameSeq
<1>9. Queue' = Queue \o N
  <2>0. Pending \in Nat
    BY PendingIs
  <2>1. wfifo \in Seq(Byte) /\ Buffered(Pending) \in Seq(Byte)
    BY <2>0, BufferedSeq DEF TypeOK
  <2>2. Queue' = wfifo \o (Buffered(Pending) \o N)
    BY <1>2, <1>8 DEF Queue
  <2> QED
    BY <1>7, <2>1, <2>2, CatAssoc DEF Queue
<1>10. n \in 1 .. Capacity - Len(Queue)
  <2>1. Len(wfifo) \in Nat /\ Len(wfifo) <= WDepth
    BY DEF TypeOK
  <2>2. Capacity = BUF_LEN - 1 + WDepth /\ Len(Queue) = Len(wfifo) + Pending
    BY QueueSeq DEF Capacity
  <2> QED
    BY <1>1, <2>1, <2>2, PendingIs, JtagUartAssumption
<1>11. P!Accept
  BY <1>2, <1>9, <1>10 DEF P!Accept, N
<1>12. Copied'
  BY DEF Copied, Publish
<1> QED
  BY <1>11, <1>12

-----------------------------------------------------------------------------
(* The interrupt routine and the host.                                     *)

(* The routine moves bytes from the buffer to the FIFO, and nothing else.  *)
LEMMA ServeKeeps ==
  ASSUME TypeOK, Copied, Serve
  PROVE  Copied' /\ Queue' = Queue
<1>0. /\ BUF_LEN \in Nat /\ BUF_LEN > 0
      /\ tx_in \in 0 .. BUF_LEN - 1 /\ tx_out \in 0 .. BUF_LEN - 1
  BY PendingIs
<1>1. Pending' = Pending - Moved /\ Moved \in Nat /\ Moved <= Pending
  BY ServeLeaves, MovedType
<1>2. /\ UNCHANGED <<pc, count, n, sent, tx_in, tx_buf>>
      /\ tx_out' = (tx_out + Moved) % BUF_LEN /\ wfifo' = wfifo \o Buffered(Moved)
  BY DEF Serve, IsrStep, writer, Moved
<1>3. tx_out' = IF tx_out + Moved < BUF_LEN THEN tx_out + Moved ELSE tx_out + Moved - BUF_LEN
  <2>1. Moved \in 0 .. BUF_LEN
    BY <1>1, PendingIs
  <2> QED
    BY <1>0, <1>2, <2>1, Around
<1>4. tx_out' \in 0 .. BUF_LEN - 1
  BY <1>1, <1>3, PendingIs
<1> DEFINE R == Buffered(Pending)'
<1>5. ASSUME NEW i \in 1 .. Pending - Moved
      PROVE  (tx_out' + i - 1) % BUF_LEN = (tx_out + (Moved + i) - 1) % BUF_LEN
  <2>1. /\ i - 1 \in 0 .. BUF_LEN /\ tx_out' + i - 1 = tx_out' + (i - 1)
        /\ Moved + i - 1 \in 0 .. BUF_LEN
        /\ tx_out + (Moved + i) - 1 = tx_out + (Moved + i - 1)
    BY <1>1, <1>4, PendingIs
  <2>2. (tx_out' + i - 1) % BUF_LEN =
          IF tx_out' + (i - 1) < BUF_LEN THEN tx_out' + (i - 1) ELSE tx_out' + (i - 1) - BUF_LEN
    BY <1>0, <1>4, <2>1, Around
  <2>3. (tx_out + (Moved + i) - 1) % BUF_LEN =
          IF tx_out + (Moved + i - 1) < BUF_LEN THEN tx_out + (Moved + i - 1)
          ELSE tx_out + (Moved + i - 1) - BUF_LEN
    BY <1>0, <2>1, Around
  <2> QED
    BY <1>1, <1>3, <2>1, <2>2, <2>3, PendingIs
<1>6. /\ R \in Seq(Byte) /\ Len(R) = Pending - Moved
      /\ \A i \in 1 .. Pending - Moved :
           R[i] = tx_buf[(tx_out + (Moved + i) - 1) % BUF_LEN]
  <2>1. R = [i \in 1 .. Pending - Moved |-> tx_buf[(tx_out' + i - 1) % BUF_LEN]]
    BY <1>1, <1>2 DEF Buffered
  <2>2. R = [i \in 1 .. Pending - Moved |-> tx_buf[(tx_out + (Moved + i) - 1) % BUF_LEN]]
    BY <1>5, <2>1
  <2>3. \A i \in 1 .. Pending - Moved :
          tx_buf[(tx_out + (Moved + i) - 1) % BUF_LEN] \in Byte
    <3>1. \A i \in 1 .. Pending - Moved : tx_out + (Moved + i) - 1 \in Int
      BY <1>1, PendingIs
    <3> QED
      BY <3>1, ModIndex DEF TypeOK
  <2>4. Pending - Moved \in Nat
    BY <1>1, PendingIs
  <2> HIDE DEF R
  <2> QED
    BY <2>2, <2>3, <2>4
<1> HIDE DEF R
<1>7. Buffered(Pending) = Buffered(Moved) \o R
  <2>1. Pending \in Nat
    BY PendingIs
  <2>2. /\ Buffered(Pending) \in Seq(Byte) /\ Len(Buffered(Pending)) = Pending
        /\ Buffered(Moved) \in Seq(Byte) /\ Len(Buffered(Moved)) = Moved
    BY <1>1, <2>1, BufferedSeq
  <2>3. /\ Buffered(Moved) \o R \in Seq(Byte) /\ Len(Buffered(Moved) \o R) = Pending
        /\ \A i \in 1 .. Pending : (Buffered(Moved) \o R)[i] =
             IF i <= Moved THEN Buffered(Moved)[i] ELSE R[i - Moved]
    <3>1. Len(Buffered(Moved)) + Len(R) = Pending
      BY <1>1, <1>6, <2>1, <2>2
    <3>2. /\ Buffered(Moved) \o R \in Seq(Byte)
          /\ Len(Buffered(Moved) \o R) = Len(Buffered(Moved)) + Len(R)
          /\ \A i \in 1 .. Len(Buffered(Moved)) + Len(R) : (Buffered(Moved) \o R)[i] =
               IF i <= Len(Buffered(Moved)) THEN Buffered(Moved)[i]
               ELSE R[i - Len(Buffered(Moved))]
      BY <1>6, <2>2, CatSeq
    <3> QED
      BY <2>2, <3>1, <3>2
  <2>4. ASSUME NEW i \in 1 .. Pending
        PROVE  Buffered(Pending)[i] = (Buffered(Moved) \o R)[i]
    <3>1. Buffered(Pending)[i] = tx_buf[(tx_out + i - 1) % BUF_LEN]
      BY <2>1, BufferedSeq
    <3>2. CASE i <= Moved
      <4>1. i \in 1 .. Moved
        BY <1>1, <3>2
      <4>2. Buffered(Moved)[i] = tx_buf[(tx_out + i - 1) % BUF_LEN]
        BY <1>1, <4>1, BufferedSeq
      <4> QED
        BY <2>3, <3>1, <3>2, <4>2
    <3>3. CASE i > Moved
      <4>1. i - Moved \in 1 .. Pending - Moved /\ Moved + (i - Moved) = i
        BY <1>1, <2>1, <3>3
      <4>2. R[i - Moved] = tx_buf[(tx_out + i - 1) % BUF_LEN]
        BY <1>6, <4>1
      <4>3. ~(i <= Moved)
        BY <1>1, <2>1, <3>3
      <4>4. (Buffered(Moved) \o R)[i] = R[i - Moved]
        BY <2>3, <4>3
      <4> QED
        BY <3>1, <4>2, <4>4
    <3>4. i <= Moved \/ i > Moved
      BY <1>1, <2>1
    <3> QED
      BY <3>2, <3>3, <3>4
  <2> QED
    BY <2>2, <2>3, <2>4, SameSeq
<1>8. Queue' = Queue
  <2>1. wfifo \in Seq(Byte) /\ Buffered(Moved) \in Seq(Byte)
    BY <1>1, BufferedSeq DEF TypeOK
  <2>2. Queue' = (wfifo \o Buffered(Moved)) \o R
    BY <1>2 DEF Queue, R
  <2> QED
    BY <1>6, <1>7, <2>1, <2>2, CatAssoc DEF Queue
<1>9. Copied'
  <2>1. Pending' <= Pending /\ Pending' \in Int
    BY <1>1, PendingIs
  <2>2. n \in Nat
    BY JtagUartAssumption DEF TypeOK
  <2> QED
    BY <1>2, <2>1, <2>2, PendingIs DEF Copied
<1> QED
  BY <1>8, <1>9

LEMMA HostTakes ==
  ASSUME TypeOK, Copied, HostReceive
  PROVE  Copied' /\ P!Receive
<1>1. /\ UNCHANGED <<pc, count, n, sent, tx_in, tx_out, tx_buf>>
      /\ wfifo # << >> /\ wfifo' = Tail(wfifo)
  BY DEF HostReceive, HostStep, writer
<1>2. Pending' = Pending /\ Buffered(Pending)' = Buffered(Pending)
  BY <1>1 DEF Pending, Buffered
<1>3. wfifo \in Seq(Byte) /\ Buffered(Pending) \in Seq(Byte)
  <2>1. Pending \in Nat
    BY PendingIs
  <2> QED
    BY <2>1, BufferedSeq DEF TypeOK
<1>4. Queue # << >> /\ Queue' = Tail(Queue)
  BY <1>1, <1>2, <1>3, CatTail DEF Queue
<1> QED
  BY <1>1, <1>2, <1>4 DEF Copied, P!Receive

LEMMA OthersKeep ==
  ASSUME TypeOK, Copied,
         \/ Write \/ Kick \/ StopWaiting \/ Check
         \/ ReadControl \/ Tick \/ HostType \/ HostPause \/ UNCHANGED vars
  PROVE  Copied' /\ UNCHANGED <<Queue, sent>>
<1>1. UNCHANGED <<n, sent, tx_in, tx_out, tx_buf, wfifo>>
  BY DEF Write, Kick, StopWaiting, Check, WriterStep, ReadControl, IsrStep, Tick,
     HostType, HostPause, HostStep, vars, writer
<1>2. Pending' = Pending /\ Queue' = Queue
  BY <1>1 DEF Pending, Buffered, Queue
<1>3. Copied'
  <2>1. CASE Write
    BY <1>1, <1>2, <2>1, JtagUartAssumption DEF Copied, Write
  <2>2. CASE Kick
    <3>1. count \in Nat
      BY JtagUartAssumption DEF TypeOK
    <3> QED
      BY <2>2, <3>1 DEF Copied, Kick
  <2>3. CASE StopWaiting
    BY <2>3 DEF Copied, StopWaiting
  <2>4. CASE Check
    BY <2>4 DEF Copied, Check
  <2>5. CASE ReadControl \/ Tick \/ HostType \/ HostPause \/ UNCHANGED vars
    <3>1. UNCHANGED <<pc, count>>
      BY <2>5 DEF ReadControl, IsrStep, Tick, HostType, HostPause, HostStep, vars, writer
    <3> QED
      BY <1>1, <1>2, <3>1 DEF Copied
  <2> QED
    BY <2>1, <2>2, <2>3, <2>4, <2>5
<1> QED
  BY <1>1, <1>2, <1>3

-----------------------------------------------------------------------------
(* The theorem.                                                            *)

LEMMA InitPipe == Init => PInv /\ P!Init
<1>1. SUFFICES ASSUME Init PROVE PInv /\ P!Init
  OBVIOUS
<1>2. IInv
  BY <1>1, InitIInv
<1>3. Pending = 0
  BY <1>1, <1>2, PendingIs DEF IInv, Init
<1>4. Queue = << >>
  <2>1. Queue \in Seq(Byte) /\ Len(Queue) = 0
    BY <1>1, <1>2, <1>3, QueueSeq DEF IInv, Init
  <2> QED
    BY <2>1
<1> QED
  BY <1>1, <1>2, <1>4 DEF PInv, Copied, P!Init, Init

LEMMA NextPipe ==
  PInv /\ [Next]_vars => PInv' /\ [P!Accept \/ P!Receive]_<<Queue, sent>>
<1>1. SUFFICES ASSUME PInv, [Next]_vars
               PROVE  PInv' /\ [P!Accept \/ P!Receive]_<<Queue, sent>>
  OBVIOUS
<1>2. IInv' /\ TypeOK /\ Copied
  BY <1>1, NextIInv DEF PInv, IInv
<1>3. CASE MeasureRoom
  <2>1. Copied'
    BY <1>2, <1>3, CopiedMeasure
  <2>2. UNCHANGED <<Queue, sent>>
    BY <1>3 DEF MeasureRoom, WriterStep, Queue, Pending, Buffered
  <2> QED
    BY <1>2, <2>1, <2>2 DEF PInv
<1>4. CASE Copy
  <2>1. Copied' /\ Queue' = Queue /\ sent' = sent
    BY <1>2, <1>4, CopyKeeps DEF Copy
  <2> QED
    BY <1>2, <2>1 DEF PInv
<1>5. CASE Publish
  BY <1>2, <1>5, PublishAccepts DEF PInv
<1>6. CASE Serve
  <2>1. Copied' /\ Queue' = Queue /\ sent' = sent
    BY <1>2, <1>6, ServeKeeps DEF Serve, IsrStep, writer
  <2> QED
    BY <1>2, <2>1 DEF PInv
<1>7. CASE HostReceive
  BY <1>2, <1>7, HostTakes DEF PInv
<1>8. CASE \/ Write \/ Kick \/ StopWaiting \/ Check
           \/ ReadControl \/ Tick \/ HostType \/ HostPause \/ UNCHANGED vars
  <2>1. Copied' /\ UNCHANGED <<Queue, sent>>
    BY <1>2, <1>8, OthersKeep
  <2> QED
    BY <1>2, <2>1 DEF PInv
<1> QED
  BY <1>1, <1>3, <1>4, <1>5, <1>6, <1>7, <1>8 DEF Next, Writer, Isr

(* The bytes that a write has accepted, and only these, reach the host     *)
(* once each and in order, wherever the interrupts fall into               *)
(* altera_avalon_jtag_uart_write and whenever the host reads.              *)
THEOREM DriverImplementsPipe == Spec => ImplementsPipe
<1>1. Spec => P!Spec
  BY InitPipe, NextPipe, PTL DEF Spec, P!Spec
<1> QED
  BY <1>1 DEF ImplementsPipe
=============================================================================
