----------------------------- MODULE BulletProofs -----------------------------
(***************************************************************************)
(* Proofs about bullets: about BulletSlots for every number of tanks and   *)
(* slots, every period above two frames and every life time; and about     *)
(* BulletFlight for every screen, margin, size of a tank and set of walls. *)
(***************************************************************************)
EXTENDS BulletSlots, BulletFlight, WellFoundedInduction, TLAPS

-----------------------------------------------------------------------------
(* The fire pipeline: BulletSlots.                                         *)

(* The slow clock counter counts 0 .. Period - 1 and wraps.                *)
LEMMA SccStep ==
  ASSUME scc \in 0 .. Period - 1
  PROVE  /\ (scc + 1) % Period \in 0 .. Period - 1
         /\ scc = Period - 1 => (scc + 1) % Period = 0
         /\ scc # Period - 1 => (scc + 1) % Period = scc + 1
<1>1. CASE scc = Period - 1
  BY <1>1, PeriodAssumption
<1>2. CASE scc # Period - 1
  BY <1>2, PeriodAssumption
<1>3. QED BY <1>1, <1>2

(* A search among free slots finds one of them.                            *)
LEMMA FirstFreeIsFree ==
  ASSUME NEW t \in Tank, Free(t) # {}
  PROVE  FirstFree(t) \in Free(t)
<1>1. Free(t) \subseteq Nat
  BY SlotAssumption DEF Free, Slot
<1>2. \E s \in Free(t) : \A r \in Free(t) : <<r, s>> \notin OpToRel(<, Nat)
  BY <1>1, NatLessThanWellFounded, WFMin
<1>3. \A s, r \in Free(t) : <<r, s>> \notin OpToRel(<, Nat) => s <= r
  BY <1>1 DEF OpToRel
<1>4. \E s \in Free(t) : \A r \in Free(t) : s <= r
  BY <1>2, <1>3
<1>5. QED BY <1>4 DEF FirstFree

(* The registers keep their ranges.                                        *)
THEOREM TypeCorrect == Spec => []TypeOK
<1>1. Init => TypeOK
  BY PeriodAssumption, LifeAssumption
     DEF Init, TypeOK, Cleared, ClearedSlots
<1>2. TypeOK /\ [Next]_vars => TypeOK'
  <2> SUFFICES ASSUME TypeOK, [Next]_vars PROVE TypeOK'
    OBVIOUS
  <2>1. CASE Frame
    <3> PICK pressed \in SUBSET Tank, spent \in [Tank -> SUBSET Slot] :
               FrameStep(pressed, spent)
      BY <2>1 DEF Frame
    <3>1. fire' \in [Tank -> BOOLEAN]
      <4>1. \A t \in Tank : NextFire(t, pressed) \in BOOLEAN
        BY DEF NextFire
      <4>2. QED BY <4>1 DEF FrameStep
    <3>2. scc' \in 0 .. Period - 1
      BY SccStep DEF FrameStep, TypeOK
    <3>3. hole' \in [Tank -> Slot \union {NoHole}]
      <4>1. \A t \in Tank : NextHole(t) \in Slot \union {NoHole}
        BY FirstFreeIsFree DEF NextHole, Free
      <4>2. QED BY <4>1 DEF FrameStep
    <3>4. valid' \in [Tank -> [Slot -> BOOLEAN]]
      <4>1. \A t \in Tank, s \in Slot : NextValid(t, s, spent) \in BOOLEAN
        BY DEF NextValid
      <4>2. QED BY <4>1 DEF FrameStep
    <3>5. age' \in [Tank -> [Slot -> 0 .. Life - 1]]
      <4>1. \A n \in 0 .. Life - 1 : (n + 1) % Life \in 0 .. Life - 1
        BY LifeAssumption
      <4>2. \A t \in Tank, s \in Slot : NextAge(t, s) \in 0 .. Life - 1
        BY <4>1, LifeAssumption DEF NextAge, TypeOK
      <4>3. QED BY <4>2 DEF FrameStep
    <3>6. QED BY <3>1, <3>2, <3>3, <3>4, <3>5 DEF TypeOK
  <2>2. CASE Reset
    BY <2>2, PeriodAssumption, LifeAssumption
       DEF Reset, TypeOK, Cleared, ClearedSlots
  <2>3. CASE UNCHANGED vars
    BY <2>3 DEF vars, TypeOK
  <2>4. QED BY <2>1, <2>2, <2>3 DEF Next
<1>3. QED BY <1>1, <1>2, PTL DEF Spec

(* No shot ever overwrites a bullet in flight.                             *)
THEOREM HoleSafe == Spec => []HoleIsFree
<1>1. Init => HoleIsFree
  BY DEF Init, HoleIsFree, Cleared
<1>2. TypeOK /\ HoleIsFree /\ [Next]_vars => HoleIsFree'
  <2> SUFFICES ASSUME TypeOK, HoleIsFree, [Next]_vars PROVE HoleIsFree'
    OBVIOUS
  <2>1. CASE Frame
    <3> PICK pressed \in SUBSET Tank, spent \in [Tank -> SUBSET Slot] :
               FrameStep(pressed, spent)
      BY <2>1 DEF Frame
    <3> SUFFICES ASSUME NEW t \in Tank, hole'[t] # NoHole
                 PROVE  scc' = 1 /\ ~valid'[t][hole'[t]]
      BY DEF HoleIsFree
    <3>1. scc = 0 /\ hole'[t] = FirstFree(t) /\ Free(t) # {}
      BY DEF FrameStep, NextHole
    <3>2. scc' = 1
      BY <3>1, SccStep, PeriodAssumption DEF FrameStep, TypeOK
    <3>3. FirstFree(t) \in Slot /\ ~valid[t][FirstFree(t)]
      BY <3>1, FirstFreeIsFree DEF Free
    <3>4. hole[t] = NoHole
      BY <3>1 DEF HoleIsFree
    <3>5. FirstFree(t) # NoHole
      BY <3>3, SlotAssumption DEF Slot, NoHole
    <3>6. ~NextValid(t, FirstFree(t), spent)
      BY <3>3, <3>4, <3>5 DEF NextValid, Flies
    <3>7. QED BY <3>1, <3>2, <3>3, <3>6 DEF FrameStep
  <2>2. CASE Reset
    BY <2>2 DEF Reset, HoleIsFree, Cleared
  <2>3. CASE UNCHANGED vars
    BY <2>3 DEF vars, HoleIsFree
  <2>4. QED BY <2>1, <2>2, <2>3 DEF Next
<1>3. QED BY <1>1, <1>2, TypeCorrect, PTL DEF Spec

(***************************************************************************)
(* Every tank implements the gun.                                          *)
(***************************************************************************)

(* The frames until the next chance, as a function of the counter.         *)
LEMMA WaitValue ==
  ASSUME scc \in 0 .. Period - 1
  PROVE  /\ scc = 0 => (Period + 1 - scc) % Period = 1
         /\ scc = 1 => (Period + 1 - scc) % Period = 0
         /\ scc > 1 => /\ (Period + 1 - scc) % Period = Period + 1 - scc
                       /\ Period + 1 - scc \notin {0, 1}
<1>1. scc = 0 => (Period + 1 - scc) % Period = 1
  BY PeriodAssumption
<1>2. scc = 1 => (Period + 1 - scc) % Period = 0
  BY PeriodAssumption
<1>3. scc > 1 => (Period + 1 - scc) % Period = Period + 1 - scc
  BY PeriodAssumption
<1>4. QED BY <1>1, <1>2, <1>3, PeriodAssumption

(* The countdown of the gun is the slow clock counter seen from its end.   *)
LEMMA CountdownStep ==
  ASSUME scc \in 0 .. Period - 1, scc' = (scc + 1) % Period
  PROVE  (Period + 1 - scc') % Period
           = (((Period + 1 - scc) % Period) + Period - 1) % Period
<1>1. CASE scc = 0
  <2>1. scc' = 1
    BY <1>1, PeriodAssumption
  <2>2. (Period + 1 - scc') % Period = 0
    BY <2>1, PeriodAssumption
  <2>3. (Period + 1 - scc) % Period = 1
    BY <1>1, PeriodAssumption
  <2>4. (1 + Period - 1) % Period = 0
    BY PeriodAssumption
  <2>5. QED BY <2>2, <2>3, <2>4
<1>2. CASE scc = 1
  <2>1. scc' = 2
    BY <1>2, PeriodAssumption
  <2>2. (Period + 1 - scc') % Period = Period - 1
    BY <2>1, PeriodAssumption
  <2>3. (Period + 1 - scc) % Period = 0
    BY <1>2, PeriodAssumption
  <2>4. (0 + Period - 1) % Period = Period - 1
    BY PeriodAssumption
  <2>5. QED BY <2>2, <2>3, <2>4
<1>3. CASE scc > 1 /\ scc # Period - 1
  <2>1. scc' = scc + 1
    BY <1>3, PeriodAssumption
  <2>2. (Period + 1 - scc') % Period = Period - scc
    BY <1>3, <2>1, PeriodAssumption
  <2>3. (Period + 1 - scc) % Period = Period + 1 - scc
    BY <1>3, PeriodAssumption
  <2>4. (Period + 1 - scc + Period - 1) % Period = Period - scc
    BY <1>3, PeriodAssumption
  <2>5. QED BY <2>2, <2>3, <2>4
<1>4. CASE scc > 1 /\ scc = Period - 1
  <2>1. scc' = 0
    BY <1>4, PeriodAssumption
  <2>2. (Period + 1 - scc') % Period = 1
    BY <2>1, PeriodAssumption
  <2>3. (Period + 1 - scc) % Period = 2
    BY <1>4, PeriodAssumption
  <2>4. (2 + Period - 1) % Period = 1
    BY PeriodAssumption
  <2>5. QED BY <2>2, <2>3, <2>4
<1>5. QED BY <1>1, <1>2, <1>3, <1>4

(* When no slot is pending, a frame only takes bullets away.               *)
LEMMA LiveShrinks ==
  ASSUME NEW pressed, NEW spent, FrameStep(pressed, spent),
         NEW t \in Tank, hole[t] = NoHole
  PROVE  Live(t)' \subseteq Live(t)
<1>1. \A s \in Slot : s # hole[t]
  BY SlotAssumption DEF Slot, NoHole
<1>2. QED BY <1>1 DEF FrameStep, Live, NextValid, Flies

(* Every step of the fire pipeline is a step of the gun.                   *)
THEOREM GunRefined == Spec => ImplementsGun
<1>1. Init => \A t \in Tank : Fires(t)!Init
  <2> SUFFICES ASSUME Init, NEW t \in Tank PROVE Fires(t)!Init
    OBVIOUS
  <2>1. Live(t) = {}
    BY DEF Init, Live, ClearedSlots
  <2>2. scc = 0 /\ fire[t] = FALSE
    BY DEF Init, Cleared
  <2>3. (Period + 1 - scc) % Period = 1
    BY <2>2, PeriodAssumption
  <2>4. QED BY <2>1, <2>2, <2>3 DEF Fires!Init
<1>2. TypeOK /\ HoleIsFree /\ [Next]_vars
        => \A t \in Tank : [Fires(t)!Next]_(Fires(t)!vars)
  <2> SUFFICES ASSUME TypeOK, HoleIsFree, [Next]_vars, NEW t \in Tank
               PROVE  [Fires(t)!Next]_(Fires(t)!vars)
    OBVIOUS
  <2>1. CASE Frame
    <3> PICK pressed \in SUBSET Tank, spent \in [Tank -> SUBSET Slot] :
               FrameStep(pressed, spent)
      BY <2>1 DEF Frame
    <3>1. scc \in 0 .. Period - 1 /\ scc' = (scc + 1) % Period
      BY DEF TypeOK, FrameStep
    <3>2. Fires(t)!Countdown
      BY <3>1, CountdownStep DEF Fires!Countdown
    <3>3. fire'[t] = NextFire(t, pressed) /\ hole'[t] = NextHole(t)
      BY DEF FrameStep
    <3>4. CASE scc = 0
      <4>1. scc' = 1 /\ hole[t] = NoHole
        BY <3>1, <3>4, PeriodAssumption DEF HoleIsFree
      <4>2. hole'[t] # NoHole <=> fire[t] /\ Live(t) # Slot
        <5>1. Live(t) # Slot <=> Free(t) # {}
          BY DEF Live, Free
        <5>2. Free(t) # {} => FirstFree(t) \in Slot
          BY FirstFreeIsFree DEF Free
        <5>3. QED
          BY <3>3, <3>4, <5>1, <5>2, SlotAssumption
             DEF NextHole, Slot, NoHole
      <4>3. Live(t)' \in SUBSET Live(t)
        BY <4>1, LiveShrinks
      <4>4. Fires(t)!Aim
        BY <3>1, <3>2, <3>4, <4>1, <4>2, <4>3, WaitValue DEF Fires!Aim
      <4>5. QED BY <4>4 DEF Fires!Next
    <3>5. CASE scc = 1
      <4>1. scc' # 1 /\ fire'[t] = FALSE
        <5>1. scc' # 1
          BY <3>1, <3>5, PeriodAssumption
        <5>2. NextFire(t, pressed) = FALSE
          BY <3>5 DEF NextFire
        <5>3. QED BY <3>3, <5>1, <5>2
      <4>2. CASE hole[t] = NoHole
        <5>1. Live(t)' \in SUBSET Live(t)
          BY <4>2, LiveShrinks
        <5>2. Fires(t)!HoldFire
          BY <3>1, <3>2, <3>5, <4>1, <4>2, <5>1, WaitValue
             DEF Fires!HoldFire
        <5>3. QED BY <5>2 DEF Fires!Next
      <4>3. CASE hole[t] # NoHole
        <5>1. hole[t] \in Slot \ Live(t)
          BY <4>3 DEF HoleIsFree, TypeOK, Live
        <5>2. Live(t)' = (Live(t)' \ {hole[t]}) \union {hole[t]}
          BY <5>1 DEF FrameStep, NextValid, Live
        <5>3. Live(t)' \ {hole[t]} \in SUBSET Live(t)
          BY DEF FrameStep, NextValid, Flies, Live
        <5>4. Fires(t)!Shoot
          BY <3>1, <3>2, <3>5, <4>1, <4>3, <5>1, <5>2, <5>3, WaitValue
             DEF Fires!Shoot
        <5>5. QED BY <5>4 DEF Fires!Next
      <4>4. QED BY <4>2, <4>3
    <3>6. CASE scc > 1
      <4>1. scc' # 1 /\ hole[t] = NoHole
        BY <3>1, <3>6, PeriodAssumption DEF HoleIsFree
      <4>2. fire'[t] \in {fire[t], TRUE}
        <5>1. scc # 1
          BY <3>1, <3>6
        <5>2. fire[t] \in BOOLEAN /\ (t \in pressed) \in BOOLEAN
          BY DEF TypeOK
        <5>3. NextFire(t, pressed) \in {fire[t], TRUE}
          BY <5>1, <5>2, Zenon DEF NextFire
        <5>4. QED BY <3>3, <5>3
      <4>3. Live(t)' \in SUBSET Live(t)
        BY <4>1, LiveShrinks
      <4>4. Fires(t)!Carry
        BY <3>1, <3>2, <3>6, <4>1, <4>2, <4>3, WaitValue DEF Fires!Carry
      <4>5. QED BY <4>4 DEF Fires!Next
    <3>7. QED BY <3>1, <3>4, <3>5, <3>6
  <2>2. CASE Reset
    <3>1. Live(t)' = {}
      BY <2>2 DEF Reset, Live, ClearedSlots
    <3>2. scc' = 0 /\ fire'[t] = FALSE
      BY <2>2 DEF Reset, Cleared
    <3>3. (Period + 1 - scc') % Period = 1
      BY <3>2, PeriodAssumption
    <3>4. Fires(t)!Reset
      BY <3>1, <3>2, <3>3 DEF Fires!Reset
    <3>5. QED BY <3>4 DEF Fires!Next
  <2>3. CASE UNCHANGED vars
    BY <2>3 DEF vars, Fires!vars, Live
  <2>4. QED BY <2>1, <2>2, <2>3 DEF Next
<1>3. QED
  BY <1>1, <1>2, TypeCorrect, HoleSafe, PTL DEF Spec, ImplementsGun

-----------------------------------------------------------------------------
(* The flight of one bullet: BulletFlight.                                 *)

(* The values of the 10 bit additions and subtractions.                    *)
LEMMA ModValue ==
  ASSUME NEW a \in Int
  PROVE  /\ a \in 0 .. Modulus - 1 => a % Modulus = a
         /\ 0 - Modulus <= a /\ a < 0 => a % Modulus = a + Modulus
         /\ a % Modulus \in 0 .. Modulus - 1
<1>1. Modulus \in Nat \ {0}
  BY ScreenAssumption
<1>2. a \in 0 .. Modulus - 1 => a % Modulus = a
  BY <1>1
<1>3. 0 - Modulus <= a /\ a < 0 => a % Modulus = a + Modulus
  BY <1>1
<1>4. a % Modulus \in 0 .. Modulus - 1
  BY <1>1
<1> QED
  BY <1>2, <1>3, <1>4

LEMMA MotionRange ==
  ASSUME NEW d \in Direction
  PROVE  /\ DX(d) \in {-1, 0, 1} /\ DY(d) \in {-1, 0, 1}
         /\ DX(d) # 0 \/ DY(d) # 0
BY DEF Direction, DX, DY

(* Every motion but standing still has a direction.                        *)
LEMMA EncodeIs ==
  ASSUME NEW dx \in {-1, 0, 1}, NEW dy \in {-1, 0, 1}, dx # 0 \/ dy # 0
  PROVE  /\ Encode(dx, dy) \in Direction
         /\ DX(Encode(dx, dy)) = dx /\ DY(Encode(dx, dy)) = dy
<1>1. \E d \in Direction : DX(d) = dx /\ DY(d) = dy
  <2>1. \A d \in {0, 1, 2, 3, 4, 5, 6, 7} : d \in Direction
    BY DEF Direction
  <2>2. /\ DX(0) = 0 /\ DY(0) = -1 /\ DX(1) = -1 /\ DY(1) = -1
        /\ DX(2) = -1 /\ DY(2) = 0 /\ DX(3) = -1 /\ DY(3) = 1
        /\ DX(4) = 0 /\ DY(4) = 1 /\ DX(5) = 1 /\ DY(5) = 1
        /\ DX(6) = 1 /\ DY(6) = 0 /\ DX(7) = 1 /\ DY(7) = -1
    BY DEF DX, DY
  <2> QED
    BY <2>1, <2>2
<1> QED
  BY <1>1 DEF Encode

(* A turn changes one of the two motions and leaves the other.             *)
LEMMA NextDirIs ==
  ASSUME dir \in Direction
  PROVE  /\ NextDir \in Direction
         /\ AtBottom => DX(NextDir) = DX(dir) /\ DY(NextDir) = -1
         /\ ~AtBottom /\ AtTop => DX(NextDir) = DX(dir) /\ DY(NextDir) = 1
         /\ ~AtBottom /\ ~AtTop => DY(NextDir) = DY(dir)
         /\ ~AtBottom /\ ~AtTop /\ AtRight => DX(NextDir) = -1
         /\ ~AtBottom /\ ~AtTop /\ ~AtRight /\ AtLeft => DX(NextDir) = 1
         /\ ~AtRight /\ ~AtLeft => DX(NextDir) = DX(dir)
<1>1. /\ DX(dir) \in {-1, 0, 1} /\ DY(dir) \in {-1, 0, 1}
  BY MotionRange
<1>2. CASE AtBottom
  BY <1>1, <1>2, EncodeIs DEF NextDir
<1>3. CASE ~AtBottom /\ AtTop
  BY <1>1, <1>3, EncodeIs DEF NextDir
<1>4. CASE ~AtBottom /\ ~AtTop /\ AtRight
  BY <1>1, <1>4, EncodeIs DEF NextDir
<1>5. CASE ~AtBottom /\ ~AtTop /\ ~AtRight /\ AtLeft
  BY <1>1, <1>5, EncodeIs DEF NextDir
<1>6. CASE ~AtBottom /\ ~AtTop /\ ~AtRight /\ ~AtLeft
  BY <1>6 DEF NextDir
<1> QED
  BY <1>2, <1>3, <1>4, <1>5, <1>6

(* The coordinates of a new bullet fit into 10 bits.                       *)
LEMMA SpawnRange ==
  ASSUME NEW p \in Places, NEW d \in Direction
  PROVE  /\ Spawn(p, d)[1] \in 0 .. Modulus - 1
         /\ Spawn(p, d)[2] \in 0 .. Modulus - 1
<1>1. /\ Modulus \in Nat \ {0} /\ Size \in Nat
      /\ p[1] \in Int /\ p[2] \in Int
  BY ScreenAssumption
<1>2. Size \div 2 \in Int
  BY <1>1
<1> DEFINE sx == CASE DX(d) = -1 -> p[1] - 1
                   [] DX(d) = 1 -> p[1] + Size
                   [] OTHER -> p[1] + Size \div 2
           sy == CASE DY(d) = -1 -> p[2] - 1
                   [] DY(d) = 1 -> p[2] + Size
                   [] OTHER -> p[2] + Size \div 2
<1>3. sx \in Int /\ sy \in Int
  BY <1>1, <1>2, MotionRange
<1>4. Spawn(p, d) = IF sx < 0 THEN <<Modulus - 1, Modulus - 1>>
                    ELSE <<sx % Modulus, sy % Modulus>>
  BY DEF Spawn
<1>5. Modulus - 1 \in 0 .. Modulus - 1
  BY <1>1
<1> HIDE DEF sx, sy
<1>6. /\ sx % Modulus \in 0 .. Modulus - 1 /\ sy % Modulus \in 0 .. Modulus - 1
  BY <1>3, ModValue
<1> QED
  BY <1>4, <1>5, <1>6

(* A bullet fired sideways starts in a row that meets neither border, also *)
(* at the left edge, where the row is the last one of the 10 bits.         *)
LEMMA SidewaysIsClear ==
  ASSUME NEW p \in Places, NEW d \in Direction, DY(d) = 0,
         NEW b, b = Spawn(p, d)[2]
  PROVE  (b + Margin) % Modulus < YMax /\ (b - Margin) % Modulus > 0
<1>1. /\ p[1] \in Nat /\ p[2] \in Nat /\ p[2] <= YMax - Size
      /\ Margin \in Nat /\ Margin > 0 /\ Size \in Nat /\ YMax \in Nat /\ Modulus \in Nat
      /\ Margin < Size \div 2 /\ Margin + Size < YMax
      /\ YMax + 2 * Margin < Modulus
  BY ScreenAssumption
<1>2. /\ Size \div 2 \in Nat /\ 2 * (Size \div 2) <= Size
  BY <1>1
<1>3. CASE b = p[2] + Size \div 2
  <2>1. b + Margin \in 0 .. Modulus - 1 /\ b - Margin \in 0 .. Modulus - 1
    BY <1>1, <1>2, <1>3
  <2>2. (b + Margin) % Modulus = b + Margin /\ (b - Margin) % Modulus = b - Margin
    BY <1>1, <1>2, <1>3, <2>1, ModValue
  <2> QED
    BY <1>1, <1>2, <1>3, <2>2
<1>4. CASE b = Modulus - 1
  <2>1. b + Margin - Modulus \in 0 .. Modulus - 1 /\ b - Margin \in 0 .. Modulus - 1
    BY <1>1, <1>2, <1>4
  <2>2. (b - Margin) % Modulus = b - Margin
    <3>1. b - Margin \in Int
      BY <1>1, <1>4
    <3> QED
      BY <2>1, <3>1, ModValue
  <2>3. (b + Margin) % Modulus = b + Margin - Modulus
    BY <1>1, <1>4, <2>1
  <2> QED
    BY <1>1, <1>2, <1>4, <2>2, <2>3
<1>5. b = p[2] + Size \div 2 \/ b = Modulus - 1
  <2>1. p[2] + Size \div 2 \in 0 .. Modulus - 1
    BY <1>1, <1>2
  <2>2. (p[2] + Size \div 2) % Modulus = p[2] + Size \div 2
    BY <2>1, ModValue
  <2> QED
    BY <2>2 DEF Spawn
<1> QED
  BY <1>3, <1>4, <1>5

(* The same for the columns, where there is no exception.                  *)
LEMMA UprightIsClear ==
  ASSUME NEW p \in Places, NEW d \in Direction, DX(d) = 0,
         NEW a, a = Spawn(p, d)[1]
  PROVE  (a + Margin) % Modulus < XMax /\ (a - Margin) % Modulus > 0
<1>1. /\ p[1] \in Nat /\ p[1] <= XMax - Size
      /\ Margin \in Nat /\ Margin > 0 /\ Size \in Nat /\ XMax \in Nat /\ Modulus \in Nat
      /\ Margin < Size \div 2 /\ Margin + Size < XMax
      /\ XMax + 2 * Margin < Modulus
  BY ScreenAssumption
<1>2. /\ Size \div 2 \in Nat /\ 2 * (Size \div 2) <= Size
  BY <1>1
<1>3. p[1] + Size \div 2 \in 0 .. Modulus - 1
  BY <1>1, <1>2
<1>4. (p[1] + Size \div 2) % Modulus = p[1] + Size \div 2
  BY <1>3, ModValue
<1>5. a = p[1] + Size \div 2
  BY <1>1, <1>2, <1>4 DEF Spawn
<1>6. a + Margin \in 0 .. Modulus - 1 /\ a - Margin \in 0 .. Modulus - 1
  BY <1>1, <1>2, <1>5
<1>7. (a + Margin) % Modulus = a + Margin /\ (a - Margin) % Modulus = a - Margin
  <2>1. a + Margin \in Int /\ a - Margin \in Int
    BY <1>1, <1>2, <1>5
  <2> QED
    BY <1>6, <2>1, ModValue
<1> QED
  BY <1>1, <1>2, <1>5, <1>7

(* The registers of a bullet stay in their ranges.                         *)
LEMMA FlightTypesStep ==
  ASSUME FlightTypeOK, [FlightNext]_flight
  PROVE  FlightTypeOK'
<1>1. Modulus \in Nat \ {0} /\ x \in Int /\ y \in Int
  BY ScreenAssumption DEF FlightTypeOK
<1>6. 1 \in 0 .. LifeTime - 1 /\ (alive + 1) % LifeTime \in 0 .. LifeTime - 1
  BY ScreenAssumption DEF FlightTypeOK
<1>2. CASE Fire
  <2> PICK d \in Direction :
        x' = Spawn(tank, d)[1] /\ y' = Spawn(tank, d)[2] /\ dir' = d
    BY <1>2 DEF Fire
  <2>1. x' \in 0 .. Modulus - 1 /\ y' \in 0 .. Modulus - 1 /\ dir' \in Direction
    BY SpawnRange DEF FlightTypeOK
  <2> QED
    BY <1>2, <1>6, <2>1 DEF Fire, FlightTypeOK
<1>3. CASE Fly
  <2>1. x + DX(dir) \in Int /\ y + DY(dir) \in Int
    BY <1>1, MotionRange DEF FlightTypeOK
  <2>2. x' \in 0 .. Modulus - 1 /\ y' \in 0 .. Modulus - 1
    BY <1>3, <2>1, ModValue DEF Fly, NextX, NextY
  <2>3. dir' \in Direction
    BY <1>3, NextDirIs DEF Fly, FlightTypeOK
  <2>4. corner' \in BOOLEAN
    BY <1>3, Zenon DEF Fly, FlightTypeOK
  <2>5. state' = "flying" /\ tank' \in Places /\ alive' \in 0 .. LifeTime - 1
    BY <1>3, <1>6 DEF Fly, FlightTypeOK
  <2> QED
    BY <2>2, <2>3, <2>4, <2>5 DEF FlightTypeOK
<1>4. CASE Vanish
  BY <1>1, <1>4, <1>6 DEF Vanish, FlightTypeOK, Direction
<1>7. CASE Expire
  BY <1>1, <1>6, <1>7 DEF Expire, FlightTypeOK, Direction
<1>5. CASE UNCHANGED flight
  BY <1>5 DEF flight, FlightTypeOK
<1> QED
  BY <1>2, <1>3, <1>4, <1>5, <1>7 DEF FlightNext

(***************************************************************************)
(* StraightStaysStraight is not inductive: a bullet on a border would turn *)
(* into a diagonal one.  What holds is that its line meets no border.      *)
(***************************************************************************)
KeepsItsLine ==
  InFlight =>
    /\ shot[3] \in Direction
    /\ DY(shot[3]) = 0 =>
         y = shot[2] /\ DY(dir) = 0 /\ ~AtTop /\ ~AtBottom
    /\ DX(shot[3]) = 0 =>
         x = shot[1] /\ DX(dir) = 0 /\ ~AtLeft /\ ~AtRight

LEMMA KeepsItsLineStep ==
  ASSUME FlightTypeOK, FlightTypeOK', KeepsItsLine, [FlightNext]_flight
  PROVE  KeepsItsLine'
<1>1. /\ x \in 0 .. Modulus - 1 /\ y \in 0 .. Modulus - 1
      /\ XMax \in Nat /\ YMax \in Nat /\ Margin \in Nat /\ Modulus \in Nat \ {0}
  BY ScreenAssumption DEF FlightTypeOK
<1>2. CASE Fire
  <2> PICK d \in Direction :
        /\ x' = Spawn(tank, d)[1] /\ y' = Spawn(tank, d)[2] /\ dir' = d
        /\ shot' = <<Spawn(tank, d)[1], Spawn(tank, d)[2], d>>
    BY <1>2 DEF Fire
  <2>1. tank \in Places /\ x' \in Int /\ y' \in Int
    BY SpawnRange DEF FlightTypeOK
  <2>2. DY(d) = 0 => ~AtTop' /\ ~AtBottom'
    <3> SUFFICES ASSUME DY(d) = 0 PROVE ~AtTop' /\ ~AtBottom'
      OBVIOUS
    <3>1. (y' + Margin) % Modulus < YMax /\ (y' - Margin) % Modulus > 0
      BY <2>1, SidewaysIsClear
    <3>2. (y' + Margin) % Modulus \in Int /\ (y' - Margin) % Modulus \in Int
      BY <1>1, <2>1
    <3> QED
      BY <1>1, <3>1, <3>2 DEF AtTop, AtBottom
  <2>3. DX(d) = 0 => ~AtLeft' /\ ~AtRight'
    <3> SUFFICES ASSUME DX(d) = 0 PROVE ~AtLeft' /\ ~AtRight'
      OBVIOUS
    <3>1. (x' + Margin) % Modulus < XMax /\ (x' - Margin) % Modulus > 0
      BY <2>1, UprightIsClear
    <3>2. (x' + Margin) % Modulus \in Int /\ (x' - Margin) % Modulus \in Int
      BY <1>1, <2>1
    <3> QED
      BY <1>1, <3>1, <3>2 DEF AtLeft, AtRight
  <2> QED
    BY <2>2, <2>3 DEF KeepsItsLine
<1>3. CASE Fly
  <2>1. InFlight /\ shot' = shot /\ dir' = NextDir /\ x' = NextX /\ y' = NextY
    BY <1>3 DEF Fly
  <2>2. shot[3] \in Direction /\ dir \in Direction
    BY <2>1 DEF KeepsItsLine, FlightTypeOK
  <2>3. CASE DY(shot[3]) = 0
    <3>1. y = shot[2] /\ DY(dir) = 0 /\ ~AtTop /\ ~AtBottom
      BY <2>1, <2>3 DEF KeepsItsLine
    <3>2. y' = y
      <4>1. y + 0 = y /\ y % Modulus = y
        BY <1>1, ModValue
      <4> QED
        BY <2>1, <3>1, <4>1 DEF NextY
    <3>3. DY(dir') = 0
      BY <2>1, <2>2, <3>1, NextDirIs
    <3>4. ~AtTop' /\ ~AtBottom'
      BY <3>1, <3>2 DEF AtTop, AtBottom
    <3> QED
      BY <2>1, <2>2, <2>3, <3>1, <3>2, <3>3, <3>4, MotionRange DEF KeepsItsLine
  <2>4. CASE DX(shot[3]) = 0
    <3>1. x = shot[1] /\ DX(dir) = 0 /\ ~AtLeft /\ ~AtRight
      BY <2>1, <2>4 DEF KeepsItsLine
    <3>2. x' = x
      <4>1. x + 0 = x /\ x % Modulus = x
        BY <1>1, ModValue
      <4> QED
        BY <2>1, <3>1, <4>1 DEF NextX
    <3>3. DX(dir') = 0
      BY <2>1, <2>2, <3>1, NextDirIs
    <3>4. ~AtLeft' /\ ~AtRight'
      BY <3>1, <3>2 DEF AtLeft, AtRight
    <3> QED
      BY <2>1, <2>2, <2>4, <3>1, <3>2, <3>3, <3>4, MotionRange DEF KeepsItsLine
  <2> QED
    BY <2>1, <2>2, <2>3, <2>4 DEF KeepsItsLine
<1>4. CASE Vanish \/ Expire
  BY <1>4 DEF Vanish, Expire, KeepsItsLine, InFlight
<1>5. CASE UNCHANGED flight
  <2>1. KeepsItsLine' <=> KeepsItsLine
    BY <1>5 DEF flight, KeepsItsLine, InFlight, AtTop, AtBottom, AtLeft, AtRight
  <2> QED
    BY <2>1
<1> QED
  BY <1>2, <1>3, <1>4, <1>5 DEF FlightNext

LEMMA NoBulletInWallStep ==
  ASSUME NoBulletInWall, [FlightNext]_flight
  PROVE  NoBulletInWall'
<1>1. CASE Fire
  BY <1>1 DEF Fire, NoBulletInWall
<1>2. CASE Fly
  BY <1>2 DEF Fly, NoBulletInWall, InWall
<1>3. CASE Vanish \/ Expire
  BY <1>3 DEF Vanish, Expire, NoBulletInWall
<1>4. CASE UNCHANGED flight
  BY <1>4 DEF flight, NoBulletInWall, InWall
<1> QED
  BY <1>1, <1>2, <1>3, <1>4 DEF FlightNext

(* One coordinate at its two borders: dn is the motion after the turn.     *)
Turns(v, dv, dn, last) ==
  /\ (v + Margin) % Modulus >= last => dn = -1
  /\ (v + Margin) % Modulus < last /\ (v - Margin) % Modulus <= 0 => dn = 1
  /\ (v + Margin) % Modulus < last /\ (v - Margin) % Modulus > 0 => dn = dv

(* Away from the corners each coordinate turns on its own.                 *)
LEMMA TurnsAre ==
  ASSUME FlightTypeOK, ~((AtTop \/ AtBottom) /\ (AtLeft \/ AtRight))
  PROVE  /\ NextDir \in Direction
         /\ Turns(x, DX(dir), DX(NextDir), XMax)
         /\ Turns(y, DY(dir), DY(NextDir), YMax)
<1>1. /\ x \in Int /\ y \in Int /\ XMax \in Nat /\ YMax \in Nat
      /\ Margin \in Nat /\ Modulus \in Nat \ {0} /\ dir \in Direction
  BY ScreenAssumption DEF FlightTypeOK
<1>2. /\ (x + Margin) % Modulus \in Int /\ (x - Margin) % Modulus \in Int
      /\ (y + Margin) % Modulus \in Int /\ (y - Margin) % Modulus \in Int
  BY <1>1
<1>3. /\ AtRight => DX(NextDir) = -1
      /\ ~AtRight /\ AtLeft => DX(NextDir) = 1
      /\ ~AtRight /\ ~AtLeft => DX(NextDir) = DX(dir)
  BY <1>1, NextDirIs
<1>4. /\ AtBottom => DY(NextDir) = -1
      /\ ~AtBottom /\ AtTop => DY(NextDir) = 1
      /\ ~AtBottom /\ ~AtTop => DY(NextDir) = DY(dir)
  BY <1>1, NextDirIs
<1>5. Turns(x, DX(dir), DX(NextDir), XMax)
  BY <1>1, <1>2, <1>3 DEF AtRight, AtLeft, Turns
<1>6. Turns(y, DY(dir), DY(NextDir), YMax)
  BY <1>1, <1>2, <1>4 DEF AtBottom, AtTop, Turns
<1> QED
  BY <1>1, <1>5, <1>6, NextDirIs

(* A bullet fired from inside the margins starts between them.             *)
LEMMA SpawnInside ==
  ASSUME NEW p \in Places, NEW d \in Direction,
         p[1] > Margin, p[1] + Size < XMax - Margin,
         p[2] > Margin, p[2] + Size < YMax - Margin
  PROVE  /\ Margin <= Spawn(p, d)[1] /\ Spawn(p, d)[1] <= XMax - Margin
         /\ Margin <= Spawn(p, d)[2] /\ Spawn(p, d)[2] <= YMax - Margin
<1>1. /\ p[1] \in Nat /\ p[2] \in Nat /\ Margin \in Nat /\ Size \in Nat
      /\ XMax \in Nat /\ YMax \in Nat /\ Modulus \in Nat
      /\ XMax + 2 * Margin < Modulus /\ YMax + 2 * Margin < Modulus
  BY ScreenAssumption
<1>2. Size \div 2 \in 0 .. Size
  BY <1>1
<1>3. \A k \in 0 .. Size :
        /\ (p[1] + k) % Modulus = p[1] + k /\ (p[2] + k) % Modulus = p[2] + k
  <2> TAKE k \in 0 .. Size
  <2>1. p[1] + k \in 0 .. Modulus - 1 /\ p[2] + k \in 0 .. Modulus - 1
    BY <1>1
  <2> QED
    BY <2>1, ModValue
<1>4. (p[1] - 1) % Modulus = p[1] - 1 /\ (p[2] - 1) % Modulus = p[2] - 1
  <2>1. p[1] - 1 \in 0 .. Modulus - 1 /\ p[2] - 1 \in 0 .. Modulus - 1
    BY <1>1
  <2> QED
    BY <2>1, ModValue
<1>5. Size \in 0 .. Size
  BY <1>1
<1> DEFINE sx == CASE DX(d) = -1 -> p[1] - 1
                   [] DX(d) = 1 -> p[1] + Size
                   [] OTHER -> p[1] + Size \div 2
           sy == CASE DY(d) = -1 -> p[2] - 1
                   [] DY(d) = 1 -> p[2] + Size
                   [] OTHER -> p[2] + Size \div 2
<1>6. /\ sx \in Int /\ sx % Modulus = sx /\ Margin <= sx /\ sx <= XMax - Margin
  BY <1>1, <1>2, <1>3, <1>4, <1>5
<1>7. /\ sy \in Int /\ sy % Modulus = sy /\ Margin <= sy /\ sy <= YMax - Margin
  BY <1>1, <1>2, <1>3, <1>4, <1>5
<1>8. Spawn(p, d) = IF sx < 0 THEN <<Modulus - 1, Modulus - 1>>
                    ELSE <<sx % Modulus, sy % Modulus>>
  BY DEF Spawn
<1> HIDE DEF sx, sy
<1> QED
  BY <1>1, <1>6, <1>7, <1>8

(***************************************************************************)
(* ExpiresOnlyAfar: as long as a straight bullet can be back in time, its  *)
(* age says how far it has come.                                           *)
(***************************************************************************)

(* o pixels before the place it was fired at, moving outwards (m = 1) or   *)
(* back (m = -1), with g pixels from there to the line it turns at.        *)
Travelled(o, m, g, a) ==
  \/ m = 1 /\ o = a - 1 /\ 0 <= o /\ o <= g
  \/ m = -1 /\ o = 2 * g + 3 - a /\ -1 <= o /\ o <= g + 1

(* How far the bullet is from the place it was fired at, and its motion.   *)
Out ==
  CASE shot[3] = 0 -> shot[2] - y
    [] shot[3] = 2 -> shot[1] - x
    [] shot[3] = 4 -> y - shot[2]
    [] OTHER       -> x - shot[1]

Outwards ==
  CASE shot[3] = 0 -> -DY(dir)
    [] shot[3] = 2 -> -DX(dir)
    [] shot[3] = 4 -> DY(dir)
    [] OTHER       -> DX(dir)

OnItsWay ==
  /\ InFlight => \E d \in Direction :
                   shot = <<Spawn(tank, d)[1], Spawn(tank, d)[2], d>>
  /\ InFlight /\ ComesBack => alive # 0 /\ Travelled(Out, Outwards, Gap, alive)
  /\ ExpiresOnlyAfar

(* One frame of the way of a coordinate towards its lower border ...       *)
LEMMA LowWay ==
  ASSUME NEW last \in Nat, last + 2 * Margin < Modulus,
         NEW s \in Int, Margin <= s, s < last - Margin,
         NEW v \in Int, NEW dv \in Int, NEW dn \in Int,
         NEW a \in Int, NEW o, o = s - v, NEW m, m = -dv,
         NEW g, g = s - Margin, Travelled(o, m, g, a), o # -1,
         Turns(v, dv, dn, last)
  PROVE  /\ (v + dv) % Modulus = v + dv
         /\ Travelled(s - (v + dv), -dn, s - Margin, a + 1)
         /\ a + 1 <= 2 * (s - Margin) + 4
<1>1. /\ Margin \in Nat /\ Margin > 0 /\ Modulus \in Nat \ {0}
  BY ScreenAssumption
<1>2. /\ v + dv \in 0 .. Modulus - 1 /\ v + Margin \in 0 .. Modulus - 1
      /\ v + dv \in Int /\ v + Margin \in Int /\ v - Margin \in Int
      /\ v + Margin < last
  BY <1>1 DEF Travelled
<1>3. (v + dv) % Modulus = v + dv /\ (v + Margin) % Modulus = v + Margin
  BY <1>2, ModValue
<1>4. v = Margin => dn = 1
  <2>1. v = Margin => (v - Margin) % Modulus = 0
    BY <1>1
  <2> QED
    BY <1>2, <1>3, <2>1 DEF Turns
<1>5. v # Margin => dn = dv
  <2>1. v # Margin => (v - Margin) % Modulus > 0
    <3>1. CASE v < Margin
      <4>1. v - Margin = -1
        BY <1>1, <3>1 DEF Travelled
      <4> QED
        BY <1>1, <4>1, ModValue
    <3>2. CASE v > Margin
      <4>1. v - Margin \in 0 .. Modulus - 1
        BY <1>1, <1>2, <3>2
      <4>2. v - Margin \in Int /\ v - Margin > 0
        BY <1>1, <1>2, <3>2
      <4>3. (v - Margin) % Modulus = v - Margin
        BY <4>1, <4>2, ModValue
      <4> QED
        BY <4>2, <4>3
    <3> QED
      BY <1>1, <3>1, <3>2
  <2> QED
    BY <1>2, <1>3, <2>1 DEF Turns
<1>6. s - (v + dv) = (s - v) + (-dv) /\ s - v = s - Margin <=> v = Margin
  BY <1>1
<1>7. dv = -1 \/ dv = 1
  BY DEF Travelled
<1>8. /\ Travelled((s - v) + (-dv), -dn, s - Margin, a + 1)
      /\ a + 1 <= 2 * (s - Margin) + 4
  BY <1>1, <1>4, <1>5, <1>7 DEF Travelled
<1> QED
  BY <1>3, <1>6, <1>8

(* ... and towards its upper one.                                          *)
LEMMA HighWay ==
  ASSUME NEW last \in Nat, last + 2 * Margin < Modulus,
         NEW v \in Int, NEW dv \in Int, NEW dn \in Int,
         NEW a \in Int, NEW o \in Int, NEW g \in Int, v = last - Margin - g + o,
         0 <= g, g < last - 2 * Margin, Travelled(o, dv, g, a), o # -1,
         Turns(v, dv, dn, last)
  PROVE  /\ (v + dv) % Modulus = v + dv
         /\ Travelled(o + dv, dn, g, a + 1)
         /\ a + 1 <= 2 * g + 4
<1>1. /\ Margin \in Nat /\ Margin > 0 /\ Modulus \in Nat \ {0}
  BY ScreenAssumption
<1>2. /\ v + dv \in 0 .. Modulus - 1 /\ v + Margin \in 0 .. Modulus - 1
      /\ v - Margin \in 0 .. Modulus - 1
      /\ v + dv \in Int /\ v + Margin \in Int /\ v - Margin \in Int
      /\ v - Margin > 0
  BY <1>1 DEF Travelled
<1>3. /\ (v + dv) % Modulus = v + dv /\ (v + Margin) % Modulus = v + Margin
      /\ (v - Margin) % Modulus = v - Margin
  BY <1>2, ModValue
<1>4. v >= last - Margin => dn = -1
  BY <1>1, <1>2, <1>3 DEF Turns
<1>5. v < last - Margin => dn = dv
  BY <1>1, <1>2, <1>3 DEF Turns
<1>6. dv = -1 \/ dv = 1
  BY DEF Travelled
<1> QED
  BY <1>1, <1>3, <1>4, <1>5, <1>6 DEF Travelled

(* Where the four straight shots begin.                                    *)
LEMMA StraightSpawn ==
  ASSUME NEW p \in Places,
         p[1] > Margin, p[1] + Size < XMax - Margin,
         p[2] > Margin, p[2] + Size < YMax - Margin
  PROVE  /\ Spawn(p, 0) = <<p[1] + Size \div 2, p[2] - 1>>
         /\ Spawn(p, 2) = <<p[1] - 1, p[2] + Size \div 2>>
         /\ Spawn(p, 4) = <<p[1] + Size \div 2, p[2] + Size>>
         /\ Spawn(p, 6) = <<p[1] + Size, p[2] + Size \div 2>>
<1>1. /\ p[1] \in Nat /\ p[2] \in Nat /\ Margin \in Nat /\ Size \in Nat
      /\ XMax \in Nat /\ YMax \in Nat /\ Modulus \in Nat
      /\ XMax + 2 * Margin < Modulus /\ YMax + 2 * Margin < Modulus
  BY ScreenAssumption
<1>2. Size \div 2 \in 0 .. Size
  BY <1>1
<1>3. \A k \in -1 .. Size :
        /\ p[1] + k >= 0 /\ (p[1] + k) % Modulus = p[1] + k
        /\ p[2] + k >= 0 /\ (p[2] + k) % Modulus = p[2] + k
  <2> TAKE k \in -1 .. Size
  <2>1. p[1] + k \in 0 .. Modulus - 1 /\ p[2] + k \in 0 .. Modulus - 1
    BY <1>1
  <2> QED
    BY <2>1, ModValue
<1>4. /\ p[1] - 1 >= 0 /\ (p[1] - 1) % Modulus = p[1] - 1
      /\ p[2] - 1 >= 0 /\ (p[2] - 1) % Modulus = p[2] - 1
  <2>1. -1 \in -1 .. Size /\ p[1] + (-1) = p[1] - 1 /\ p[2] + (-1) = p[2] - 1
    BY <1>1
  <2> QED
    BY <1>3, <2>1
<1>5. /\ p[1] + Size >= 0 /\ (p[1] + Size) % Modulus = p[1] + Size
      /\ p[2] + Size >= 0 /\ (p[2] + Size) % Modulus = p[2] + Size
  <2>1. Size \in -1 .. Size
    BY <1>1
  <2> QED
    BY <1>3, <2>1
<1>11. LET h == Size \div 2 IN
       /\ p[1] + h >= 0 /\ (p[1] + h) % Modulus = p[1] + h
       /\ p[2] + h >= 0 /\ (p[2] + h) % Modulus = p[2] + h
  <2>1. Size \div 2 \in -1 .. Size
    BY <1>1, <1>2
  <2> QED
    BY <1>3, <2>1
<1>6. /\ DX(0) = 0 /\ DY(0) = -1 /\ DX(2) = -1 /\ DY(2) = 0
      /\ DX(4) = 0 /\ DY(4) = 1 /\ DX(6) = 1 /\ DY(6) = 0
  BY DEF DX, DY
<1>7. Spawn(p, 0) = <<p[1] + Size \div 2, p[2] - 1>>
  BY <1>1, <1>2, <1>4, <1>5, <1>6, <1>11 DEF Spawn
<1>8. Spawn(p, 2) = <<p[1] - 1, p[2] + Size \div 2>>
  BY <1>1, <1>2, <1>4, <1>5, <1>6, <1>11 DEF Spawn
<1>9. Spawn(p, 4) = <<p[1] + Size \div 2, p[2] + Size>>
  BY <1>1, <1>2, <1>4, <1>5, <1>6, <1>11 DEF Spawn
<1>10. Spawn(p, 6) = <<p[1] + Size, p[2] + Size \div 2>>
  BY <1>1, <1>2, <1>4, <1>5, <1>6, <1>11 DEF Spawn
<1> QED
  BY <1>7, <1>8, <1>9, <1>10

(* A frame of a bullet that can be back in time.                           *)
LEMMA FlyOnItsWay ==
  ASSUME FlightTypeOK, FlightTypeOK', KeepsItsLine, OnItsWay, Fly, ComesBack
  PROVE  /\ Travelled(Out', Outwards', Gap, alive + 1)
         /\ alive + 1 <= Way
<1>1. /\ XMax \in Nat /\ YMax \in Nat /\ Margin \in Nat /\ Size \in Nat
      /\ Margin > 0 /\ Margin < Size \div 2
      /\ XMax + 2 * Margin < Modulus /\ YMax + 2 * Margin < Modulus
      /\ x \in Int /\ y \in Int /\ alive \in Int /\ dir \in Direction
      /\ tank \in Places /\ tank[1] \in Int /\ tank[2] \in Int
  BY ScreenAssumption DEF FlightTypeOK
<1>2. Size \div 2 \in Int /\ 0 < Size \div 2 /\ Size \div 2 < Size
  BY <1>1
<1>3. /\ InFlight /\ ~InTank(tank) /\ shot' = shot /\ dir' = NextDir
      /\ x' = (x + DX(dir)) % Modulus /\ y' = (y + DY(dir)) % Modulus
  BY DEF Fly, NextX, NextY
<1>4. /\ tank[1] > Margin /\ tank[1] + Size < XMax - Margin
      /\ tank[2] > Margin /\ tank[2] + Size < YMax - Margin
  BY DEF ComesBack, FiredInside
<1>5. Travelled(Out, Outwards, Gap, alive)
  BY <1>3 DEF OnItsWay
<1>6. /\ DX(0) = 0 /\ DY(2) = 0 /\ DX(4) = 0 /\ DY(6) = 0
  BY DEF DX, DY
<1>7. DX(shot[3]) = 0 \/ DY(shot[3]) = 0
        => ~((AtTop \/ AtBottom) /\ (AtLeft \/ AtRight))
  BY <1>3 DEF KeepsItsLine
<1>8. PICK e \in Direction : shot = <<Spawn(tank, e)[1], Spawn(tank, e)[2], e>>
  BY <1>3 DEF OnItsWay
<1>9. shot[3] \in {0, 2, 4, 6} /\ e = shot[3]
  BY <1>8 DEF ComesBack, Straight
<1>10. ~((AtTop \/ AtBottom) /\ (AtLeft \/ AtRight))
  BY <1>6, <1>7, <1>8, <1>9
<1>11. /\ NextDir \in Direction
       /\ Turns(x, DX(dir), DX(NextDir), XMax)
       /\ Turns(y, DY(dir), DY(NextDir), YMax)
  BY <1>10, TurnsAre
<1>12. /\ DX(dir) \in {-1, 0, 1} /\ DY(dir) \in {-1, 0, 1}
       /\ DX(NextDir) \in {-1, 0, 1} /\ DY(NextDir) \in {-1, 0, 1}
  BY <1>1, <1>11, MotionRange
<1>13. /\ DX(shot[3]) = 0 => x = shot[1]
       /\ DY(shot[3]) = 0 => y = shot[2]
  BY <1>3 DEF KeepsItsLine
<1>18. /\ XMax \in Nat /\ XMax + 2 * Margin < Modulus /\ alive \in Int
       /\ YMax \in Nat /\ YMax + 2 * Margin < Modulus
  BY <1>1
<1>14. CASE shot[3] = 0
  <2>1. shot[1] = tank[1] + Size \div 2 /\ shot[2] = tank[2] - 1
    BY <1>1, <1>4, <1>8, <1>9, <1>14, StraightSpawn
  <2>2. Out = shot[2] - y /\ Outwards = -DY(dir) /\ Gap = shot[2] - Margin
    BY <1>14 DEF Out, Outwards, Gap
  <2>3. shot[2] - y # -1
    BY <1>1, <1>2, <1>3, <1>6, <1>13, <1>14, <2>1 DEF InTank
  <2>4. /\ (y + DY(dir)) % Modulus = y + DY(dir)
        /\ Travelled(shot[2] - (y + DY(dir)), -DY(NextDir), Gap, alive + 1)
        /\ alive + 1 <= 2 * Gap + 4
    <3>1. shot[2] \in Int /\ Margin <= shot[2] /\ shot[2] < YMax - Margin
      BY <1>1, <1>4, <2>1
    <3>2. Travelled(shot[2] - y, -DY(dir), shot[2] - Margin, alive)
      BY <1>5, <2>2
    <3>3. /\ (y + DY(dir)) % Modulus = y + DY(dir)
          /\ Travelled(shot[2] - (y + DY(dir)), -DY(NextDir), shot[2] - Margin, alive + 1)
          /\ alive + 1 <= 2 * (shot[2] - Margin) + 4
      <4>1. PICK k \in Int, v \in Int, b \in {-1, 0, 1}, c \in {-1, 0, 1} :
              k = shot[2] /\ v = y /\ b = DY(dir) /\ c = DY(NextDir)
        BY <1>1, <1>12, <3>1
      <4>2. /\ Margin <= k /\ k < YMax - Margin /\ k - v # -1 /\ Turns(v, b, c, YMax)
            /\ Travelled(k - v, -b, k - Margin, alive)
        BY <1>11, <2>3, <3>1, <3>2, <4>1
      <4>3. /\ (v + b) % Modulus = v + b
            /\ Travelled(k - (v + b), -c, k - Margin, alive + 1)
            /\ alive + 1 <= 2 * (k - Margin) + 4
        <5>1. PICK o, m, g : o = k - v /\ m = -b /\ g = k - Margin
          OBVIOUS
        <5>2. Travelled(o, m, g, alive) /\ o # -1
          BY <4>2, <5>1
        <5> QED
          BY <1>18, <4>1, <4>2, <5>1, <5>2, LowWay
      <4> QED
        BY <4>1, <4>3
    <3> QED
      BY <2>2, <3>3
  <2>5. Out' = shot[2] - (y + DY(dir)) /\ Outwards' = -DY(NextDir)
    BY <1>3, <1>14, <2>4 DEF Out, Outwards
  <2> QED
    BY <2>4, <2>5 DEF Way
<1>15. CASE shot[3] = 2
  <2>1. shot[1] = tank[1] - 1 /\ shot[2] = tank[2] + Size \div 2
    BY <1>1, <1>4, <1>8, <1>9, <1>15, StraightSpawn
  <2>2. Out = shot[1] - x /\ Outwards = -DX(dir) /\ Gap = shot[1] - Margin
    BY <1>15 DEF Out, Outwards, Gap
  <2>3. shot[1] - x # -1
    BY <1>1, <1>2, <1>3, <1>6, <1>13, <1>15, <2>1 DEF InTank
  <2>4. /\ (x + DX(dir)) % Modulus = x + DX(dir)
        /\ Travelled(shot[1] - (x + DX(dir)), -DX(NextDir), Gap, alive + 1)
        /\ alive + 1 <= 2 * Gap + 4
    <3>1. shot[1] \in Int /\ Margin <= shot[1] /\ shot[1] < XMax - Margin
      BY <1>1, <1>4, <2>1
    <3>2. Travelled(shot[1] - x, -DX(dir), shot[1] - Margin, alive)
      BY <1>5, <2>2
    <3>3. /\ (x + DX(dir)) % Modulus = x + DX(dir)
          /\ Travelled(shot[1] - (x + DX(dir)), -DX(NextDir), shot[1] - Margin, alive + 1)
          /\ alive + 1 <= 2 * (shot[1] - Margin) + 4
      <4>1. PICK k \in Int, v \in Int, b \in {-1, 0, 1}, c \in {-1, 0, 1} :
              k = shot[1] /\ v = x /\ b = DX(dir) /\ c = DX(NextDir)
        BY <1>1, <1>12, <3>1
      <4>2. /\ Margin <= k /\ k < XMax - Margin /\ k - v # -1 /\ Turns(v, b, c, XMax)
            /\ Travelled(k - v, -b, k - Margin, alive)
        BY <1>11, <2>3, <3>1, <3>2, <4>1
      <4>3. /\ (v + b) % Modulus = v + b
            /\ Travelled(k - (v + b), -c, k - Margin, alive + 1)
            /\ alive + 1 <= 2 * (k - Margin) + 4
        <5>1. PICK o, m, g : o = k - v /\ m = -b /\ g = k - Margin
          OBVIOUS
        <5>2. Travelled(o, m, g, alive) /\ o # -1
          BY <4>2, <5>1
        <5> QED
          BY <1>18, <4>1, <4>2, <5>1, <5>2, LowWay
      <4> QED
        BY <4>1, <4>3
    <3> QED
      BY <2>2, <3>3
  <2>5. Out' = shot[1] - (x + DX(dir)) /\ Outwards' = -DX(NextDir)
    BY <1>3, <1>15, <2>4 DEF Out, Outwards
  <2> QED
    BY <2>4, <2>5 DEF Way
<1>16. CASE shot[3] = 4
  <2>1. shot[1] = tank[1] + Size \div 2 /\ shot[2] = tank[2] + Size
    BY <1>1, <1>4, <1>8, <1>9, <1>16, StraightSpawn
  <2>2. Out = y - shot[2] /\ Outwards = DY(dir) /\ Gap = YMax - Margin - shot[2]
    BY <1>16 DEF Out, Outwards, Gap
  <2>3. y - shot[2] # -1
    BY <1>1, <1>2, <1>3, <1>6, <1>13, <1>16, <2>1 DEF InTank
  <2>4. /\ (y + DY(dir)) % Modulus = y + DY(dir)
        /\ Travelled((y + DY(dir)) - shot[2], DY(NextDir), Gap, alive + 1)
        /\ alive + 1 <= 2 * Gap + 4
    <3>1. shot[2] \in Int /\ Margin < shot[2] /\ shot[2] <= YMax - Margin
      BY <1>1, <1>4, <2>1
    <3>2. Travelled(y - shot[2], DY(dir), YMax - Margin - shot[2], alive)
      BY <1>5, <2>2
    <3>3. /\ (y + DY(dir)) % Modulus = y + DY(dir)
          /\ Travelled((y + DY(dir)) - shot[2], DY(NextDir), YMax - Margin - shot[2], alive + 1)
          /\ alive + 1 <= 2 * (YMax - Margin - shot[2]) + 4
      <4>1. PICK k \in Int, v \in Int, b \in {-1, 0, 1}, c \in {-1, 0, 1} :
              k = shot[2] /\ v = y /\ b = DY(dir) /\ c = DY(NextDir)
        BY <1>1, <1>12, <3>1
      <4>2. /\ Margin < k /\ k <= YMax - Margin /\ v - k # -1 /\ Turns(v, b, c, YMax)
            /\ Travelled(v - k, b, YMax - Margin - k, alive)
        BY <1>11, <2>3, <3>1, <3>2, <4>1
      <4>3. /\ (v + b) % Modulus = v + b
            /\ Travelled((v + b) - k, c, YMax - Margin - k, alive + 1)
            /\ alive + 1 <= 2 * (YMax - Margin - k) + 4
        <5>1. PICK o \in Int, g \in Int : o = v - k /\ g = YMax - Margin - k
          BY <1>1, <4>1
        <5>2. /\ Travelled(o, b, g, alive) /\ o # -1 /\ 0 <= g
              /\ g < YMax - 2 * Margin /\ v = YMax - Margin - g + o
          BY <1>1, <4>1, <4>2, <5>1
        <5>3. /\ (v + b) % Modulus = v + b
              /\ Travelled(o + b, c, g, alive + 1)
              /\ alive + 1 <= 2 * g + 4
          BY <1>18, <4>1, <4>2, <5>2, HighWay
        <5>4. o + b = (v + b) - k
          BY <4>1, <5>1
        <5> QED
          BY <5>1, <5>3, <5>4
      <4> QED
        BY <4>1, <4>3
    <3> QED
      BY <2>2, <3>3
  <2>5. Out' = (y + DY(dir)) - shot[2] /\ Outwards' = DY(NextDir)
    BY <1>3, <1>16, <2>4 DEF Out, Outwards
  <2> QED
    BY <2>4, <2>5 DEF Way
<1>17. CASE shot[3] = 6
  <2>1. shot[1] = tank[1] + Size /\ shot[2] = tank[2] + Size \div 2
    BY <1>1, <1>4, <1>8, <1>9, <1>17, StraightSpawn
  <2>2. Out = x - shot[1] /\ Outwards = DX(dir) /\ Gap = XMax - Margin - shot[1]
    BY <1>17 DEF Out, Outwards, Gap
  <2>3. x - shot[1] # -1
    BY <1>1, <1>2, <1>3, <1>6, <1>13, <1>17, <2>1 DEF InTank
  <2>4. /\ (x + DX(dir)) % Modulus = x + DX(dir)
        /\ Travelled((x + DX(dir)) - shot[1], DX(NextDir), Gap, alive + 1)
        /\ alive + 1 <= 2 * Gap + 4
    <3>1. shot[1] \in Int /\ Margin < shot[1] /\ shot[1] <= XMax - Margin
      BY <1>1, <1>4, <2>1
    <3>2. Travelled(x - shot[1], DX(dir), XMax - Margin - shot[1], alive)
      BY <1>5, <2>2
    <3>3. /\ (x + DX(dir)) % Modulus = x + DX(dir)
          /\ Travelled((x + DX(dir)) - shot[1], DX(NextDir), XMax - Margin - shot[1], alive + 1)
          /\ alive + 1 <= 2 * (XMax - Margin - shot[1]) + 4
      <4>1. PICK k \in Int, v \in Int, b \in {-1, 0, 1}, c \in {-1, 0, 1} :
              k = shot[1] /\ v = x /\ b = DX(dir) /\ c = DX(NextDir)
        BY <1>1, <1>12, <3>1
      <4>2. /\ Margin < k /\ k <= XMax - Margin /\ v - k # -1 /\ Turns(v, b, c, XMax)
            /\ Travelled(v - k, b, XMax - Margin - k, alive)
        BY <1>11, <2>3, <3>1, <3>2, <4>1
      <4>3. /\ (v + b) % Modulus = v + b
            /\ Travelled((v + b) - k, c, XMax - Margin - k, alive + 1)
            /\ alive + 1 <= 2 * (XMax - Margin - k) + 4
        <5>1. PICK o \in Int, g \in Int : o = v - k /\ g = XMax - Margin - k
          BY <1>1, <4>1
        <5>2. /\ Travelled(o, b, g, alive) /\ o # -1 /\ 0 <= g
              /\ g < XMax - 2 * Margin /\ v = XMax - Margin - g + o
          BY <1>1, <4>1, <4>2, <5>1
        <5>3. /\ (v + b) % Modulus = v + b
              /\ Travelled(o + b, c, g, alive + 1)
              /\ alive + 1 <= 2 * g + 4
          BY <1>18, <4>1, <4>2, <5>2, HighWay
        <5>4. o + b = (v + b) - k
          BY <4>1, <5>1
        <5> QED
          BY <5>1, <5>3, <5>4
      <4> QED
        BY <4>1, <4>3
    <3> QED
      BY <2>2, <3>3
  <2>5. Out' = (x + DX(dir)) - shot[1] /\ Outwards' = DX(NextDir)
    BY <1>3, <1>17, <2>4 DEF Out, Outwards
  <2> QED
    BY <2>4, <2>5 DEF Way
<1> QED
  BY <1>9, <1>14, <1>15, <1>16, <1>17

LEMMA OnItsWayStep ==
  ASSUME FlightTypeOK, FlightTypeOK', KeepsItsLine, OnItsWay,
         [FlightNext]_flight
  PROVE  OnItsWay'
<1>1. CASE Fire
  <2> PICK d \in Direction :
        /\ x' = Spawn(tank, d)[1] /\ y' = Spawn(tank, d)[2] /\ dir' = d
        /\ shot' = <<Spawn(tank, d)[1], Spawn(tank, d)[2], d>>
    BY <1>1 DEF Fire
  <2>1. tank' = tank /\ alive' = 1 /\ state' = "fresh" /\ tank \in Places
    BY <1>1 DEF Fire, FlightTypeOK
  <2>2. ComesBack' => Travelled(Out, Outwards, Gap, alive)'
    <3> SUFFICES ASSUME ComesBack' PROVE Travelled(Out', Outwards', Gap', alive')
      BY DEF Travelled
    <3>1. /\ tank[1] > Margin /\ tank[1] + Size < XMax - Margin
          /\ tank[2] > Margin /\ tank[2] + Size < YMax - Margin
          /\ d \in {0, 2, 4, 6}
      BY <2>1 DEF ComesBack, FiredInside, Straight
    <3>2. /\ Margin <= x' /\ x' <= XMax - Margin /\ x' \in Int
          /\ Margin <= y' /\ y' <= YMax - Margin /\ y' \in Int
      BY <2>1, <3>1, SpawnInside DEF FlightTypeOK
    <3>3. shot'[1] = x' /\ shot'[2] = y' /\ shot'[3] = d
      OBVIOUS
    <3>4. Out' = 0
      BY <3>1, <3>2, <3>3 DEF Out
    <3>5. Outwards' = 1
      <4>1. DY(0) = -1 /\ DX(2) = -1 /\ DY(4) = 1 /\ DX(6) = 1
        BY DEF DX, DY
      <4> QED
        BY <3>1, <3>3, <4>1 DEF Outwards
    <3>6. Gap' \in Int /\ Gap' >= 0
      BY <3>1, <3>2, <3>3, ScreenAssumption DEF Gap
    <3> QED
      BY <2>1, <3>4, <3>5, <3>6 DEF Travelled
  <2> QED
    BY <2>1, <2>2 DEF OnItsWay, ExpiresOnlyAfar
<1>2. CASE Fly
  <2>1. /\ tank' = tank /\ shot' = shot /\ state' = "flying" /\ InFlight
        /\ alive' = (alive + 1) % LifeTime
    BY <1>2 DEF Fly
  <2>2. ComesBack' <=> ComesBack
    BY <2>1 DEF ComesBack, FiredInside, Straight, Way, Gap
  <2>3. Gap' = Gap
    BY <2>1 DEF Gap
  <2>4. ComesBack => alive' # 0 /\ Travelled(Out', Outwards', Gap', alive')
    <3> SUFFICES ASSUME ComesBack
                 PROVE  alive' # 0 /\ Travelled(Out', Outwards', Gap', alive')
      OBVIOUS
    <3>1. Travelled(Out', Outwards', Gap, alive + 1) /\ alive + 1 <= Way
      BY <1>2, FlyOnItsWay
    <3>2. Way < LifeTime
      BY DEF ComesBack
    <3>3. Way \in Int
      <4>1. \E d \in Direction :
              shot = <<Spawn(tank, d)[1], Spawn(tank, d)[2], d>>
        BY <2>1 DEF OnItsWay
      <4>2. shot[1] \in Int /\ shot[2] \in Int
        BY <4>1, SpawnRange DEF FlightTypeOK
      <4> QED
        BY <4>2, ScreenAssumption DEF Way, Gap
    <3>4. alive' = alive + 1 /\ alive' # 0
      BY <2>1, <3>1, <3>2, <3>3, ScreenAssumption DEF FlightTypeOK
    <3> QED
      BY <2>3, <3>1, <3>4
  <2> QED
    BY <2>1, <2>2, <2>4 DEF OnItsWay, ExpiresOnlyAfar, Travelled
<1>3. CASE Vanish
  BY <1>3 DEF Vanish, OnItsWay, InFlight, ExpiresOnlyAfar
<1>4. CASE Expire
  <2>1. ~ComesBack
    BY <1>4 DEF Expire, OnItsWay
  <2>2. shot' = shot /\ tank' = tank /\ state' = "expired" /\ InFlight
    BY <1>4 DEF Expire
  <2>3. ~ComesBack' /\ Way' = Way /\ (FiredInside' <=> FiredInside)
        /\ (Straight' <=> Straight)
    BY <2>1, <2>2 DEF ComesBack, FiredInside, Straight, Way, Gap
  <2>4. Way \in Int
    <3>1. \E d \in Direction :
            shot = <<Spawn(tank, d)[1], Spawn(tank, d)[2], d>>
      BY <2>2 DEF OnItsWay
    <3>2. shot[1] \in Int /\ shot[2] \in Int
      BY <3>1, SpawnRange DEF FlightTypeOK
    <3> QED
      BY <3>2, ScreenAssumption DEF Way, Gap
  <2>5. ExpiresOnlyAfar'
    BY <2>1, <2>3, <2>4, ScreenAssumption DEF ExpiresOnlyAfar, ComesBack
  <2> QED
    BY <2>2, <2>5 DEF OnItsWay, InFlight
<1>5. CASE UNCHANGED flight
  BY <1>5 DEF flight, OnItsWay, InFlight, ComesBack, FiredInside, Straight,
              Travelled, Out, Outwards, Gap, Way, ExpiresOnlyAfar
<1> QED
  BY <1>1, <1>2, <1>3, <1>4, <1>5 DEF FlightNext

(* For every screen, size, margin and life time a bullet that is fired     *)
(* straight stays straight until it ends, no bullet flies inside a wall,   *)
(* and a straight one that can be back in time is never taken away by its  *)
(* age.                                                                    *)
THEOREM FlightSafe == FlightSpec => []FlightInv
<1> DEFINE IInv == FlightTypeOK /\ KeepsItsLine /\ NoBulletInWall /\ OnItsWay
<1>1. FlightInit => IInv
  <2>1. Modulus \in Nat \ {0}
    BY ScreenAssumption
  <2>2. FlightInit => FlightTypeOK
    <3> SUFFICES ASSUME FlightInit PROVE FlightTypeOK
      OBVIOUS
    <3>1. 0 \in 0 .. Modulus - 1 /\ 0 \in Direction /\ 0 \in 0 .. LifeTime - 1
      BY <2>1, ScreenAssumption DEF Direction
    <3> QED
      BY <3>1 DEF FlightInit, FlightTypeOK
  <2>3. FlightInit => KeepsItsLine /\ NoBulletInWall /\ OnItsWay
    BY DEF FlightInit, KeepsItsLine, InFlight, NoBulletInWall, OnItsWay,
           ExpiresOnlyAfar
  <2> QED
    BY <2>2, <2>3
<1>2. IInv /\ [FlightNext]_flight => IInv'
  BY FlightTypesStep, KeepsItsLineStep, NoBulletInWallStep, OnItsWayStep
<1>3. IInv => FlightInv
  BY DEF FlightInv, KeepsItsLine, StraightStaysStraight, OnItsWay
<1> QED
  BY <1>1, <1>2, <1>3, PTL DEF FlightSpec

(***************************************************************************)
(* BouncesUnlessCorner is not inductive either: beyond the margin a bullet *)
(* must already be on its way back, as the left and the top border are     *)
(* noticed at one distance only, and the turn comes one frame late.        *)
(***************************************************************************)
Within(v, dv, last) ==
  \/ Margin <= v /\ v <= last - Margin
  \/ v = Margin - 1 /\ dv = 1
  \/ v = last - Margin + 1 /\ dv = -1

TurnsInTime ==
  InFlight /\ FiredInside /\ ~corner =>
    Within(x, DX(dir), XMax) /\ Within(y, DY(dir), YMax)

(* One coordinate in one frame.                                            *)
LEMMA WithinStep ==
  ASSUME NEW last \in Nat, Margin + Size < last, last + 2 * Margin < Modulus,
         NEW v \in Int, NEW dv \in {-1, 0, 1}, NEW dn \in {-1, 0, 1},
         Within(v, dv, last), Turns(v, dv, dn, last)
  PROVE  Within((v + dv) % Modulus, dn, last)
<1>1. /\ Margin \in Nat /\ Margin > 0 /\ Modulus \in Nat \ {0}
      /\ Size \in Nat /\ 2 * Margin < Size
  BY ScreenAssumption
<1>2. /\ v + dv \in 0 .. Modulus - 1 /\ v + Margin \in 0 .. Modulus - 1
      /\ v - Margin \in Int
  BY <1>1 DEF Within
<1>3. (v + dv) % Modulus = v + dv /\ (v + Margin) % Modulus = v + Margin
  <2>1. v + dv \in Int /\ v + Margin \in Int
    BY <1>2
  <2> QED
    BY <1>2, <2>1, ModValue
<1>4. CASE v >= last - Margin
  <2>1. dn = -1
    BY <1>1, <1>3, <1>4 DEF Turns
  <2> QED
    BY <1>1, <1>3, <1>4, <2>1 DEF Within
<1>5. CASE v = Margin
  <2>1. (v - Margin) % Modulus = 0
    <3>1. 0 \in 0 .. Modulus - 1 /\ v - Margin = 0
      BY <1>1, <1>5
    <3>2. 0 % Modulus = 0
      BY <1>1
    <3> QED
      BY <3>1, <3>2
  <2>2. v + Margin < last
    BY <1>1, <1>5
  <2>3. dn = 1
    BY <1>3, <2>1, <2>2 DEF Turns
  <2> QED
    BY <1>1, <1>3, <1>5, <2>3 DEF Within
<1>6. CASE Margin < v /\ v < last - Margin
  <2>1. (v - Margin) % Modulus = v - Margin
    <3>1. v - Margin \in 0 .. Modulus - 1
      BY <1>1, <1>6
    <3> QED
      BY <1>2, <3>1, ModValue
  <2>2. dn = dv
    BY <1>1, <1>3, <1>6, <2>1 DEF Turns
  <2> QED
    BY <1>1, <1>3, <1>6, <2>2 DEF Within
<1>7. CASE v < Margin
  <2>1. v = Margin - 1 /\ dv = 1
    BY <1>1, <1>7 DEF Within
  <2> QED
    BY <1>1, <1>3, <2>1 DEF Within
<1> QED
  BY <1>1, <1>4, <1>5, <1>6, <1>7

LEMMA TurnsInTimeStep ==
  ASSUME FlightTypeOK, TurnsInTime, [FlightNext]_flight
  PROVE  TurnsInTime'
<1> SUFFICES ASSUME InFlight', FiredInside', ~corner'
             PROVE  Within(x, DX(dir), XMax)' /\ Within(y, DY(dir), YMax)'
  BY DEF TurnsInTime
<1>1. /\ XMax \in Nat /\ YMax \in Nat /\ Margin \in Nat /\ Modulus \in Nat \ {0}
      /\ Margin + Size < XMax /\ XMax + 2 * Margin < Modulus
      /\ Margin + Size < YMax /\ YMax + 2 * Margin < Modulus
  BY ScreenAssumption
<1>2. /\ x \in Int /\ y \in Int /\ dir \in Direction /\ tank \in Places
      /\ DX(dir) \in {-1, 0, 1} /\ DY(dir) \in {-1, 0, 1}
  BY <1>1, MotionRange DEF FlightTypeOK
<1>3. CASE Fire
  <2> PICK d \in Direction :
        x' = Spawn(tank, d)[1] /\ y' = Spawn(tank, d)[2] /\ dir' = d
    BY <1>3 DEF Fire
  <2>1. FiredInside
    BY <1>3 DEF Fire, FiredInside
  <2> QED
    BY <1>2, <2>1, SpawnInside DEF FiredInside, Within
<1>4. CASE Fly
  <2>1. /\ x' = (x + DX(dir)) % Modulus /\ y' = (y + DY(dir)) % Modulus
        /\ dir' = NextDir
    BY <1>4 DEF Fly, NextX, NextY
  <2>2. InFlight /\ FiredInside
    BY <1>4 DEF Fly, FiredInside
  <2>3. ~corner /\ ~((AtTop \/ AtBottom) /\ (AtLeft \/ AtRight))
    BY <1>4 DEF Fly
  <2>4. Within(x, DX(dir), XMax) /\ Within(y, DY(dir), YMax)
    BY <2>2, <2>3 DEF TurnsInTime
  <2>5. NextDir \in Direction
    BY <1>2, NextDirIs
  <2>6. DX(NextDir) \in {-1, 0, 1} /\ DY(NextDir) \in {-1, 0, 1}
    BY <2>5, MotionRange
  <2>7. /\ Turns(x, DX(dir), DX(NextDir), XMax)
        /\ Turns(y, DY(dir), DY(NextDir), YMax)
    BY <2>3, TurnsAre
  <2>8. Within((x + DX(dir)) % Modulus, DX(NextDir), XMax)
    BY <1>1, <1>2, <2>4, <2>6, <2>7, WithinStep
  <2>9. Within((y + DY(dir)) % Modulus, DY(NextDir), YMax)
    BY <1>1, <1>2, <2>4, <2>6, <2>7, WithinStep
  <2> QED
    BY <2>1, <2>8, <2>9 DEF Within
<1>5. CASE Vanish \/ Expire
  BY <1>5 DEF Vanish, Expire, InFlight
<1>6. CASE UNCHANGED flight
  BY <1>6 DEF flight, TurnsInTime, InFlight, FiredInside, Within
<1> QED
  BY <1>3, <1>4, <1>5, <1>6 DEF FlightNext

(* For every screen, size and margin a bullet that is fired from inside    *)
(* the margins leaves the screen only after a corner.                      *)
THEOREM FlightBounces == FlightSpec => []BouncesUnlessCorner
<1>1. FlightInit => TurnsInTime
  BY DEF FlightInit, TurnsInTime, InFlight
<1>2. TurnsInTime /\ [FlightNext]_flight /\ FlightTypeOK => TurnsInTime'
  BY TurnsInTimeStep
<1>3. FlightTypeOK /\ TurnsInTime => BouncesUnlessCorner
  <2>1. /\ Margin \in Nat /\ Margin > 0 /\ Size \in Nat
        /\ XMax \in Nat /\ Margin + Size < XMax
        /\ YMax \in Nat /\ Margin + Size < YMax /\ Modulus \in Nat
    BY ScreenAssumption
  <2> QED
    BY <2>1 DEF FlightTypeOK, TurnsInTime, Within, BouncesUnlessCorner, OnScreen
<1>4. FlightSpec => []FlightTypeOK
  BY FlightSafe, PTL DEF FlightInv
<1> QED
  BY <1>1, <1>2, <1>3, <1>4, PTL DEF FlightSpec
=============================================================================
