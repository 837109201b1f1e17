---------------------------- MODULE GameOverProofs ----------------------------
(***************************************************************************)
(* Proofs about GameOver for every health, every bounds of the tests and   *)
(* every number of hits and gears that do not make the health wrap twice.  *)
(***************************************************************************)
EXTENDS GameOver, TLAPS

(* The adder of feedback.sv wraps at zero and at Word.                     *)
LEMMA Adder ==
  ASSUME NEW h \in 0 .. Word - 1, NEW hit \in 0 .. MaxHits, NEW cure \in {0, 1}
  PROVE  /\ NextHealth(h, hit, cure) \in 0 .. Word - 1
         /\ h + cure - hit < 0
              => NextHealth(h, hit, cure) = Word + h + cure - hit
         /\ h + cure - hit \in 0 .. Word - 1
              => NextHealth(h, hit, cure) = h + cure - hit
         /\ h + cure - hit >= Word
              => NextHealth(h, hit, cure) = h + cure - hit - Word
<1> DEFINE s == h + Word - hit + cure
<1>1. /\ Word \in Nat /\ MaxHits \in Nat /\ MaxHits < Word
  BY HealthAssumption
<1>2. s \in 0 .. 2 * Word
  BY <1>1
<1>3. CASE s < Word
  <2>1. s % Word = s
    BY <1>1, <1>2, <1>3
  <2>2. QED BY <1>1, <1>3, <2>1 DEF NextHealth
<1>4. CASE s >= Word /\ s < 2 * Word
  <2>1. s % Word = s - Word
    BY <1>1, <1>2, <1>4
  <2>2. QED BY <1>1, <1>4, <2>1 DEF NextHealth
<1>5. CASE s = 2 * Word
  <2>1. s % Word = 0
    BY <1>1, <1>5
  <2>2. QED BY <1>1, <1>5, <2>1 DEF NextHealth
<1>6. QED BY <1>1, <1>2, <1>3, <1>4, <1>5

(* A frame as seen from one tank.                                          *)
LEMMA FrameOfTank ==
  ASSUME TypeOK, NEW hit \in [Tank -> 0 .. Bullets], NEW cured \in SUBSET Tank,
         NEW t \in Tank, FrameStep(hit, cured)
  PROVE  /\ hit[t] \in 0 .. MaxHits
         /\ One(t, cured) \in {0, 1}
         /\ t \notin cured => One(t, cured) = 0
         /\ health'[t] = NextHealth(health[t], hit[t], One(t, cured))
         /\ taken'[t] = taken[t] + hit[t] /\ taken'[t] \in 0 .. MaxHits
         /\ fed'[t] = fed[t] + One(t, cured) /\ fed'[t] \in 0 .. MaxGears
<1>1. /\ hit[t] \in Nat /\ taken[t] \in Nat /\ taken'[t] = taken[t] + hit[t]
      /\ taken'[t] <= MaxHits
  BY HealthAssumption DEF TypeOK, FrameStep
<1>2. \A u \in Tank : One(u, cured) \in {0, 1}
  BY DEF One
<1>3. fed'[0] \in Nat /\ fed'[1] \in Nat
  BY <1>2, HealthAssumption DEF TypeOK, Tank, FrameStep
<1>4. fed'[t] \in 0 .. MaxGears
  BY <1>3, HealthAssumption DEF Tank, FrameStep
<1>5. QED BY <1>1, <1>2, <1>4, HealthAssumption DEF One, FrameStep

(* The registers keep their ranges.                                        *)
THEOREM TypeCorrect == Spec => []TypeOK
<1>1. Init => TypeOK
  <2> SUFFICES ASSUME Init PROVE TypeOK
    OBVIOUS
  <2>1. /\ health \in [Tank -> 0 .. Word - 1]
        /\ taken \in [Tank -> 0 .. MaxHits]
        /\ fed \in [Tank -> 0 .. MaxGears]
        /\ resets \in 0 .. MaxResets
    BY HealthAssumption DEF Init
  <2>2. keys \in BOOLEAN /\ active \in BOOLEAN
    BY DEF Init
  <2>3. since \in [dead : SUBSET Tank, died : SUBSET Tank,
                   over : SUBSET Tank, fed : SUBSET Tank,
                   changed : SUBSET Tank]
    BY DEF Init, Nothing
  <2>4. QED BY <2>1, <2>2, <2>3 DEF Init, TypeOK
<1>2. TypeOK /\ [Next]_vars => TypeOK'
  <2> SUFFICES ASSUME TypeOK, [Next]_vars PROVE TypeOK'
    OBVIOUS
  <2> USE DEF Nothing, NoOne, software, hardware
  <2>1. CASE Frame
    <3> PICK hit \in [Tank -> 0 .. Bullets], cured \in SUBSET Tank :
               FrameStep(hit, cured)
      BY <2>1 DEF Frame
    <3>1. ASSUME NEW t \in Tank PROVE health'[t] \in 0 .. Word - 1
      <4>1. health[t] \in 0 .. Word - 1
        BY DEF TypeOK
      <4>2. QED BY <4>1, FrameOfTank, Adder
    <3>2. \A t \in Tank : taken'[t] \in 0 .. MaxHits
      BY FrameOfTank
    <3>3. \A t \in Tank : fed'[t] \in 0 .. MaxGears
      BY FrameOfTank
    <3>4. since' \in [dead : SUBSET Tank, died : SUBSET Tank,
                      over : SUBSET Tank, fed : SUBSET Tank,
                      changed : SUBSET Tank]
      <4>1. CASE Handling
        BY <4>1 DEF TypeOK, FrameStep
      <4>2. CASE ~Handling
        BY <4>2 DEF FrameStep
      <4>3. QED BY <4>1, <4>2
    <3>5. active' \in BOOLEAN /\ UNCHANGED <<keys, phase, read, winner, resets>>
      BY DEF FrameStep
    <3>6. /\ health' \in [Tank -> 0 .. Word - 1]
          /\ taken' \in [Tank -> 0 .. MaxHits]
          /\ fed' \in [Tank -> 0 .. MaxGears]
      BY <3>1, <3>2, <3>3 DEF FrameStep
    <3>7. QED BY <3>4, <3>5, <3>6 DEF TypeOK
  <2>2. CASE Reset
    <3>1. /\ health' \in [Tank -> 0 .. Word - 1]
          /\ taken' \in [Tank -> 0 .. MaxHits]
          /\ fed' \in [Tank -> 0 .. MaxGears]
          /\ resets' \in 0 .. MaxResets
      BY <2>2, HealthAssumption DEF Reset, TypeOK
    <3>2. since' \in [dead : SUBSET Tank, died : SUBSET Tank,
                      over : SUBSET Tank, fed : SUBSET Tank,
                      changed : SUBSET Tank]
      BY <2>2 DEF Reset
    <3>3. keys' \in BOOLEAN /\ active' \in BOOLEAN
      BY <2>2 DEF Reset, TypeOK
    <3>4. phase' = "boot" /\ read' = 0 /\ winner' = NoOne
      BY <2>2 DEF Reset
    <3>5. QED BY <3>1, <3>2, <3>3, <3>4 DEF TypeOK
  <2>3. CASE GameInit
    BY <2>3 DEF GameInit, TypeOK
  <2>4. CASE StartGame
    BY <2>4 DEF StartGame, TypeOK
  <2>5. CASE Report
    <3>1. since' \in [dead : SUBSET Tank, died : SUBSET Tank,
                      over : SUBSET Tank, fed : SUBSET Tank,
                      changed : SUBSET Tank]
      BY <2>5 DEF Report
    <3>2. UNCHANGED <<health, keys, active, winner, taken, fed, resets>>
      BY <2>5 DEF Report
    <3>3. phase' = "check" /\ read' = 0
      BY <2>5 DEF Report
    <3>4. QED BY <3>1, <3>2, <3>3 DEF TypeOK
  <2>6. CASE Check
    BY <2>6 DEF Check, TypeOK
  <2>7. CASE Play
    BY <2>7 DEF Play, TypeOK
  <2>8. CASE Panel
    BY <2>8 DEF Panel, TypeOK, Tank
  <2>9. CASE Panel2
    BY <2>9 DEF Panel2, TypeOK, Tank
  <2>10. CASE UNCHANGED vars
    BY <2>10 DEF vars, TypeOK
  <2>11. QED
    BY <2>1, <2>2, <2>3, <2>4, <2>5, <2>6, <2>7, <2>8, <2>9, <2>10 DEF Next
<1>3. QED BY <1>1, <1>2, PTL DEF Spec

-----------------------------------------------------------------------------
(* What the health registers hold: what is left of a tank, modulo Word.    *)
Left(t) == Full + fed[t] - taken[t]

HealthInv ==
  \A t \in Tank : health[t] = IF Left(t) < 0 THEN Word + Left(t) ELSE Left(t)

(* A frame changes what is left and what the register holds alike.         *)
LEMMA HealthStep ==
  ASSUME TypeOK, HealthInv, NEW hit \in [Tank -> 0 .. Bullets],
         NEW cured \in SUBSET Tank, NEW t \in Tank, FrameStep(hit, cured)
  PROVE  /\ Left(t)' = Left(t) + One(t, cured) - hit[t]
         /\ health'[t] = IF Left(t)' < 0 THEN Word + Left(t)' ELSE Left(t)'
<1> DEFINE c == One(t, cured)
           h == hit[t]
           l == Left(t)
<1>1. /\ h \in 0 .. MaxHits /\ c \in {0, 1}
      /\ taken[t] \in 0 .. MaxHits /\ fed[t] \in 0 .. MaxGears
      /\ taken'[t] = taken[t] + h /\ taken'[t] \in 0 .. MaxHits
      /\ fed'[t] = fed[t] + c /\ fed'[t] \in 0 .. MaxGears
      /\ health'[t] = NextHealth(health[t], h, c)
  BY FrameOfTank DEF TypeOK
<1>2. /\ Left(t)' = l + c - h
      /\ l \in Int /\ l + c - h \in Int
      /\ 0 - MaxHits <= l + c - h /\ l + c - h <= Full + MaxGears
  BY <1>1, HealthAssumption DEF Left
<1>3. /\ health[t] \in 0 .. Word - 1
      /\ health[t] = IF l < 0 THEN Word + l ELSE l
  BY DEF TypeOK, HealthInv
<1>4. /\ health[t] + c - h < 0
           => health'[t] = Word + health[t] + c - h
      /\ health[t] + c - h \in 0 .. Word - 1
           => health'[t] = health[t] + c - h
      /\ health[t] + c - h >= Word
           => health'[t] = health[t] + c - h - Word
  BY <1>1, <1>3, Adder
<1>5. health'[t] = IF l + c - h < 0 THEN Word + (l + c - h) ELSE l + c - h
  <2> HIDE DEF c, h, l
  <2>1. CASE l < 0
    BY <1>1, <1>2, <1>3, <1>4, <2>1, HealthAssumption
  <2>2. CASE l >= 0
    BY <1>1, <1>2, <1>3, <1>4, <2>2, HealthAssumption
  <2>3. QED BY <1>2, <2>1, <2>2
<1>6. QED BY <1>2, <1>5

(* The steps that leave the health and the history of hits alone.          *)
Quiet == UNCHANGED <<health, taken, fed>>

(* Only a frame and KEY[0] change health and history.                     *)
LEMMA Steps ==
  ASSUME [Next]_vars
  PROVE  Frame \/ Reset \/ Quiet
BY DEF Next, GameInit, StartGame, Report, Check, Play, Panel, Panel2,
       hardware, vars, Quiet

(* The health registers are right at any time.                             *)
THEOREM HealthRight == Spec => []HealthInv
<1>1. Init => HealthInv
  BY HealthAssumption DEF Init, HealthInv, Left
<1>2. TypeOK /\ HealthInv /\ [Next]_vars => HealthInv'
  <2> SUFFICES ASSUME TypeOK, HealthInv, [Next]_vars PROVE HealthInv'
    OBVIOUS
  <2>1. CASE Frame
    <3> PICK hit \in [Tank -> 0 .. Bullets], cured \in SUBSET Tank :
               FrameStep(hit, cured)
      BY <2>1 DEF Frame
    <3>1. QED BY HealthStep DEF HealthInv
  <2>2. CASE Reset
    BY <2>2, HealthAssumption DEF Reset, HealthInv, Left
  <2>3. CASE Quiet
    BY <2>3 DEF Quiet, HealthInv, Left
  <2>4. QED BY <2>1, <2>2, <2>3, Steps
<1>3. QED BY <1>1, <1>2, TypeCorrect, PTL DEF Spec

-----------------------------------------------------------------------------
(* Until KEY[0] is pressed control_reg holds no key outside a game, and    *)
(* nothing moves or fires.                                                 *)
StartInv ==
  resets = 0 /\ phase \in {"boot", "menu"} =>
    /\ ~keys
    /\ ~active
    /\ \A t \in Tank : health[t] = Full

(* The first game begins with two tanks of full health.                    *)
THEOREM CalmStart == Spec => []FirstGameIsFair
<1>1. Init => StartInv
  BY DEF Init, StartInv
<1>2. TypeOK /\ StartInv /\ [Next]_vars => StartInv'
  <2> SUFFICES ASSUME TypeOK, StartInv, [Next]_vars,
                      resets' = 0, phase' \in {"boot", "menu"}
               PROVE  ~keys' /\ ~active' /\ \A t \in Tank : health'[t] = Full
    BY DEF StartInv
  <2>1. CASE Frame
    <3> PICK hit \in [Tank -> 0 .. Bullets], cured \in SUBSET Tank :
               FrameStep(hit, cured)
      BY <2>1 DEF Frame
    <3>1. ~keys /\ ~active /\ \A t \in Tank : health[t] = Full
      BY DEF FrameStep, software, StartInv
    <3>2. ~keys' /\ ~active'
      BY <3>1 DEF FrameStep
    <3>3. ASSUME NEW t \in Tank PROVE health'[t] = Full
      <4>1. hit[t] = 0 /\ One(t, cured) = 0
        <5>1. hit[t] \in 0 .. Bullets /\ ~(hit[t] > 0) /\ cured = {}
          BY <3>1 DEF FrameStep
        <5>2. QED BY <5>1, HealthAssumption DEF One
      <4>2. health'[t] = NextHealth(Full, 0, 0)
        BY <3>1, <4>1 DEF FrameStep
      <4>3. QED BY <4>2, Adder, HealthAssumption
    <3>4. QED BY <3>2, <3>3
  <2>2. CASE Reset
    BY <2>2, HealthAssumption DEF Reset, TypeOK
  <2>3. CASE GameInit
    BY <2>3 DEF GameInit, hardware, StartInv
  <2>4. CASE StartGame \/ Report \/ Check \/ Play \/ Panel \/ Panel2
    BY <2>4 DEF StartGame, Report, Check, Play, Panel, Panel2
  <2>5. CASE UNCHANGED vars
    BY <2>5 DEF vars, software, StartInv
  <2>6. QED BY <2>1, <2>2, <2>3, <2>4, <2>5 DEF Next
<1>3. StartInv => FirstGameIsFair
  BY DEF StartInv, FirstGameIsFair
<1>4. QED BY <1>1, <1>2, <1>3, TypeCorrect, PTL DEF Spec
-----------------------------------------------------------------------------
(* What a health register says of a tank.                                  *)
LEMMA Reading ==
  ASSUME TypeOK, HealthInv, NEW t \in Tank
  PROVE  /\ Left(t) \in Int /\ 0 - MaxHits <= Left(t)
         /\ health[t] \in Nat
         /\ Dead(t) <=> Left(t) <= 0
         /\ Overfed(t) <=> Left(t) > Alive
         /\ health[t] = 0 <=> Left(t) = 0
         /\ Left(t) < 0 => health[t] >= Win /\ health[t] > Alive
         /\ Left(t) >= 0 => health[t] = Left(t)
<1>1. /\ taken[t] \in 0 .. MaxHits /\ fed[t] \in 0 .. MaxGears
      /\ health[t] \in 0 .. Word - 1
  BY DEF TypeOK
<1>2. health[t] = IF Left(t) < 0 THEN Word + Left(t) ELSE Left(t)
  BY DEF HealthInv
<1>3. Left(t) \in Int /\ 0 - MaxHits <= Left(t)
  BY <1>1, HealthAssumption DEF Left
<1>4. (Dead(t) <=> Left(t) <= 0) /\ (Overfed(t) <=> Left(t) > Alive)
  BY <1>1, HealthAssumption DEF Dead, Overfed, Left
<1>5. QED BY <1>1, <1>2, <1>3, <1>4, HealthAssumption

(* Where the main loop is with a tank that was dead when the report        *)
(* arrived and got no gear: not in Play, and after the first read of its   *)
(* health that health is below zero, for the second read to find.          *)
DeadInv ==
  \A t \in Tank :
    t \in since.dead /\ t \notin since.fed =>
      /\ Left(t) <= 0
      /\ phase \in {"check", "panel", "panel2"}
      /\ phase = "check" => read <= t + 2 /\ (read > t => health[t] # 0)

(* One read of the test for the end.                                       *)
LEMMA CheckStep ==
  ASSUME TypeOK, HealthInv, DeadInv, Check
  PROVE  DeadInv'
<1> SUFFICES ASSUME NEW t \in Tank, t \in since.dead, t \notin since.fed
             PROVE  /\ Left(t) <= 0
                    /\ phase' \in {"check", "panel"}
                    /\ phase' = "check" =>
                         read' <= t + 2 /\ (read' > t => health[t] # 0)
  BY DEF Check, hardware, DeadInv, Left
<1>1. /\ Left(t) <= 0 /\ phase = "check" /\ read <= t + 2
      /\ read > t => health[t] # 0
      /\ read \in 0 .. 3
  BY DEF Check, DeadInv, TypeOK
<1>2. read = t => (Found(read) <=> health[t] = 0)
  BY DEF Found, Tank
<1>3. read = t + 2 => Found(read)
  BY <1>1, Reading DEF Found, Tank
<1>4. read = 3 => t = 1
  BY <1>1 DEF Tank
<1>5. CASE Found(read)
  BY <1>1, <1>5 DEF Check
<1>6. CASE ~Found(read)
  <2>1. read < t + 2 /\ read < 3
    BY <1>1, <1>3, <1>4, <1>6 DEF Tank
  <2>2. phase' = "check" /\ read' = read + 1
    BY <1>6, <2>1 DEF Check
  <2>3. QED BY <1>1, <1>2, <1>6, <2>1, <2>2 DEF Tank
<1>7. QED BY <1>5, <1>6

(* What a frame does to a tank that gets no gear in it.                    *)
LEMMA DeadFrame ==
  ASSUME TypeOK, HealthInv, DeadInv, NEW hit \in [Tank -> 0 .. Bullets],
         NEW cured \in SUBSET Tank, FrameStep(hit, cured)
  PROVE  DeadInv'
<1> SUFFICES ASSUME NEW t \in Tank, t \in since'.dead, t \notin since'.fed
             PROVE  /\ Left(t)' <= 0
                    /\ phase \in {"check", "panel", "panel2"}
                    /\ phase = "check" =>
                         read <= t + 2 /\ (read > t => health'[t] # 0)
  BY DEF FrameStep, software, DeadInv
<1>1. Handling
  BY DEF FrameStep, Nothing
<1>2. t \in since.dead /\ t \notin since.fed /\ t \notin cured
  BY <1>1 DEF FrameStep, TypeOK
<1>3. One(t, cured) = 0 /\ hit[t] \in Nat
  BY <1>2, FrameOfTank
<1>4. /\ Left(t)' = Left(t) - hit[t]
      /\ health'[t] = IF Left(t)' < 0 THEN Word + Left(t)' ELSE Left(t)'
  BY <1>3, HealthStep, Reading
<1>5. /\ Left(t) <= 0
      /\ phase \in {"check", "panel", "panel2"}
      /\ phase = "check" => read <= t + 2 /\ (read > t => health[t] # 0)
  BY <1>2 DEF DeadInv
<1>6. Left(t) \in Int /\ (health[t] # 0 => Left(t) < 0)
  BY <1>5, Reading
<1>7. health[t] # 0 => health'[t] # 0
  <2> SUFFICES ASSUME health[t] # 0 PROVE health'[t] # 0
    OBVIOUS
  <2>1. Left(t)' < 0 /\ health'[t] = Word + Left(t)'
    BY <1>3, <1>4, <1>6
  <2>2. 0 - MaxHits <= Left(t)'
    <3>1. taken'[t] \in 0 .. MaxHits /\ fed'[t] \in 0 .. MaxGears
      BY FrameOfTank
    <3>2. QED BY <3>1, HealthAssumption DEF Left
  <2>3. QED BY <2>1, <2>2, <1>3, <1>4, <1>6, HealthAssumption
<1>8. QED BY <1>3, <1>4, <1>5, <1>6, <1>7

(* A dead tank that gets no gear is not steered.                           *)
THEOREM DeadStop == Spec => DeadDoNotSteer
<1>1. Init => DeadInv
  BY DEF Init, DeadInv, Nothing
<1>2. TypeOK /\ HealthInv /\ DeadInv /\ [Next]_vars => DeadInv'
  <2> SUFFICES ASSUME TypeOK, HealthInv, DeadInv, [Next]_vars PROVE DeadInv'
    OBVIOUS
  <2>1. CASE Frame
    BY <2>1, DeadFrame DEF Frame
  <2>2. CASE Reset \/ Play
    BY <2>2 DEF Reset, Play, DeadInv, Nothing
  <2>3. CASE GameInit \/ StartGame
    BY <2>3 DEF GameInit, StartGame, DeadInv
  <2>4. CASE Report
    <3>1. /\ \A t \in Tank : t \in since'.dead <=> Dead(t)
          /\ phase' = "check" /\ read' = 0
          /\ UNCHANGED <<health, taken, fed>>
      BY <2>4 DEF Report, hardware, Nothing
    <3>2. \A t \in Tank : Left(t)' = Left(t)
      BY <3>1 DEF Left
    <3>3. QED BY <3>1, <3>2, Reading DEF DeadInv, Tank
  <2>5. CASE Check
    BY <2>5, CheckStep
  <2>6. CASE Panel
    BY <2>6 DEF Panel, hardware, DeadInv, Nothing, Left
  <2>7. CASE Panel2
    BY <2>7 DEF Panel2, DeadInv, Nothing
  <2>8. CASE UNCHANGED vars
    BY <2>8 DEF vars, software, DeadInv, Left
  <2>9. QED
    BY <2>1, <2>2, <2>3, <2>4, <2>5, <2>6, <2>7, <2>8 DEF Next
<1>3. TypeOK /\ DeadInv /\ [Next]_vars
        => [Play => since.dead \subseteq since.fed]_vars
  BY DEF TypeOK, DeadInv, Play
<1>4. QED
  BY <1>1, <1>2, <1>3, TypeCorrect, HealthRight, PTL DEF Spec, DeadDoNotSteer

-----------------------------------------------------------------------------
(* The history of a report knows of the tanks that are dead or have too    *)
(* much, and the panel is entered for a reason that lasts as long as the   *)
(* health of tank 0.                                                       *)
SinceInv ==
  Handling => \A t \in Tank : /\ Dead(t) => t \in since.died
                              /\ Overfed(t) => t \in since.over

PanelInv ==
  since.over = {} /\ 0 \notin since.changed =>
    /\ phase \in {"panel", "panel2"} =>
         1 \in since.died \/ health[0] = 0 \/ health[0] >= Win
    /\ phase = "panel2" => health[0] < Win

LoserInv == SinceInv /\ PanelInv

(* A frame adds to the history what it does.                               *)
LEMMA LoserFrame ==
  ASSUME TypeOK, HealthInv, LoserInv, NEW hit \in [Tank -> 0 .. Bullets],
         NEW cured \in SUBSET Tank, FrameStep(hit, cured)
  PROVE  LoserInv'
<1>1. CASE Handling
  <2>1. /\ since'.died = since.died \union {t \in Tank : Dead(t)'}
        /\ since'.over = since.over \union {t \in Tank : Overfed(t)'}
        /\ since'.changed
             = since.changed \union cured \union {t \in Tank : hit[t] > 0}
        /\ UNCHANGED phase
    BY <1>1 DEF FrameStep, software, TypeOK
  <2>2. SinceInv'
    BY <2>1 DEF SinceInv
  <2>3. ASSUME 0 \notin since'.changed PROVE health'[0] = health[0]
    <3>1. 0 \in Tank /\ 0 \notin cured /\ ~(hit[0] > 0)
      BY <2>1, <2>3 DEF Tank
    <3>2. hit[0] = 0 /\ One(0, cured) = 0
      BY <3>1, FrameOfTank
    <3>3. health[0] \in 0 .. Word - 1
      BY <3>1 DEF TypeOK
    <3>4. health'[0] = NextHealth(health[0], 0, 0)
      BY <3>1, <3>2, FrameOfTank
    <3>5. QED BY <3>3, <3>4, Adder, HealthAssumption
  <2>4. PanelInv'
    BY <2>1, <2>3 DEF LoserInv, PanelInv
  <2>5. QED BY <2>2, <2>4 DEF LoserInv
<1>2. CASE ~Handling
  BY <1>2 DEF FrameStep, software, Handling, LoserInv, SinceInv, PanelInv
<1>3. QED BY <1>1, <1>2

(* The test for the end has a reason to enter the panel.                   *)
LEMMA LoserCheck ==
  ASSUME TypeOK, HealthInv, LoserInv, Check
  PROVE  LoserInv'
<1>1. /\ UNCHANGED <<health, taken, fed, since>>
      /\ phase = "check" /\ Handling
      /\ phase' \in {"check", "play", "panel"}
      /\ phase' = "panel" => Found(read)
      /\ read \in 0 .. 3
  BY DEF Check, hardware, Handling, TypeOK
<1>2. SinceInv'
  BY <1>1 DEF LoserInv, SinceInv, Dead, Overfed
<1>3. ASSUME Found(read), since.over = {}
      PROVE  1 \in since.died \/ health[0] = 0 \/ health[0] >= Win
  <2>1. \A t \in Tank : ~Overfed(t)
    BY <1>1, <1>3 DEF LoserInv, SinceInv
  <2>2. Dead(1) => 1 \in since.died
    BY <1>1 DEF LoserInv, SinceInv, Tank
  <2>3. CASE read = 0
    BY <1>3, <2>3 DEF Found
  <2>4. CASE read = 1
    BY <1>3, <2>2, <2>4, Reading DEF Found, Tank
  <2>5. CASE read = 2
    <3>1. health[0] > Alive
      BY <1>3, <2>5 DEF Found
    <3>2. QED BY <2>1, <3>1, Reading, HealthAssumption DEF Tank
  <2>6. CASE read = 3
    <3>1. health[1] > Alive
      BY <1>3, <2>6 DEF Found
    <3>2. QED BY <2>1, <2>2, <3>1, Reading, HealthAssumption DEF Tank
  <2>7. QED BY <1>1, <2>3, <2>4, <2>5, <2>6
<1>4. PanelInv'
  BY <1>1, <1>3 DEF PanelInv
<1>5. QED BY <1>2, <1>4 DEF LoserInv

(* The loser on the panel was dead, with the exceptions that LoserWasDead  *)
(* names.                                                                  *)
THEOREM LoserRight == Spec => LoserWasDead
<1>1. Init => LoserInv
  BY DEF Init, LoserInv, SinceInv, PanelInv, Handling
<1>2. TypeOK /\ HealthInv /\ LoserInv /\ [Next]_vars => LoserInv'
  <2> SUFFICES ASSUME TypeOK, HealthInv, LoserInv, [Next]_vars
               PROVE  LoserInv'
    OBVIOUS
  <2>1. CASE Frame
    BY <2>1, LoserFrame DEF Frame
  <2>2. CASE Reset \/ Play \/ Panel2 \/ GameInit \/ StartGame
    <3>1. phase' \in {"boot", "menu", "poll"}
      BY <2>2 DEF Reset, Play, Panel2, GameInit, StartGame
    <3>2. QED BY <3>1 DEF LoserInv, SinceInv, PanelInv, Handling
  <2>3. CASE Report
    <3>1. /\ since'.died = {t \in Tank : Dead(t)}
          /\ since'.over = {t \in Tank : Overfed(t)}
          /\ UNCHANGED <<health, taken, fed>> /\ phase' = "check"
      BY <2>3 DEF Report, hardware, Nothing
    <3>2. QED BY <3>1 DEF LoserInv, SinceInv, PanelInv, Dead, Overfed
  <2>4. CASE Check
    BY <2>4, LoserCheck
  <2>5. CASE Panel
    <3>1. CASE health[0] < Win
      <4>1. /\ phase = "panel" /\ phase' = "panel2"
            /\ UNCHANGED <<health, taken, fed, since>>
        BY <2>5, <3>1 DEF Panel, hardware
      <4>2. QED
        BY <3>1, <4>1
        DEF LoserInv, SinceInv, PanelInv, Handling, Dead, Overfed
    <3>2. CASE ~(health[0] < Win)
      <4>1. phase' = "poll"
        BY <2>5, <3>2 DEF Panel
      <4>2. QED BY <4>1 DEF LoserInv, SinceInv, PanelInv, Handling
    <3>3. QED BY <3>1, <3>2
  <2>6. CASE UNCHANGED vars
    BY <2>6
    DEF vars, software, LoserInv, SinceInv, PanelInv, Handling, Dead, Overfed
  <2>7. QED BY <2>1, <2>2, <2>3, <2>4, <2>5, <2>6 DEF Next
<1>3. ASSUME TypeOK, HealthInv, LoserInv, Panel \/ Panel2, phase' = "poll"
      PROVE  \/ 1 - winner' \in since.died
             \/ 0 \in since.changed
             \/ since.over # {}
  <2>1. Handling /\ 0 \in Tank /\ health[0] \in Nat
    BY <1>3, Reading DEF Panel, Panel2, Handling, Tank
  <2>2. Dead(0) => 0 \in since.died
    BY <1>3, <2>1 DEF LoserInv, SinceInv
  <2>3. CASE Panel
    <3>1. winner' = 1 /\ health[0] >= Win
      BY <1>3, <2>1, <2>3, HealthAssumption DEF Panel
    <3>2. Dead(0) \/ Overfed(0)
      BY <1>3, <2>1, <3>1, Reading, HealthAssumption
    <3>3. QED BY <1>3, <2>1, <2>2, <3>1, <3>2 DEF LoserInv, SinceInv
  <2>4. CASE Panel2
    <3>1. CASE health[0] > 0
      <4>1. winner' = 0 /\ phase = "panel2"
        BY <2>4, <3>1 DEF Panel2
      <4>2. QED
        BY <1>3, <2>1, <3>1, <4>1, HealthAssumption DEF LoserInv, PanelInv
    <3>2. CASE ~(health[0] > 0)
      <4>1. winner' = 1 /\ health[0] = 0
        BY <2>1, <2>4, <3>2 DEF Panel2
      <4>2. Dead(0)
        BY <1>3, <2>1, <4>1, Reading
      <4>3. QED BY <2>2, <4>1, <4>2
    <3>3. QED BY <3>1, <3>2
  <2>5. QED BY <1>3, <2>3, <2>4
<1>4. QED
  BY <1>1, <1>2, <1>3, TypeCorrect, HealthRight, PTL DEF Spec, LoserWasDead
=============================================================================
