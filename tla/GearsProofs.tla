----------------------------- MODULE GearsProofs -----------------------------
(***************************************************************************)
(* What the slow flag and the fast register promise, for any number of     *)
(* tanks and cells: no gear is fed more than twice, and one that was       *)
(* written while the flag was down goes only after it was fed once.        *)
(***************************************************************************)
EXTENDS Gears, TLAPS

(* How often a gear that is still there can have been fed.  With the flag  *)
(* up after a feeding, no CLK edge has come since the frame: the next one  *)
(* takes the gear away before the next frame.                              *)
Counted ==
  gear # None =>
    \/ ~flag /\ fed = 0
    \/ ~flag /\ fed = 1 /\ raced
    \/ flag /\ fed = 0 /\ raced
    \/ flag /\ ~ticked /\ fed = 1
    \/ flag /\ ~ticked /\ fed = 2 /\ raced

(* The inductive invariant.                                                *)
IInv == TypeOK /\ AtMostTwice /\ Counted

LEMMA HomeType == Home \in [Tank -> Cell]
PROOF
  BY CellAssumption

LEMMA InitIInv == Init => IInv
PROOF
<1> SUFFICES ASSUME Init PROVE IInv
  OBVIOUS
<1>1. TypeOK
  <2>1. flag \in BOOLEAN /\ raced \in BOOLEAN /\ ticked \in BOOLEAN
    BY CellAssumption DEF Init
  <2>2. cell \in [Tank -> Cell]
    BY HomeType DEF Init
  <2>3. /\ gear \in Cell \union {None} /\ last \in Cell
        /\ phase \in {"boot", "run"}
        /\ resets \in 0 .. MaxResets /\ fed \in Nat
    BY CellAssumption DEF Init
  <2> QED
    BY <2>1, <2>2, <2>3 DEF TypeOK
<1>2. AtMostTwice /\ Counted
  BY DEF Init, AtMostTwice, Counted
<1> QED
  BY <1>1, <1>2 DEF IInv

(* A gear that is not there touches no tank.                               *)
LEMMA NothingToTouch ==
  ASSUME TypeOK, gear = None
  PROVE  Touching = {}
PROOF
  BY CellAssumption DEF TypeOK, Touching, Cell, None

(* A write to the register begins the history of a new gear.               *)
LEMMA WrittenKeeps ==
  ASSUME IInv, NEW c \in Cell, Written(c),
         last' \in Cell, phase' \in {"boot", "run"}
  PROVE  IInv'
PROOF
<1>1. TypeOK'
  <2>1. (flag \in BOOLEAN)' /\ (raced \in BOOLEAN)' /\ (ticked \in BOOLEAN)'
    BY DEF IInv, TypeOK, Written, hardware
  <2>2. /\ (gear \in Cell \union {None})' /\ (cell \in [Tank -> Cell])'
        /\ (resets \in 0 .. MaxResets)' /\ (fed \in Nat)'
    BY DEF IInv, TypeOK, Written, hardware, Cell, None
  <2> QED
    BY <2>1, <2>2 DEF TypeOK
<1>2. fed' = 0 /\ (raced' <=> flag') /\ flag' \in BOOLEAN
  BY DEF IInv, TypeOK, Written, hardware
<1>3. AtMostTwice'
  BY <1>2 DEF AtMostTwice
<1>4. Counted'
  BY <1>2, Zenon DEF Counted
<1> QED
  BY <1>1, <1>3, <1>4 DEF IInv

LEMMA FrameKeeps ==
  ASSUME IInv, Frame
  PROVE  IInv'
PROOF
<1>1. TypeOK'
  <2>1. (flag \in BOOLEAN)' /\ (ticked \in BOOLEAN)' /\ (raced \in BOOLEAN)'
    BY DEF IInv, TypeOK, Frame, NextFlag
  <2>2. (fed \in Nat)'
    BY DEF IInv, TypeOK, Frame
  <2>3. /\ (gear \in Cell \union {None})' /\ (cell \in [Tank -> Cell])'
        /\ (last \in Cell)' /\ (phase \in {"boot", "run"})'
        /\ (resets \in 0 .. MaxResets)'
    BY DEF IInv, TypeOK, Frame
  <2> QED
    BY <2>1, <2>2, <2>3 DEF TypeOK
<1>2. CASE Touching = {}
  BY <1>1, <1>2 DEF IInv, TypeOK, AtMostTwice, Counted, Frame, NextFlag
<1>3. CASE Touching # {}
  <2>1. gear # None
    BY <1>3, NothingToTouch DEF IInv
  <2>2. ticked /\ ~ticked' /\ fed' = fed + 1
    BY <1>3 DEF Frame
  <2>3. flag' <=> ~flag
    BY <1>3 DEF Frame, NextFlag
  <2>4. gear' = gear /\ (raced' <=> raced)
    BY DEF Frame
  <2>5. \/ ~flag /\ fed = 0
        \/ ~flag /\ fed = 1 /\ raced
        \/ flag /\ fed = 0 /\ raced
    BY <2>1, <2>2 DEF IInv, Counted
  <2>6. \/ flag' /\ ~ticked' /\ fed' = 1
        \/ flag' /\ ~ticked' /\ fed' = 2 /\ raced'
        \/ ~flag' /\ fed' = 1 /\ raced'
    BY <2>2, <2>3, <2>4, <2>5
  <2>7. AtMostTwice'
    BY <2>6 DEF AtMostTwice
  <2>8. Counted'
    BY <2>6 DEF Counted
  <2> QED
    BY <1>1, <2>7, <2>8 DEF IInv
<1> QED
  BY <1>2, <1>3

LEMMA NextIInv == IInv /\ [Next]_vars => IInv'
PROOF
<1> SUFFICES ASSUME IInv, [Next]_vars PROVE IInv'
  OBVIOUS
<1>1. CASE Clk
  BY <1>1, CellAssumption
  DEF IInv, TypeOK, AtMostTwice, Counted, Clk, hardware, history, Cell, None
<1>2. CASE GameInit
  <2>1. Written(Default) /\ phase' = "run" /\ last' = last
    BY <1>2 DEF GameInit
  <2> QED
    BY <2>1, WrittenKeeps, CellAssumption DEF IInv, TypeOK
<1>3. CASE CheckGears
  <2>1. PICK c \in Cell : Written(c) /\ last' = c
    BY <1>3 DEF CheckGears
  <2>2. phase' \in {"boot", "run"}
    BY <1>3 DEF CheckGears, IInv, TypeOK
  <2> QED
    BY <2>1, <2>2, WrittenKeeps
<1>4. CASE Frame
  BY <1>4, FrameKeeps
<1>5. CASE Reset
  <2>1. TypeOK'
    <3>1. (cell \in [Tank -> Cell])'
      BY <1>5, HomeType DEF Reset
    <3>2. (flag \in BOOLEAN)' /\ (ticked \in BOOLEAN)' /\ (raced \in BOOLEAN)'
      BY <1>5 DEF Reset, IInv, TypeOK
    <3>3. /\ (gear \in Cell \union {None})' /\ (last \in Cell)'
          /\ (phase \in {"boot", "run"})'
          /\ (resets \in 0 .. MaxResets)' /\ (fed \in Nat)'
      BY <1>5, CellAssumption DEF Reset, IInv, TypeOK
    <3> QED
      BY <3>1, <3>2, <3>3 DEF TypeOK
  <2>2. AtMostTwice' /\ Counted'
    BY <1>5 DEF Reset, AtMostTwice, Counted
  <2> QED
    BY <2>1, <2>2 DEF IInv
<1>6. CASE UNCHANGED vars
  BY <1>6
  DEF IInv, TypeOK, AtMostTwice, Counted, Touching, vars, hardware, history
<1> QED
  BY <1>1, <1>2, <1>3, <1>4, <1>5, <1>6 DEF Next

LEMMA AlwaysIInv == Spec => []IInv
PROOF
  BY InitIInv, NextIInv, PTL DEF Spec

(* The registers and flags stay in their ranges, and no gear is given to   *)
(* tanks in more than two frames, nor in more than one if it was written   *)
(* while the flag was down (props.sv:44-48, feedback.sv:73-74).            *)
THEOREM FedAtMostTwice == Spec => []GearsInv
PROOF
<1>1. IInv => GearsInv
  BY DEF IInv, GearsInv
<1> QED
  BY <1>1, AlwaysIInv, PTL

(* A gear that was written while the flag was down is not wiped out before *)
(* a tank has had it (props.sv:47).                                        *)
THEOREM OnlyTakenGo == Spec => OnlyTakenGearsGo
PROOF
<1>1. ASSUME IInv, gear # None, ~raced, Clk, gear' = None
      PROVE  fed = 1
  BY <1>1 DEF IInv, Counted, Clk, TypeOK
<1>2. IInv /\ [Next]_vars =>
        [(gear # None /\ ~raced /\ Clk /\ gear' = None) => fed = 1]_vars
  BY <1>1
<1> QED
  BY <1>2, AlwaysIInv, PTL DEF Spec, OnlyTakenGearsGo
=============================================================================
