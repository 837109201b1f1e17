-------------------------------- MODULE Coins --------------------------------
(***************************************************************************)
(* The coin engine of coin.sv and the two writers of its registers:        *)
(* game_init, which puts the coins to their default places and clears the  *)
(* scores, and the part of check_gears that puts coins back (game.c).  In  *)
(* every CLK cycle in which the software does not write one of its         *)
(* registers, the engine copies the positions of the coins into coin_x and *)
(* coin_y and pays at most one coin to a tank over the copied position.    *)
(*                                                                         *)
(* A spot is a place of the screen; two spots are further apart than       *)
(* REGENERATE_RADIUS.  The picture of a turning coin (the counter in the   *)
(* upper bits of the register) is left out.                                *)
(***************************************************************************)
EXTENDS Integers, Functions

CONSTANTS
  Tanks,      (* The number of tanks (2).                                  *)
  Kinds,      (* The number of coins (3): gold, silver, bronze.            *)
  Value,      (* What each of them is worth (3, 2 and 1).                  *)
  Spot,       (* The places a coin may be in.                              *)
  Home,       (* The place game_init gives to each coin.                   *)
  Away,       (* Where a tank is that is over none of the spots.           *)
  Quiet,      (* CLK cycles between two coins put back, at least.          *)
  MaxWrites,  (* How often a coin is put back; a bound of the model.       *)
  MaxResets   (* How often KEY[0] is pressed; a bound of the model.        *)

Tank == 0 .. Tanks - 1
Coin == 0 .. Kinds - 1

(* A cleared register is at <<0, 0>>, where no tank can be: check_wall     *)
(* sees a wall there.                                                      *)
Origin == "origin"

ASSUME CoinAssumption ==
  /\ Tanks \in Nat /\ Kinds \in Nat
  /\ Value \in [Coin -> Nat \ {0}]
  /\ Home \in [Coin -> Spot]
  /\ Away \notin Spot /\ Origin \notin Spot \union {Away}
  /\ Quiet \in Nat \ {0} /\ MaxWrites \in Nat /\ MaxResets \in Nat

VARIABLES
  valid,    (* valid[c]: bit 0 of coin_attr_reg[c].                        *)
  pos,      (* pos[c]: the position in coin_attr_reg[c].                   *)
  seen,     (* seen[c]: coin_x[c], coin_y[c].                              *)
  score,    (* score[t]: score_attr_reg[t].                                *)
  place,    (* place[t]: the spot tank t is over, or Away.                 *)
  init,     (* How many registers game_init has written.                   *)
  quiet,    (* CLK cycles since the last write, at most Quiet.             *)
  writes,   (* Coins put back so far.                                      *)
  resets,   (* Presses of KEY[0] so far.                                   *)
  settled   (* The coins that saw a CLK cycle since they were put there:   *)
            (* history.                                                    *)

engine == <<valid, pos, seen, score>>
bounds == <<writes, resets>>
coins == <<engine, place, init, quiet, bounds, settled>>

(* game_init writes all coins and all scores.                              *)
Running == init = Kinds + Tanks

AllCoins(x) == [c \in Coin |-> x]
AllTanks(x) == [t \in Tank |-> x]

(* coin_x and coin_y have no reset.                                        *)
CoinInit ==
  /\ valid = AllCoins(FALSE)
  /\ pos = AllCoins(Origin)
  /\ seen \in [Coin -> Spot \union {Origin}]
  /\ score = AllTanks(0)
  /\ place = AllTanks(Away)
  /\ init = 0 /\ quiet = 0
  /\ settled = {}
  /\ writes = 0 /\ resets = 0

-----------------------------------------------------------------------------
(* The engine.                                                             *)

(* Coin by coin, and tank by tank for each coin: <<c, t>> is the first     *)
(* pair in the order of the code for which coin c is at the place of t.    *)

(* A faulty variant of Hit: the second tank is forgotten.                  *)
HitByFirst(c, t) == t = 0 /\ valid[c] /\ place[t] = seen[c]

Hit(c, t) == valid[c] /\ place[t] = seen[c]

FirstHit(c, t) ==
  /\ Hit(c, t)
  /\ \A u \in Tank : Hit(c, u) => t <= u
  /\ \A d \in Coin, u \in Tank : Hit(d, u) => c <= d

(* A faulty variant of Collect: the coin stays.                            *)
CollectAndKeep(c, t) ==
  /\ score' = [score EXCEPT ![t] = @ + Value[c]]
  /\ UNCHANGED valid

Collect(c, t) ==
  /\ valid' = [valid EXCEPT ![c] = FALSE]
  /\ score' = [score EXCEPT ![t] = @ + Value[c]]

(* A faulty variant of NextSeen: the loop stops after the first coin.      *)
FirstSeen == [seen EXCEPT ![0] = pos[0]]

NextSeen == pos

(* A CLK cycle without a write.                                            *)
Clk ==
  /\ \/ /\ \A c \in Coin, t \in Tank : ~Hit(c, t)
        /\ UNCHANGED <<valid, score>>
     \/ \E c \in Coin, t \in Tank : FirstHit(c, t) /\ Collect(c, t)
  /\ seen' = NextSeen
  /\ quiet' = IF quiet < Quiet THEN quiet + 1 ELSE quiet
  /\ settled' = Coin
  /\ UNCHANGED <<pos, place, init, bounds>>

-----------------------------------------------------------------------------
(* The software, the tanks and the reset key.                              *)

Put(c, s) ==
  /\ valid' = [valid EXCEPT ![c] = TRUE]
  /\ pos' = [pos EXCEPT ![c] = s]
  /\ settled' = settled \ {c}
  /\ quiet' = 0
  /\ UNCHANGED <<seen, score, place, resets>>

(* game_init writes one coin after the other and then the scores, long     *)
(* after the processor started.                                            *)
InitCoin ==
  /\ init < Kinds
  /\ init = 0 => quiet = Quiet
  /\ Put(init, Home[init])
  /\ init' = init + 1
  /\ UNCHANGED writes

(* A faulty variant of InitScore: one score too many.                      *)
InitScores ==
  /\ Kinds <= init /\ init <= Kinds + Tanks
  /\ score' = [t \in Tank |-> IF t = init - Kinds THEN 0 ELSE score[t]]
  /\ init' = init + 1
  /\ quiet' = 0
  /\ UNCHANGED <<valid, pos, seen, place, bounds, settled>>

InitScore ==
  /\ Kinds <= init /\ init < Kinds + Tanks
  /\ score' = [score EXCEPT ![init - Kinds] = 0]
  /\ init' = init + 1
  /\ quiet' = 0
  /\ UNCHANGED <<valid, pos, seen, place, bounds, settled>>

(* check_gears puts a missing coin far from its last place, which the      *)
(* register still holds.                                                   *)
CheckGears ==
  /\ Running
  /\ quiet = Quiet
  /\ writes < MaxWrites
  /\ \E c \in Coin : \E s \in Spot \ {pos[c]} : ~valid[c] /\ Put(c, s)
  /\ writes' = writes + 1
  /\ UNCHANGED init

(* A frame edge moves a tank; it takes many frames from spot to spot.      *)
(* After KEY[0] the tanks move at once if control_reg holds a key; before, *)
(* they wait for the game to start.                                        *)
Frame ==
  /\ Running \/ resets > 0
  /\ \E t \in Tank :
       \/ place[t] = Away /\ \E s \in Spot : place' = [place EXCEPT ![t] = s]
       \/ place[t] # Away /\ place' = [place EXCEPT ![t] = Away]
  /\ UNCHANGED <<engine, init, quiet, bounds, settled>>

Reset ==
  /\ resets < MaxResets
  /\ resets' = resets + 1
  /\ valid' = AllCoins(FALSE)
  /\ pos' = AllCoins(Origin)
  /\ score' = AllTanks(0)
  /\ place' = AllTanks(Away)
  /\ init' = 0 /\ quiet' = 0
  /\ settled' = {}
  /\ UNCHANGED <<seen, writes>>

CoinNext == Clk \/ InitCoin \/ InitScore \/ CheckGears \/ Frame \/ Reset

CoinSpec == CoinInit /\ [][CoinNext]_coins

(* The 50 MHz clock never stops; the software stops writing at MaxWrites.  *)
CoinFairSpec == CoinSpec /\ WF_coins(Clk)

-----------------------------------------------------------------------------
(* Properties.                                                             *)

CoinTypeOK ==
  /\ valid \in [Coin -> BOOLEAN]
  /\ pos \in [Coin -> Spot \union {Origin}]
  /\ seen \in [Coin -> Spot \union {Origin}]
  /\ score \in [Tank -> Nat]
  /\ place \in [Tank -> Spot \union {Away}]
  /\ init \in 0 .. Kinds + Tanks
  /\ quiet \in 0 .. Quiet
  /\ writes \in 0 .. MaxWrites /\ resets \in 0 .. MaxResets
  /\ settled \subseteq Coin

(* The coins a step takes off the screen.                                  *)
Vanished == {c \in Coin : valid[c] /\ ~valid'[c]}

Total == SumFunction(score)

(* Coins are neither lost nor paid twice: while the game runs the scores   *)
(* grow by what the coins that vanish in the same step are worth, and by   *)
(* nothing else (coin.sv:65-104).                                          *)
EveryCoinPaidOnce ==
  [][Running /\ Running' =>
       Total' = Total + SumFunctionOnSet(Value, Vanished)]_coins

(* Once the engine has seen a coin where it is, only a tank that is there  *)
(* gets it, whatever the software writes to the other coins.               *)
PaidWhereSeen ==
  [][Clk =>
       \A c \in Vanished \intersect settled :
         \E t \in Tank : place[t] = pos[c] /\ score'[t] = score[t] + Value[c]]_coins

(* A coin under a parked tank is collected, whatever else there is to      *)
(* collect: the chain of cases does not starve the bronze coin.            *)
ParkedTankCollects ==
  \A c \in Coin : \A t \in Tank : \A s \in Spot :
    (valid[c] /\ pos[c] = s /\ place[t] = s)
      ~> (~valid[c] \/ pos[c] # s \/ place[t] # s)
=============================================================================
