------------------------- MODULE WallsAndCoinsProofs --------------------------
(***************************************************************************)
(* Proofs about what lies on the field: about the coins, for every number  *)
(* of tanks and coins, and about the menu and the walls of the map chosen  *)
(* in it, for every place of the coins, gears, starts and back-ups.        *)
(***************************************************************************)
EXTENDS WallPlacement, Coins, FiniteSetTheorems, SequenceTheorems, TLAPS

-----------------------------------------------------------------------------
(* The coins.                                                              *)

(* Registers, copies and counters keep their ranges.                       *)
LEMMA CoinTypesStep ==
  ASSUME CoinTypeOK, [CoinNext]_coins
  PROVE  CoinTypeOK'
<1>1. /\ Tanks \in Nat /\ Kinds \in Nat /\ Quiet \in Nat \ {0}
      /\ MaxWrites \in Nat /\ MaxResets \in Nat
      /\ Value \in [Coin -> Nat \ {0}] /\ Home \in [Coin -> Spot]
  BY CoinAssumption
<1>2. \A b \in BOOLEAN, c \in Coin :
       [valid EXCEPT ![c] = b] \in [Coin -> BOOLEAN]
  BY DEF CoinTypeOK
<1>3. CASE Clk
  <2>1. valid' \in [Coin -> BOOLEAN] /\ score' \in [Tank -> Nat]
    <3>1. CASE UNCHANGED <<valid, score>>
      BY <3>1 DEF CoinTypeOK
    <3>2. CASE \E c \in Coin, t \in Tank : FirstHit(c, t) /\ Collect(c, t)
      BY <1>1, <1>2, <3>2 DEF Collect, CoinTypeOK
    <3> QED
      BY <1>3, <3>1, <3>2 DEF Clk
  <2>2. quiet' \in 0 .. Quiet
    BY <1>1, <1>3 DEF Clk, CoinTypeOK
  <2> QED
    BY <1>3, <2>1, <2>2 DEF Clk, NextSeen, bounds, CoinTypeOK
<1>4. ASSUME NEW c \in Coin, NEW s \in Spot, Put(c, s)
      PROVE  /\ valid' \in [Coin -> BOOLEAN]
             /\ pos' \in [Coin -> Spot \union {Origin}]
             /\ settled' \subseteq Coin /\ quiet' \in 0 .. Quiet
             /\ UNCHANGED <<seen, score, place, resets>>
  BY <1>1, <1>2, <1>4 DEF Put, CoinTypeOK
<1>5. CASE InitCoin
  <2>1. init \in Coin /\ Home[init] \in Spot
    BY <1>1, <1>5 DEF InitCoin, Coin, CoinTypeOK
  <2>2. init' \in 0 .. Kinds + Tanks /\ writes' = writes
    BY <1>1, <1>5 DEF InitCoin, CoinTypeOK
  <2>3. Put(init, Home[init])
    BY <1>5 DEF InitCoin
  <2> QED
    BY <1>4, <2>1, <2>2, <2>3 DEF CoinTypeOK
<1>6. CASE InitScore
  <2>1. init' \in 0 .. Kinds + Tanks /\ quiet' \in 0 .. Quiet
    BY <1>1, <1>6 DEF InitScore, CoinTypeOK
  <2>2. score' \in [Tank -> Nat]
    BY <1>6 DEF InitScore, CoinTypeOK
  <2> QED
    BY <1>6, <2>1, <2>2 DEF InitScore, bounds, CoinTypeOK
<1>7. CASE CheckGears
  <2> PICK c \in Coin, s \in Spot : Put(c, s)
    BY <1>7 DEF CheckGears
  <2>1. writes' \in 0 .. MaxWrites /\ init' = init
    BY <1>1, <1>7 DEF CheckGears, CoinTypeOK
  <2> QED
    BY <1>4, <2>1 DEF CoinTypeOK
<1>8. CASE Frame
  <2>1. place' \in [Tank -> Spot \union {Away}]
    BY <1>8 DEF Frame, CoinTypeOK
  <2> QED
    BY <1>8, <2>1 DEF Frame, engine, bounds, CoinTypeOK
<1>9. CASE Reset
  <2>1. resets' \in 0 .. MaxResets /\ 0 \in 0 .. Kinds + Tanks /\ 0 \in 0 .. Quiet
    BY <1>1, <1>9 DEF Reset, CoinTypeOK
  <2> QED
    BY <1>9, <2>1 DEF Reset, AllCoins, AllTanks, CoinTypeOK
<1>10. CASE UNCHANGED coins
  BY <1>10 DEF coins, engine, bounds, CoinTypeOK
<1> QED
  BY <1>3, <1>5, <1>6, <1>7, <1>8, <1>9, <1>10 DEF CoinNext

THEOREM CoinTypes == CoinSpec => []CoinTypeOK
<1>1. CoinInit => CoinTypeOK
  <2>1. 0 \in 0 .. Kinds + Tanks /\ 0 \in 0 .. Quiet /\ 0 \in 0 .. MaxWrites
        /\ 0 \in 0 .. MaxResets
    BY CoinAssumption
  <2> QED
    BY <2>1 DEF CoinInit, AllCoins, AllTanks, CoinTypeOK
<1> QED
  BY <1>1, CoinTypesStep, PTL DEF CoinSpec

(* What the engine has seen of a settled coin is where the coin is.        *)
SeenWhereItIs == \A c \in settled : seen[c] = pos[c]

LEMMA SeenStep ==
  ASSUME CoinTypeOK, SeenWhereItIs, [CoinNext]_coins
  PROVE  SeenWhereItIs'
<1>1. CASE Clk
  BY <1>1 DEF Clk, NextSeen, SeenWhereItIs
<1>2. ASSUME NEW c, NEW s, Put(c, s)
      PROVE  SeenWhereItIs'
  BY <1>2 DEF Put, CoinTypeOK, SeenWhereItIs
<1>3. CASE InitCoin \/ CheckGears
  BY <1>2, <1>3 DEF InitCoin, CheckGears
<1>4. CASE InitScore \/ Frame
  BY <1>4 DEF InitScore, Frame, engine, SeenWhereItIs
<1>5. CASE Reset
  BY <1>5 DEF Reset, SeenWhereItIs
<1>6. CASE UNCHANGED coins
  BY <1>6 DEF coins, engine, SeenWhereItIs
<1> QED
  BY <1>1, <1>3, <1>4, <1>5, <1>6 DEF CoinNext

(* A coin vanishes by the first hit in the order of the code.              *)
LEMMA CollectPays ==
  ASSUME CoinTypeOK, NEW c \in Coin, NEW t \in Tank, FirstHit(c, t), Collect(c, t)
  PROVE  /\ Vanished = {c}
         /\ place[t] = seen[c]
         /\ score' = [score EXCEPT ![t] = score[t] + Value[c]]
         /\ score'[t] = score[t] + Value[c]
<1>1. valid[c] /\ place[t] = seen[c]
  BY DEF FirstHit, Hit
<1>2. valid' = [valid EXCEPT ![c] = FALSE]
  BY DEF Collect
<1>3. \A d \in Coin : d # c => valid'[d] = valid[d]
  BY <1>2 DEF CoinTypeOK
<1>4. ~valid'[c]
  BY <1>2 DEF CoinTypeOK
<1>5. Vanished = {c}
  BY <1>1, <1>3, <1>4 DEF Vanished
<1> QED
  BY <1>1, <1>5 DEF Collect, CoinTypeOK

(* A coin that the engine has seen is paid to a tank that is there, for    *)
(* every number of tanks and coins (coin.sv:59-104).                       *)
THEOREM SeenIsPaid == CoinSpec => PaidWhereSeen
<1>1. CoinInit => SeenWhereItIs
  BY DEF CoinInit, SeenWhereItIs
<1>2. CoinTypeOK /\ SeenWhereItIs /\ [CoinNext]_coins =>
        [Clk => \A c \in Vanished \intersect settled :
                  \E t \in Tank :
                    place[t] = pos[c] /\ score'[t] = score[t] + Value[c]]_coins
  <2> SUFFICES ASSUME CoinTypeOK, SeenWhereItIs, Clk,
                      NEW c \in Vanished \intersect settled
               PROVE  \E t \in Tank :
                        place[t] = pos[c] /\ score'[t] = score[t] + Value[c]
    OBVIOUS
  <2>1. CASE UNCHANGED <<valid, score>>
    BY <2>1 DEF Vanished
  <2>2. CASE \E d \in Coin, t \in Tank : FirstHit(d, t) /\ Collect(d, t)
    <3> PICK d \in Coin, t \in Tank : FirstHit(d, t) /\ Collect(d, t)
      BY <2>2
    <3>1. c = d /\ place[t] = seen[d] /\ score'[t] = score[t] + Value[d]
      BY CollectPays
    <3>2. seen[c] = pos[c]
      BY DEF SeenWhereItIs
    <3> QED
      BY <3>1, <3>2
  <2> QED
    BY <2>1, <2>2 DEF Clk
<1> QED
  BY <1>1, <1>2, CoinTypes, SeenStep, PTL DEF CoinSpec, PaidWhereSeen

-----------------------------------------------------------------------------
(* Sums of finite functions.                                               *)

(* The element a sum over the set s takes first.                           *)
First(s) == CHOOSE e \in s : TRUE

LEMMA FirstIn ==
  ASSUME NEW s, s # {}
  PROVE  First(s) \in s
BY DEF First

(* What a table of the sums of f over the subsets of S says of the set s.  *)
SumStep(g, f, s) == IF s = {} THEN 0 ELSE f[First(s)] + g[s \ {First(s)}]

(* g is right for the subsets of S with at most n elements.                *)
SumsUpTo(g, f, S, n) ==
  /\ g \in [SUBSET S -> Int]
  /\ \A s \in SUBSET S : Cardinality(s) <= n => g[s] = SumStep(g, f, s)

LEMMA SmallerSet ==
  ASSUME NEW S, IsFiniteSet(S), NEW s \in SUBSET S, s # {}
  PROVE  /\ First(s) \in s
         /\ s \ {First(s)} \in SUBSET S
         /\ Cardinality(s) \in Nat
         /\ Cardinality(s \ {First(s)}) = Cardinality(s) - 1
<1>1. IsFiniteSet(s)
  BY FS_Subset
<1>2. First(s) \in s
  BY FirstIn
<1> QED
  BY <1>1, <1>2, FS_RemoveElement, FS_CardinalityType

(* Induction over finite sets: among subsets of S there is a smallest one. *)
LEMMA SmallestSubset ==
  ASSUME NEW S, IsFiniteSet(S), NEW T \in SUBSET (SUBSET S), T # {}
  PROVE  \E s \in T : \A r \in T : Cardinality(s) <= Cardinality(r)
<1> DEFINE Sizes == {Cardinality(r) : r \in T}
<1>1. \A r \in T : Cardinality(r) \in Nat
  BY FS_Subset, FS_CardinalityType
<1>2. Sizes \subseteq Nat /\ Sizes # {}
  BY <1>1
<1> HIDE DEF Sizes
<1>3. PICK n \in Sizes : \A m \in Sizes : <<m, n>> \notin OpToRel(<, Nat)
  BY <1>2, NatLessThanWellFounded, WFMin
<1>4. ASSUME NEW m \in Sizes PROVE n <= m
  <2>1. m \in Nat /\ n \in Nat /\ <<m, n>> \notin OpToRel(<, Nat)
    BY <1>2, <1>3
  <2> QED
    BY <2>1 DEF OpToRel
<1> QED
  BY <1>4 DEF Sizes

(* Induction on n: the sums over larger sets come from those over smaller  *)
(* ones, for every f.                                                      *)
LEMMA SumsExist ==
  ASSUME NEW S, IsFiniteSet(S), NEW f, \A e \in S : f[e] \in Int
  PROVE  \A n \in Nat : \E g : SumsUpTo(g, f, S, n)
<1> DEFINE Bad == {n \in Nat : ~\E g : SumsUpTo(g, f, S, n)}
<1> SUFFICES ASSUME Bad # {} PROVE FALSE
  OBVIOUS
<1>1. PICK n \in Bad : \A m \in Bad : <<m, n>> \notin OpToRel(<, Nat)
  <2>1. Bad \subseteq Nat
    OBVIOUS
  <2> HIDE DEF Bad
  <2> QED
    BY <2>1, NatLessThanWellFounded, WFMin
<1>2. n \in Nat /\ ~\E g : SumsUpTo(g, f, S, n)
  OBVIOUS
<1>3. \A m \in Nat : m < n => m \notin Bad
  BY <1>1, <1>2 DEF OpToRel
<1>4. \A s \in SUBSET S : IsFiniteSet(s) /\ Cardinality(s) \in Nat
  BY FS_Subset, FS_CardinalityType
<1>5. \A s \in SUBSET S : Cardinality(s) = 0 <=> s = {}
  BY <1>4, FS_EmptySet
<1>6. CASE n = 0
  <2> DEFINE g == [s \in SUBSET S |-> 0]
  <2>1. g \in [SUBSET S -> Int]
    OBVIOUS
  <2>2. \A s \in SUBSET S : Cardinality(s) <= 0 => g[s] = SumStep(g, f, s)
    BY <1>4, <1>5 DEF SumStep
  <2>3. SumsUpTo(g, f, S, 0)
    BY <2>1, <2>2 DEF SumsUpTo
  <2> QED
    BY <1>2, <1>6, <2>3
<1>7. CASE n > 0
  <2>1. n - 1 \in Nat /\ n - 1 < n
    BY <1>2, <1>7
  <2>2. \E g : SumsUpTo(g, f, S, n - 1)
    BY <1>3, <2>1
  <2> PICK g : SumsUpTo(g, f, S, n - 1)
    BY <2>2
  <2>3. g \in [SUBSET S -> Int]
    BY DEF SumsUpTo
  <2>4. \A s \in SUBSET S : SumStep(g, f, s) \in Int
    <3> TAKE s \in SUBSET S
    <3>1. CASE s = {}
      BY <3>1 DEF SumStep
    <3>2. CASE s # {}
      <4>1. First(s) \in S /\ s \ {First(s)} \in SUBSET S
        BY <3>2, SmallerSet
      <4>2. f[First(s)] \in Int /\ g[s \ {First(s)}] \in Int
        BY <2>3, <4>1
      <4> QED
        BY <3>2, <4>2 DEF SumStep
    <3> QED
      BY <3>1, <3>2
  <2> DEFINE h == [s \in SUBSET S |->
                     IF Cardinality(s) <= n - 1 THEN g[s] ELSE SumStep(g, f, s)]
  <2>5. h \in [SUBSET S -> Int]
    BY <2>3, <2>4
  <2>6. ASSUME NEW s \in SUBSET S, Cardinality(s) <= n
        PROVE  h[s] = SumStep(h, f, s)
    <3>1. h[s] = SumStep(g, f, s)
      BY DEF SumsUpTo
    <3>2. CASE s = {}
      BY <3>1, <3>2 DEF SumStep
    <3>3. CASE s # {}
      <4>1. /\ s \ {First(s)} \in SUBSET S
            /\ Cardinality(s \ {First(s)}) <= n - 1
        BY <1>2, <2>6, <3>3, SmallerSet
      <4>2. h[s \ {First(s)}] = g[s \ {First(s)}]
        BY <4>1
      <4> QED
        BY <3>1, <3>3, <4>2 DEF SumStep
    <3> QED
      BY <3>2, <3>3
  <2> HIDE DEF h
  <2>7. SumsUpTo(h, f, S, n)
    BY <2>5, <2>6 DEF SumsUpTo
  <2> QED
    BY <1>2, <2>7
<1> QED
  BY <1>2, <1>6, <1>7

(* g holds the sums of f over all subsets of S.                            *)
IsTable(g, f, S) ==
  /\ g \in [SUBSET S -> Int]
  /\ g[S] = SumFunctionOnSet(f, S)
  /\ \A s \in SUBSET S : g[s] = SumStep(g, f, s)

Numbers(f, S) == \A e \in S : f[e] \in Int

(* SumFunctionOnSet adds up f, element by element.                         *)
LEMMA SumTable ==
  ASSUME NEW S, IsFiniteSet(S), NEW f, Numbers(f, S)
  PROVE  \E g : IsTable(g, f, S)
<1> DEFINE g == CHOOSE g : g = [s \in SUBSET S |-> SumStep(g, f, s)]
<1>1. SumFunctionOnSet(f, S) = g[S]
  BY DEF SumFunctionOnSet, FoldFunctionOnSet, MapThenFoldSet, SumStep, First
<1>0. \A e \in S : f[e] \in Int
  BY DEF Numbers
<1>2. PICK h : SumsUpTo(h, f, S, Cardinality(S))
  BY <1>0, SumsExist, FS_CardinalityType
<1>3. \A s \in SUBSET S : Cardinality(s) <= Cardinality(S)
  BY FS_Subset
<1>4. h \in [SUBSET S -> Int] /\ \A s \in SUBSET S : h[s] = SumStep(h, f, s)
  BY <1>2, <1>3 DEF SumsUpTo
<1>5. h = [s \in SUBSET S |-> SumStep(h, f, s)]
  BY <1>4
<1>6. g = [s \in SUBSET S |-> SumStep(g, f, s)]
  BY <1>5
<1> HIDE DEF g
<1>7. \A s \in SUBSET S : g[s] = SumStep(g, f, s)
  BY <1>6
<1>8. \A s \in SUBSET S : g[s] \in Int
  <2> DEFINE Bad == {s \in SUBSET S : g[s] \notin Int}
  <2> SUFFICES ASSUME Bad # {} PROVE FALSE
    OBVIOUS
  <2>1. PICK s \in Bad : \A r \in Bad : Cardinality(s) <= Cardinality(r)
    <3>1. Bad \in SUBSET (SUBSET S)
      OBVIOUS
    <3> HIDE DEF Bad
    <3> QED
      BY <3>1, SmallestSubset
  <2>2. s \in SUBSET S /\ g[s] \notin Int
    OBVIOUS
  <2>3. CASE s = {}
    <3>1. SumStep(g, f, s) = 0
      BY <2>3 DEF SumStep
    <3> QED
      BY <1>7, <2>2, <3>1
  <2>4. CASE s # {}
    <3>1. /\ First(s) \in S /\ s \ {First(s)} \in SUBSET S
          /\ Cardinality(s \ {First(s)}) = Cardinality(s) - 1
          /\ Cardinality(s) \in Nat
      BY <2>2, <2>4, SmallerSet
    <3>2. Cardinality(s \ {First(s)}) < Cardinality(s)
      BY <3>1
    <3>3. g[s \ {First(s)}] \in Int
      BY <2>1, <3>1, <3>2
    <3>4. f[First(s)] + g[s \ {First(s)}] \in Int
      BY <1>0, <3>1, <3>3
    <3> QED
      BY <1>7, <2>2, <2>4, <3>4 DEF SumStep
  <2> QED
    BY <2>3, <2>4
<1>9. g \in [SUBSET S -> Int]
  BY <1>6, <1>8
<1> QED
  BY <1>1, <1>7, <1>9 DEF IsTable

(* The sum over no element, over one, and that every sum is a number.      *)
LEMMA SumOfNone ==
  ASSUME NEW f
  PROVE  SumFunctionOnSet(f, {}) = 0
<1>1. IsFiniteSet({}) /\ Numbers(f, {})
  BY FS_EmptySet DEF Numbers
<1>2. PICK g : IsTable(g, f, {})
  BY <1>1, SumTable
<1> QED
  BY <1>2 DEF IsTable, SumStep

LEMMA SumOfOne ==
  ASSUME NEW f, NEW c, f[c] \in Int
  PROVE  SumFunctionOnSet(f, {c}) = f[c]
<1>1. IsFiniteSet({c}) /\ Numbers(f, {c})
  BY FS_Singleton DEF Numbers
<1>2. PICK g : IsTable(g, f, {c})
  BY <1>1, SumTable
<1>3. First({c}) = c
  BY FirstIn
<1>4. g[{}] = 0
  BY <1>2 DEF IsTable, SumStep
<1>5. {c} \ {c} = {} /\ {c} # {}
  OBVIOUS
<1>6. g[{c}] = f[c] + g[{}]
  BY <1>2, <1>3, <1>5 DEF IsTable, SumStep
<1> QED
  BY <1>2, <1>4, <1>6 DEF IsTable

LEMMA SumIsInt ==
  ASSUME NEW S, IsFiniteSet(S), NEW f \in [S -> Int]
  PROVE  SumFunction(f) \in Int
<1>1. Numbers(f, S) /\ DOMAIN f = S
  BY DEF Numbers
<1>2. PICK g : IsTable(g, f, S)
  BY <1>1, SumTable
<1> QED
  BY <1>1, <1>2 DEF SumFunction, IsTable

(* Adding v at one place adds v to the sum.                                *)
LEMMA SumOfExcept ==
  ASSUME NEW S, IsFiniteSet(S), NEW f \in [S -> Int], NEW t \in S, NEW v \in Int
  PROVE  SumFunction([f EXCEPT ![t] = f[t] + v]) = SumFunction(f) + v
<1> DEFINE h == [f EXCEPT ![t] = f[t] + v]
<1>1. /\ h \in [S -> Int] /\ DOMAIN h = S /\ DOMAIN f = S
      /\ h[t] = f[t] + v /\ \A e \in S : e # t => h[e] = f[e]
  OBVIOUS
<1> HIDE DEF h
<1>2. /\ Numbers(f, S) /\ Numbers(h, S)
  BY <1>1 DEF Numbers
<1>3. PICK a : IsTable(a, f, S)
  BY <1>2, SumTable
<1>4. PICK b : IsTable(b, h, S)
  BY <1>2, SumTable
<1> DEFINE Plus(s) == IF t \in s THEN v ELSE 0
           Bad == {s \in SUBSET S : b[s] # a[s] + Plus(s)}
<1>5. Bad = {}
  <2> SUFFICES ASSUME Bad # {} PROVE FALSE
    OBVIOUS
  <2>1. PICK s \in Bad : \A r \in Bad : Cardinality(s) <= Cardinality(r)
    <3>1. Bad \in SUBSET (SUBSET S)
      OBVIOUS
    <3> HIDE DEF Bad
    <3> QED
      BY <3>1, SmallestSubset
  <2>2. s \in SUBSET S /\ b[s] # a[s] + Plus(s)
    OBVIOUS
  <2>3. CASE s = {}
    <3>1. a[s] = 0 /\ b[s] = 0
      BY <1>3, <1>4, <2>2, <2>3 DEF IsTable, SumStep
    <3> QED
      BY <2>2, <2>3, <3>1
  <2>4. CASE s # {}
    <3>1. PICK x \in s : x = First(s) /\ x \in S
      BY <2>2, <2>4, SmallerSet
    <3>2. PICK r \in SUBSET S : r = s \ {x}
      BY <2>2
    <3>3. Cardinality(r) = Cardinality(s) - 1 /\ Cardinality(s) \in Nat
      BY <2>2, <2>4, <3>1, <3>2, SmallerSet
    <3>4. b[r] = a[r] + Plus(r)
      <4>1. ~(Cardinality(s) <= Cardinality(r))
        BY <3>3
      <4>2. r \notin Bad
        BY <2>1, <4>1
      <4> QED
        BY <3>2, <4>2
    <3>5. a[s] = f[x] + a[r] /\ b[s] = h[x] + b[r]
      BY <1>3, <1>4, <2>2, <2>4, <3>1, <3>2 DEF IsTable, SumStep
    <3>6. f[x] \in Int /\ h[x] \in Int /\ a[r] \in Int
      BY <1>1, <1>3, <3>1, <3>2 DEF IsTable
    <3>7. CASE x = t
      <4>1. Plus(r) = 0 /\ Plus(s) = v /\ h[x] = f[x] + v
        BY <1>1, <3>1, <3>2, <3>7
      <4> QED
        BY <2>2, <3>4, <3>5, <3>6, <4>1
    <3>8. CASE x # t
      <4>1. Plus(r) = Plus(s) /\ h[x] = f[x] /\ Plus(r) \in Int
        BY <1>1, <3>1, <3>2, <3>8
      <4> QED
        BY <2>2, <3>4, <3>5, <3>6, <4>1
    <3> QED
      BY <3>7, <3>8
  <2> QED
    BY <2>3, <2>4
<1>6. b[S] = a[S] + v
  BY <1>5
<1>7. SumFunction(f) = a[S] /\ SumFunction(h) = b[S]
  BY <1>1, <1>3, <1>4 DEF SumFunction, IsTable
<1> QED
  BY <1>6, <1>7 DEF h

(* In any number of tanks and coins none is lost or paid twice: the total  *)
(* grows by what vanishes.                                                 *)
THEOREM PaidOnce == CoinSpec => EveryCoinPaidOnce
<1>1. CoinTypeOK /\ [CoinNext]_coins =>
        [Running /\ Running' =>
           Total' = Total + SumFunctionOnSet(Value, Vanished)]_coins
  <2> SUFFICES ASSUME CoinTypeOK, CoinNext, Running, Running'
               PROVE  Total' = Total + SumFunctionOnSet(Value, Vanished)
    BY DEF coins
  <2>1. IsFiniteSet(Tank) /\ score \in [Tank -> Int]
    BY CoinAssumption, FS_Interval DEF Tank, CoinTypeOK
  <2>2. Value \in [Coin -> Int]
    BY CoinAssumption
  <2>3. ASSUME NEW c \in Coin, NEW t \in Tank, FirstHit(c, t), Collect(c, t)
        PROVE  Total' = Total + SumFunctionOnSet(Value, Vanished)
    <3>1. Vanished = {c} /\ score' = [score EXCEPT ![t] = score[t] + Value[c]]
      BY <2>3, CollectPays
    <3>2. SumFunctionOnSet(Value, {c}) = Value[c] /\ Value[c] \in Int
      BY <2>2, SumOfOne
    <3>3. SumFunction([score EXCEPT ![t] = score[t] + Value[c]])
            = SumFunction(score) + Value[c]
      BY <2>1, <3>2, SumOfExcept
    <3> QED
      BY <3>1, <3>2, <3>3 DEF Total
  <2>4. ASSUME UNCHANGED score, Vanished = {}
        PROVE  Total' = Total + SumFunctionOnSet(Value, Vanished)
    <3>1. SumFunctionOnSet(Value, {}) = 0
      BY SumOfNone
    <3>2. Total \in Int
      BY <2>1, SumIsInt DEF Total
    <3> QED
      BY <2>4, <3>1, <3>2 DEF Total
  <2>5. CASE Clk
    <3>1. CASE UNCHANGED <<valid, score>>
      BY <2>4, <3>1 DEF Vanished
    <3> QED
      BY <2>3, <2>5, <3>1 DEF Clk
  <2>6. CASE CheckGears
    <3>1. score' = score /\ Vanished = {}
      BY <2>6 DEF CheckGears, Put, Vanished, CoinTypeOK
    <3> QED
      BY <2>4, <3>1
  <2>7. CASE Frame
    <3>1. score' = score /\ Vanished = {}
      BY <2>7 DEF Frame, engine, Vanished
    <3> QED
      BY <2>4, <3>1
  <2>8. CASE InitCoin \/ InitScore
    BY <2>8, CoinAssumption DEF InitCoin, InitScore, Running, CoinTypeOK
  <2>9. CASE Reset
    <3>1. Kinds = 0 /\ Tanks = 0
      BY <2>9, CoinAssumption DEF Reset, Running
    <3>2. Coin = {} /\ Tank = {}
      BY <3>1 DEF Coin, Tank
    <3>3. score' = score /\ Vanished = {}
      BY <2>9, <3>2 DEF Reset, AllTanks, Vanished, CoinTypeOK
    <3> QED
      BY <2>4, <3>3
  <2> QED
    BY <2>5, <2>6, <2>7, <2>8, <2>9 DEF CoinNext
<1> QED
  BY <1>1, CoinTypes, PTL DEF CoinSpec, EveryCoinPaidOnce

-----------------------------------------------------------------------------
(* The menu.                                                               *)

(* The number whose bits are those of c.                                   *)
BitsOf(c) ==
  (IF 1 \in c THEN 1 ELSE 0) + (IF 2 \in c THEN 2 ELSE 0)
    + (IF 4 \in c THEN 4 ELSE 0)

(* A key that has done something is the one last seen, and the map field   *)
(* holds the bits of the maps chosen, no more and no less.                 *)
MenuInv ==
  /\ MenuTypeOK
  /\ acted => held = last_key
  /\ map = BitsOf(chosen)

LEMMA OrAddsTheBit ==
  ASSUME NEW c \in SUBSET {1, 2, 4}, NEW b \in {1, 2, 4}
  PROVE  Or(BitsOf(c), b) = BitsOf(c \union {b}) /\ BitsOf(c) \in 0 .. 7
<1>1. \A d : (d \in {1, 2, 4} /\ d # b) => (d \in c \union {b} <=> d \in c)
  OBVIOUS
<1>2. b \in c \union {b}
  OBVIOUS
<1>3. CASE b = 1
  BY <1>1, <1>2, <1>3 DEF Or, BitsOf
<1>4. CASE b = 2
  BY <1>1, <1>2, <1>4 DEF Or, BitsOf
<1>5. CASE b = 4
  BY <1>1, <1>2, <1>5 DEF Or, BitsOf
<1> QED
  BY <1>3, <1>4, <1>5

LEMMA MenuInvInit ==
  ASSUME MenuInit
  PROVE  MenuInv
<1>1. ~acted /\ ~started /\ acted \in BOOLEAN /\ started \in BOOLEAN
  BY DEF MenuInit
<1>2. held = NoKey /\ last_key = NoKey /\ menu_state = 0 /\ map = 0
      /\ chosen = {}
  BY DEF MenuInit
<1> QED
  BY <1>1, <1>2 DEF MenuInv, MenuTypeOK, BitsOf, Key

LEMMA MenuInvStep ==
  ASSUME MenuInv, MenuNext \/ UNCHANGED menu
  PROVE  MenuInv'
<1>1. CASE UNCHANGED menu
  BY <1>1 DEF menu, MenuInv, MenuTypeOK, BitsOf
<1>2. CASE ChangeKey
  BY <1>2 DEF ChangeKey, MenuInv, MenuTypeOK, BitsOf
<1>3. CASE MenuControl
  <2>1. held' = held /\ last_key' = held /\ held \in Key
    BY <1>3 DEF MenuControl, MenuInv, MenuTypeOK
  <2>2. CASE Ignore
    BY <2>1, <2>2 DEF Ignore, MenuInv, MenuTypeOK, BitsOf
  <2>3. CASE Start
    BY <2>1, <2>3 DEF Start, MenuInv, MenuTypeOK, BitsOf
  <2>4. CASE Choose
    <3>1. PICK b \in {1, 2, 4} : b = Bit[menu_state]
      BY <2>4 DEF Choose, Bit
    <3>2. map' = Or(BitsOf(chosen), b) /\ chosen' = chosen \union {b}
      BY <2>4, <3>1 DEF Choose, MenuInv
    <3>3. chosen' \in SUBSET {1, 2, 4} /\ chosen \in SUBSET {1, 2, 4}
      BY <3>1, <3>2 DEF MenuInv, MenuTypeOK
    <3>4. map' = BitsOf(chosen') /\ BitsOf(chosen') \in 0 .. 7
      BY <3>1, <3>2, <3>3, OrAddsTheBit
    <3>5. menu_state' = 1 /\ acted' = TRUE /\ started' = started
      BY <2>4 DEF Choose
    <3> QED
      BY <2>1, <3>3, <3>4, <3>5 DEF MenuInv, MenuTypeOK, BitsOf
  <2>5. ASSUME NEW s \in 0 .. 5, Move(s)
        PROVE  MenuInv'
    BY <2>1, <2>5 DEF Move, MenuInv, MenuTypeOK, BitsOf
  <2>6. CASE menu_state = 1 /\ held = Enter /\ Move(3)
    BY <2>5, <2>6
  <2>7. CASE menu_state \in DOMAIN Below /\ held = Down /\ Move(Below[menu_state])
    <3>1. Below[menu_state] \in 0 .. 5
      BY <2>7 DEF Below
    <3> QED
      BY <2>5, <2>7, <3>1
  <2>8. CASE menu_state \in DOMAIN Above /\ held = Up /\ Move(Above[menu_state])
    <3>1. Above[menu_state] \in 0 .. 5
      BY <2>8 DEF Above
    <3> QED
      BY <2>5, <2>8, <3>1
  <2> QED
    BY <1>3, <2>2, <2>3, <2>4, <2>6, <2>7, <2>8 DEF MenuControl, React
<1> QED
  BY <1>1, <1>2, <1>3 DEF MenuNext

LEMMA MenuInvAlways == Spec => []MenuInv
<1>1. Init => MenuInv
  BY MenuInvInit DEF Init
<1>2. MenuInv /\ [Next]_vars => MenuInv'
  <2> SUFFICES ASSUME MenuInv, [Next]_vars
               PROVE  MenuInv'
    OBVIOUS
  <2>1. MenuNext \/ UNCHANGED menu
    BY DEF Next, vars, Report, CheckGear, DrawPlanned, DrawBackUp, DrawBefore,
           WriteWall, Take
  <2> QED
    BY <2>1, MenuInvStep
<1> QED
  BY <1>1, <1>2, PTL DEF Spec

(* One press of a key takes the menu one step, whatever is pressed and     *)
(* however often the keyboard reports it (menu_control, game.c:541-607).   *)
THEOREM KeyActsOnce == Spec => OnePressOneStep
<1>1. MenuInv /\ [Next]_vars =>
        [acted /\ acted' => UNCHANGED <<menu_state, map, started>>]_menu
  <2> SUFFICES ASSUME MenuInv, [Next]_vars, ~UNCHANGED menu, acted, acted'
               PROVE  UNCHANGED <<menu_state, map, started>>
    OBVIOUS
  <2>1. MenuNext
    BY DEF Next, vars, Report, CheckGear, DrawPlanned, DrawBackUp, DrawBefore,
           WriteWall, Take
  <2>2. held = last_key
    BY DEF MenuInv
  <2> QED
    BY <2>1, <2>2 DEF MenuNext, ChangeKey, MenuControl
<1> QED
  BY <1>1, MenuInvAlways, PTL DEF Spec, OnePressOneStep

-----------------------------------------------------------------------------
(* The maps.                                                               *)

IsRow(s, x, y, n) ==
  /\ s \in Seq(Place) /\ Len(s) = n
  /\ \A i \in 1 .. n : s[i] = <<x + (i - 1) * 32, y>>

IsColumn(s, x, y, n) ==
  /\ s \in Seq(Place) /\ Len(s) = n
  /\ \A i \in 1 .. n : s[i] = <<x, y + (i - 1) * 32>>

LEMMA RowIs ==
  ASSUME NEW x \in Nat, NEW y \in Nat, NEW n \in Nat
  PROVE  IsRow(Row(x, y, n), x, y, n)
<1>1. Unit = 32
  BY FieldAssumption
<1>2. \A i \in 1 .. n : <<x + (i - 1) * 32, y>> \in Place
  BY DEF Place
<1>3. Row(x, y, n) \in [1 .. n -> Place]
  BY <1>1, <1>2 DEF Row
<1>4. Row(x, y, n) \in Seq(Place)
  BY <1>3, SeqDef
<1>5. Len(Row(x, y, n)) = n
  BY <1>3, <1>4, LenProperties
<1>6. \A i \in 1 .. n : Row(x, y, n)[i] = <<x + (i - 1) * 32, y>>
  BY <1>1 DEF Row
<1> QED
  BY <1>4, <1>5, <1>6 DEF IsRow

LEMMA ColumnIs ==
  ASSUME NEW x \in Nat, NEW y \in Nat, NEW n \in Nat
  PROVE  IsColumn(Column(x, y, n), x, y, n)
<1>1. Unit = 32
  BY FieldAssumption
<1>2. \A i \in 1 .. n : <<x, y + (i - 1) * 32>> \in Place
  BY DEF Place
<1>3. Column(x, y, n) \in [1 .. n -> Place]
  BY <1>1, <1>2 DEF Column
<1>4. Column(x, y, n) \in Seq(Place)
  BY <1>3, SeqDef
<1>5. Len(Column(x, y, n)) = n
  BY <1>3, <1>4, LenProperties
<1>6. \A i \in 1 .. n : Column(x, y, n)[i] = <<x, y + (i - 1) * 32>>
  BY <1>1 DEF Column
<1> QED
  BY <1>4, <1>5, <1>6 DEF IsColumn

(* s is a up to k, then b up to l, then c up to n.                         *)
IsJoin(s, a, b, c, k, l, n) ==
  /\ s \in Seq(Place) /\ Len(s) = n
  /\ \A i \in 1 .. n :
       s[i] = IF i <= k THEN a[i] ELSE IF i <= l THEN b[i - k] ELSE c[i - l]

LEMMA ThreeParts ==
  ASSUME NEW a \in Seq(Place), NEW b \in Seq(Place), NEW c \in Seq(Place),
         NEW k \in Nat, NEW l \in Nat, NEW n \in Nat,
         Len(a) = k, k + Len(b) = l, l + Len(c) = n
  PROVE  IsJoin(a \o b \o c, a, b, c, k, l, n)
<1>1. /\ a \o b \in Seq(Place) /\ Len(a \o b) = l
      /\ \A i \in 1 .. l :
           (a \o b)[i] = IF i <= k THEN a[i] ELSE b[i - k]
  BY ConcatProperties
<1>2. PICK d \in Seq(Place) :
        /\ d = a \o b /\ Len(d) = l
        /\ \A i \in 1 .. l : d[i] = IF i <= k THEN a[i] ELSE b[i - k]
  BY <1>1
<1>3. /\ d \o c \in Seq(Place) /\ Len(d \o c) = n
      /\ \A i \in 1 .. n :
           (d \o c)[i] = IF i <= l THEN d[i] ELSE c[i - l]
  <2>1. /\ d \o c \in Seq(Place) /\ Len(d \o c) = Len(d) + Len(c)
        /\ \A i \in 1 .. Len(d) + Len(c) :
             (d \o c)[i] = IF i <= Len(d) THEN d[i] ELSE c[i - Len(d)]
    BY <1>2, ConcatProperties
  <2>2. Len(d) + Len(c) = n
    BY <1>2
  <2> QED
    BY <1>2, <2>1, <2>2
<1>4. IsJoin(d \o c, a, b, c, k, l, n)
  <2>1. k \in 0 .. l /\ l \in 0 .. n
    BY LenProperties
  <2> QED
    BY <1>2, <1>3, <2>1 DEF IsJoin
<1> QED
  BY <1>2, <1>4, Zenon

(* What holds of the walls of a map: they lie between columns 240 and 464  *)
(* and rows 112 and 336, at multiples of 16, and no two at one place.      *)
InBox(w) ==
  /\ w \in Place
  /\ 240 <= w[1] /\ w[1] <= 464 /\ 112 <= w[2] /\ w[2] <= 336
  /\ w[1] % 16 = 0 /\ w[2] % 16 = 0

IsPlan(s) ==
  /\ s \in Seq(Place) /\ Len(s) \in 1 .. 15
  /\ \A i \in 1 .. Len(s) : InBox(s[i])
  /\ \A i, j \in 1 .. Len(s) : i # j => s[i] # s[j]

(* The U map.                                                              *)
LEMMA MapU ==
  ASSUME NEW m, m = 1
  PROVE  IsPlan(Plan(m))
<1> DEFINE a == Column(240, 144, 6)
<1> DEFINE b == Column(368, 144, 6)
<1> DEFINE c == Row(272, 304, 3)
<1>1. Plan(m) = a \o b \o c
  <2>1. m # 2 /\ m # 4
    OBVIOUS
  <2> QED
    BY <2>1, Zenon DEF Plan
<1>2. /\ IsColumn(a, 240, 144, 6)
      /\ IsColumn(b, 368, 144, 6)
      /\ IsRow(c, 272, 304, 3)
  BY RowIs, ColumnIs
<1> HIDE DEF a, b, c
<1>3. /\ a \in Seq(Place) /\ Len(a) = 6
      /\ b \in Seq(Place) /\ Len(b) = 6
      /\ c \in Seq(Place) /\ Len(c) = 3
  BY <1>2 DEF IsRow, IsColumn
<1>4. PICK s : s = Plan(m) /\ IsJoin(s, a, b, c, 6, 12, 15)
  <2>1. 6 + Len(b) = 12 /\ 12 + Len(c) = 15
    BY <1>3
  <2> QED
    BY <1>1, <1>3, <2>1, ThreeParts
<1>5. s \in Seq(Place) /\ Len(s) = 15
  BY <1>3, <1>4 DEF IsJoin
<1>6. \A i \in 1 .. 15 :
        s[i] = IF i <= 6 THEN a[i] ELSE IF i <= 12 THEN b[i - 6] ELSE c[i - 12]
  BY <1>3, <1>4 DEF IsJoin
<1>7. \A i \in 1 .. 15 :
        s[i] = IF i <= 6 THEN <<240, 144 + (i - 1) * 32>>
               ELSE IF i <= 12 THEN <<368, 144 + (i - 6 - 1) * 32>>
               ELSE <<272 + (i - 12 - 1) * 32, 304>>
  <2> SUFFICES ASSUME NEW i \in 1 .. 15
               PROVE  s[i] = IF i <= 6 THEN <<240, 144 + (i - 1) * 32>>
                             ELSE IF i <= 12 THEN <<368, 144 + (i - 6 - 1) * 32>>
                             ELSE <<272 + (i - 12 - 1) * 32, 304>>
    OBVIOUS
  <2>1. i <= 6 => i \in 1 .. 6
    OBVIOUS
  <2>2. i > 6 /\ i <= 12 => i - 6 \in 1 .. 6
    OBVIOUS
  <2>3. i > 12 => i - 12 \in 1 .. 3
    OBVIOUS
  <2>4. /\ i <= 6 => a[i] = <<240, 144 + (i - 1) * 32>>
        /\ i > 6 /\ i <= 12 =>
             b[i - 6] = <<368, 144 + (i - 6 - 1) * 32>>
        /\ i > 12 => c[i - 12] = <<272 + (i - 12 - 1) * 32, 304>>
    BY <1>2, <2>1, <2>2, <2>3 DEF IsRow, IsColumn
  <2>5. s[i] = IF i <= 6 THEN a[i]
               ELSE IF i <= 12 THEN b[i - 6] ELSE c[i - 12]
    BY <1>6
  <2> QED
    BY <2>4, <2>5
<1>8. \A i \in 1 .. 15 : InBox(s[i])
  <2>1. \A i \in 1 .. 15 : s[i] \in Place
    BY <1>5, ElementOfSeq
  <2>2. \A i \in 1 .. 15 :
          240 <= s[i][1] /\ s[i][1] <= 464 /\ 112 <= s[i][2] /\ s[i][2] <= 336
    BY <1>7
  <2>3. \A i \in 1 .. 15 : s[i][1] % 16 = 0 /\ s[i][2] % 16 = 0
    BY <1>7
  <2> QED
    BY <2>1, <2>2, <2>3 DEF InBox
<1>9. \A i, j \in 1 .. 15 : i # j => s[i] # s[j]
  BY <1>7
<1> QED
  <2>1. IsPlan(s)
    BY <1>5, <1>8, <1>9 DEF IsPlan
  <2> QED
    BY <1>4, <2>1

(* The I map when it is chosen: its middle line is a row, too.             *)
LEMMA MapTwo ==
  ASSUME NEW m, m = 2
  PROVE  IsPlan(Plan(m))
<1> DEFINE a == Row(272, 112, 3)
<1> DEFINE b == Row(272, 336, 3)
<1> DEFINE c == Row(304, 144, 6)
<1>1. Plan(m) = a \o b \o c
  <2>1. m # 1 /\ m # 4
    OBVIOUS
  <2> QED
    BY <2>1, Zenon DEF Plan
<1>2. /\ IsRow(a, 272, 112, 3)
      /\ IsRow(b, 272, 336, 3)
      /\ IsRow(c, 304, 144, 6)
  BY RowIs, ColumnIs
<1> HIDE DEF a, b, c
<1>3. /\ a \in Seq(Place) /\ Len(a) = 3
      /\ b \in Seq(Place) /\ Len(b) = 3
      /\ c \in Seq(Place) /\ Len(c) = 6
  BY <1>2 DEF IsRow, IsColumn
<1>4. PICK s : s = Plan(m) /\ IsJoin(s, a, b, c, 3, 6, 12)
  <2>1. 3 + Len(b) = 6 /\ 6 + Len(c) = 12
    BY <1>3
  <2> QED
    BY <1>1, <1>3, <2>1, ThreeParts
<1>5. s \in Seq(Place) /\ Len(s) = 12
  BY <1>3, <1>4 DEF IsJoin
<1>6. \A i \in 1 .. 12 :
        s[i] = IF i <= 3 THEN a[i] ELSE IF i <= 6 THEN b[i - 3] ELSE c[i - 6]
  BY <1>3, <1>4 DEF IsJoin
<1>7. \A i \in 1 .. 12 :
        s[i] = IF i <= 3 THEN <<272 + (i - 1) * 32, 112>>
               ELSE IF i <= 6 THEN <<272 + (i - 3 - 1) * 32, 336>>
               ELSE <<304 + (i - 6 - 1) * 32, 144>>
  <2> SUFFICES ASSUME NEW i \in 1 .. 12
               PROVE  s[i] = IF i <= 3 THEN <<272 + (i - 1) * 32, 112>>
                             ELSE IF i <= 6 THEN <<272 + (i - 3 - 1) * 32, 336>>
                             ELSE <<304 + (i - 6 - 1) * 32, 144>>
    OBVIOUS
  <2>1. i <= 3 => i \in 1 .. 3
    OBVIOUS
  <2>2. i > 3 /\ i <= 6 => i - 3 \in 1 .. 3
    OBVIOUS
  <2>3. i > 6 => i - 6 \in 1 .. 6
    OBVIOUS
  <2>4. /\ i <= 3 => a[i] = <<272 + (i - 1) * 32, 112>>
        /\ i > 3 /\ i <= 6 =>
             b[i - 3] = <<272 + (i - 3 - 1) * 32, 336>>
        /\ i > 6 => c[i - 6] = <<304 + (i - 6 - 1) * 32, 144>>
    BY <1>2, <2>1, <2>2, <2>3 DEF IsRow, IsColumn
  <2>5. s[i] = IF i <= 3 THEN a[i]
               ELSE IF i <= 6 THEN b[i - 3] ELSE c[i - 6]
    BY <1>6
  <2> QED
    BY <2>4, <2>5
<1>8. \A i \in 1 .. 12 : InBox(s[i])
  <2>1. \A i \in 1 .. 12 : s[i] \in Place
    BY <1>5, ElementOfSeq
  <2>2. \A i \in 1 .. 12 :
          240 <= s[i][1] /\ s[i][1] <= 464 /\ 112 <= s[i][2] /\ s[i][2] <= 336
    BY <1>7
  <2>3. \A i \in 1 .. 12 : s[i][1] % 16 = 0 /\ s[i][2] % 16 = 0
    BY <1>7
  <2> QED
    BY <2>1, <2>2, <2>3 DEF InBox
<1>9. \A i, j \in 1 .. 12 : i # j => s[i] # s[j]
  BY <1>7
<1> QED
  <2>1. IsPlan(s)
    BY <1>5, <1>8, <1>9 DEF IsPlan
  <2> QED
    BY <1>4, <2>1

(* The C map.                                                              *)
LEMMA MapC ==
  ASSUME NEW m, m = 4
  PROVE  IsPlan(Plan(m))
<1> DEFINE a == Row(272, 160, 4)
<1> DEFINE b == Row(272, 288, 4)
<1> DEFINE c == Column(240, 160, 5)
<1>1. Plan(m) = a \o b \o c
  <2>1. m # 1 /\ m # 2
    OBVIOUS
  <2> QED
    BY <2>1, Zenon DEF Plan
<1>2. /\ IsRow(a, 272, 160, 4)
      /\ IsRow(b, 272, 288, 4)
      /\ IsColumn(c, 240, 160, 5)
  BY RowIs, ColumnIs
<1> HIDE DEF a, b, c
<1>3. /\ a \in Seq(Place) /\ Len(a) = 4
      /\ b \in Seq(Place) /\ Len(b) = 4
      /\ c \in Seq(Place) /\ Len(c) = 5
  BY <1>2 DEF IsRow, IsColumn
<1>4. PICK s : s = Plan(m) /\ IsJoin(s, a, b, c, 4, 8, 13)
  <2>1. 4 + Len(b) = 8 /\ 8 + Len(c) = 13
    BY <1>3
  <2> QED
    BY <1>1, <1>3, <2>1, ThreeParts
<1>5. s \in Seq(Place) /\ Len(s) = 13
  BY <1>3, <1>4 DEF IsJoin
<1>6. \A i \in 1 .. 13 :
        s[i] = IF i <= 4 THEN a[i] ELSE IF i <= 8 THEN b[i - 4] ELSE c[i - 8]
  BY <1>3, <1>4 DEF IsJoin
<1>7. \A i \in 1 .. 13 :
        s[i] = IF i <= 4 THEN <<272 + (i - 1) * 32, 160>>
               ELSE IF i <= 8 THEN <<272 + (i - 4 - 1) * 32, 288>>
               ELSE <<240, 160 + (i - 8 - 1) * 32>>
  <2> SUFFICES ASSUME NEW i \in 1 .. 13
               PROVE  s[i] = IF i <= 4 THEN <<272 + (i - 1) * 32, 160>>
                             ELSE IF i <= 8 THEN <<272 + (i - 4 - 1) * 32, 288>>
                             ELSE <<240, 160 + (i - 8 - 1) * 32>>
    OBVIOUS
  <2>1. i <= 4 => i \in 1 .. 4
    OBVIOUS
  <2>2. i > 4 /\ i <= 8 => i - 4 \in 1 .. 4
    OBVIOUS
  <2>3. i > 8 => i - 8 \in 1 .. 5
    OBVIOUS
  <2>4. /\ i <= 4 => a[i] = <<272 + (i - 1) * 32, 160>>
        /\ i > 4 /\ i <= 8 =>
             b[i - 4] = <<272 + (i - 4 - 1) * 32, 288>>
        /\ i > 8 => c[i - 8] = <<240, 160 + (i - 8 - 1) * 32>>
    BY <1>2, <2>1, <2>2, <2>3 DEF IsRow, IsColumn
  <2>5. s[i] = IF i <= 4 THEN a[i]
               ELSE IF i <= 8 THEN b[i - 4] ELSE c[i - 8]
    BY <1>6
  <2> QED
    BY <2>4, <2>5
<1>8. \A i \in 1 .. 13 : InBox(s[i])
  <2>1. \A i \in 1 .. 13 : s[i] \in Place
    BY <1>5, ElementOfSeq
  <2>2. \A i \in 1 .. 13 :
          240 <= s[i][1] /\ s[i][1] <= 464 /\ 112 <= s[i][2] /\ s[i][2] <= 336
    BY <1>7
  <2>3. \A i \in 1 .. 13 : s[i][1] % 16 = 0 /\ s[i][2] % 16 = 0
    BY <1>7
  <2> QED
    BY <2>1, <2>2, <2>3 DEF InBox
<1>9. \A i, j \in 1 .. 13 : i # j => s[i] # s[j]
  BY <1>7
<1> QED
  <2>1. IsPlan(s)
    BY <1>5, <1>8, <1>9 DEF IsPlan
  <2> QED
    BY <1>4, <2>1

(* The I map of every other number, with a column in the middle.           *)
LEMMA MapI ==
  ASSUME NEW m, m # 1, m # 2, m # 4
  PROVE  IsPlan(Plan(m))
<1> DEFINE a == Row(272, 112, 3)
<1> DEFINE b == Row(272, 336, 3)
<1> DEFINE c == Column(304, 144, 6)
<1>1. Plan(m) = a \o b \o c
  BY Zenon DEF Plan
<1>2. /\ IsRow(a, 272, 112, 3)
      /\ IsRow(b, 272, 336, 3)
      /\ IsColumn(c, 304, 144, 6)
  BY RowIs, ColumnIs
<1> HIDE DEF a, b, c
<1>3. /\ a \in Seq(Place) /\ Len(a) = 3
      /\ b \in Seq(Place) /\ Len(b) = 3
      /\ c \in Seq(Place) /\ Len(c) = 6
  BY <1>2 DEF IsRow, IsColumn
<1>4. PICK s : s = Plan(m) /\ IsJoin(s, a, b, c, 3, 6, 12)
  <2>1. 3 + Len(b) = 6 /\ 6 + Len(c) = 12
    BY <1>3
  <2> QED
    BY <1>1, <1>3, <2>1, ThreeParts
<1>5. s \in Seq(Place) /\ Len(s) = 12
  BY <1>3, <1>4 DEF IsJoin
<1>6. \A i \in 1 .. 12 :
        s[i] = IF i <= 3 THEN a[i] ELSE IF i <= 6 THEN b[i - 3] ELSE c[i - 6]
  BY <1>3, <1>4 DEF IsJoin
<1>7. \A i \in 1 .. 12 :
        s[i] = IF i <= 3 THEN <<272 + (i - 1) * 32, 112>>
               ELSE IF i <= 6 THEN <<272 + (i - 3 - 1) * 32, 336>>
               ELSE <<304, 144 + (i - 6 - 1) * 32>>
  <2> SUFFICES ASSUME NEW i \in 1 .. 12
               PROVE  s[i] = IF i <= 3 THEN <<272 + (i - 1) * 32, 112>>
                             ELSE IF i <= 6 THEN <<272 + (i - 3 - 1) * 32, 336>>
                             ELSE <<304, 144 + (i - 6 - 1) * 32>>
    OBVIOUS
  <2>1. i <= 3 => i \in 1 .. 3
    OBVIOUS
  <2>2. i > 3 /\ i <= 6 => i - 3 \in 1 .. 3
    OBVIOUS
  <2>3. i > 6 => i - 6 \in 1 .. 6
    OBVIOUS
  <2>4. /\ i <= 3 => a[i] = <<272 + (i - 1) * 32, 112>>
        /\ i > 3 /\ i <= 6 =>
             b[i - 3] = <<272 + (i - 3 - 1) * 32, 336>>
        /\ i > 6 => c[i - 6] = <<304, 144 + (i - 6 - 1) * 32>>
    BY <1>2, <2>1, <2>2, <2>3 DEF IsRow, IsColumn
  <2>5. s[i] = IF i <= 3 THEN a[i]
               ELSE IF i <= 6 THEN b[i - 3] ELSE c[i - 6]
    BY <1>6
  <2> QED
    BY <2>4, <2>5
<1>8. \A i \in 1 .. 12 : InBox(s[i])
  <2>1. \A i \in 1 .. 12 : s[i] \in Place
    BY <1>5, ElementOfSeq
  <2>2. \A i \in 1 .. 12 :
          240 <= s[i][1] /\ s[i][1] <= 464 /\ 112 <= s[i][2] /\ s[i][2] <= 336
    BY <1>7
  <2>3. \A i \in 1 .. 12 : s[i][1] % 16 = 0 /\ s[i][2] % 16 = 0
    BY <1>7
  <2> QED
    BY <2>1, <2>2, <2>3 DEF InBox
<1>9. \A i, j \in 1 .. 12 : i # j => s[i] # s[j]
  BY <1>7
<1> QED
  <2>1. IsPlan(s)
    BY <1>5, <1>8, <1>9 DEF IsPlan
  <2> QED
    BY <1>4, <2>1

LEMMA EveryMap ==
  ASSUME NEW m
  PROVE  IsPlan(Plan(m))
BY MapU, MapTwo, MapC, MapI

-----------------------------------------------------------------------------
(* The walls.                                                              *)

BackUp == {BackUps[i] : i \in 1 .. Len(BackUps)}

Pulled == {BackUps[k] : k \in 1 .. pulled}

(* The walls written are those of the map at the same numbers or back-ups  *)
(* that have been pulled; nothing is written before the game is started,   *)
(* and draw_wall runs only while a wall is left to write.                  *)
DrawInv ==
  /\ ~started => turn = 0 /\ walls = << >>
  /\ Len(walls) <= Len(Plan(map))
  /\ turn = Drawing => Len(walls) < Len(Plan(map))
  /\ \A i \in 1 .. Len(walls) :
       walls[i] = Plan(map)[i] \/ walls[i] \in Pulled \union {Before}

(* What WriteWall does to the registers.                                   *)
LEMMA WallWritten ==
  ASSUME walls \in Seq(Place), NEW w \in Place, WriteWall(w)
  PROVE  /\ walls' \in Seq(Place) /\ Len(walls') = Len(walls) + 1
         /\ \A i \in 1 .. Len(walls) : walls'[i] = walls[i]
         /\ walls'[Len(walls) + 1] = w
         /\ Drawn' = Drawn \union {w}
<1>1. /\ walls' \in Seq(Place) /\ Len(walls') = Len(walls) + 1
      /\ \A i \in 1 .. Len(walls) : walls'[i] = walls[i]
      /\ walls'[Len(walls) + 1] = w
  BY AppendProperties DEF WriteWall
<1>2. Len(walls) \in Nat
  BY LenProperties
<1>3. \A i \in 1 .. Len(walls) + 1 : i \in 1 .. Len(walls) \/ i = Len(walls) + 1
  BY <1>2
<1>4. Drawn' = {walls'[i] : i \in 1 .. Len(walls) + 1}
  BY <1>1 DEF Drawn
<1>5. \A v \in Drawn' : v \in Drawn \union {w}
  BY <1>1, <1>3, <1>4 DEF Drawn
<1>6. \A v \in Drawn \union {w} : v \in Drawn'
  BY <1>1, <1>2, <1>4 DEF Drawn
<1> QED
  BY <1>1, <1>5, <1>6

LEMMA BackUpIs ==
  /\ BackUp \subseteq Place /\ Before \in Place
  /\ Len(BackUps) \in Nat
  /\ \A i \in 1 .. Len(BackUps) : BackUps[i] \in Place /\ BackUps[i] \in BackUp
  /\ \A w \in BackUp : ~InBox(w)
<1>1. BackUps \in Seq(Place) /\ Before \in Place
  BY PlacementAssumption
<1>2. Len(BackUps) \in Nat /\ \A i \in 1 .. Len(BackUps) : BackUps[i] \in Place
  BY <1>1, LenProperties, ElementOfSeq
<1>3. \A i \in 1 .. Len(BackUps) : ~InBox(BackUps[i])
  <2> SUFFICES ASSUME NEW i \in 1 .. Len(BackUps), InBox(BackUps[i])
               PROVE  FALSE
    OBVIOUS
  <2>1. BackUps[i][1] < 240 \/ BackUps[i][1] > 464
    BY FieldAssumption
  <2>2. BackUps[i][1] \in Nat
    BY <1>2 DEF Place
  <2> QED
    BY <2>1, <2>2 DEF InBox
<1> QED
  BY <1>1, <1>2, <1>3 DEF BackUp

(* The next wall of the map is a wall of the map.                          *)
LEMMA NextWallIs ==
  ASSUME walls \in Seq(Place), Len(walls) < Len(Plan(map))
  PROVE  InBox(NextWall) /\ NextWall \in Place
<1>1. IsPlan(Plan(map))
  BY EveryMap
<1>2. Len(walls) \in Nat
  BY LenProperties
<1>3. Len(walls) + 1 \in 1 .. Len(Plan(map))
  BY <1>1, <1>2 DEF IsPlan
<1> QED
  BY <1>1, <1>3 DEF NextWall, IsPlan, InBox

(* A wall that is drawn is one of a map, or a back-up.                     *)
LEMMA DrawnWhere ==
  ASSUME TypeOK, DrawInv, NEW i \in 1 .. Len(walls)
  PROVE  walls[i] \in BackUp \union {Before} \/ InBox(walls[i])
<1>1. IsPlan(Plan(map))
  BY EveryMap
<1>2. Len(walls) \in Nat /\ i \in 1 .. Len(Plan(map))
  BY <1>1, LenProperties DEF TypeOK, DrawInv, IsPlan
<1>3. CASE walls[i] = Plan(map)[i]
  BY <1>1, <1>2, <1>3 DEF IsPlan
<1>4. CASE walls[i] \in Pulled \union {Before}
  <2>1. Pulled \subseteq BackUp
    BY BackUpIs DEF Pulled, BackUp, TypeOK
  <2> QED
    BY <1>4, <2>1
<1> QED
  BY <1>3, <1>4 DEF DrawInv

LEMMA WallTypesInit ==
  ASSUME Init
  PROVE  TypeOK
<1>1. MenuTypeOK
  BY MenuInvInit DEF Init, MenuInv
<1>2. walls \in Seq(Place) /\ Len(walls) = 0
  BY EmptySeq DEF Init
<1> QED
  BY <1>1, <1>2, BackUpIs, PlacementAssumption DEF Init, TypeOK, Prop, Drawing

LEMMA WallTypesStep ==
  ASSUME TypeOK, MenuInv, DrawInv, [Next]_vars
  PROVE  TypeOK'
<1>1. MenuTypeOK'
  <2>1. MenuNext \/ UNCHANGED menu
    BY DEF Next, vars, Report, CheckGear, DrawPlanned, DrawBackUp, DrawBefore,
           WriteWall, Take
  <2> QED
    BY <2>1, MenuInvStep DEF MenuInv
<1>2. /\ NCoins \in Nat /\ NGears \in Nat /\ NCoins + NGears \in 1 .. 98
      /\ Spots \subseteq Place /\ MaxTaken \in Nat
  BY PlacementAssumption DEF Drawing
<1>3. \A p \in Prop, s \in Place \union {Gone} :
        [at EXCEPT ![p] = s] \in [Prop -> Place \union {Gone}]
  BY DEF TypeOK
<1>4. CASE UNCHANGED <<at, turn, walls, pulled, taken>>
  BY <1>1, <1>4 DEF TypeOK
<1>5. CASE Report
  <2>1. turn' \in Prop
    BY <1>2, <1>5 DEF Report, Prop
  <2> QED
    BY <1>1, <1>5, <2>1 DEF Report, TypeOK
<1>6. CASE CheckGear
  <2>1. at' \in [Prop -> Place \union {Gone}]
    BY <1>2, <1>3, <1>6 DEF CheckGear, TypeOK
  <2>2. turn' \in Prop \union {0, Drawing}
    BY <1>6 DEF CheckGear
  <2> QED
    BY <1>1, <1>6, <2>1, <2>2 DEF CheckGear, TypeOK
<1>7. ASSUME NEW w \in Place, WriteWall(w), turn = Drawing
      PROVE  /\ walls' \in Seq(Place) /\ Len(walls') <= 15
             /\ at' \in [Prop -> Place \union {Gone}]
             /\ turn' \in Prop \union {0, Drawing}
             /\ taken' \in 0 .. MaxTaken
  <2>1. walls' \in Seq(Place) /\ Len(walls') = Len(walls) + 1
    BY <1>7, WallWritten DEF TypeOK
  <2>2. IsPlan(Plan(map))
    BY EveryMap
  <2>3. Len(walls') <= 15
    <3>1. Len(walls) \in Nat /\ Len(Plan(map)) \in 1 .. 15
      BY <2>2, LenProperties DEF IsPlan, TypeOK
    <3>2. Len(walls) < Len(Plan(map))
      BY <1>7 DEF DrawInv
    <3>3. PICK k \in Nat, n \in 1 .. 15 : k = Len(walls) /\ n = Len(Plan(map))
      BY <3>1
    <3>4. k < n /\ Len(walls') = k + 1
      BY <2>1, <3>2, <3>3
    <3> QED
      BY <3>4
  <2> QED
    BY <1>7, <2>1, <2>3 DEF WriteWall, TypeOK
<1>8. CASE DrawPlanned
  <2>1. NextWall \in Place
    BY <1>8, NextWallIs DEF DrawPlanned, DrawInv, TypeOK
  <2> QED
    BY <1>1, <1>7, <1>8, <2>1 DEF DrawPlanned, TypeOK
<1>9. CASE DrawBackUp
  <2>1. pulled + 1 \in 1 .. Len(BackUps)
    BY <1>9, BackUpIs DEF DrawBackUp, TypeOK
  <2>2. BackUps[pulled + 1] \in Place
    BY <2>1, BackUpIs
  <2>3. pulled' \in 0 .. Len(BackUps)
    BY <1>9, <2>1, BackUpIs DEF DrawBackUp
  <2> QED
    BY <1>1, <1>7, <1>9, <2>2, <2>3 DEF DrawBackUp, TypeOK
<1>10. CASE DrawBefore
  BY <1>1, <1>7, <1>10, BackUpIs DEF DrawBefore, TypeOK
<1>11. CASE Take
  <2>1. at' \in [Prop -> Place \union {Gone}]
    BY <1>3, <1>11 DEF Take
  <2>2. taken' \in 0 .. MaxTaken
    BY <1>2, <1>11 DEF Take, TypeOK
  <2> QED
    BY <1>1, <1>11, <2>1, <2>2 DEF Take, TypeOK
<1> QED
  BY <1>4, <1>5, <1>6, <1>8, <1>9, <1>10, <1>11 DEF Next, vars

LEMMA DrawInvInit ==
  ASSUME Init
  PROVE  DrawInv
<1>1. turn = 0 /\ walls = << >> /\ Len(walls) = 0 /\ turn # Drawing
  BY EmptySeq DEF Init, Drawing
<1>2. IsPlan(Plan(map))
  BY EveryMap
<1> QED
  BY <1>1, <1>2 DEF DrawInv, IsPlan

(* What is left to show when no wall is written and the map stays.         *)
LEMMA DrawInvKept ==
  ASSUME DrawInv, UNCHANGED <<map, walls, pulled>>,
         ~started' => turn' = 0 /\ walls = << >>,
         turn' = Drawing => Len(walls) < Len(Plan(map))
  PROVE  DrawInv'
<1>1. Plan(map') = Plan(map) /\ Pulled' = Pulled
  BY Zenon DEF Pulled
<1>2. walls' = walls /\ Len(walls') = Len(walls)
  OBVIOUS
<1> QED
  BY <1>1, <1>2 DEF DrawInv

LEMMA DrawInvStep ==
  ASSUME TypeOK, MenuInv, DrawInv, [Next]_vars
  PROVE  DrawInv'
<1>1. IsPlan(Plan(map)) /\ IsPlan(Plan(map'))
  BY EveryMap
<1>2. CASE UNCHANGED vars
  BY <1>2, DrawInvKept DEF vars, menu, DrawInv
<1>3. CASE MenuNext /\ UNCHANGED <<at, turn, walls, pulled, taken>>
  <2>1. ~started
    BY <1>3 DEF MenuNext, ChangeKey, MenuControl
  <2>2. turn' = 0 /\ walls' = << >> /\ Len(walls') = 0 /\ turn' # Drawing
    BY <1>3, <2>1, EmptySeq DEF DrawInv, Drawing
  <2> QED
    BY <1>1, <2>2 DEF DrawInv, IsPlan
<1>4. CASE Report
  <2>1. turn' # Drawing /\ started
    BY <1>4 DEF Report, Drawing
  <2> QED
    BY <1>4, <2>1, DrawInvKept DEF Report, menu
<1>5. CASE CheckGear
  <2>1. started
    BY <1>5, PlacementAssumption DEF CheckGear, DrawInv, Prop
  <2>2. turn' = Drawing => Undrawn
    BY <1>5, PlacementAssumption DEF CheckGear, Prop, Drawing
  <2> QED
    BY <1>5, <2>1, <2>2, DrawInvKept DEF CheckGear, menu, Undrawn
<1>6. ASSUME NEW w \in Place, WriteWall(w), turn = Drawing, pulled' \in Nat, pulled' >= pulled,
             \/ w = NextWall
             \/ w \in Pulled' \union {Before}
      PROVE  DrawInv'
  <2>1. /\ walls \in Seq(Place) /\ Len(walls) \in Nat
        /\ Len(walls) < Len(Plan(map)) /\ Len(Plan(map)) \in Nat
    BY <1>1, <1>6, LenProperties DEF TypeOK, DrawInv, IsPlan
  <2>2. /\ Len(walls') = Len(walls) + 1
        /\ \A i \in 1 .. Len(walls) : walls'[i] = walls[i]
        /\ walls'[Len(walls) + 1] = w
    BY <1>6, <2>1, WallWritten
  <2>3. started /\ started' /\ Plan(map') = Plan(map)
    BY <1>6 DEF WriteWall, menu, DrawInv, Drawing
  <2>4. turn' = Drawing => Len(walls') < Len(Plan(map'))
    BY <1>6, <2>1, <2>2, <2>3 DEF WriteWall, Drawing
  <2>5. Pulled \subseteq Pulled'
    <3>1. pulled \in Nat /\ \A k \in 1 .. pulled : k \in 1 .. pulled'
      BY <1>6, BackUpIs DEF TypeOK
    <3> QED
      BY <3>1 DEF Pulled
  <2>6. \A i \in 1 .. Len(walls') :
          walls'[i] = Plan(map')[i] \/ walls'[i] \in Pulled' \union {Before}
    <3> SUFFICES ASSUME NEW i \in 1 .. Len(walls')
                 PROVE  \/ walls'[i] = Plan(map')[i]
                        \/ walls'[i] \in Pulled' \union {Before}
      OBVIOUS
    <3>1. CASE i \in 1 .. Len(walls)
      BY <2>2, <2>3, <2>5, <3>1 DEF DrawInv
    <3>2. CASE i = Len(walls) + 1
      BY <1>6, <2>2, <2>3, <3>2 DEF NextWall
    <3> QED
      BY <2>1, <2>2, <3>1, <3>2
  <2> QED
    BY <2>1, <2>2, <2>3, <2>4, <2>6 DEF DrawInv
<1>7. CASE DrawPlanned
  <2>1. NextWall \in Place
    BY <1>7, NextWallIs DEF DrawPlanned, DrawInv, TypeOK
  <2>2. pulled' \in Nat /\ pulled' >= pulled
    BY <1>7, BackUpIs DEF DrawPlanned, TypeOK
  <2> QED
    BY <1>6, <1>7, <2>1, <2>2 DEF DrawPlanned
<1>8. CASE DrawBackUp
  <2>1. pulled + 1 \in 1 .. Len(BackUps) /\ pulled' = pulled + 1
    BY <1>8, BackUpIs DEF DrawBackUp, TypeOK
  <2>2. BackUps[pulled + 1] \in Place /\ pulled' \in Nat /\ pulled' >= pulled
    BY <2>1, BackUpIs DEF TypeOK
  <2>3. BackUps[pulled + 1] \in Pulled'
    BY <2>1 DEF Pulled
  <2> QED
    BY <1>6, <1>8, <2>2, <2>3 DEF DrawBackUp
<1>9. CASE DrawBefore
  <2>1. pulled' \in Nat /\ pulled' >= pulled
    BY <1>9, BackUpIs DEF DrawBefore, TypeOK
  <2> QED
    BY <1>6, <1>9, <2>1, BackUpIs DEF DrawBefore
<1>10. CASE Take
  BY <1>10, DrawInvKept DEF Take, menu, DrawInv
<1> QED
  BY <1>2, <1>3, <1>4, <1>5, <1>7, <1>8, <1>9, <1>10 DEF Next

(* A place that is legal for p is covered by no wall that lies on a        *)
(* multiple of 16: moved to the centre of a coin, too, it touches it.      *)
LEMMA LegalIsClear ==
  ASSUME NEW p, NEW s \in Spots, Legal(p, s), NEW w \in Drawn, InBox(w)
  PROVE  ~Cover(w, s)
<1>1. Unit = 32 /\ s \in Place /\ s[1] % 16 = 0 /\ s[2] % 16 = 0
  BY FieldAssumption, PlacementAssumption
<1>2. Offset(p) \in {0, 16}
  BY <1>1 DEF Offset
<1>3. s[1] \in Nat /\ s[2] \in Nat /\ w[1] \in Nat /\ w[2] \in Nat
  BY <1>1 DEF InBox, Place
<1>4. ~Touch(<<s[1] + Offset(p), s[2] + Offset(p)>>, w)
  BY DEF Legal, Registers, Drawn
<1>5. PICK o \in {0, 16} : o = Offset(p)
  BY <1>2
<1>6. ~ /\ s[1] + o <= w[1] + 32 /\ w[1] <= s[1] + o + 32
        /\ s[2] + o <= w[2] + 32 /\ w[2] <= s[2] + o + 32
  BY <1>1, <1>4, <1>5 DEF Touch
<1>7. SUFFICES ASSUME Cover(w, s) PROVE FALSE
  OBVIOUS
<1>8. /\ w[1] < s[1] + 32 /\ s[1] < w[1] + 32
      /\ w[2] < s[2] + 32 /\ s[2] < w[2] + 32
  BY <1>1, <1>7 DEF Cover
<1>9. /\ w[1] % 16 = 0 /\ w[2] % 16 = 0
  BY DEF InBox
<1>10. \A a, b \in Nat : a % 16 = 0 /\ b % 16 = 0 /\ b < a + 32 => b <= a + 16
  OBVIOUS
<1>11. s[1] <= w[1] + 16 /\ s[2] <= w[2] + 16
  BY <1>1, <1>3, <1>8, <1>9, <1>10
<1> QED
  BY <1>3, <1>6, <1>8, <1>11

LEMMA ClearInit ==
  ASSUME Init
  PROVE  WallsClearOfProps
<1>1. Drawn = {}
  BY EmptySeq DEF Init, Drawn
<1> QED
  BY <1>1 DEF WallsClearOfProps, Planned

LEMMA ClearStep ==
  ASSUME TypeOK, DrawInv, WallsClearOfProps, [Next]_vars
  PROVE  WallsClearOfProps'
<1>1. ASSUME Drawn' = Drawn, There' \subseteq There
      PROVE  WallsClearOfProps'
  BY <1>1 DEF WallsClearOfProps, Planned
<1>2. CASE UNCHANGED <<at, walls>>
  BY <1>1, <1>2 DEF Drawn, There
<1>3. CASE CheckGear
  <2>1. Drawn' = Drawn
    BY <1>3 DEF CheckGear, Drawn
  <2>2. CASE UNCHANGED at
    BY <1>1, <2>1, <2>2 DEF There
  <2>3. CASE ~UNCHANGED at
    <3>1. PICK s \in Spots : Legal(turn, s) /\ at' = [at EXCEPT ![turn] = s]
      BY <1>3, <2>3 DEF CheckGear
    <3>2. \A q \in There' : q \in There \/ q = s
      BY <3>1 DEF There, TypeOK
    <3>3. \A w \in Planned : InBox(w)
      BY DrawnWhere DEF Planned, Drawn, BackUp
    <3>4. \A w \in Planned : ~Cover(w, s)
      BY <3>1, <3>3, LegalIsClear DEF Planned
    <3> QED
      BY <2>1, <3>2, <3>4 DEF WallsClearOfProps, Planned
  <2> QED
    BY <2>2, <2>3
<1>4. CASE DrawPlanned
  <2>1. InBox(NextWall) /\ NextWall \in Place
    BY <1>4, NextWallIs DEF DrawPlanned, DrawInv, TypeOK
  <2>2. Drawn' = Drawn \union {NextWall} /\ There' = There
    BY <1>4, <2>1, WallWritten DEF DrawPlanned, WriteWall, TypeOK, There
  <2>3. \A q \in There : ~Cover(NextWall, q)
    <3> SUFFICES ASSUME NEW q \in There PROVE ~Cover(NextWall, q)
      OBVIOUS
    <3>1. ~Touch(NextWall, q)
      BY <1>4 DEF DrawPlanned, Blocked
    <3>2. q \in Place
      BY DEF There, TypeOK
    <3>3. /\ q[1] \in Nat /\ q[2] \in Nat
          /\ NextWall[1] \in Nat /\ NextWall[2] \in Nat /\ Unit \in Nat
      BY <2>1, <3>2, PlacementAssumption DEF Place
    <3> QED
      BY <3>1, <3>3 DEF Touch, Cover
  <2> QED
    BY <2>2, <2>3 DEF WallsClearOfProps, Planned
<1>5. CASE DrawBackUp
  <2>1. pulled + 1 \in 1 .. Len(BackUps)
    BY <1>5, BackUpIs DEF DrawBackUp, TypeOK
  <2>2. BackUps[pulled + 1] \in Place /\ BackUps[pulled + 1] \in BackUp
    BY <2>1, BackUpIs
  <2>3. Drawn' = Drawn \union {BackUps[pulled + 1]} /\ There' = There
    BY <1>5, <2>2, WallWritten DEF DrawBackUp, WriteWall, TypeOK, There
  <2> QED
    BY <2>2, <2>3 DEF WallsClearOfProps, Planned, BackUp
<1>6. CASE DrawBefore
  <2>1. Drawn' = Drawn \union {Before} /\ There' = There
    BY <1>6, BackUpIs, WallWritten DEF DrawBefore, WriteWall, TypeOK, There
  <2> QED
    BY <2>1 DEF WallsClearOfProps, Planned
<1>7. CASE Take
  <2>1. Drawn' = Drawn
    BY <1>7 DEF Take, Drawn
  <2>2. There' \subseteq There
    BY <1>7 DEF Take, There, TypeOK
  <2> QED
    BY <1>1, <2>1, <2>2
<1> QED
  BY <1>2, <1>3, <1>4, <1>5, <1>6, <1>7 DEF Next, vars, Report

LEMMA DistinctInit ==
  ASSUME Init
  PROVE  WallsDistinct
BY EmptySeq DEF Init, WallsDistinct

LEMMA DistinctStep ==
  ASSUME TypeOK, DrawInv, WallsDistinct, [Next]_vars
  PROVE  WallsDistinct'
<1>1. ASSUME UNCHANGED walls
      PROVE  WallsDistinct'
  BY <1>1 DEF WallsDistinct
<1>2. ASSUME NEW w \in Place, WriteWall(w),
             \A i \in 1 .. Len(walls) : walls[i] # Before => walls[i] # w
      PROVE  WallsDistinct'
  <2>1. walls \in Seq(Place) /\ Len(walls) \in Nat
    BY LenProperties DEF TypeOK
  <2>2. /\ Len(walls') = Len(walls) + 1
        /\ \A i \in 1 .. Len(walls) : walls'[i] = walls[i]
        /\ walls'[Len(walls) + 1] = w
    BY <1>2, <2>1, WallWritten
  <2>3. \A i \in 1 .. Len(walls') :
          i \in 1 .. Len(walls) \/ i = Len(walls) + 1
    BY <2>1, <2>2
  <2> SUFFICES ASSUME NEW i \in 1 .. Len(walls'), NEW j \in 1 .. Len(walls'),
                      i # j, walls'[i] # Before
               PROVE  walls'[i] # walls'[j]
    BY DEF WallsDistinct
  <2>4. CASE i \in 1 .. Len(walls) /\ j \in 1 .. Len(walls)
    BY <2>2, <2>4 DEF WallsDistinct
  <2>5. CASE i \in 1 .. Len(walls) /\ j = Len(walls) + 1
    BY <1>2, <2>2, <2>5
  <2>6. CASE i = Len(walls) + 1 /\ j \in 1 .. Len(walls)
    BY <1>2, <2>2, <2>6
  <2> QED
    BY <2>3, <2>4, <2>5, <2>6
<1>3. CASE DrawPlanned
  <2>1. IsPlan(Plan(map))
    BY EveryMap
  <2>2. walls \in Seq(Place) /\ Len(walls) \in Nat /\ Len(walls) < Len(Plan(map))
    BY <1>3, LenProperties DEF DrawPlanned, DrawInv, TypeOK
  <2>3. InBox(NextWall) /\ NextWall \in Place
    BY <2>2, NextWallIs
  <2>4. ASSUME NEW i \in 1 .. Len(walls), walls[i] # Before
        PROVE  walls[i] # NextWall
    <3>1. CASE walls[i] = Plan(map)[i]
      <4>1. /\ i \in 1 .. Len(Plan(map))
            /\ Len(walls) + 1 \in 1 .. Len(Plan(map))
            /\ i # Len(walls) + 1
        BY <2>1, <2>2 DEF IsPlan
      <4> QED
        BY <2>1, <3>1, <4>1 DEF IsPlan, NextWall
    <3>2. CASE walls[i] \in Pulled
      <4>1. walls[i] \in BackUp
        BY <3>2, BackUpIs DEF Pulled, BackUp, TypeOK
      <4> QED
        BY <2>3, <4>1, BackUpIs
    <3> QED
      BY <2>4, <3>1, <3>2 DEF DrawInv
  <2> QED
    BY <1>2, <1>3, <2>3, <2>4 DEF DrawPlanned
<1>4. CASE DrawBackUp
  <2>1. pulled \in Nat /\ pulled + 1 \in 1 .. Len(BackUps)
    BY <1>4, BackUpIs DEF DrawBackUp, TypeOK
  <2>2. BackUps[pulled + 1] \in Place /\ ~InBox(BackUps[pulled + 1])
    BY <2>1, BackUpIs
  <2>3. ASSUME NEW i \in 1 .. Len(walls), walls[i] # Before
        PROVE  walls[i] # BackUps[pulled + 1]
    <3>1. CASE walls[i] \in Pulled
      <4>1. PICK k \in 1 .. pulled : walls[i] = BackUps[k]
        BY <3>1 DEF Pulled
      <4>2. k \in 1 .. Len(BackUps) /\ k # pulled + 1
        BY <2>1, BackUpIs
      <4> QED
        BY <2>1, <4>1, <4>2, FieldAssumption
    <3>2. CASE walls[i] = Plan(map)[i]
      <4>1. i \in 1 .. Len(Plan(map)) /\ IsPlan(Plan(map))
        BY EveryMap, LenProperties DEF IsPlan, TypeOK, DrawInv
      <4> QED
        BY <2>2, <3>2, <4>1 DEF IsPlan
    <3> QED
      BY <2>3, <3>1, <3>2 DEF DrawInv
  <2> QED
    BY <1>2, <1>4, <2>2, <2>3 DEF DrawBackUp
<1>5. CASE DrawBefore
  BY <1>2, <1>5, BackUpIs DEF DrawBefore
<1> QED
  BY <1>1, <1>3, <1>4, <1>5 DEF Next, vars, Report, CheckGear, Take

(* Clear of the starts are the maps, by the field, and the back-ups.       *)
LEMMA ClearOfStarts ==
  ASSUME TypeOK, DrawInv
  PROVE  WallsClearOfStarts
<1> SUFFICES ASSUME NEW i \in 1 .. Len(walls), NEW s \in Starts
             PROVE  ~Touch(walls[i], s)
  BY DEF WallsClearOfStarts, Drawn
<1>1. CASE walls[i] \in BackUp \union {Before}
  BY <1>1, FieldAssumption DEF BackUp
<1>2. CASE InBox(walls[i])
  <2>1. PICK w : w = walls[i] /\ InBox(w)
    BY <1>2
  <2>2. Unit = 32 /\ s \in Place
    BY FieldAssumption, PlacementAssumption
  <2>3. w[1] \in Nat /\ w[2] \in Nat /\ s[1] \in Nat /\ s[2] \in Nat
    BY <2>1, <2>2 DEF InBox, Place
  <2>4. \/ s[1] + 32 < 240 \/ s[1] > 464 + 32
        \/ s[2] + 32 < 112 \/ s[2] > 336 + 32
    BY <2>2, FieldAssumption
  <2>5. 240 <= w[1] /\ w[1] <= 464 /\ 112 <= w[2] /\ w[2] <= 336
    BY <2>1 DEF InBox
  <2>6. ~Touch(w, s)
    <3> SUFFICES ASSUME Touch(w, s) PROVE FALSE
      OBVIOUS
    <3>1. /\ w[1] <= s[1] + 32 /\ s[1] <= w[1] + 32
          /\ w[2] <= s[2] + 32 /\ s[2] <= w[2] + 32
      BY <2>2 DEF Touch
    <3>2. PICK a \in Nat, b \in Nat, c \in Nat, d \in Nat :
            a = w[1] /\ b = w[2] /\ c = s[1] /\ d = s[2]
      BY <2>3
    <3>3. a <= c + 32 /\ c <= a + 32 /\ b <= d + 32 /\ d <= b + 32
      BY <3>1, <3>2
    <3>4. 240 <= a /\ a <= 464 /\ 112 <= b /\ b <= 336
      BY <2>5, <3>2
    <3>5. \/ c + 32 < 240 \/ c > 464 + 32
          \/ d + 32 < 112 \/ d > 336 + 32
      BY <2>4, <3>2
    <3> QED
      BY <3>3, <3>4, <3>5
  <2> QED
    BY <2>1, <2>6
<1> QED
  BY <1>1, <1>2, DrawnWhere

LEMMA WallsAlways ==
  Spec => [](MenuInv /\ TypeOK /\ DrawInv /\ WallsClearOfProps /\ WallsDistinct)
<1> DEFINE Inv == /\ MenuInv /\ TypeOK /\ DrawInv
                  /\ WallsClearOfProps /\ WallsDistinct
<1>1. Init => Inv
  BY MenuInvInit, WallTypesInit, DrawInvInit, ClearInit, DistinctInit DEF Init
<1>2. Inv /\ [Next]_vars => Inv'
  <2> SUFFICES ASSUME Inv, [Next]_vars
               PROVE  Inv'
    OBVIOUS
  <2>1. MenuNext \/ UNCHANGED menu
    BY DEF Next, vars, Report, CheckGear, DrawPlanned, DrawBackUp, DrawBefore,
           WriteWall, Take
  <2>2. MenuInv'
    BY <2>1, MenuInvStep
  <2>3. TypeOK' /\ DrawInv' /\ WallsClearOfProps' /\ WallsDistinct'
    BY WallTypesStep, DrawInvStep, ClearStep, DistinctStep
  <2> QED
    BY <2>2, <2>3
<1> QED
  BY <1>1, <1>2, PTL DEF Spec

(* For every place the lots may give, every start and every back-up on     *)
(* the field, the planned walls cover no coin or gear that is there, and   *)
(* no wall touches a start or is drawn twice but the one from before the   *)
(* array (draw_wall, game.c:264-344).  What lies under a back-up position  *)
(* is exempt: nothing checks it (game.c:294-306).                          *)
THEOREM WallsSafe == Spec => []WallsInv
<1>1. MenuInv /\ TypeOK /\ DrawInv /\ WallsClearOfProps /\ WallsDistinct
        => WallsInv
  BY ClearOfStarts DEF WallsInv
<1> QED
  BY <1>1, WallsAlways, PTL

(* The walls drawn are those draw_wall lists for the map chosen, or those  *)
(* of its default case when there is not exactly one (menu_control and     *)
(* draw_wall, game.c:316, 575).                                            *)
THEOREM MapDrawn == Spec => []MapAsChosen
<1>1. MenuInv /\ TypeOK /\ DrawInv => MapAsChosen
  <2> SUFFICES ASSUME MenuInv, TypeOK, DrawInv
               PROVE  MapAsChosen
    OBVIOUS
  <2> DEFINE m == IF \E b \in chosen : chosen = {b} THEN CHOOSE b \in chosen : TRUE
                  ELSE 0
  <2>1. Plan(map) = Plan(m)
    <3>1. chosen \in SUBSET {1, 2, 4} /\ map = BitsOf(chosen)
      BY DEF MenuInv, MenuTypeOK
    <3>2. CASE \E b \in chosen : chosen = {b}
      <4>1. PICK b \in chosen : chosen = {b}
        BY <3>2
      <4>2. m = b
        BY <3>2, <4>1
      <4>3. b \in {1, 2, 4} /\ BitsOf({b}) = b
        BY <3>1 DEF BitsOf
      <4> QED
        BY <3>1, <4>1, <4>2, <4>3, Zenon
    <3>3. CASE ~\E b \in chosen : chosen = {b}
      <4>1. map # 1 /\ map # 2 /\ map # 4
        <5> SUFFICES ASSUME NEW b \in {1, 2, 4}, map = b
                     PROVE  FALSE
          OBVIOUS
        <5>1. b \in chosen /\ \A d \in {1, 2, 4} : d # b => d \notin chosen
          BY <3>1 DEF BitsOf
        <5>2. chosen = {b}
          BY <3>1, <5>1
        <5> QED
          BY <3>3, <5>1, <5>2
      <4>2. m = 0 /\ 0 # 1 /\ 0 # 2 /\ 0 # 4
        BY <3>3
      <4>3. Plan(0) = Plan(map)
        BY <4>1, <4>2, Zenon DEF Plan
      <4> QED
        BY <4>2, <4>3, Zenon
    <3> QED
      BY <3>2, <3>3
  <2>2. Len(walls) <= Len(Plan(m))
    BY <2>1 DEF DrawInv
  <2>3. ASSUME NEW i \in 1 .. Len(walls), walls[i] \in Planned
        PROVE  walls[i] = Plan(m)[i]
    <3>1. walls[i] \notin BackUp \union {Before} /\ Pulled \subseteq BackUp
      BY <2>3, BackUpIs DEF Planned, BackUp, Pulled, TypeOK
    <3>2. walls[i] = Plan(map)[i]
      BY <3>1 DEF DrawInv
    <3> QED
      BY <2>1, <3>2
  <2> HIDE DEF m
  <2>4. /\ Len(walls) <= Len(Plan(m))
        /\ \A i \in 1 .. Len(walls) :
             walls[i] \in Planned => walls[i] = Plan(m)[i]
    BY <2>2, <2>3
  <2> QED
    BY <2>4, Zenon DEF MapAsChosen, m
<1> QED
  BY <1>1, WallsAlways, PTL
=============================================================================
