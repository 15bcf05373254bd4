----------------------------- MODULE GBDTProofs -----------------------------
(***************************************************************************)
(* Proofs about GBDT and the modes that replace parts of it, for any       *)
(* number of classes, merged rounds, validation sets and rounds.           *)
(*                                                                         *)
(* GBDT: the scores match the trees in every reachable state, provided a   *)
(* booster that receives data sets after training began found a split in   *)
(* its first iteration and does not shuffle merged rounds, and data        *)
(* without features is trained with boost_from_average (Sound).            *)
(* README section 4 says what happens without the first condition.         *)
(*                                                                         *)
(* Random forests: all scores are averages over the rounds.                *)
(*                                                                         *)
(* DART: scores match what is left of the model while rounds are dropped   *)
(* and all of it again after Normalize, and the weights drops are drawn by *)
(* are those of the trees (SoundCase), where no division has a remainder.  *)
(***************************************************************************)
EXTENDS Modes, FiniteSetTheorems, NaturalsInduction, WellFoundedInduction, TLAPS

Sound == SoundSetup(setup)

\* No round is in the model twice.
RoundsDistinct == Distinct(models)

\* Every round in the model has been created.
IdsBorn == \A p \in DOMAIN models : models[p].id <= born

\* Before the first iteration a new ScoreUpdater needs no replay.
FreshMatches == born = NumInit => iter = 0 /\ Matches(FreshScore)

\* While data sets may arrive, the merged rounds stay in front, and every
\* later round is counted by iter_.
MergedInFront ==
  LateData =>
    /\ Len(models) = NumInit + iter
    /\ \A p \in DOMAIN models :
         IF p <= NumInit THEN models[p] = InitialRound(p) ELSE models[p].id > NumInit

\* TypeOK without the learning rate, which is not the configured one in DART.
Typed ==
  /\ IsSetup(setup)
  /\ models \in Seq(Round)
  /\ iter \in Nat
  /\ train_score \in Score
  /\ valid_score \in Seq(Score)
  /\ born \in NumInit..MaxRounds

\* What every operation keeps, whatever the learning rate.
InStep ==
  /\ Typed
  /\ Sound
  /\ Len(models) >= NumInit + iter
  /\ RoundsDistinct
  /\ IdsBorn
  /\ FreshMatches
  /\ MergedInFront
  /\ ScoresMatchModels

IInv == InStep /\ rate \in Rates

\* What a setup keeps fixed.
LEMMA SetupFixed ==
  ASSUME setup' = setup
  PROVE  /\ NumInit' = NumInit /\ LateData' = LateData /\ FirstSplits' = FirstSplits
         /\ Sound' = Sound /\ FreshScore' = FreshScore /\ IsSetup(setup)' = IsSetup(setup)
  BY DEF NumInit, LateData, FirstSplits, Sound, SoundSetup, FreshScore, IsSetup

LEMMA SetupTyped ==
  ASSUME IsSetup(setup)
  PROVE  /\ NumInit \in Nat /\ NumInit <= MaxRounds /\ MaxRounds \in Nat
         /\ {HasObjective, BoostFromAverage, HasFeatures, HasInitScore,
             FirstSplits, LateData, MayShuffle} \subseteq BOOLEAN
  BY GBDTAssumption
  DEF IsSetup, NumInit, HasObjective, BoostFromAverage, HasFeatures, HasInitScore,
      FirstSplits, LateData, MayShuffle

LEMMA NatHasMin ==
  ASSUME NEW S, S \subseteq Nat, S # {}
  PROVE  \E m \in S : \A n \in S : m <= n
PROOF
  <1>1. OpToRel(<, Nat) = {ss \in Nat \X Nat : ss[1] < ss[2]}
    BY Zenon DEF OpToRel
  <1> DEFINE Less == {ss \in Nat \X Nat : ss[1] < ss[2]}
  <1>2. IsWellFoundedOn(Less, Nat)
    BY <1>1, NatLessThanWellFounded, Zenon
  <1> HIDE DEF Less
  <1>3. PICK m \in S : \A n \in S : ~(<<n, m>> \in Less)
    BY <1>2, WFMin, Zenon
  <1>4. ASSUME NEW n \in S PROVE m <= n
    <2>1. n \in Nat /\ m \in Nat
      OBVIOUS
    <2>2. n < m => <<n, m>> \in Less
      BY <2>1 DEF Less
    <2> QED BY <1>3, <2>1, <2>2
  <1> QED BY <1>4

-----------------------------------------------------------------------------
(* The swap loop of ShuffleModels: an order of the rounds that moves every *)
(* round of its range and none outside.                                    *)

Orders(n) == {o \in [1..n -> 1..n] : \A p, q \in 1..n : o[p] = o[q] => p = q}

\* What i swaps have made of the rounds: those swapped have moved, a later one
\* is where it was or in front of it.
SwappedTo(o, n, first, last, i) ==
  /\ o \in Orders(n)
  /\ \A q \in 1..n : \E p \in 1..n : o[p] = q
  /\ \A p \in 1..n : p < first \/ last < p => o[p] = p
  /\ \A p \in first..(last - 1) : p <= i => o[p] # p
  /\ \A p \in first..last : i < p => o[p] = p \/ o[p] <= i
  /\ i + 1 >= last /\ first < last => o[last] # last

LEMMA SwapsStart ==
  ASSUME NEW n \in Nat, NEW first \in Nat \ {0}, NEW last \in 0..n
  PROVE  SwappedTo([p \in 1..n |-> p], n, first, last, 0)
PROOF
  <1>1. [p \in 1..n |-> p] \in Orders(n)
    BY DEF Orders
  <1>2. \A q \in 1..n : \E p \in 1..n : [r \in 1..n |-> r][p] = q
    OBVIOUS
  <1> QED BY <1>1, <1>2 DEF SwappedTo

LEMMA SwapsGo ==
  ASSUME NEW n \in Nat, NEW first \in Nat \ {0}, NEW last \in 0..n, NEW i \in 1..n, NEW o,
         SwappedTo(o, n, first, last, i - 1), i \in first..(last - 1),
         NEW j \in 1..last, i < j
  PROVE  SwappedTo(Swapped(o, i, j), n, first, last, i)
PROOF
  <1> DEFINE s == Swapped(o, i, j)
  <1>1. /\ o \in [1..n -> 1..n] /\ i \in 1..n /\ j \in 1..n /\ i # j
        /\ \A p, q \in 1..n : o[p] = o[q] => p = q
    <2>1. o \in Orders(n)
      BY DEF SwappedTo
    <2>2. i \in 1..n /\ j \in 1..n /\ i # j
      OBVIOUS
    <2> QED BY <2>1, <2>2 DEF Orders
  <1>2. /\ s \in [1..n -> 1..n] /\ s[i] = o[j] /\ s[j] = o[i]
        /\ \A p \in 1..n : p # i /\ p # j => s[p] = o[p]
    BY <1>1 DEF Swapped
  <1> HIDE DEF s
  <1>3. s \in Orders(n)
    BY <1>1, <1>2 DEF Orders
  <1>4. ASSUME NEW q \in 1..n PROVE \E p \in 1..n : s[p] = q
    <2>1. PICK p \in 1..n : o[p] = q
      BY DEF SwappedTo
    <2>2. CASE p = i
      BY <1>1, <1>2, <2>1, <2>2
    <2>3. CASE p = j
      BY <1>1, <1>2, <2>1, <2>3
    <2>4. CASE p # i /\ p # j
      BY <1>2, <2>1, <2>4
    <2> QED BY <2>2, <2>3, <2>4
  <1>5. ASSUME NEW p \in 1..n, p < first \/ last < p PROVE s[p] = p
    <2>1. p # i /\ p # j
      BY <1>5
    <2> QED BY <1>2, <1>5, <2>1 DEF SwappedTo
  <1>6. /\ o[j] = j \/ o[j] <= i - 1
        /\ o[i] = i \/ o[i] <= i - 1
        /\ o[i] \in 1..n /\ o[j] \in 1..n
    <2>1. i \in first..last /\ j \in first..last /\ i - 1 < i /\ i - 1 < j
      BY <1>1
    <2> QED BY <1>1, <2>1 DEF SwappedTo
  <1>7. ASSUME NEW p \in first..(last - 1), p <= i PROVE s[p] # p
    <2>1. CASE p = i
      <3>1. i \in Int /\ j \in Int /\ o[j] \in Int /\ (o[j] = j \/ o[j] <= i - 1)
        BY <1>6
      <3>2. o[j] # i
        BY <3>1
      <3> QED BY <1>2, <2>1, <3>2
    <2>2. CASE p # i
      <3>1. p \in 1..n /\ p # j /\ p <= i - 1
        BY <1>7, <2>2
      <3> QED BY <1>2, <1>7, <2>2, <3>1 DEF SwappedTo
    <2> QED BY <2>1, <2>2
  <1>8. ASSUME NEW p \in first..last, i < p PROVE s[p] = p \/ s[p] <= i
    <2>1. CASE p = j
      <3>1. i \in Int /\ o[i] \in Int /\ (o[i] = i \/ o[i] <= i - 1)
        BY <1>6
      <3>2. o[i] <= i
        BY <3>1
      <3> QED BY <1>2, <2>1, <3>2
    <2>2. CASE p # j
      <3>1. p \in 1..n /\ p # i /\ i - 1 < p
        BY <1>8
      <3>2. s[p] = o[p] /\ (o[p] = p \/ o[p] <= i - 1) /\ o[p] \in 1..n
        BY <1>1, <1>2, <2>2, <3>1 DEF SwappedTo
      <3> QED BY <3>2
    <2> QED BY <2>1, <2>2
  <1>9. ASSUME i + 1 >= last PROVE s[last] # last
    <2>1. j = last
      BY <1>9
    <2> QED BY <1>2, <1>6, <2>1
  <1> QED BY <1>3, <1>4, <1>5, <1>7, <1>8, <1>9 DEF SwappedTo, s

\* A round that is not swapped: the range has not begun or is done.
LEMMA SwapsSkip ==
  ASSUME NEW n \in Nat, NEW first \in Nat \ {0}, NEW last \in 0..n, NEW i \in 1..n, NEW o,
         SwappedTo(o, n, first, last, i - 1), i \notin first..(last - 1)
  PROVE  SwappedTo(o, n, first, last, i)
PROOF
  <1>1. \A p \in first..(last - 1) : p <= i => p <= i - 1
    OBVIOUS
  <1>2. ASSUME NEW p \in first..last, i < p PROVE o[p] = p \/ o[p] <= i
    <2>1. i - 1 < p /\ p \in 1..n
      BY <1>2
    <2>2. (o[p] = p \/ o[p] <= i - 1) /\ o[p] \in 1..n
      BY <2>1 DEF SwappedTo, Orders
    <2> QED BY <2>2
  <1>3. i + 1 >= last /\ first < last => (i - 1) + 1 >= last
    OBVIOUS
  <1> QED BY <1>1, <1>2, <1>3 DEF SwappedTo

LEMMA IndicesAre ==
  ASSUME NEW n \in Nat, NEW first \in Nat \ {0}, NEW last \in 0..n, NEW pick \in Picks(first, last)
  PROVE  SwappedTo(IndicesAfter(n, first, last, pick), n, first, last, n)
PROOF
  <1> DEFINE X == [1..n -> 1..n]
             Id == [p \in 1..n |-> p]
             Go(i, o) == IF i \in first..(last - 1) THEN Swapped(o, i, pick[i]) ELSE o
             Gives(f) == f = [i \in 0..n |->
                           IF i = 0 THEN Id
                           ELSE IF i \in first..(last - 1) THEN Swapped(f[i - 1], i, pick[i])
                           ELSE f[i - 1]]
             Ok(f, k) == \A i \in 0..k : f[i] = IF i = 0 THEN Id ELSE Go(i, f[i - 1])
  <1>1. IndicesAfter(n, first, last, pick) = (CHOOSE f : Gives(f))[n]
    BY Zenon DEF IndicesAfter
  <1>2. ASSUME NEW k \in 0..n PROVE \E f : Ok(f, k)
    <2> DEFINE Bad == {i \in 0..n : ~\E f : Ok(f, i)}
    <2> SUFFICES ASSUME Bad # {} PROVE FALSE
      OBVIOUS
    <2>1. PICK m \in Bad : \A i \in Bad : m <= i
      <3>1. Bad \subseteq Nat
        OBVIOUS
      <3> HIDE DEF Bad
      <3> QED BY <3>1, NatHasMin
    <2>2. m \in 0..n /\ ~\E f : Ok(f, m)
      OBVIOUS
    <2>3. CASE m = 0
      <3>1. Ok([i \in 0..0 |-> Id], 0)
        OBVIOUS
      <3> QED BY <2>2, <2>3, <3>1
    <2>4. CASE m # 0
      <3>1. m - 1 \in 0..n /\ ~(m <= m - 1)
        BY <2>2, <2>4
      <3>5. m - 1 \notin Bad
        BY <2>1, <3>1
      <3>2. PICK g : Ok(g, m - 1)
        BY <3>1, <3>5
      <3> DEFINE h == [i \in 0..m |-> IF i = m THEN Go(m, g[m - 1]) ELSE g[i]]
      <3>3. ASSUME NEW i \in 0..m PROVE h[i] = IF i = 0 THEN Id ELSE Go(i, h[i - 1])
        <4>1. CASE i = m
          <5>1. h[i] = Go(m, g[m - 1]) /\ h[m - 1] = g[m - 1]
            BY <2>2, <2>4, <4>1
          <5> QED BY <2>4, <4>1, <5>1
        <4>2. CASE i # m
          <5>1. i \in 0..(m - 1) /\ (i # 0 => i - 1 \in 0..m /\ i - 1 # m)
            BY <2>2, <4>2
          <5>2. h[i] = g[i] /\ (i # 0 => h[i - 1] = g[i - 1])
            BY <4>2, <5>1
          <5> QED BY <3>2, <5>1, <5>2
        <4> QED BY <4>1, <4>2
      <3>4. Ok(h, m)
        BY <3>3
      <3> QED BY <2>2, <3>4
    <2> QED BY <2>3, <2>4
  <1>0. n \in 0..n
    OBVIOUS
  <1>3. PICK g : Ok(g, n)
    BY <1>0, <1>2
  <1> DEFINE gg == [i \in 0..n |-> g[i]]
  <1>4. Gives(gg)
    <2>1. ASSUME NEW i \in 0..n
          PROVE  gg[i] = IF i = 0 THEN Id
                         ELSE IF i \in first..(last - 1) THEN Swapped(gg[i - 1], i, pick[i])
                         ELSE gg[i - 1]
      <3>1. gg[i] = g[i] /\ (i # 0 => gg[i - 1] = g[i - 1])
        <4>1. i # 0 => i - 1 \in 0..n
          OBVIOUS
        <4> QED BY <4>1
      <3> QED BY <1>3, <3>1
    <2>2. gg = [i \in 0..n |-> gg[i]]
      OBVIOUS
    <2> HIDE DEF gg, Id
    <2> QED BY <2>1, <2>2
  <1>5. Gives(CHOOSE f : Gives(f))
    BY <1>4, Zenon
  <1> DEFINE f == CHOOSE x : Gives(x)
  <1>6. f = [i \in 0..n |-> IF i = 0 THEN Id
                            ELSE IF i \in first..(last - 1) THEN Swapped(f[i - 1], i, pick[i])
                            ELSE f[i - 1]]
    BY <1>5
  <1> HIDE DEF f, Gives, gg
  <1>7. f[0] = Id /\ \A i \in 1..n : f[i] = Go(i, f[i - 1])
    <2>1. 0 \in 0..n /\ \A i \in 1..n : i \in 0..n /\ i # 0
      OBVIOUS
    <2> QED BY <1>6, <2>1
  <1>8. ASSUME NEW i \in 1..n, SwappedTo(f[i - 1], n, first, last, i - 1)
        PROVE  SwappedTo(f[i], n, first, last, i)
    <2>1. CASE i \in first..(last - 1)
      <3>1. pick[i] \in 1..last /\ i < pick[i]
        BY <2>1 DEF Picks
      <3>2. f[i] = Swapped(f[i - 1], i, pick[i])
        BY <1>7, <2>1
      <3> QED BY <1>8, <2>1, <3>1, <3>2, SwapsGo
    <2>2. CASE i \notin first..(last - 1)
      BY <1>7, <1>8, <2>2, SwapsSkip
    <2> QED BY <2>1, <2>2
  <1>9. SwappedTo(f[0], n, first, last, 0)
    BY <1>7, SwapsStart
  <1> DEFINE Unlike == {i \in 0..n : ~SwappedTo(f[i], n, first, last, i)}
  <1>10. Unlike = {}
    <2> SUFFICES ASSUME Unlike # {} PROVE FALSE
      OBVIOUS
    <2>1. PICK m \in Unlike : \A i \in Unlike : m <= i
      <3>1. Unlike \subseteq Nat
        OBVIOUS
      <3> HIDE DEF Unlike
      <3> QED BY <3>1, NatHasMin
    <2>2. m \in 0..n /\ ~SwappedTo(f[m], n, first, last, m) /\ m # 0
      BY <1>9
    <2>4. m \in 1..n /\ m - 1 \in 0..n /\ ~(m <= m - 1)
      BY <2>2
    <2>3. m - 1 \notin Unlike
      BY <2>1, <2>4
    <2> QED BY <1>8, <2>2, <2>3, <2>4
  <1> QED BY <1>0, <1>1, <1>10 DEF f

\* The order a shuffle leaves the rounds in.
LEMMA ShuffleOrders ==
  ASSUME models \in Seq(Round), ShuffleModels
  PROVE  \E order \in Bijection(DOMAIN models, DOMAIN models) :
           /\ models' = [p \in DOMAIN models |-> models[order[p]]]
           /\ \E first, last \in Nat : \A p \in DOMAIN models :
                order[p] # p <=> first < last /\ p \in first..last
PROOF
  <1> DEFINE n == Len(models)
  <1>1. n \in Nat /\ DOMAIN models = 1..n
    OBVIOUS
  <1>2. \E first \in Nat \ {0}, last \in 0..n : \E pick \in Picks(first, last) :
          models' = [p \in 1..n |-> models[IndicesAfter(n, first, last, pick)[p]]]
    <2>1. PICK start_iter \in -1..n, end_iter \in 0..(n + 1) :
            \E pick \in Picks(1 + (IF start_iter < 0 THEN 0 ELSE start_iter),
                              IF end_iter <= 0 \/ end_iter > n THEN n ELSE end_iter) :
              models' = [p \in 1..n |->
                models[IndicesAfter(n, 1 + (IF start_iter < 0 THEN 0 ELSE start_iter),
                                IF end_iter <= 0 \/ end_iter > n THEN n ELSE end_iter, pick)[p]]]
      BY DEF ShuffleModels
    <2>2. /\ 1 + (IF start_iter < 0 THEN 0 ELSE start_iter) \in Nat \ {0}
          /\ (IF end_iter <= 0 \/ end_iter > n THEN n ELSE end_iter) \in 0..n
      BY <1>1
    <2> QED BY <2>1, <2>2
  <1>3. PICK first \in Nat \ {0}, last \in 0..n : \E pick \in Picks(first, last) :
          models' = [p \in 1..n |-> models[IndicesAfter(n, first, last, pick)[p]]]
    BY <1>2
  <1>4. PICK pick \in Picks(first, last) :
          models' = [p \in 1..n |-> models[IndicesAfter(n, first, last, pick)[p]]]
    BY <1>3
  <1> DEFINE o == IndicesAfter(n, first, last, pick)
  <1>5. SwappedTo(o, n, first, last, n)
    BY <1>1, IndicesAre
  <1> HIDE DEF o
  <1>6. o \in [1..n -> 1..n] /\ (\A p, q \in 1..n : o[p] = o[q] => p = q)
        /\ \A q \in 1..n : \E p \in 1..n : o[p] = q
    BY <1>5 DEF SwappedTo, Orders
  <1>7. o \in Bijection(1..n, 1..n)
    BY <1>6 DEF Bijection, Injection, IsInjective, Surjection
  <1>8. ASSUME NEW p \in 1..n PROVE o[p] # p <=> first < last /\ p \in first..last
    <2>1. CASE p < first \/ last < p
      BY <1>5, <2>1 DEF SwappedTo
    <2>2. CASE first = last /\ p = first
      <3>1. PICK r \in 1..n : o[r] = p
        BY <1>6
      <3>2. r # p => o[r] = r
        BY <1>5, <2>2 DEF SwappedTo
      <3> QED BY <2>2, <3>1, <3>2
    <2>3. CASE first < last /\ p \in first..(last - 1)
      BY <1>5, <2>3 DEF SwappedTo
    <2>4. CASE first < last /\ p = last
      BY <1>5, <2>4, <1>1 DEF SwappedTo
    <2> QED BY <2>1, <2>2, <2>3, <2>4
  <1>9. models' = [p \in 1..n |-> models[o[p]]]
    BY <1>4 DEF o
  <1>10. \E a, b \in Nat : \A p \in 1..n : o[p] # p <=> a < b /\ p \in a..b
    <2>1. first \in Nat /\ last \in Nat
      BY <1>1
    <2> QED BY <1>8, <2>1
  <1> HIDE DEF n
  <1> QED BY <1>1, <1>7, <1>9, <1>10
-----------------------------------------------------------------------------
(* InModels under the four ways models_ changes.                           *)

LEMMA InModelsHit ==
  ASSUME NEW ms, Distinct(ms), NEW p \in DOMAIN ms, NEW c
  PROVE  InModels(c, ms[p].id, ms) = ms[p].tree[c]
  BY DEF InModels, Distinct

LEMMA InModelsMiss ==
  ASSUME NEW ms, NEW c, NEW i, \A p \in DOMAIN ms : ms[p].id # i
  PROVE  InModels(c, i, ms) = Zero
  BY DEF InModels

LEMMA InModelsAppend ==
  ASSUME NEW ms \in Seq(Round), Distinct(ms), NEW r \in Round,
         \A p \in DOMAIN ms : ms[p].id # r.id
  PROVE  /\ Distinct(Append(ms, r))
         /\ \A c \in Class, i \in RoundId :
              InModels(c, i, Append(ms, r)) =
                IF i = r.id THEN r.tree[c] ELSE InModels(c, i, ms)
PROOF
  <1> DEFINE new == Append(ms, r)
  <1>1. /\ DOMAIN new = 1..(Len(ms) + 1)
        /\ DOMAIN ms = 1..Len(ms)
        /\ new[Len(ms) + 1] = r
        /\ \A p \in 1..Len(ms) : new[p] = ms[p]
    OBVIOUS
  <1>2. Distinct(new)
    BY <1>1 DEF Distinct
  <1> HIDE DEF new
  <1>3. ASSUME NEW c \in Class, NEW i \in RoundId
        PROVE  InModels(c, i, new) = IF i = r.id THEN r.tree[c] ELSE InModels(c, i, ms)
    <2>1. CASE i = r.id
      <3>1. Len(ms) + 1 \in DOMAIN new
        BY <1>1
      <3> QED BY <2>1, <3>1, <1>1, <1>2, InModelsHit
    <2>2. CASE i # r.id /\ \E p \in DOMAIN ms : ms[p].id = i
      <3>1. PICK p \in DOMAIN ms : ms[p].id = i
        BY <2>2
      <3>2. p \in DOMAIN new /\ new[p] = ms[p]
        BY <1>1
      <3>3. InModels(c, ms[p].id, ms) = ms[p].tree[c]
        BY InModelsHit
      <3>4. InModels(c, new[p].id, new) = new[p].tree[c]
        BY <3>2, <1>2, InModelsHit
      <3> QED BY <2>2, <3>1, <3>2, <3>3, <3>4
    <2>3. CASE i # r.id /\ \A p \in DOMAIN ms : ms[p].id # i
      <3>1. \A p \in DOMAIN new : new[p].id # i
        BY <2>3, <1>1
      <3> QED BY <2>3, <3>1, InModelsMiss
    <2> QED BY <2>1, <2>2, <2>3
  <1> QED BY <1>2, <1>3 DEF new

Front(ms) == SubSeq(ms, 1, Len(ms) - 1)

LEMMA InModelsFront ==
  ASSUME NEW ms \in Seq(Round), Distinct(ms), Len(ms) > 0
  PROVE  /\ Front(ms) \in Seq(Round)
         /\ Len(Front(ms)) = Len(ms) - 1
         /\ \A p \in DOMAIN Front(ms) : p \in DOMAIN ms /\ Front(ms)[p] = ms[p]
         /\ Distinct(Front(ms))
         /\ \A c \in Class, i \in RoundId :
              InModels(c, i, Front(ms)) =
                IF i = ms[Len(ms)].id THEN Zero ELSE InModels(c, i, ms)
PROOF
  <1> DEFINE last == ms[Len(ms)]
             new == Front(ms)
  <1>1. /\ new \in Seq(Round)
        /\ Len(new) = Len(ms) - 1
        /\ DOMAIN new = 1..(Len(ms) - 1)
        /\ DOMAIN ms = 1..Len(ms)
        /\ \A p \in 1..(Len(ms) - 1) : new[p] = ms[p]
        /\ Len(ms) \in Nat
    <2>1. Len(ms) \in Nat /\ DOMAIN ms = 1..Len(ms)
      OBVIOUS
    <2>2. \A p \in 1..(Len(ms) - 1) : ms[p] \in Round
      BY <2>1
    <2>3. new = [p \in 1..(Len(ms) - 1) |-> ms[p]]
      BY <2>1 DEF Front
    <2>4. new \in Seq(Round) /\ Len(new) = Len(ms) - 1
      BY <2>1, <2>2, <2>3
    <2> QED BY <2>1, <2>3, <2>4
  <1> HIDE DEF new
  <1>2. Distinct(new)
    BY <1>1 DEF Distinct
  <1>3. ASSUME NEW c \in Class, NEW i \in RoundId
        PROVE  InModels(c, i, new) = IF i = last.id THEN Zero ELSE InModels(c, i, ms)
    <2>1. CASE \E p \in DOMAIN new : new[p].id = i
      <3>1. PICK p \in DOMAIN new : new[p].id = i
        BY <2>1
      <3>2. p \in DOMAIN ms /\ new[p] = ms[p] /\ p # Len(ms) /\ Len(ms) \in DOMAIN ms
        BY <1>1
      <3>3. i # last.id
        BY <3>1, <3>2 DEF Distinct
      <3>4. InModels(c, ms[p].id, ms) = ms[p].tree[c]
        BY <3>2, InModelsHit
      <3>5. InModels(c, new[p].id, new) = new[p].tree[c]
        BY <1>2, InModelsHit
      <3> QED BY <3>1, <3>2, <3>3, <3>4, <3>5
    <2>2. CASE i = last.id /\ \A p \in DOMAIN new : new[p].id # i
      BY <2>2, InModelsMiss
    <2>3. CASE i # last.id /\ \A p \in DOMAIN new : new[p].id # i
      <3>1. ASSUME NEW p \in DOMAIN ms
            PROVE  ms[p].id # i
        <4>1. CASE p = Len(ms)
          BY <4>1, <2>3
        <4>2. CASE p # Len(ms)
          <5>1. p \in DOMAIN new /\ new[p] = ms[p]
            BY <4>2, <1>1
          <5> QED BY <5>1, <2>3
        <4> QED BY <4>1, <4>2
      <3>2. InModels(c, i, ms) = Zero
        BY <3>1, InModelsMiss
      <3>3. InModels(c, i, new) = Zero
        BY <2>3, InModelsMiss
      <3> QED BY <2>3, <3>2, <3>3
    <2> QED BY <2>1, <2>2, <2>3
  <1> QED BY <1>1, <1>2, <1>3 DEF new

Reordered(ms, order) == [p \in DOMAIN ms |-> ms[order[p]]]

LEMMA InModelsReordered ==
  ASSUME NEW ms \in Seq(Round), Distinct(ms), NEW order \in Bijection(DOMAIN ms, DOMAIN ms)
  PROVE  /\ Reordered(ms, order) \in Seq(Round)
         /\ Len(Reordered(ms, order)) = Len(ms)
         /\ Distinct(Reordered(ms, order))
         /\ \A p \in DOMAIN Reordered(ms, order) :
              \E q \in DOMAIN ms : Reordered(ms, order)[p] = ms[q]
         /\ \A c \in Class, i \in RoundId :
              InModels(c, i, Reordered(ms, order)) = InModels(c, i, ms)
PROOF
  <1> DEFINE new == Reordered(ms, order)
  <1>1. /\ \A p \in DOMAIN ms : order[p] \in DOMAIN ms
        /\ \A p, q \in DOMAIN ms : order[p] = order[q] => p = q
        /\ \A q \in DOMAIN ms : \E p \in DOMAIN ms : order[p] = q
    <2>1. order \in [DOMAIN ms -> DOMAIN ms] /\ IsInjective(order)
      BY DEF Bijection, Injection
    <2>2. \A q \in DOMAIN ms : \E p \in DOMAIN ms : order[p] = q
      BY DEF Bijection, Surjection
    <2>3. \A p, q \in DOMAIN ms : order[p] = order[q] => p = q
      BY <2>1 DEF IsInjective
    <2> QED BY <2>1, <2>2, <2>3
  <1>2. /\ DOMAIN ms = 1..Len(ms) /\ Len(ms) \in Nat
        /\ \A p \in DOMAIN ms : ms[p] \in Round
    OBVIOUS
  <1>3. DOMAIN new = DOMAIN ms /\ \A p \in DOMAIN ms : new[p] = ms[order[p]]
    BY DEF Reordered
  <1>4. new \in [1..Len(ms) -> Round]
    BY <1>1, <1>2 DEF Reordered
  <1>5. new \in Seq(Round) /\ Len(new) = Len(ms)
    BY <1>2, <1>4
  <1> HIDE DEF new
  <1>6. Distinct(new)
    <2> SUFFICES ASSUME NEW p \in DOMAIN ms, NEW q \in DOMAIN ms, new[p].id = new[q].id
                 PROVE  p = q
      BY <1>3 DEF Distinct
    <2>1. order[p] \in DOMAIN ms /\ order[q] \in DOMAIN ms
      BY <1>1
    <2>2. ms[order[p]].id = ms[order[q]].id
      BY <1>3
    <2>3. order[p] = order[q]
      BY <2>1, <2>2 DEF Distinct
    <2> QED BY <1>1, <2>3
  <1>7. ASSUME NEW c \in Class, NEW i \in RoundId
        PROVE  InModels(c, i, new) = InModels(c, i, ms)
    <2>1. CASE \E q \in DOMAIN ms : ms[q].id = i
      <3>1. PICK q \in DOMAIN ms : ms[q].id = i
        BY <2>1
      <3>2. PICK p \in DOMAIN ms : order[p] = q
        BY <1>1
      <3>3. p \in DOMAIN new /\ new[p] = ms[q]
        BY <1>3, <3>2
      <3>4. InModels(c, ms[q].id, ms) = ms[q].tree[c]
        BY InModelsHit
      <3>5. InModels(c, new[p].id, new) = new[p].tree[c]
        BY <3>3, <1>6, InModelsHit
      <3> QED BY <3>1, <3>3, <3>4, <3>5
    <2>2. CASE \A q \in DOMAIN ms : ms[q].id # i
      <3>1. \A p \in DOMAIN new : new[p].id # i
        <4> SUFFICES ASSUME NEW p \in DOMAIN ms PROVE new[p].id # i
          BY <1>3
        <4>1. order[p] \in DOMAIN ms /\ new[p] = ms[order[p]]
          BY <1>1, <1>3
        <4> QED BY <2>2, <4>1
      <3>2. InModels(c, i, new) = Zero
        BY <3>1, InModelsMiss
      <3>3. InModels(c, i, ms) = Zero
        BY <2>2, InModelsMiss
      <3> QED BY <3>2, <3>3
    <2> QED BY <2>1, <2>2
  <1> QED BY <1>1, <1>3, <1>5, <1>6, <1>7 DEF new

-----------------------------------------------------------------------------
(* Scores: AddScore changes one round's contribution in every class.       *)

LEMMA PlusType == ASSUME NEW a \in Output, NEW b \in Output PROVE Plus(a, b) \in Output
  BY DEF Output, Plus

LEMMA NegatedType == ASSUME NEW a \in Output PROVE Negated(a) \in Output
  BY DEF Output, Negated

LEMMA NegatedCancels == ASSUME NEW a \in Output PROVE Plus(a, Negated(a)) = Zero
  BY DEF Output, Plus, Negated, Zero

LEMMA ZeroPlus == ASSUME NEW a \in Output PROVE Plus(Zero, a) = a /\ Plus(a, Zero) = a
  BY DEF Output, Plus, Zero

LEMMA AddScoreValue ==
  ASSUME NEW score \in Score, NEW id \in RoundId, NEW tree \in [Class -> Output]
  PROVE  /\ AddScore(score, id, tree) \in Score
         /\ \A c \in Class, i \in RoundId :
              AddScore(score, id, tree)[c][i] =
                IF i = id THEN Plus(score[c][i], tree[c]) ELSE score[c][i]
PROOF
  <1>1. \A c \in Class : score[c] \in [RoundId -> Output] /\ tree[c] \in Output
    BY DEF Score
  <1>2. \A c \in Class : Plus(score[c][id], tree[c]) \in Output
    BY <1>1, PlusType
  <1>3. \A c \in Class : [score[c] EXCEPT ![id] = Plus(@, tree[c])] \in [RoundId -> Output]
    BY <1>1, <1>2
  <1> QED BY <1>1, <1>3 DEF AddScore, Score

LEMMA AddToAllValue ==
  ASSUME NEW scores \in Seq(Score), NEW id \in RoundId, NEW tree \in [Class -> Output]
  PROVE  /\ AddToAll(scores, id, tree) \in Seq(Score)
         /\ DOMAIN AddToAll(scores, id, tree) = DOMAIN scores
         /\ \A v \in DOMAIN scores :
              AddToAll(scores, id, tree)[v] = AddScore(scores[v], id, tree)
PROOF
  <1>1. \A v \in DOMAIN scores : scores[v] \in Score
    OBVIOUS
  <1>2. \A v \in DOMAIN scores : AddScore(scores[v], id, tree) \in Score
    BY <1>1, AddScoreValue
  <1> QED BY <1>2 DEF AddToAll

\* New scores for every updater keep matching if each entry follows the model.
LEMMA MatchesTransfer ==
  ASSUME Typed, ScoresMatchModels, NEW id \in RoundId, NEW tree \in [Class -> Output],
         train_score' = AddScore(train_score, id, tree),
         valid_score' = AddToAll(valid_score, id, tree),
         \A c \in Class, i \in RoundId :
           InModels(c, i, models') =
             IF i = id THEN Plus(InModels(c, i, models), tree[c]) ELSE InModels(c, i, models)
  PROVE  /\ ScoresMatchModels'
         /\ train_score' \in Score
         /\ valid_score' \in Seq(Score)
PROOF
  <1>1. train_score \in Score /\ valid_score \in Seq(Score)
    BY DEF Typed
  <1>2. ASSUME NEW s \in Score, Matches(s)
        PROVE  \A c \in Class : \A i \in RoundId :
                 AddScore(s, id, tree)[c][i] = InModels(c, i, models')
    BY <1>2, AddScoreValue DEF Matches
  <1>3. Matches(train_score) /\ \A v \in DOMAIN valid_score : Matches(valid_score[v])
    BY DEF ScoresMatchModels
  <1>4. \A v \in DOMAIN valid_score : valid_score[v] \in Score
    BY <1>1
  <1>5. Matches(train_score)'
    BY <1>1, <1>2, <1>3 DEF Matches
  <1>6. ASSUME NEW v \in DOMAIN valid_score
        PROVE  valid_score'[v] = AddScore(valid_score[v], id, tree)
    BY <1>1, AddToAllValue
  <1>7. \A v \in DOMAIN valid_score : \A c \in Class : \A i \in RoundId :
          valid_score'[v][c][i] = InModels(c, i, models')
    BY <1>2, <1>3, <1>4, <1>6
  <1>8. DOMAIN valid_score' = DOMAIN valid_score /\ valid_score' \in Seq(Score)
    BY <1>1, AddToAllValue
  <1>9. train_score' \in Score
    BY <1>1, AddScoreValue
  <1> QED BY <1>5, <1>7, <1>8, <1>9 DEF ScoresMatchModels, Matches

-----------------------------------------------------------------------------
(* What the actions add.                                                   *)

LEMMA TreesTyped ==
  ASSUME Sound, NEW split \in SUBSET Class, NEW shrinkage \in Int
  PROVE  /\ NewTrees(split, shrinkage) \in [Class -> Output]
         /\ ScoreChange(split, shrinkage) = NewTrees(split, shrinkage)
PROOF
  <1>1. StartingScore \in Int /\ Bias \in Int
    BY GBDTAssumption DEF StartingScore
  <1>2. NewTrees(split, shrinkage) \in [Class -> Output]
    BY <1>1 DEF NewTrees, Output
  <1>3. AddsDefault => StartingScore = 0
    BY DEF Sound, SoundSetup, AddsDefault, StartingScore, HasFeatures, BoostFromAverage,
           HasInitScore, HasObjective
  <1>4. ScoreChange(split, shrinkage) = NewTrees(split, shrinkage)
    BY <1>1, <1>3 DEF ScoreChange, NewTrees, Plus
  <1> QED BY <1>2, <1>4

LEMMA FreshScoreType == FreshScore \in Score
  BY DEF FreshScore, Score, Output, Zero

LEMMA InModelsType ==
  ASSUME NEW ms \in Seq(Round), NEW c \in Class, NEW i \in RoundId
  PROVE  InModels(c, i, ms) \in Output
PROOF
  <1>1. Zero \in Output
    BY DEF Zero, Output
  <1>2. \A p \in DOMAIN ms : ms[p].tree[c] \in Output
    <2>1. \A p \in DOMAIN ms : ms[p] \in Round
      OBVIOUS
    <2> QED BY <2>1 DEF Round
  <1> QED BY <1>1, <1>2 DEF InModels

\* The merged rounds, each with one tree, and the rounds behind them give
\* what the whole model predicts.
LEMMA ReplaySum ==
  ASSUME NEW ms \in Seq(Round), Distinct(ms), NEW n \in Nat, NEW merged \in Output,
         n <= Len(ms),
         NEW c \in Class, NEW i \in RoundId, NEW fresh \in Output,
         fresh = IF i <= n THEN merged ELSE Zero,
         \A p \in DOMAIN ms : p <= n => ms[p].id = p /\ ms[p].tree[c] = merged,
         \A p \in DOMAIN ms : p <= n \/ ms[p].id > n
  PROVE  Plus(fresh, InModels(c, i, SubSeq(ms, n + 1, Len(ms)))) = InModels(c, i, ms)
PROOF
  <1> DEFINE rounds == SubSeq(ms, n + 1, Len(ms))
  <1>1. /\ Len(ms) \in Nat /\ DOMAIN ms = 1..Len(ms)
        /\ rounds = [p \in 1..(Len(ms) - n) |-> ms[n + p]]
        /\ DOMAIN rounds = 1..(Len(ms) - n)
    OBVIOUS
  <1>2. \A p \in DOMAIN rounds :
          n + p \in DOMAIN ms /\ rounds[p] = ms[n + p] /\ rounds[p].id > n
    BY <1>1
  <1>3. Distinct(rounds)
    BY <1>1, <1>2, SMTT(30) DEF Distinct
  <1> HIDE DEF rounds
  <1>4. InModels(c, i, ms) \in Output
    BY InModelsType
  <1>5. CASE i <= n
    <2>1. i \in DOMAIN ms /\ ms[i].id = i /\ ms[i].tree[c] = merged
      BY <1>1, <1>5 DEF RoundId
    <2>2. InModels(c, ms[i].id, ms) = ms[i].tree[c]
      BY <2>1, InModelsHit
    <2>3. \A p \in DOMAIN rounds : rounds[p].id # i
      <3> SUFFICES ASSUME NEW p \in DOMAIN rounds PROVE rounds[p].id # i
        OBVIOUS
      <3>1. rounds[p] \in Round
        BY <1>1, <1>2
      <3> QED BY <1>2, <1>5, <3>1 DEF Round, RoundId
    <2>4. InModels(c, i, rounds) = Zero
      BY <2>3, InModelsMiss
    <2> QED BY <1>5, <2>1, <2>2, <2>4, ZeroPlus DEF rounds
  <1>6. CASE ~(i <= n) /\ \E p \in DOMAIN ms : ms[p].id = i
    <2>1. PICK p \in DOMAIN ms : ms[p].id = i
      BY <1>6
    <2>2. ~(p <= n)
      BY <1>6, <2>1
    <2>3. p - n \in DOMAIN rounds /\ rounds[p - n] = ms[p]
      BY <1>1, <1>2, <2>2
    <2>4. InModels(c, ms[p].id, ms) = ms[p].tree[c]
      BY InModelsHit
    <2>5. InModels(c, rounds[p - n].id, rounds) = rounds[p - n].tree[c]
      BY <2>3, <1>3, InModelsHit
    <2>6. InModels(c, i, rounds) = InModels(c, i, ms)
      BY <2>1, <2>3, <2>4, <2>5
    <2> QED BY <1>4, <1>6, <2>6, ZeroPlus DEF rounds
  <1>7. CASE ~(i <= n) /\ \A p \in DOMAIN ms : ms[p].id # i
    <2>1. \A p \in DOMAIN rounds : rounds[p].id # i
      BY <1>2, <1>7
    <2>2. InModels(c, i, rounds) = Zero /\ InModels(c, i, ms) = Zero
      BY <1>7, <2>1, InModelsMiss
    <2>3. Zero \in Output
      BY DEF Zero, Output
    <2> QED BY <1>7, <2>2, <2>3, ZeroPlus DEF rounds
  <1> QED BY <1>5, <1>6, <1>7

\* No rounds, nothing to add.
LEMMA ReplayNothing ==
  ASSUME NEW ms, NEW n \in Nat, NEW c, NEW i
  PROVE  InModels(c, i, SubSeq(ms, n + 1, n)) = Zero
PROOF
  <1>1. DOMAIN SubSeq(ms, n + 1, n) = {}
    OBVIOUS
  <1> QED BY <1>1 DEF InModels

\* A replayed score matches the model, whichever data set asks for it.
LEMMA ReplayMatches ==
  ASSUME InStep, LateData \/ born = NumInit
  PROVE  Replayed \in Score /\ \A c \in Class : \A i \in RoundId : Replayed[c][i] = InModels(c, i, models)
PROOF
  <1> DEFINE rounds == SubSeq(models, NumInit + 1, NumInit + iter)
             merged == [leaves |-> 1, bias |-> 0]
  <1>1. /\ models \in Seq(Round) /\ iter \in Nat /\ NumInit \in Nat /\ Distinct(models)
        /\ Len(models) \in Nat /\ DOMAIN models = 1..Len(models)
        /\ NumInit + iter <= Len(models)
    BY SetupTyped DEF InStep, Typed, RoundsDistinct
  <1>2. merged \in Output /\ Zero \in Output
    BY DEF Output, Zero
  <1>3. \A c \in Class, i \in RoundId :
          /\ FreshScore[c][i] = IF i <= NumInit THEN merged ELSE Zero
          /\ FreshScore[c][i] \in Output
    BY FreshScoreType DEF FreshScore, Score
  <1>4. \A c \in Class, i \in RoundId :
          Replayed[c][i] = Plus(FreshScore[c][i], InModels(c, i, rounds))
    BY DEF Replayed, ReplayFrom
  <1>5. ASSUME NEW c \in Class, NEW i \in RoundId
        PROVE  Replayed[c][i] = InModels(c, i, models)
    <2>1. CASE LateData
      <3>1. /\ Len(models) = NumInit + iter
            /\ \A p \in DOMAIN models :
                 IF p <= NumInit THEN models[p] = InitialRound(p) ELSE models[p].id > NumInit
        BY <2>1 DEF InStep, MergedInFront
      <3>2. /\ \A p \in DOMAIN models : p <= NumInit => models[p].id = p /\ models[p].tree[c] = merged
            /\ \A p \in DOMAIN models : p <= NumInit \/ models[p].id > NumInit
        BY <3>1 DEF InitialRound
      <3>3. Plus(FreshScore[c][i], InModels(c, i, SubSeq(models, NumInit + 1, Len(models))))
              = InModels(c, i, models)
        <4> HIDE DEF merged
        <4>1. NumInit <= Len(models) /\ FreshScore[c][i] \in Output
          BY <1>1, <1>3
        <4> QED BY <1>1, <1>2, <1>3, <3>2, <4>1, ReplaySum, SMTT(30)
      <3> QED BY <1>4, <3>1, <3>3
    <2>2. CASE ~LateData
      <3>1. iter = 0 /\ FreshScore[c][i] = InModels(c, i, models)
        BY <2>2 DEF InStep, FreshMatches, Matches
      <3>2. InModels(c, i, rounds) = Zero
        BY <1>1, <3>1, ReplayNothing
      <3> QED BY <1>3, <1>4, <3>1, <3>2, ZeroPlus
    <2> QED BY <2>1, <2>2
  <1>6. Replayed \in Score
    <2>1. \A c \in Class, i \in RoundId : Replayed[c][i] \in Output
      BY <1>1, <1>5, InModelsType
    <2> QED BY <2>1 DEF Replayed, Score
  <1> QED BY <1>5, <1>6

-----------------------------------------------------------------------------
(* The invariant is inductive.                                             *)

LEMMA InitInv ==
  ASSUME Init, Sound
  PROVE  InStep
PROOF
  <1>0. IsSetup(setup)
    BY GBDTAssumption DEF Init
  <1>1. /\ NumInit \in Nat /\ MaxRounds \in Nat /\ NumInit <= MaxRounds
        /\ models = [i \in 1..NumInit |-> InitialRound(i)]
        /\ iter = 0 /\ rate \in Rates /\ born = NumInit
        /\ train_score = FreshScore /\ valid_score = <<>>
    BY <1>0, SetupTyped DEF Init
  <1>2. \A i \in 1..NumInit : InitialRound(i) \in Round
    BY <1>1 DEF InitialRound, Round, RoundId, Output
  <1>3. /\ models \in Seq(Round) /\ Len(models) = NumInit /\ DOMAIN models = 1..NumInit
        /\ \A p \in DOMAIN models : models[p] = InitialRound(p) /\ models[p].id = p
    <2>1. \A p \in 1..NumInit : models[p] = InitialRound(p) /\ models[p].id = p
      BY <1>1 DEF InitialRound
    <2>2. models \in [1..NumInit -> Round]
      BY <1>1, <1>2
    <2> QED BY <1>1, <2>1, <2>2
  <1>4. Typed
    BY <1>0, <1>1, <1>3, FreshScoreType DEF Typed
  <1>5. RoundsDistinct /\ IdsBorn
    BY <1>1, <1>3 DEF RoundsDistinct, Distinct, IdsBorn
  <1>6. ASSUME NEW c \in Class, NEW i \in RoundId
        PROVE  FreshScore[c][i] = InModels(c, i, models)
    <2>1. CASE i <= NumInit
      <3>1. i \in DOMAIN models /\ models[i].id = i
        BY <1>1, <1>3, <2>1 DEF RoundId
      <3>2. InModels(c, models[i].id, models) = models[i].tree[c]
        BY <3>1, <1>5, InModelsHit DEF RoundsDistinct
      <3>3. models[i].tree[c] = [leaves |-> 1, bias |-> 0]
        BY <3>1, <1>3 DEF InitialRound
      <3> QED BY <2>1, <3>1, <3>2, <3>3 DEF FreshScore
    <2>2. CASE ~(i <= NumInit)
      <3>1. \A p \in DOMAIN models : models[p].id # i
        BY <1>1, <1>3, <2>2
      <3>2. InModels(c, i, models) = Zero
        BY <3>1, InModelsMiss
      <3> QED BY <2>2, <3>2 DEF FreshScore
    <2> QED BY <2>1, <2>2
  <1>7. Matches(FreshScore)
    BY <1>6 DEF Matches
  <1>8. FreshMatches /\ ScoresMatchModels
    <2>1. DOMAIN valid_score = {}
      BY <1>1
    <2> QED BY <1>1, <1>7, <2>1 DEF FreshMatches, ScoresMatchModels, Matches
  <1>9. MergedInFront
    BY <1>1, <1>3 DEF MergedInFront
  <1> QED BY <1>0, <1>1, <1>3, <1>4, <1>5, <1>8, <1>9 DEF InStep

LEMMA TrainInv ==
  ASSUME InStep, rate \in Int, NEW split \in SUBSET Class, TrainOneIter(split)
  PROVE  InStep'
PROOF
  <1>0. /\ setup' = setup /\ NumInit' = NumInit /\ LateData' = LateData
        /\ Sound' /\ FreshScore' = FreshScore /\ IsSetup(setup)'
    BY SetupFixed DEF InStep, Typed, TrainOneIter
  <1> DEFINE id == born + 1
             r == [id |-> id, tree |-> NewTrees(split, rate)]
  <1>1. /\ models \in Seq(Round) /\ iter \in Nat /\ born \in NumInit..MaxRounds
        /\ NumInit \in Nat /\ MaxRounds \in Nat /\ Len(models) \in Nat
        /\ DOMAIN models = 1..Len(models)
    BY SetupTyped DEF InStep, Typed
  <1>2. /\ born < MaxRounds /\ born' = id /\ id \in RoundId /\ id > born
        /\ born' \in NumInit..MaxRounds /\ born' # NumInit
    BY <1>1 DEF TrainOneIter, MayTrain, RoundId
  <1>3. /\ NewTrees(split, rate) \in [Class -> Output]
        /\ ScoreChange(split, rate) = NewTrees(split, rate)
        /\ r \in Round
    BY <1>2, TreesTyped DEF Round, InStep
  <1>4. /\ train_score' = AddScore(train_score, id, NewTrees(split, rate))
        /\ valid_score' = AddToAll(valid_score, id, NewTrees(split, rate))
    BY <1>3 DEF TrainOneIter, MayTrain
  <1>5. /\ \A p \in DOMAIN models : models[p].id # id /\ models[p].id <= born
        /\ \A p \in DOMAIN models : models[p] \in Round /\ models[p].id \in Int
    <2>1. \A p \in DOMAIN models : models[p] \in Round
      BY <1>1
    <2>2. \A p \in DOMAIN models : models[p].id \in Int /\ models[p].id <= born
      BY <1>0, <2>1 DEF Round, RoundId, InStep, IdsBorn
    <2> QED BY <1>1, <1>2, <2>1, <2>2
  <1>6. iter' = (IF split # {} THEN iter + 1 ELSE iter) /\ iter' \in Nat
    BY <1>1 DEF TrainOneIter, MayTrain
  <1>7. FreshMatches'
    BY <1>0, <1>2 DEF FreshMatches
  <1>8. \A c \in Class : InModels(c, id, models) = Zero
    BY <1>5, InModelsMiss
  <1>9. CASE Kept(split)
    <2>1. models' = Append(models, r)
      BY <1>9 DEF TrainOneIter, MayTrain
    <2> HIDE DEF r
    <2>2. r.id = id /\ r.tree = NewTrees(split, rate)
      BY DEF r
    <2>3. /\ Distinct(models')
          /\ \A c \in Class, i \in RoundId :
               InModels(c, i, models') =
                 IF i = id THEN NewTrees(split, rate)[c] ELSE InModels(c, i, models)
      <3>1. Distinct(models) /\ models \in Seq(Round) /\ r \in Round
        BY <1>1, <1>3 DEF InStep, RoundsDistinct
      <3>2. \A p \in DOMAIN models : models[p].id # r.id
        BY <1>5, <2>2
      <3> QED BY <2>1, <2>2, <3>1, <3>2, InModelsAppend
    <2>4. /\ models' \in Seq(Round) /\ Len(models') = Len(models) + 1
          /\ DOMAIN models' = 1..(Len(models) + 1)
          /\ models'[Len(models) + 1] = r
          /\ \A p \in 1..Len(models) : models'[p] = models[p]
      BY <1>1, <1>3, <2>1
    <2>5. \A c \in Class : NewTrees(split, rate)[c] = Plus(Zero, NewTrees(split, rate)[c])
      BY <1>3, ZeroPlus
    <2>6. \A c \in Class, i \in RoundId :
            InModels(c, i, models') =
              IF i = id THEN Plus(InModels(c, i, models), NewTrees(split, rate)[c])
                        ELSE InModels(c, i, models)
      BY <1>8, <2>3, <2>5
    <2>7. ScoresMatchModels' /\ train_score' \in Score /\ valid_score' \in Seq(Score)
      BY <1>0, <1>2, <1>3, <1>4, <2>6, MatchesTransfer DEF InStep
    <2>8. Typed'
      BY <1>0, <1>2, <1>6, <2>4, <2>7 DEF Typed
    <2>9. IdsBorn'
      BY <1>1, <1>2, <1>5, <2>2, <2>4 DEF IdsBorn
    <2>10. Len(models') >= NumInit + iter'
      BY <1>0, <1>1, <1>6, <2>4 DEF InStep
    <2>11. MergedInFront'
      <3> SUFFICES ASSUME LateData PROVE MergedInFront'
        BY <1>0 DEF MergedInFront
      <3>1. FirstSplits
        BY DEF Sound, SoundSetup, InStep, FirstSplits, LateData
      <3>2. split # {}
        <4>1. CASE Len(models) > 0
          BY <1>1, <1>9, <4>1 DEF Kept
        <4>2. CASE Len(models) = 0
          <5>1. models = <<>>
            BY <1>1, <4>2
          <5> QED BY <3>1, <5>1 DEF TrainOneIter, MayTrain
        <4> QED BY <1>1, <4>1, <4>2
      <3>3. Len(models') = NumInit + iter'
        BY <1>0, <1>1, <1>6, <2>4, <3>2 DEF InStep, MergedInFront
      <3>4. ASSUME NEW p \in DOMAIN models'
            PROVE  IF p <= NumInit THEN models'[p] = InitialRound(p)
                                   ELSE models'[p].id > NumInit
        <4>1. CASE p = Len(models) + 1
          BY <1>0, <1>1, <1>2, <2>2, <2>4, <4>1 DEF InStep
        <4>2. CASE p # Len(models) + 1
          BY <1>0, <1>1, <2>4, <4>2 DEF InStep, MergedInFront
        <4> QED BY <4>1, <4>2
      <3> QED BY <1>0, <3>3, <3>4 DEF MergedInFront
    <2> QED BY <1>0, <1>7, <2>3, <2>7, <2>8, <2>9, <2>10, <2>11 DEF InStep, RoundsDistinct
  <1>10. CASE ~Kept(split)
    <2>1. split = {} /\ models # <<>> /\ models' = models /\ iter' = iter
      BY <1>1, <1>10 DEF Kept, TrainOneIter, MayTrain
    <2>2. \A c \in Class : NewTrees(split, rate)[c] = Zero
      BY <2>1 DEF NewTrees, StartingScore, AddsDefault, Zero
    <2>3. \A c \in Class, i \in RoundId :
            Plus(InModels(c, i, models), NewTrees(split, rate)[c]) = InModels(c, i, models)
      BY <1>1, <2>2, InModelsType, ZeroPlus
    <2>4. \A c \in Class, i \in RoundId :
            InModels(c, i, models') =
              IF i = id THEN Plus(InModels(c, i, models), NewTrees(split, rate)[c])
                        ELSE InModels(c, i, models)
      BY <2>1, <2>3
    <2>5. ScoresMatchModels' /\ train_score' \in Score /\ valid_score' \in Seq(Score)
      BY <1>0, <1>2, <1>3, <1>4, <2>4, MatchesTransfer DEF InStep
    <2>6. Typed'
      BY <1>0, <1>1, <1>2, <1>6, <2>1, <2>5 DEF Typed
    <2>7. IdsBorn'
      BY <1>1, <1>2, <1>5, <2>1 DEF IdsBorn
    <2>8. RoundsDistinct' /\ MergedInFront' /\ Len(models') >= NumInit + iter'
      BY <1>0, <2>1 DEF InStep, RoundsDistinct, Distinct, MergedInFront
    <2> QED BY <1>0, <1>7, <2>5, <2>6, <2>7, <2>8 DEF InStep
  <1> QED BY <1>9, <1>10

LEMMA RollbackInv ==
  ASSUME InStep, RollbackOneIter
  PROVE  InStep'
PROOF
  <1>0. /\ setup' = setup /\ NumInit' = NumInit /\ LateData' = LateData
        /\ Sound' /\ FreshScore' = FreshScore /\ IsSetup(setup)'
    BY SetupFixed DEF InStep, Typed, RollbackOneIter
  <1> DEFINE r == models[Len(models)]
             back == [c \in Class |-> Negated(r.tree[c])]
  <1>1. /\ models \in Seq(Round) /\ iter \in Nat /\ born \in NumInit..MaxRounds
        /\ NumInit \in Nat /\ Len(models) \in Nat /\ Len(models) >= NumInit + iter
        /\ iter > 0 /\ iter' = iter - 1 /\ born' = born
        /\ models' = SubSeq(models, 1, Len(models) - 1)
    BY SetupTyped DEF InStep, Typed, RollbackOneIter, CanRollback
  <1>2. Len(models) > 0 /\ Len(models) \in DOMAIN models /\ r \in Round
    BY <1>1
  <1>3. r.id \in RoundId /\ r.tree \in [Class -> Output]
    BY <1>2 DEF Round
  <1>4. back \in [Class -> Output]
    BY <1>3, NegatedType
  <1>5. /\ train_score' = AddScore(train_score, r.id, back)
        /\ valid_score' = AddToAll(valid_score, r.id, back)
    BY DEF RollbackOneIter, RollbackValid
  <1>6. /\ models' \in Seq(Round)
        /\ Len(models') = Len(models) - 1
        /\ \A p \in DOMAIN models' : p \in DOMAIN models /\ models'[p] = models[p]
        /\ Distinct(models')
        /\ \A c \in Class, i \in RoundId :
             InModels(c, i, models') = IF i = r.id THEN Zero ELSE InModels(c, i, models)
    <2>1. Distinct(models)
      BY DEF InStep, RoundsDistinct
    <2>2. models \in Seq(Round) /\ Len(models) > 0
      BY <1>1, <1>2
    <2>3. models' = Front(models)
      BY <1>1 DEF Front
    <2> QED BY <2>1, <2>2, <2>3, InModelsFront
  <1>7. ASSUME NEW c \in Class
        PROVE  Plus(InModels(c, r.id, models), back[c]) = Zero
    <2>1. InModels(c, r.id, models) = r.tree[c]
      BY <1>0, <1>2, InModelsHit DEF InStep, RoundsDistinct
    <2>2. Plus(r.tree[c], Negated(r.tree[c])) = Zero
      BY <1>3, NegatedCancels
    <2> QED BY <2>1, <2>2
  <1> HIDE DEF r, back
  <1>8. ScoresMatchModels' /\ train_score' \in Score /\ valid_score' \in Seq(Score)
    BY <1>0, <1>3, <1>4, <1>5, <1>6, <1>7, MatchesTransfer DEF InStep
  <1>9. Typed' /\ Len(models') >= NumInit + iter'
    BY <1>0, <1>1, <1>6, <1>8 DEF Typed
  <1>10. IdsBorn' /\ RoundsDistinct'
    BY <1>0, <1>1, <1>6 DEF InStep, IdsBorn, RoundsDistinct
  <1>11. FreshMatches'
    BY <1>0, <1>1 DEF InStep, FreshMatches
  <1>12. MergedInFront'
    <2> SUFFICES ASSUME LateData PROVE MergedInFront'
      BY <1>0 DEF MergedInFront
    <2>1. Len(models') = NumInit + iter'
      BY <1>0, <1>1, <1>6 DEF InStep, MergedInFront
    <2>2. \A p \in DOMAIN models' :
            IF p <= NumInit THEN models'[p] = InitialRound(p) ELSE models'[p].id > NumInit
      BY <1>0, <1>6 DEF InStep, MergedInFront
    <2> QED BY <1>0, <2>1, <2>2 DEF MergedInFront
  <1> QED BY <1>0, <1>8, <1>9, <1>10, <1>11, <1>12 DEF InStep

LEMMA AddValidInv ==
  ASSUME InStep, AddValidDataset
  PROVE  InStep'
PROOF
  <1>0. /\ setup' = setup /\ NumInit' = NumInit /\ LateData' = LateData
        /\ Sound' /\ FreshScore' = FreshScore /\ IsSetup(setup)'
    BY SetupFixed DEF InStep, Typed, AddValidDataset
  <1>1. /\ UNCHANGED <<rate, models, iter, train_score, born>>
        /\ valid_score' = Append(valid_score, Replayed)
        /\ Replayed \in Score /\ Matches(Replayed)
        /\ valid_score \in Seq(Score)
    BY ReplayMatches DEF Matches, AddValidDataset, InStep, Typed
  <1>2. Typed'
    BY <1>0, <1>1 DEF InStep, Typed
  <1>3. ASSUME NEW v \in DOMAIN valid_score'
        PROVE  Matches(valid_score'[v])
    <2>1. v \in DOMAIN valid_score \/ valid_score'[v] = Replayed
      BY <1>1
    <2>2. CASE v \in DOMAIN valid_score
      <3>1. valid_score'[v] = valid_score[v]
        BY <1>1, <2>2
      <3> QED BY <1>0, <2>2, <3>1 DEF InStep, ScoresMatchModels
    <2> QED BY <1>1, <2>1, <2>2
  <1>4. ScoresMatchModels'
    BY <1>0, <1>1, <1>3 DEF InStep, ScoresMatchModels, Matches
  <1> QED BY <1>0, <1>1, <1>2, <1>4
          DEF InStep, RoundsDistinct, IdsBorn, FreshMatches, Matches, MergedInFront

LEMMA ResetTrainingInv ==
  ASSUME InStep, ResetTrainingData
  PROVE  InStep'
PROOF
  <1>0. /\ setup' = setup /\ NumInit' = NumInit /\ LateData' = LateData
        /\ Sound' /\ FreshScore' = FreshScore /\ IsSetup(setup)'
    BY SetupFixed DEF InStep, Typed, ResetTrainingData
  <1>1. /\ UNCHANGED <<rate, models, iter, valid_score, born>>
        /\ train_score' = Replayed /\ Replayed \in Score /\ Matches(Replayed)
    BY ReplayMatches DEF ResetTrainingData, Matches
  <1>2. Typed' /\ ScoresMatchModels'
    BY <1>0, <1>1 DEF InStep, Typed, ScoresMatchModels, Matches
  <1> QED BY <1>0, <1>1, <1>2
          DEF InStep, RoundsDistinct, IdsBorn, FreshMatches, Matches, MergedInFront

LEMMA ShuffleInv ==
  ASSUME InStep, ShuffleModels
  PROVE  InStep'
PROOF
  <1>0. /\ setup' = setup /\ NumInit' = NumInit /\ LateData' = LateData
        /\ Sound' /\ FreshScore' = FreshScore /\ IsSetup(setup)'
    BY SetupFixed DEF InStep, Typed, ShuffleModels
  <1>1. /\ UNCHANGED <<rate, iter, train_score, valid_score, born>> /\ MayShuffle
        /\ models \in Seq(Round) /\ Distinct(models)
        /\ \E order \in Bijection(DOMAIN models, DOMAIN models) :
             models' = Reordered(models, order)
    <2>1. models \in Seq(Round) /\ Distinct(models)
      BY DEF InStep, Typed, RoundsDistinct
    <2>2. /\ UNCHANGED <<rate, iter, train_score, valid_score, born>> /\ MayShuffle
      BY DEF ShuffleModels
    <2> QED BY <2>1, <2>2, ShuffleOrders DEF Reordered
  <1>2. /\ models' \in Seq(Round)
        /\ Len(models') = Len(models)
        /\ Distinct(models')
        /\ \A a \in DOMAIN models' : \E b \in DOMAIN models : models'[a] = models[b]
        /\ \A c \in Class, i \in RoundId : InModels(c, i, models') = InModels(c, i, models)
    BY <1>1, InModelsReordered
  <1>3. Typed' /\ RoundsDistinct' /\ Len(models') >= NumInit + iter'
    BY <1>0, <1>1, <1>2 DEF InStep, Typed, RoundsDistinct
  <1>4. IdsBorn'
    BY <1>0, <1>1, <1>2 DEF InStep, IdsBorn
  <1>5. FreshMatches' /\ ScoresMatchModels'
    BY <1>0, <1>1, <1>2 DEF InStep, FreshMatches, ScoresMatchModels, Matches
  <1>6. MergedInFront'
    <2> SUFFICES ASSUME LateData PROVE MergedInFront'
      BY <1>0 DEF MergedInFront
    <2>1. NumInit = 0 /\ Len(models') = NumInit + iter'
      BY <1>0, <1>1, <1>2 DEF Sound, SoundSetup, InStep, MergedInFront, LateData, NumInit, MayShuffle
    <2>2. \A a \in DOMAIN models' : a > 0 /\ models'[a] \in Round
      <3>1. DOMAIN models' = 1..Len(models')
        BY <1>2
      <3>2. \A a \in DOMAIN models' : models'[a] \in Round
        BY <1>2
      <3>3. \A a \in DOMAIN models' : a > 0
        BY <3>1
      <3> QED BY <3>2, <3>3
    <2>3. \A a \in DOMAIN models' : models'[a].id > 0 /\ ~(a <= 0)
      BY <1>2, <2>2 DEF Round, RoundId
    <2> QED BY <1>0, <2>1, <2>3 DEF MergedInFront
  <1> QED BY <1>0, <1>3, <1>4, <1>5, <1>6 DEF InStep

LEMMA ResetConfigInv ==
  ASSUME InStep, ResetConfig
  PROVE  InStep'
  BY SetupFixed DEF ResetConfig, InStep, Typed, RoundsDistinct, IdsBorn, FreshMatches,
     Matches, MergedInFront, ScoresMatchModels

\* The inductive invariant holds throughout.
THEOREM GBDTInvariant ==
  ASSUME \A s \in Setups : SoundSetup(s) PROVE Spec => []IInv
PROOF
  <1>1. IInv /\ [Next]_vars => IInv'
    <2> SUFFICES ASSUME IInv, [Next]_vars PROVE InStep' /\ rate' \in Rates
      BY DEF IInv
    <2>0. InStep /\ rate \in Rates
      BY DEF IInv
    <2>1. ASSUME NEW split \in SUBSET Class, TrainOneIter(split)
          PROVE  InStep' /\ rate' \in Rates
      BY <2>0, <2>1, TrainInv, GBDTAssumption DEF TrainOneIter
    <2>2. CASE RollbackOneIter
      BY <2>0, <2>2, RollbackInv DEF RollbackOneIter
    <2>3. CASE AddValidDataset
      BY <2>0, <2>3, AddValidInv DEF AddValidDataset
    <2>4. CASE ResetTrainingData
      BY <2>0, <2>4, ResetTrainingInv DEF ResetTrainingData
    <2>5. CASE ShuffleModels
      BY <2>0, <2>5, ShuffleInv DEF ShuffleModels
    <2>6. CASE ResetConfig
      BY <2>0, <2>6, ResetConfigInv DEF ResetConfig
    <2>7. CASE UNCHANGED vars
      BY <2>0, <2>7 DEF vars, InStep, Typed, Sound, NumInit, LateData, FreshScore, RoundsDistinct,
                  IdsBorn, FreshMatches, Matches,
                  MergedInFront, ScoresMatchModels
    <2> QED BY <2>1, <2>2, <2>3, <2>4, <2>5, <2>6, <2>7 DEF Next
  <1>2. ASSUME Init PROVE IInv
    BY <1>2, InitInv DEF IInv, Init, Sound
  <1> QED BY <1>1, <1>2, PTL DEF Spec

\* The variables keep their types for any number of classes and rounds.
THEOREM TypeCorrect ==
  ASSUME \A s \in Setups : SoundSetup(s) PROVE Spec => []TypeOK
PROOF
  <1>1. IInv => TypeOK
    BY DEF IInv, InStep, Typed, TypeOK
  <1> QED BY <1>1, GBDTInvariant, PTL

\* Scores and model agree after every sequence of training, rollback,
\* shuffling and new data sets.
THEOREM ScoresCorrect ==
  ASSUME \A s \in Setups : SoundSetup(s) PROVE Spec => []ScoresMatchModels
PROOF
  <1>1. IInv => ScoresMatchModels
    BY DEF IInv, InStep
  <1> QED BY <1>1, GBDTInvariant, PTL

\* Only a rollback takes a round out of the model, and a shuffle keeps the
\* others where they are.
LEMMA KeptWhere ==
  ASSUME InStep, [Next]_vars
  PROVE  /\ \A p \in DOMAIN models : Stays(p) \/ (p = Len(models) /\ iter' = iter - 1)
         /\ \A p, q \in Moved : p..q \subseteq Moved
PROOF
  <1>0. models \in Seq(Round) /\ Distinct(models) /\ DOMAIN models = 1..Len(models) /\ Len(models) \in Nat
    BY DEF InStep, Typed, RoundsDistinct
  <1>1. CASE models' = models
    <2>1. \A p, k \in DOMAIN models : models[k] = models[p] <=> k = p
      BY <1>0 DEF Distinct
    <2> QED BY <1>1, <2>1 DEF Stays, Moved
  <1>2. CASE \E r : models' = Append(models, r) /\ ~\E p \in DOMAIN models : models[p] = r
    <2>1. PICK r : models' = Append(models, r) /\ ~\E p \in DOMAIN models : models[p] = r
      BY <1>2
    <2>2. /\ DOMAIN models' = 1..(Len(models) + 1)
          /\ \A p \in DOMAIN models : models'[p] = models[p]
          /\ models'[Len(models) + 1] = r
      BY <1>0, <2>1
    <2>3. \A p \in DOMAIN models, k \in DOMAIN models' : models'[k] = models[p] <=> k = p
      <3> SUFFICES ASSUME NEW p \in DOMAIN models, NEW k \in DOMAIN models'
                   PROVE  models'[k] = models[p] <=> k = p
        OBVIOUS
      <3>1. CASE k \in DOMAIN models
        BY <1>0, <2>2, <3>1 DEF Distinct
      <3>2. CASE k \notin DOMAIN models
        <4>1. k = Len(models) + 1
          BY <1>0, <2>2, <3>2
        <4> QED BY <2>1, <2>2, <3>2, <4>1
      <3> QED BY <3>1, <3>2
    <2>4. \A p \in DOMAIN models : p \in DOMAIN models'
      BY <1>0, <2>2
    <2>5. Moved = {}
      BY <2>2 DEF Moved
    <2> QED BY <2>3, <2>4, <2>5 DEF Stays
  <1>3. CASE RollbackOneIter
    <2>1. iter' = iter - 1 /\ models' = SubSeq(models, 1, Len(models) - 1)
      BY <1>3 DEF RollbackOneIter
    <2>5. Len(models) # 0
      BY <1>3, SetupTyped DEF RollbackOneIter, CanRollback, InStep, Typed
    <2>2. /\ DOMAIN models' = 1..(Len(models) - 1)
          /\ \A p \in 1..(Len(models) - 1) : models'[p] = models[p]
      BY <1>0, <2>1, <2>5
    <2>3. Moved = {}
      BY <2>2 DEF Moved
    <2>4. ASSUME NEW p \in DOMAIN models, p # Len(models) PROVE Stays(p)
      <3>1. p \in DOMAIN models' /\ \A k \in DOMAIN models' : k \in DOMAIN models
        BY <1>0, <2>2, <2>4
      <3>2. \A k \in DOMAIN models' : models'[k] = models[p] <=> k = p
        BY <1>0, <2>2, <3>1 DEF Distinct
      <3> QED BY <3>1, <3>2 DEF Stays
    <2> QED BY <2>1, <2>3, <2>4
  <1>4. CASE ShuffleModels
    <2>1. PICK order \in Bijection(DOMAIN models, DOMAIN models) :
            /\ models' = [p \in DOMAIN models |-> models[order[p]]]
            /\ \E first, last \in Nat : \A p \in DOMAIN models :
                 order[p] # p <=> first < last /\ p \in first..last
      BY <1>0, <1>4, ShuffleOrders
    <2>2. PICK first, last \in Nat : \A p \in DOMAIN models :
            order[p] # p <=> first < last /\ p \in first..last
      BY <2>1
    <2>3. /\ \A p \in DOMAIN models : order[p] \in DOMAIN models
          /\ \A p, q \in DOMAIN models : order[p] = order[q] => p = q
          /\ \A q \in DOMAIN models : \E p \in DOMAIN models : order[p] = q
      <3>1. order \in [DOMAIN models -> DOMAIN models] /\ IsInjective(order)
        BY <2>1 DEF Bijection, Injection
      <3>2. \A q \in DOMAIN models : \E p \in DOMAIN models : order[p] = q
        BY <2>1 DEF Bijection, Surjection
      <3> QED BY <3>1, <3>2 DEF IsInjective
    <2>4. /\ DOMAIN models' = DOMAIN models
          /\ \A k \in DOMAIN models : models'[k] = models[order[k]]
      BY <2>1
    <2>9. \A a, b \in DOMAIN models : models[a] = models[b] => a = b
      BY <1>0 DEF Distinct
    <2>5. ASSUME NEW k \in DOMAIN models, NEW p \in DOMAIN models
          PROVE  models'[k] = models[p] <=> order[k] = p
      <3>1. order[k] \in DOMAIN models /\ models'[k] = models[order[k]]
        BY <2>3, <2>4
      <3>2. models[order[k]] = models[p] <=> order[k] = p
        BY <2>9, <3>1
      <3> QED BY <3>1, <3>2
    <2>6. ASSUME NEW p \in DOMAIN models PROVE Stays(p)
      <3>1. PICK q \in DOMAIN models : order[q] = p
        BY <2>3
      <3>2. \A k \in DOMAIN models : order[k] = p <=> k = q
        BY <2>3, <3>1
      <3>3. \A k \in DOMAIN models' : models'[k] = models[p] <=> k = q
        BY <2>4, <2>5, <3>2
      <3> QED BY <2>4, <3>3 DEF Stays
    <2>7. Moved = {p \in DOMAIN models : first < last /\ p \in first..last}
      BY <2>2, <2>4, <2>5 DEF Moved
    <2>8. \A p, q \in Moved : p..q \subseteq Moved
      BY <1>0, <2>7
    <2> QED BY <2>6, <2>8
  <1>5. ASSUME NEW split \in SUBSET Class, TrainOneIter(split)
        PROVE  models' = models
               \/ \E r : models' = Append(models, r) /\ ~\E p \in DOMAIN models : models[p] = r
    <2>1. \A p \in DOMAIN models : models[p].id <= born /\ models[p].id \in Nat /\ born \in Nat
      <3>1. born \in Nat /\ MaxRounds \in Nat
        BY SetupTyped DEF InStep, Typed
      <3>2. \A p \in DOMAIN models : models[p] \in Round
        BY <1>0
      <3> QED BY <3>1, <3>2 DEF InStep, IdsBorn, Round, RoundId
    <2> DEFINE r == [id |-> born + 1, tree |-> NewTrees(split, rate)]
    <2>2. models' = models \/ models' = Append(models, r)
      BY <1>5 DEF TrainOneIter
    <2>3. \A p \in DOMAIN models : models[p] # r
      <3>1. r.id = born + 1
        OBVIOUS
      <3> HIDE DEF r
      <3>2. ASSUME NEW p \in DOMAIN models, models[p] = r PROVE FALSE
        <4>1. models[p].id <= born /\ models[p].id = born + 1 /\ born \in Nat
          BY <2>1, <3>1, <3>2
        <4> QED BY <4>1
      <3> QED BY <3>2
    <2> HIDE DEF r
    <2> QED BY <2>2, <2>3
  <1>6. CASE AddValidDataset \/ ResetTrainingData \/ ResetConfig \/ UNCHANGED vars
    BY <1>1, <1>6 DEF AddValidDataset, ResetTrainingData, ResetConfig, vars
  <1> QED BY <1>1, <1>2, <1>3, <1>4, <1>5, <1>6 DEF Next

\* Training, new data and shuffles keep every round, once and unchanged, and
\* a shuffle moves the rounds of one range and no others.
THEOREM RoundsKeptCorrect ==
  ASSUME \A s \in Setups : SoundSetup(s) PROVE Spec => RoundsKept
PROOF
  <1>1. IInv /\ [Next]_vars =>
          [/\ \A p \in DOMAIN models : Stays(p) \/ (p = Len(models) /\ iter' = iter - 1)
           /\ \A p, q \in Moved : p..q \subseteq Moved]_vars
    BY KeptWhere DEF IInv
  <1> QED BY <1>1, GBDTInvariant, PTL DEF Spec, RoundsKept

-----------------------------------------------------------------------------
(* Random forests: scores are exact averages because the entries of every  *)
(* tree are divisible by every number of rounds.                           *)

IsMultiple(out) == out.leaves \in {0, Leaf} /\ out.bias \in {0, Bias}
AreMultiples(ms) == \A p \in DOMAIN ms : \A c \in Class : IsMultiple(ms[p].tree[c])

ForestFresh ==
  born = NumInit =>
    iter = 0 /\ \A c \in Class : \A i \in RoundId : GivenScore[c][i] = InModels(c, i, models)

ForestFront ==
  LateData =>
    /\ \A p \in DOMAIN models : p <= NumInit => models[p] = Loaded(p)
    /\ \A p \in DOMAIN models : p <= NumInit \/ models[p].id > NumInit

\* ForestInv is not inductive: a new round must have a new number, there are
\* no more rounds than the trees can be divided by, and replays must find the
\* merged rounds in front.
ForestIInv ==
  /\ ForestTypeOK
  /\ IsSetup(setup) /\ SoundForest(setup)
  /\ Rounds <= born
  /\ RoundsDistinct /\ IdsBorn /\ AreMultiples(models)
  /\ ForestFresh /\ ForestFront
  /\ IsAverage(train_score)
  /\ \A v \in DOMAIN valid_score : IsAverage(valid_score[v])

LEMMA ExactQuotient ==
  ASSUME NEW x \in Int, NEW n \in Nat \ {0}, x % n = 0
  PROVE  x \div n \in Int /\ (x \div n) * n = x
  OBVIOUS

LEMMA MultipleQuotient ==
  ASSUME NEW out \in Output, IsMultiple(out), NEW n \in 1..MaxRounds
  PROVE  /\ out.leaves \div n \in Int /\ (out.leaves \div n) * n = out.leaves
         /\ out.bias \div n \in Int /\ (out.bias \div n) * n = out.bias
PROOF
  <1>1. MaxRounds \in Nat /\ Leaf % n = 0 /\ Bias % n = 0
    BY GBDTAssumption, ForestAssumption
  <1>2. n \in Nat \ {0} /\ 0 % n = 0
    BY <1>1
  <1>3. out.leaves % n = 0 /\ out.bias % n = 0
    BY <1>1, <1>2 DEF IsMultiple
  <1>4. out.leaves \in Int /\ out.bias \in Int
    BY DEF Output
  <1> QED BY <1>2, <1>3, <1>4, ExactQuotient

LEMMA InModelsMultiple ==
  ASSUME NEW ms, AreMultiples(ms), NEW c \in Class, NEW i
  PROVE  IsMultiple(InModels(c, i, ms))
  BY DEF InModels, AreMultiples, IsMultiple, Zero

\* Sums of what a model predicts, divided by n, are averages over n rounds.
LEMMA NewAverage ==
  ASSUME NEW sums, NEW n \in 1..MaxRounds, NEW ms \in Seq(Round), AreMultiples(ms),
         \A c \in Class : \A i \in RoundId : sums[c][i] = InModels(c, i, ms),
         NEW new, new = [c \in Class |-> DividedBy(sums[c], n)]
  PROVE  /\ new \in Score
         /\ \A c \in Class : Times(new[c], n) = [i \in RoundId |-> InModels(c, i, ms)]
PROOF
  <1>1. ASSUME NEW c \in Class, NEW i \in RoundId
        PROVE  /\ new[c][i] \in Output
               /\ [leaves |-> new[c][i].leaves * n, bias |-> new[c][i].bias * n]
                    = InModels(c, i, ms)
    <2> DEFINE out == InModels(c, i, ms)
    <2>1. out \in Output /\ IsMultiple(out)
      BY InModelsType, InModelsMultiple
    <2>2. new[c][i] = [leaves |-> out.leaves \div n, bias |-> out.bias \div n]
      BY DEF DividedBy
    <2> HIDE DEF out
    <2>3. /\ out.leaves \div n \in Int /\ (out.leaves \div n) * n = out.leaves
          /\ out.bias \div n \in Int /\ (out.bias \div n) * n = out.bias
      BY <2>1, MultipleQuotient
    <2>4. out = [leaves |-> out.leaves, bias |-> out.bias]
      BY <2>1 DEF Output
    <2>5. new[c][i] \in Output
      BY <2>2, <2>3 DEF Output
    <2> QED BY <2>2, <2>3, <2>4, <2>5 DEF out
  <1>2. \A c \in Class : new[c] = [i \in RoundId |-> new[c][i]]
    BY DEF DividedBy
  <1>3. new \in Score
    <2>1. \A c \in Class : new[c] \in [RoundId -> Output]
      BY <1>1, <1>2
    <2> QED BY <2>1 DEF Score
  <1>4. \A c \in Class : Times(new[c], n) = [i \in RoundId |-> InModels(c, i, ms)]
    BY <1>1 DEF Times
  <1> QED BY <1>3, <1>4

\* Every validation score replaced.
LEMMA ScoresReplaced ==
  ASSUME NEW scores \in Seq(Score), NEW new, DOMAIN new = DOMAIN scores,
         new = [v \in DOMAIN scores |-> new[v]], \A v \in DOMAIN scores : new[v] \in Score
  PROVE  new \in Seq(Score)
PROOF
  <1>1. DOMAIN scores = 1..Len(scores) /\ Len(scores) \in Nat
    OBVIOUS
  <1>2. new \in [1..Len(scores) -> Score]
    BY <1>1
  <1> QED BY <1>1, <1>2

\* What the types say, in the form the steps need.
LEMMA ForestTyped ==
  ASSUME ForestIInv
  PROVE  /\ models \in Seq(Round) /\ Len(models) = Rounds /\ Len(models) \in Nat
         /\ DOMAIN models = 1..Len(models)
         /\ iter \in Nat /\ NumInit \in Nat /\ MaxRounds \in Nat /\ Rounds = iter + NumInit
         /\ Rounds \in Nat /\ Rounds <= born /\ born \in NumInit..MaxRounds
         /\ Distinct(models) /\ AreMultiples(models)
         /\ train_score \in Score /\ valid_score \in Seq(Score)
         /\ \A p \in DOMAIN models : models[p] \in Round /\ models[p].id \in Int
                                     /\ models[p].id <= born
PROOF
  <1>1. /\ models \in Seq(Round) /\ Len(models) = Rounds /\ iter \in Nat
        /\ NumInit \in Nat /\ MaxRounds \in Nat /\ born \in NumInit..MaxRounds
    BY SetupTyped DEF ForestIInv, ForestTypeOK
  <1>2. \A p \in DOMAIN models : models[p] \in Round
    BY <1>1
  <1> QED BY <1>1, <1>2 DEF ForestIInv, ForestTypeOK, Rounds, RoundsDistinct, IdsBorn, Round, RoundId

LEMMA ForestFixed ==
  ASSUME ForestIInv, setup' = setup, setup \in Forests
  PROVE  /\ NumInit' = NumInit /\ LateData' = LateData /\ GivenScore' = GivenScore
         /\ IsSetup(setup)' /\ SoundForest(setup)'
  BY DEF ForestIInv, NumInit, LateData, GivenScore, IsSetup, SoundForest

LEMMA GivenScoreType == ASSUME ForestIInv PROVE GivenScore \in Score
  BY ForestAssumption DEF GivenScore, Score, Output, Zero

LEMMA ForestInitInv ==
  ASSUME \A s \in Forests : SoundForest(s), ForestInit
  PROVE  ForestIInv
PROOF
  <1>0. setup \in Forests /\ IsSetup(setup) /\ SoundForest(setup)
    BY GBDTAssumption, ForestAssumption DEF ForestInit, IsForest
  <1> DEFINE given == [leaves |-> Leaf, bias |-> 0]
  <1>1. /\ NumInit \in Nat /\ MaxRounds \in Nat /\ NumInit <= MaxRounds
        /\ models = [i \in 1..NumInit |-> Loaded(i)]
        /\ iter = 0 /\ born = NumInit /\ Rounds = NumInit
        /\ train_score = Averaged(GivenScore) /\ valid_score = <<>>
        /\ init_scores = StartingScore
    BY <1>0, SetupTyped DEF ForestInit, Rounds, Boosting
  <1>2. given \in Output /\ Zero \in Output /\ IsMultiple(given)
    BY ForestAssumption DEF Output, Zero, IsMultiple
  <1>3. \A i \in 1..NumInit :
          /\ Loaded(i) \in Round /\ Loaded(i).id = i
          /\ \A c \in Class : Loaded(i).tree[c] = given
    BY <1>1, <1>2 DEF Loaded, Round, RoundId
  <1>4. /\ models \in Seq(Round) /\ Len(models) = NumInit /\ DOMAIN models = 1..NumInit
        /\ \A p \in DOMAIN models :
             models[p] = Loaded(p) /\ models[p].id = p /\ \A c \in Class : models[p].tree[c] = given
    <2>1. models \in [1..NumInit -> Round]
      BY <1>1, <1>3
    <2> QED BY <1>1, <1>3, <2>1
  <1>5. RoundsDistinct /\ IdsBorn /\ AreMultiples(models)
    BY <1>1, <1>2, <1>4 DEF RoundsDistinct, Distinct, IdsBorn, AreMultiples
  <1>6. ASSUME NEW c \in Class, NEW i \in RoundId
        PROVE  GivenScore[c][i] = InModels(c, i, models)
    <2>1. CASE i <= NumInit
      <3>1. i \in DOMAIN models /\ models[i].id = i
        BY <1>1, <1>4, <2>1 DEF RoundId
      <3>2. InModels(c, models[i].id, models) = models[i].tree[c]
        BY <3>1, <1>5, InModelsHit DEF RoundsDistinct
      <3> QED BY <2>1, <3>1, <3>2, <1>4 DEF GivenScore
    <2>2. CASE ~(i <= NumInit)
      <3>1. \A p \in DOMAIN models : models[p].id # i
        BY <1>1, <1>4, <2>2
      <3>2. InModels(c, i, models) = Zero
        BY <3>1, InModelsMiss
      <3> QED BY <2>2, <3>2 DEF GivenScore
    <2> QED BY <2>1, <2>2
  <1>7. ForestFresh /\ ForestFront
    BY <1>1, <1>4, <1>6 DEF ForestFresh, ForestFront
  <1>8. train_score \in Score /\ IsAverage(train_score)
    <2>1. CASE Rounds = 0
      <3>1. \A c \in Class, i \in RoundId : GivenScore[c][i] = Zero
        BY <1>1, <2>1 DEF GivenScore, RoundId
      <3>2. train_score = GivenScore
        BY <1>1, <2>1 DEF Averaged
      <3>3. \A c \in Class, i \in RoundId : InModels(c, i, models) = Zero
        BY <1>6, <3>1
      <3>4. train_score \in Score
        BY <1>2, <3>2 DEF GivenScore, Score
      <3> QED BY <2>1, <3>1, <3>2, <3>3, <3>4 DEF IsAverage, Times, Zero
    <2>2. CASE Rounds # 0
      <3>1. train_score = [c \in Class |-> DividedBy(GivenScore[c], Rounds)]
        BY <1>1, <2>2 DEF Averaged
      <3>2. Rounds \in 1..MaxRounds
        BY <1>1, <2>2
      <3>3. AreMultiples(models) /\ models \in Seq(Round)
        BY <1>4, <1>5
      <3> QED BY <1>6, <3>1, <3>2, <3>3, NewAverage DEF IsAverage
    <2> QED BY <2>1, <2>2
  <1>9. ForestTypeOK
    <2>1. StartingScore \in {0, Bias}
      BY DEF StartingScore
    <2> QED BY <1>0, <1>1, <1>4, <1>8, <2>1 DEF ForestTypeOK
  <1>10. DOMAIN valid_score = {}
    BY <1>1
  <1> QED BY <1>0, <1>1, <1>5, <1>7, <1>8, <1>9, <1>10 DEF ForestIInv

\* A round more: every score becomes an average over one round more.
LEMMA GrownAverage ==
  ASSUME ForestIInv, NEW score \in Score, IsAverage(score), NEW split,
         NEW ms \in Seq(Round), AreMultiples(ms), NEW id \in RoundId, Rounds < MaxRounds,
         \A c \in Class : InModels(c, id, models) = Zero /\ ForestTrees(split)[c] \in Output,
         \A c \in Class, i \in RoundId :
           InModels(c, i, ms) = IF i = id THEN ForestTrees(split)[c] ELSE InModels(c, i, models)
  PROVE  /\ Grown(score, split, id) \in Score
         /\ \A c \in Class :
              Times(Grown(score, split, id)[c], Rounds + 1) = [i \in RoundId |-> InModels(c, i, ms)]
PROOF
  <1> DEFINE sums == [c \in Class |->
                        [Times(score[c], Rounds) EXCEPT ![id] = Plus(@, ForestTrees(split)[c])]]
             new == Grown(score, split, id)
  <1>1. \A c \in Class : Times(score[c], Rounds) = [i \in RoundId |-> InModels(c, i, models)]
    BY DEF IsAverage
  <1>2. ASSUME NEW c \in Class, NEW i \in RoundId
        PROVE  sums[c][i] = InModels(c, i, ms)
    <2>1. Plus(Zero, ForestTrees(split)[c]) = ForestTrees(split)[c]
      BY ZeroPlus
    <2> QED BY <1>1, <2>1, ZenonT(30)
  <1>3. new = [c \in Class |-> DividedBy(sums[c], Rounds + 1)]
    BY DEF Grown, WithTree
  <1>4. Rounds + 1 \in 1..MaxRounds
    BY ForestTyped
  <1> HIDE DEF sums, new
  <1>5. /\ new \in Score
        /\ \A c \in Class : Times(new[c], Rounds + 1) = [i \in RoundId |-> InModels(c, i, ms)]
    BY <1>2, <1>3, <1>4, NewAverage
  <1> QED BY <1>5 DEF new

LEMMA ForestTrainInv ==
  ASSUME ForestIInv, NEW split \in SUBSET Class, ForestTrainOneIter(split)
  PROVE  ForestIInv'
PROOF
  <1> DEFINE id == born + 1
             r == [id |-> id, tree |-> ForestTrees(split)]
  <1>0. /\ setup' = setup /\ setup \in Forests /\ init_scores' = init_scores
        /\ init_scores \in {0, Bias}
        /\ NumInit' = NumInit /\ LateData' = LateData /\ GivenScore' = GivenScore
        /\ IsSetup(setup)' /\ SoundForest(setup)'
    BY ForestFixed DEF ForestIInv, ForestTypeOK, ForestTrainOneIter
  <1>1. /\ born < MaxRounds /\ born' = id /\ iter' = iter + 1
        /\ models' = Append(models, r)
        /\ train_score' = Grown(train_score, split, id)
        /\ valid_score' = [v \in DOMAIN valid_score |-> Grown(valid_score[v], split, id)]
    BY DEF ForestTrainOneIter, MayGrow
  <1>2. /\ id \in RoundId /\ id > born /\ born' \in NumInit..MaxRounds /\ born' # NumInit
        /\ Rounds < MaxRounds /\ Rounds' = Rounds + 1 /\ Rounds' <= born'
    BY <1>0, <1>1, ForestTyped, SMTT(30) DEF RoundId, Rounds
  <1>3. \A c \in Class : ForestTrees(split)[c] \in Output /\ IsMultiple(ForestTrees(split)[c])
    BY <1>0, ForestAssumption, GBDTAssumption DEF ForestTrees, Output, IsMultiple, Zero
  <1>4. r \in Round /\ r.id = id /\ r.tree = ForestTrees(split)
    <2>1. ForestTrees(split) \in [Class -> Output]
      BY <1>3 DEF ForestTrees
    <2> QED BY <1>2, <2>1 DEF Round
  <1>5. \A p \in DOMAIN models : models[p].id # id
    BY <1>2, ForestTyped
  <1>6. \A c \in Class : InModels(c, id, models) = Zero
    BY <1>5, InModelsMiss
  <1> HIDE DEF r
  <1>7. /\ Distinct(models')
        /\ \A c \in Class, i \in RoundId :
             InModels(c, i, models') = IF i = id THEN ForestTrees(split)[c] ELSE InModels(c, i, models)
    <2>1. Distinct(models) /\ models \in Seq(Round)
      BY ForestTyped
    <2> QED BY <1>1, <1>4, <1>5, <2>1, InModelsAppend
  <1>8. /\ models' \in Seq(Round) /\ Len(models') = Len(models) + 1
        /\ DOMAIN models' = 1..(Len(models) + 1)
        /\ models'[Len(models) + 1] = r
        /\ \A p \in 1..Len(models) : models'[p] = models[p] /\ p \in DOMAIN models
    BY <1>1, <1>4, ForestTyped
  <1>9. AreMultiples(models')
    <2> SUFFICES ASSUME NEW p \in DOMAIN models', NEW c \in Class
                 PROVE  IsMultiple(models'[p].tree[c])
      BY DEF AreMultiples
    <2>1. CASE p = Len(models) + 1
      BY <1>3, <1>4, <1>8, <2>1
    <2>2. CASE p # Len(models) + 1
      <3>1. p \in DOMAIN models /\ models'[p] = models[p]
        BY <1>8, <2>2, ForestTyped
      <3> QED BY <3>1 DEF ForestIInv, AreMultiples
    <2> QED BY <2>1, <2>2
  <1>10. ASSUME NEW score \in Score, IsAverage(score)
         PROVE  /\ Grown(score, split, id) \in Score
                /\ \A c \in Class : Times(Grown(score, split, id)[c], Rounds')
                                     = [i \in RoundId |-> InModels(c, i, models')]
    <2>1. /\ models' \in Seq(Round) /\ AreMultiples(models') /\ id \in RoundId
          /\ Rounds < MaxRounds /\ Rounds' = Rounds + 1
          /\ \A c \in Class : InModels(c, id, models) = Zero /\ ForestTrees(split)[c] \in Output
      BY <1>2, <1>3, <1>6, <1>8, <1>9
    <2> HIDE DEF id
    <2> QED BY <1>7, <1>10, <2>1, GrownAverage, SMTT(30)
  <1>11. train_score' \in Score /\ IsAverage(train_score)'
    BY <1>1, <1>10, ForestTyped DEF ForestIInv, IsAverage
  <1>12. /\ valid_score' \in Seq(Score)
         /\ \A v \in DOMAIN valid_score' : IsAverage(valid_score[v])'
    <2>1. \A v \in DOMAIN valid_score : valid_score[v] \in Score /\ IsAverage(valid_score[v])
      BY ForestTyped DEF ForestIInv
    <2>2. DOMAIN valid_score' = DOMAIN valid_score
      BY <1>1
    <2>3. \A v \in DOMAIN valid_score :
            valid_score'[v] \in Score /\ IsAverage(valid_score[v])'
      BY <1>1, <1>10, <2>1 DEF IsAverage
    <2>4. valid_score' \in Seq(Score)
      <3>1. valid_score' = [v \in DOMAIN valid_score |-> valid_score'[v]]
        BY <1>1
      <3> QED BY <2>2, <2>3, <3>1, ForestTyped, ScoresReplaced
    <2> QED BY <2>2, <2>3, <2>4
  <1>13. IdsBorn' /\ RoundsDistinct'
    <2> SUFFICES ASSUME NEW p \in DOMAIN models' PROVE models'[p].id <= born'
      BY <1>7 DEF IdsBorn, RoundsDistinct
    <2>1. CASE p = Len(models) + 1
      BY <1>1, <1>2, <1>4, <1>8, <2>1, ForestTyped
    <2>2. CASE p # Len(models) + 1
      <3>1. p \in DOMAIN models /\ models'[p] = models[p]
        BY <1>8, <2>2, ForestTyped
      <3> QED BY <1>1, <1>2, <3>1, ForestTyped, SMTT(30)
    <2> QED BY <2>1, <2>2
  <1>14. ForestFresh' /\ ForestFront'
    <2>1. ForestFresh'
      BY <1>0, <1>2 DEF ForestFresh
    <2>2. ASSUME LateData, NEW p \in DOMAIN models'
          PROVE  (p <= NumInit => models'[p] = Loaded(p)) /\ (p <= NumInit \/ models'[p].id > NumInit)
      <3>1. CASE p = Len(models) + 1
        BY <1>1, <1>2, <1>4, <1>8, <3>1, ForestTyped, SMTT(30)
      <3>2. CASE p # Len(models) + 1
        <4>1. p \in DOMAIN models /\ models'[p] = models[p]
          BY <1>8, <3>2, ForestTyped
        <4> QED BY <2>2, <4>1 DEF ForestIInv, ForestFront
      <3> QED BY <3>1, <3>2
    <2> QED BY <1>0, <2>1, <2>2 DEF ForestFront, Loaded
  <1>15. ForestTypeOK'
    BY <1>0, <1>1, <1>2, <1>8, <1>11, <1>12, ForestTyped, SMTT(30) DEF ForestTypeOK
  <1> QED BY <1>0, <1>2, <1>9, <1>11, <1>12, <1>13, <1>14, <1>15 DEF ForestIInv

\* A round less: every score becomes an average over the rounds that remain.
LEMMA ShrunkAverage ==
  ASSUME ForestIInv, NEW score \in Score, IsAverage(score), Rounds > 1, Rounds <= MaxRounds,
         NEW r \in Round, NEW ms \in Seq(Round), AreMultiples(ms),
         \A c \in Class : InModels(c, r.id, models) = r.tree[c],
         \A c \in Class, i \in RoundId :
           InModels(c, i, ms) = IF i = r.id THEN Zero ELSE InModels(c, i, models)
  PROVE  /\ WithoutRound(score, r) \in Score
         /\ \A c \in Class :
              Times(WithoutRound(score, r)[c], Rounds - 1) = [i \in RoundId |-> InModels(c, i, ms)]
PROOF
  <1> DEFINE sums == [c \in Class |->
                        [Times(score[c], Rounds) EXCEPT ![r.id] = Plus(@, Negated(r.tree[c]))]]
             new == WithoutRound(score, r)
  <1>1. \A c \in Class : Times(score[c], Rounds) = [i \in RoundId |-> InModels(c, i, models)]
    BY DEF IsAverage
  <1>2. ASSUME NEW c \in Class, NEW i \in RoundId
        PROVE  sums[c][i] = InModels(c, i, ms)
    <2>1. r.tree[c] \in Output /\ r.id \in RoundId
      BY DEF Round
    <2>2. Plus(r.tree[c], Negated(r.tree[c])) = Zero
      BY <2>1, NegatedCancels
    <2> QED BY <1>1, <2>1, <2>2
  <1>3. new = [c \in Class |-> DividedBy(sums[c], Rounds - 1)]
    BY DEF WithoutRound, Remaining
  <1>4. Rounds - 1 \in 1..MaxRounds
    BY ForestTyped
  <1> HIDE DEF sums, new
  <1>5. /\ new \in Score
        /\ \A c \in Class : Times(new[c], Rounds - 1) = [i \in RoundId |-> InModels(c, i, ms)]
    BY <1>2, <1>3, <1>4, NewAverage
  <1> QED BY <1>5 DEF new

LEMMA ForestRollbackInv ==
  ASSUME ForestIInv, ForestRollbackOneIter
  PROVE  ForestIInv'
PROOF
  <1> DEFINE r == models[Len(models)]
  <1>0. /\ setup' = setup /\ setup \in Forests /\ init_scores' = init_scores
        /\ init_scores \in {0, Bias} /\ born' = born
        /\ NumInit' = NumInit /\ LateData' = LateData /\ GivenScore' = GivenScore
        /\ IsSetup(setup)' /\ SoundForest(setup)'
    BY ForestFixed DEF ForestIInv, ForestTypeOK, ForestRollbackOneIter
  <1>1. /\ iter > 0 /\ Rounds > 1 /\ iter' = iter - 1
        /\ models' = SubSeq(models, 1, Len(models) - 1)
        /\ train_score' = WithoutRound(train_score, r)
        /\ valid_score' = [v \in DOMAIN valid_score |-> WithoutRound(valid_score[v], r)]
    BY DEF ForestRollbackOneIter, CanRollback
  <1>2. /\ Rounds' = Rounds - 1 /\ Rounds' <= born' /\ Rounds <= MaxRounds
        /\ Len(models) > 0 /\ Len(models) \in DOMAIN models /\ r \in Round
    BY <1>0, <1>1, ForestTyped DEF Rounds
  <1>3. /\ models' \in Seq(Round)
        /\ Len(models') = Len(models) - 1
        /\ \A p \in DOMAIN models' : p \in DOMAIN models /\ models'[p] = models[p]
        /\ Distinct(models')
        /\ \A c \in Class, i \in RoundId :
             InModels(c, i, models') = IF i = r.id THEN Zero ELSE InModels(c, i, models)
    <2>1. models' = Front(models)
      BY <1>1 DEF Front
    <2>2. Distinct(models) /\ models \in Seq(Round) /\ Len(models) > 0
      BY <1>2, ForestTyped
    <2> QED BY <2>1, <2>2, InModelsFront
  <1>4. \A c \in Class : InModels(c, r.id, models) = r.tree[c]
    BY <1>2, ForestTyped, InModelsHit
  <1>5. AreMultiples(models')
    BY <1>3 DEF ForestIInv, AreMultiples
  <1>6. ASSUME NEW score \in Score, IsAverage(score)
        PROVE  /\ WithoutRound(score, r) \in Score
               /\ \A c \in Class : Times(WithoutRound(score, r)[c], Rounds')
                                    = [i \in RoundId |-> InModels(c, i, models')]
    <2>1. r \in Round /\ Rounds > 1 /\ Rounds <= MaxRounds /\ Rounds' = Rounds - 1
          /\ models' \in Seq(Round)
      BY <1>1, <1>2, <1>3
    <2> HIDE DEF r
    <2> QED BY <1>3, <1>4, <1>5, <1>6, <2>1, ShrunkAverage
  <1> HIDE DEF r
  <1>7. train_score' \in Score /\ IsAverage(train_score)'
    BY <1>1, <1>6, ForestTyped DEF ForestIInv, IsAverage
  <1>8. /\ valid_score' \in Seq(Score)
        /\ \A v \in DOMAIN valid_score' : IsAverage(valid_score[v])'
    <2>1. \A v \in DOMAIN valid_score : valid_score[v] \in Score /\ IsAverage(valid_score[v])
      BY ForestTyped DEF ForestIInv
    <2>2. DOMAIN valid_score' = DOMAIN valid_score
      BY <1>1
    <2>3. \A v \in DOMAIN valid_score : valid_score'[v] \in Score /\ IsAverage(valid_score[v])'
      BY <1>1, <1>6, <2>1 DEF IsAverage
    <2>4. valid_score' = [v \in DOMAIN valid_score |-> valid_score'[v]]
      BY <1>1
    <2>5. valid_score' \in Seq(Score)
      BY <2>2, <2>3, <2>4, ForestTyped, ScoresReplaced
    <2> QED BY <2>2, <2>3, <2>5
  <1>9. IdsBorn' /\ RoundsDistinct'
    BY <1>0, <1>3 DEF ForestIInv, IdsBorn, RoundsDistinct
  <1>10. ForestFresh'
    BY <1>0, <1>1 DEF ForestIInv, ForestFresh
  <1>11. ForestFront'
    BY <1>0, <1>3 DEF ForestIInv, ForestFront, Loaded
  <1>12. ForestTypeOK'
    BY <1>0, <1>1, <1>2, <1>3, <1>7, <1>8, ForestTyped DEF ForestTypeOK
  <1> QED BY <1>0, <1>2, <1>5, <1>7, <1>8, <1>9, <1>10, <1>11, <1>12 DEF ForestIInv

\* New data gets averages, whichever data set asks for them.
LEMMA ForestReplayMatches ==
  ASSUME ForestIInv, LateData \/ born = NumInit
  PROVE  ForestReplayed \in Score /\ IsAverage(ForestReplayed)
PROOF
  <1> DEFINE rounds == SubSeq(models, NumInit + 1, NumInit + iter)
             merged == [leaves |-> Leaf, bias |-> 0]
             sums == [c \in Class |-> [i \in RoundId |->
                        Plus(GivenScore[c][i], InModels(c, i, rounds))]]
  <1>1. merged \in Output /\ Zero \in Output
    BY ForestAssumption DEF Output, Zero
  <1>2. \A c \in Class, i \in RoundId :
          /\ GivenScore[c][i] = IF i <= NumInit THEN merged ELSE Zero
          /\ GivenScore[c][i] \in Output
    BY GivenScoreType DEF GivenScore, Score
  <1>3. /\ NumInit \in Nat /\ NumInit <= Len(models) /\ NumInit + iter = Len(models)
        /\ models \in Seq(Round) /\ Distinct(models) /\ AreMultiples(models)
    BY ForestTyped
  <1>4. ASSUME NEW c \in Class, NEW i \in RoundId
        PROVE  sums[c][i] = InModels(c, i, models)
    <2>1. sums[c][i] = Plus(GivenScore[c][i], InModels(c, i, rounds))
      OBVIOUS
    <2>2. CASE LateData
      <3>1. /\ \A p \in DOMAIN models : p <= NumInit => models[p].id = p /\ models[p].tree[c] = merged
            /\ \A p \in DOMAIN models : p <= NumInit \/ models[p].id > NumInit
        BY <2>2 DEF ForestIInv, ForestFront, Loaded
      <3>2. Plus(GivenScore[c][i], InModels(c, i, SubSeq(models, NumInit + 1, Len(models))))
              = InModels(c, i, models)
        <4> HIDE DEF merged
        <4>1. GivenScore[c][i] \in Output
          BY <1>2
        <4> QED BY <1>1, <1>2, <1>3, <3>1, <4>1, ReplaySum
      <3> QED BY <1>3, <2>1, <3>2
    <2>3. CASE ~LateData
      <3>1. iter = 0 /\ GivenScore[c][i] = InModels(c, i, models)
        BY <2>3 DEF ForestIInv, ForestFresh
      <3>2. InModels(c, i, rounds) = Zero
        BY <1>3, <3>1, ReplayNothing
      <3> QED BY <1>2, <2>1, <3>1, <3>2, ZeroPlus
    <2> QED BY <2>2, <2>3
  <1>5. ForestReplayed = Averaged(sums)
    BY DEF ForestReplayed, ReplayFrom
  <1>6. sums = [c \in Class |-> [i \in RoundId |-> sums[c][i]]]
    OBVIOUS
  <1> HIDE DEF sums
  <1>7. CASE Rounds = 0
    <2>1. ForestReplayed = sums
      BY <1>5, <1>7 DEF Averaged
    <2>2. DOMAIN models = {}
      BY <1>7, ForestTyped
    <2>3. \A c \in Class, i \in RoundId : sums[c][i] = Zero
      BY <1>4, <2>2, InModelsMiss
    <2>4. sums \in Score
      BY <1>1, <1>6, <2>3 DEF Score
    <2> QED BY <1>4, <1>7, <2>1, <2>3, <2>4 DEF IsAverage, Times, Zero
  <1>8. CASE Rounds # 0
    <2>1. ForestReplayed = [c \in Class |-> DividedBy(sums[c], Rounds)]
      BY <1>5, <1>8 DEF Averaged
    <2>2. Rounds \in 1..MaxRounds
      BY <1>8, ForestTyped
    <2> QED BY <1>3, <1>4, <2>1, <2>2, NewAverage DEF IsAverage
  <1> QED BY <1>7, <1>8

LEMMA ForestAddValidInv ==
  ASSUME ForestIInv, ForestAddValidDataset
  PROVE  ForestIInv'
PROOF
  <1>0. /\ setup' = setup /\ setup \in Forests
        /\ UNCHANGED <<models, iter, train_score, born, init_scores>>
        /\ valid_score' = Append(valid_score, ForestReplayed)
        /\ NumInit' = NumInit /\ LateData' = LateData /\ GivenScore' = GivenScore
        /\ IsSetup(setup)' /\ SoundForest(setup)'
    BY ForestFixed DEF ForestIInv, ForestTypeOK, ForestAddValidDataset
  <1>1. ForestReplayed \in Score /\ IsAverage(ForestReplayed)
    BY ForestReplayMatches DEF ForestAddValidDataset
  <1>2. Rounds' = Rounds
    BY <1>0 DEF Rounds
  <1>3. ASSUME NEW v \in DOMAIN valid_score'
        PROVE  IsAverage(valid_score'[v])
    <2>1. valid_score'[v] = ForestReplayed \/ (v \in DOMAIN valid_score /\ valid_score'[v] = valid_score[v])
      BY <1>0, ForestTyped
    <2> QED BY <1>1, <2>1 DEF ForestIInv
  <1>4. valid_score' \in Seq(Score)
    BY <1>0, <1>1, ForestTyped
  <1>5. ForestTypeOK'
    BY <1>0, <1>2, <1>4 DEF ForestIInv, ForestTypeOK
  <1>6. IsAverage(train_score)' /\ \A v \in DOMAIN valid_score' : IsAverage(valid_score[v])'
    BY <1>0, <1>2, <1>3 DEF ForestIInv, IsAverage
  <1>7. Rounds' <= born' /\ RoundsDistinct' /\ IdsBorn' /\ AreMultiples(models')
    BY <1>0, <1>2 DEF ForestIInv, RoundsDistinct, IdsBorn
  <1>8. ForestFresh' /\ ForestFront'
    BY <1>0 DEF ForestIInv, ForestFresh, ForestFront, Loaded
  <1> QED BY <1>0, <1>5, <1>6, <1>7, <1>8 DEF ForestIInv

LEMMA ForestResetTrainingInv ==
  ASSUME ForestIInv, ForestResetTrainingData
  PROVE  ForestIInv'
PROOF
  <1>0. /\ setup' = setup /\ setup \in Forests /\ LateData
        /\ UNCHANGED <<models, iter, valid_score, born>>
        /\ train_score' = ForestReplayed /\ init_scores' = StartingScore
        /\ NumInit' = NumInit /\ LateData' = LateData /\ GivenScore' = GivenScore
        /\ IsSetup(setup)' /\ SoundForest(setup)'
    BY ForestFixed DEF ForestIInv, ForestTypeOK, ForestResetTrainingData, Boosting
  <1>1. ForestReplayed \in Score /\ IsAverage(ForestReplayed)
    BY <1>0, ForestReplayMatches
  <1>2. Rounds' = Rounds /\ StartingScore \in {0, Bias}
    BY <1>0 DEF Rounds, StartingScore
  <1>3. ForestTypeOK'
    BY <1>0, <1>1, <1>2 DEF ForestIInv, ForestTypeOK
  <1>4. IsAverage(train_score)' /\ \A v \in DOMAIN valid_score' : IsAverage(valid_score[v])'
    BY <1>0, <1>1, <1>2 DEF ForestIInv, IsAverage
  <1>5. Rounds' <= born' /\ RoundsDistinct' /\ IdsBorn' /\ AreMultiples(models')
    BY <1>0, <1>2 DEF ForestIInv, RoundsDistinct, IdsBorn
  <1>6. ForestFresh' /\ ForestFront'
    BY <1>0 DEF ForestIInv, ForestFresh, ForestFront, Loaded
  <1> QED BY <1>0, <1>3, <1>4, <1>5, <1>6 DEF ForestIInv

LEMMA ForestShuffleInv ==
  ASSUME ForestIInv, ShuffleModels, UNCHANGED init_scores
  PROVE  ForestIInv'
PROOF
  <1>0. /\ setup' = setup /\ setup \in Forests /\ MayShuffle
        /\ UNCHANGED <<iter, train_score, valid_score, born, init_scores>>
        /\ NumInit' = NumInit /\ LateData' = LateData /\ GivenScore' = GivenScore
        /\ IsSetup(setup)' /\ SoundForest(setup)'
    BY ForestFixed DEF ForestIInv, ForestTypeOK, ShuffleModels
  <1>8. \E order \in Bijection(DOMAIN models, DOMAIN models) : models' = Reordered(models, order)
    <2>1. models \in Seq(Round)
      BY ForestTyped
    <2> QED BY <2>1, ShuffleOrders DEF Reordered
  <1>1. /\ models' \in Seq(Round)
        /\ Len(models') = Len(models)
        /\ Distinct(models')
        /\ \A a \in DOMAIN models' : \E b \in DOMAIN models : models'[a] = models[b]
        /\ \A c \in Class, i \in RoundId : InModels(c, i, models') = InModels(c, i, models)
    <2>1. models \in Seq(Round) /\ Distinct(models)
      BY ForestTyped
    <2> QED BY <1>8, <2>1, InModelsReordered
  <1>2. Rounds' = Rounds
    BY <1>0 DEF Rounds
  <1>3. ForestTypeOK'
    BY <1>0, <1>1, <1>2 DEF ForestIInv, ForestTypeOK
  <1>4. IsAverage(train_score)' /\ \A v \in DOMAIN valid_score' : IsAverage(valid_score[v])'
    BY <1>0, <1>1, <1>2 DEF ForestIInv, IsAverage
  <1>5. Rounds' <= born' /\ RoundsDistinct' /\ IdsBorn' /\ AreMultiples(models')
    BY <1>0, <1>1, <1>2 DEF ForestIInv, RoundsDistinct, IdsBorn, AreMultiples
  <1>6. ForestFresh'
    BY <1>0, <1>1 DEF ForestIInv, ForestFresh
  <1>7. ForestFront'
    <2> SUFFICES ASSUME LateData PROVE ForestFront'
      BY <1>0 DEF ForestFront
    <2>1. NumInit = 0
      BY <1>0 DEF ForestIInv, SoundForest, NumInit, LateData, MayShuffle
    <2>2. ASSUME NEW p \in DOMAIN models' PROVE ~(p <= 0) /\ models'[p].id > 0
      <3>1. DOMAIN models' = 1..Len(models') /\ models'[p] \in Round
        BY <1>1
      <3> QED BY <3>1, ForestTyped DEF Round, RoundId
    <2> QED BY <1>0, <2>1, <2>2 DEF ForestFront
  <1> QED BY <1>0, <1>3, <1>4, <1>5, <1>6, <1>7 DEF ForestIInv

\* One step of a forest.
LEMMA ForestStep ==
  ASSUME ForestIInv, [ForestNext]_forest_vars
  PROVE  ForestIInv'
PROOF
  <1>1. ASSUME NEW split \in SUBSET Class, ForestTrainOneIter(split) PROVE ForestIInv'
    BY <1>1, ForestTrainInv
  <1>2. CASE ForestRollbackOneIter
    BY <1>2, ForestRollbackInv
  <1>3. CASE ForestAddValidDataset
    BY <1>3, ForestAddValidInv
  <1>4. CASE ForestResetTrainingData
    BY <1>4, ForestResetTrainingInv
  <1>5. CASE ShuffleModels /\ UNCHANGED init_scores
    BY <1>5, ForestShuffleInv
  <1>6. CASE UNCHANGED forest_vars
    <2>1. UNCHANGED <<setup, models, iter, train_score, valid_score, born, init_scores>>
      BY <1>6 DEF forest_vars, vars
    <2>2. Rounds' = Rounds /\ NumInit' = NumInit /\ LateData' = LateData /\ GivenScore' = GivenScore
      BY <2>1 DEF Rounds, NumInit, LateData, GivenScore
    <2>3. IsSetup(setup)' /\ SoundForest(setup)' /\ Rounds' <= born'
      BY <2>1, <2>2, ForestFixed DEF ForestIInv, ForestTypeOK
    <2>4. ForestTypeOK'
      BY <2>1, <2>2 DEF ForestIInv, ForestTypeOK
    <2>5. RoundsDistinct' /\ IdsBorn' /\ AreMultiples(models')
      BY <2>1, <2>2 DEF ForestIInv, RoundsDistinct, IdsBorn, AreMultiples
    <2>6. ForestFresh'
      BY <2>1, <2>2 DEF ForestIInv, ForestFresh
    <2>7. ForestFront'
      BY <2>1, <2>2 DEF ForestIInv, ForestFront, Loaded
    <2>8. IsAverage(train_score)' /\ \A v \in DOMAIN valid_score' : IsAverage(valid_score[v])'
      BY <2>1, <2>2 DEF ForestIInv, IsAverage
    <2> QED BY <2>3, <2>4, <2>5, <2>6, <2>7, <2>8 DEF ForestIInv
  <1> QED BY <1>1, <1>2, <1>3, <1>4, <1>5, <1>6 DEF ForestNext

LEMMA ForestInvHolds == ASSUME ForestIInv PROVE ForestInv
  BY DEF ForestIInv, ForestInv

\* In random forest mode all scores stay averages over the rounds of the model.
THEOREM ForestAverages ==
  ASSUME \A s \in Forests : SoundForest(s) PROVE ForestSpec => []ForestInv
PROOF
  <1>1. ASSUME ForestInit PROVE ForestIInv
    BY <1>1, ForestInitInv
  <1>2. ForestIInv /\ [ForestNext]_forest_vars => ForestIInv'
    BY ForestStep
  <1>3. ForestIInv => ForestInv
    BY ForestInvHolds
  <1> QED BY <1>1, <1>2, <1>3, PTL DEF ForestSpec

-----------------------------------------------------------------------------
(* Sums over finite sets.  Total picks the elements in some order; what it *)
(* returns can be split off at any element.                                *)

\* Every set of natural numbers has a least element.
\* A property of sets that the empty set has, and every set whose smaller
\* sets all have it, belongs to every finite set.
LEMMA SetsGrow ==
  ASSUME NEW S, IsFiniteSet(S), NEW Good, {} \in Good,
         \A T \in SUBSET S : T # {} /\ (\A x \in T : T \ {x} \in Good) => T \in Good
  PROVE  \A T \in SUBSET S : T \in Good
PROOF
  <1> SUFFICES ASSUME NEW U \in SUBSET S, U \notin Good PROVE FALSE
    OBVIOUS
  <1> DEFINE Bad == {T \in SUBSET S : T \notin Good}
             Sizes == {Cardinality(T) : T \in Bad}
  <1>1. \A T \in SUBSET S : IsFiniteSet(T) /\ Cardinality(T) \in Nat
    BY FS_Subset, FS_CardinalityType
  <1>2. Sizes \subseteq Nat /\ Sizes # {}
    BY <1>1
  <1>3. PICK m \in Sizes : \A n \in Sizes : m <= n
    BY <1>2, NatHasMin
  <1>4. PICK T \in Bad : Cardinality(T) = m
    OBVIOUS
  <1>5. ASSUME NEW x \in T PROVE T \ {x} \in Good
    <2>1. T \ {x} \in SUBSET S /\ Cardinality(T \ {x}) = Cardinality(T) - 1
      BY <1>1, FS_RemoveElement
    <2>2. Cardinality(T) \in Nat /\ ~(Cardinality(T) <= Cardinality(T) - 1)
      BY <1>1
    <2> QED BY <1>3, <1>4, <2>1, <2>2
  <1> QED BY <1>5

First(s) == CHOOSE x \in s : TRUE
SumStep(g, f, s) == IF s = {} THEN 0 ELSE f[First(s)] + g[s \ {First(s)}]

\* The sums of the subsets of S are determined element by element.
IsSum(g, f, S) ==
  /\ IsFiniteSet(S) /\ f \in [S -> Int]
  /\ g \in [SUBSET S -> Int]
  /\ g[{}] = 0
  /\ \A T \in SUBSET S : \A x \in T : g[T] = f[x] + g[T \ {x}]

LEMMA SumFunctionExists ==
  ASSUME NEW S, IsFiniteSet(S), NEW f \in [S -> Int]
  PROVE  \E g \in [SUBSET S -> Int] : \A s \in SUBSET S : g[s] = SumStep(g, f, s)
PROOF
  <1> DEFINE Upto(g, n) == \A s \in SUBSET S : Cardinality(s) <= n => g[s] = SumStep(g, f, s)
             Bad == {n \in Nat : ~\E g \in [SUBSET S -> Int] : Upto(g, n)}
  <1>1. \A s \in SUBSET S : IsFiniteSet(s) /\ Cardinality(s) \in Nat
                            /\ Cardinality(s) <= Cardinality(S)
    BY FS_Subset, FS_CardinalityType
  <1>2. \A s \in SUBSET S : s # {} => First(s) \in s
    BY DEF First
  <1>3. Bad = {}
    <2> SUFFICES ASSUME Bad # {} PROVE FALSE
      OBVIOUS
    <2>1. PICK n \in Bad : \A k \in Bad : n <= k
      BY NatHasMin
    <2>2. CASE n = 0
      <3> DEFINE g == [s \in SUBSET S |-> 0]
      <3>1. ASSUME NEW s \in SUBSET S, Cardinality(s) <= 0
            PROVE  g[s] = SumStep(g, f, s)
        <4>1. s = {}
          BY <1>1, <3>1, FS_EmptySet
        <4> QED BY <4>1 DEF SumStep
      <3>2. g \in [SUBSET S -> Int]
        OBVIOUS
      <3> HIDE DEF g
      <3> QED BY <2>1, <2>2, <3>1, <3>2
    <2>3. CASE n # 0
      <3>1. n - 1 \in Nat /\ ~(n <= n - 1)
        BY <2>3
      <3>2. PICK g \in [SUBSET S -> Int] : Upto(g, n - 1)
        BY <2>1, <3>1
      <3> DEFINE h == [s \in SUBSET S |-> IF Cardinality(s) < n THEN g[s] ELSE SumStep(g, f, s)]
      <3>3. ASSUME NEW s \in SUBSET S, s # {}
            PROVE  /\ First(s) \in S /\ s \ {First(s)} \in SUBSET S
                   /\ Cardinality(s \ {First(s)}) = Cardinality(s) - 1
        BY <1>1, <1>2, <3>3, FS_RemoveElement
      <3>4. h \in [SUBSET S -> Int]
        BY <3>3 DEF SumStep
      <3>5. ASSUME NEW s \in SUBSET S, Cardinality(s) <= n
            PROVE  h[s] = SumStep(h, f, s)
        <4>1. CASE s = {}
          <5>1. Cardinality(s) = 0
            BY <4>1, FS_EmptySet
          <5>2. h[s] = g[s] /\ g[s] = SumStep(g, f, s)
            BY <3>1, <3>2, <5>1, <2>3
          <5> QED BY <4>1, <5>2 DEF SumStep
        <4>2. CASE s # {}
          <5>1. /\ s \ {First(s)} \in SUBSET S /\ Cardinality(s \ {First(s)}) = Cardinality(s) - 1
                /\ Cardinality(s) \in Nat
            BY <1>1, <3>3, <4>2
          <5>2. h[s \ {First(s)}] = g[s \ {First(s)}]
            BY <3>5, <5>1
          <5>3. h[s] = SumStep(g, f, s)
            <6>1. CASE Cardinality(s) < n
              <7>1. Cardinality(s) <= n - 1
                BY <5>1, <6>1, <3>1
              <7> QED BY <6>1, <7>1, <3>2
            <6>2. CASE ~(Cardinality(s) < n)
              BY <6>2
            <6> QED BY <6>1, <6>2
          <5> QED BY <4>2, <5>2, <5>3 DEF SumStep
        <4> QED BY <4>1, <4>2
      <3> HIDE DEF h
      <3>6. Upto(h, n)
        BY <3>5
      <3> QED BY <2>1, <3>4, <3>6
    <2> QED BY <2>2, <2>3
  <1>4. Cardinality(S) \in Nat
    BY FS_CardinalityType
  <1>5. PICK g \in [SUBSET S -> Int] : Upto(g, Cardinality(S))
    BY <1>3, <1>4
  <1> QED BY <1>1, <1>5

LEMMA SumsSplit ==
  ASSUME NEW S, IsFiniteSet(S), NEW f \in [S -> Int],
         NEW g \in [SUBSET S -> Int], \A s \in SUBSET S : g[s] = SumStep(g, f, s)
  PROVE  IsSum(g, f, S)
PROOF
  <1> DEFINE Good == {T \in SUBSET S : \A x \in T : g[T] = f[x] + g[T \ {x}]}
  <1>1. {} \in Good
    OBVIOUS
  <1>2. ASSUME NEW T \in SUBSET S, T # {}, \A x \in T : T \ {x} \in Good
        PROVE  T \in Good
    <2> SUFFICES ASSUME NEW x \in T PROVE g[T] = f[x] + g[T \ {x}]
      OBVIOUS
    <2> DEFINE y == First(T)
    <2>1. y \in T
      BY <1>2 DEF First
    <2>2. g[T] = f[y] + g[T \ {y}]
      BY <1>2 DEF SumStep
    <2> HIDE DEF y
    <2>3. CASE x = y
      BY <2>2, <2>3
    <2>4. CASE x # y
      <3>1. x \in T \ {y} /\ y \in T \ {x}
        BY <2>1, <2>4
      <3>2. g[T \ {y}] = f[x] + g[(T \ {y}) \ {x}]
        BY <1>2, <2>1, <3>1
      <3>3. g[T \ {x}] = f[y] + g[(T \ {x}) \ {y}]
        BY <1>2, <3>1
      <3>4. (T \ {y}) \ {x} = (T \ {x}) \ {y}
        OBVIOUS
      <3>5. /\ f[x] \in Int /\ f[y] \in Int /\ g[T] \in Int
            /\ g[(T \ {x}) \ {y}] \in Int
        BY <2>1
      <3>6. \A a, b, w \in Int : a + (b + w) = b + (a + w)
        OBVIOUS
      <3>7. g[T] = f[y] + (f[x] + g[(T \ {x}) \ {y}])
        BY <2>2, <3>2, <3>4, Zenon
      <3>8. g[T] = f[x] + (f[y] + g[(T \ {x}) \ {y}])
        BY <3>5, <3>6, <3>7, Zenon
      <3> QED BY <3>3, <3>8, Zenon
    <2> QED BY <2>3, <2>4
  <1> HIDE DEF Good
  <1>3. \A T \in SUBSET S : T \in Good
    BY <1>1, <1>2, SetsGrow
  <1>4. g[{}] = 0
    BY DEF SumStep
  <1> QED BY <1>3, <1>4 DEF IsSum, Good

\* Total is such a sum.
LEMMA SumIs ==
  ASSUME NEW S, IsFiniteSet(S), NEW f \in [S -> Int]
  PROVE  \E g : IsSum(g, f, S) /\ Total(f) = g[S]
PROOF
  <1> DEFINE Eq(g) == g = [s \in SUBSET S |-> IF s = {} THEN 0 ELSE f[First(s)] + g[s \ {First(s)}]]
             sum == CHOOSE g : Eq(g)
  <1>0. DOMAIN f = S
    OBVIOUS
  <1>1. Total(f) = sum[S]
    BY <1>0, Zenon DEF Total, MapThenSumSet, MapThenFoldSet, First
  <1>2. PICK g \in [SUBSET S -> Int] : \A s \in SUBSET S : g[s] = SumStep(g, f, s)
    BY SumFunctionExists, ZenonT(30)
  <1>3. Eq(g)
    BY <1>2 DEF SumStep
  <1>4. Eq(sum)
    BY <1>3
  <1> HIDE DEF sum
  <1>5. \A s \in SUBSET S : sum[s] = SumStep(sum, f, s)
    BY <1>4 DEF SumStep
  <1>6. sum \in [SUBSET S -> Int]
    <2> DEFINE Good == {s \in SUBSET S : sum[s] \in Int}
    <2>1. {} \in Good
      BY <1>5, SMTT(30) DEF SumStep
    <2>2. ASSUME NEW T \in SUBSET S, T # {}, \A x \in T : T \ {x} \in Good
          PROVE  T \in Good
      <3>1. First(T) \in T
        BY <2>2 DEF First
      <3>2. sum[T] = f[First(T)] + sum[T \ {First(T)}]
        BY <1>5, <2>2 DEF SumStep
      <3>3. f[First(T)] \in Int /\ sum[T \ {First(T)}] \in Int
        BY <2>2, <3>1
      <3> QED BY <3>2, <3>3
    <2> HIDE DEF Good
    <2>3. \A T \in SUBSET S : T \in Good
      BY <2>1, <2>2, SetsGrow
    <2>4. \A T \in SUBSET S : sum[T] \in Int
      BY <2>3 DEF Good
    <2> QED BY <1>4, <2>4
  <1>7. IsSum(sum, f, S)
    BY <1>5, <1>6, SumsSplit
  <1> QED BY <1>1, <1>7

\* Sums over a set on which two families agree.
LEMMA SumsAgree ==
  ASSUME NEW S1, NEW f1, NEW g1, IsSum(g1, f1, S1),
         NEW S2, NEW f2, NEW g2, IsSum(g2, f2, S2),
         S1 \subseteq S2, \A x \in S1 : f1[x] = f2[x]
  PROVE  g1[S1] = g2[S1]
PROOF
  <1>0. IsFiniteSet(S1) /\ f1 \in [S1 -> Int] /\ f2 \in [S2 -> Int]
    BY DEF IsSum
  <1> DEFINE Good == {T \in SUBSET S1 : g1[T] = g2[T]}
  <1>1. {} \in Good
    BY DEF IsSum
  <1>2. ASSUME NEW T \in SUBSET S1, T # {}, \A x \in T : T \ {x} \in Good
        PROVE  T \in Good
    <2>1. PICK x \in T : TRUE
      BY <1>2
    <2>2. g1[T] = f1[x] + g1[T \ {x}] /\ g2[T] = f2[x] + g2[T \ {x}]
      BY DEF IsSum
    <2>3. g1[T \ {x}] = g2[T \ {x}] /\ f1[x] = f2[x]
      BY <1>2
    <2> QED BY <2>2, <2>3
  <1> HIDE DEF Good
  <1>3. \A T \in SUBSET S1 : T \in Good
    BY <1>0, <1>1, <1>2, SetsGrow
  <1>4. S1 \in Good
    BY <1>3
  <1> QED BY <1>4 DEF Good

\* Taking a loss from some of the summands takes the losses from the sum.
LEMMA SumsLose ==
  ASSUME NEW S, NEW f, NEW g, IsSum(g, f, S), NEW D, NEW l, NEW gl, IsSum(gl, l, D),
         NEW h, NEW gh, IsSum(gh, h, S), D \subseteq S,
         \A x \in S : /\ x \in D => h[x] = f[x] - l[x]
                      /\ x \notin D => h[x] = f[x]
  PROVE  gh[S] = g[S] - gl[D]
PROOF
  <1>0. /\ IsFiniteSet(S) /\ f \in [S -> Int] /\ h \in [S -> Int] /\ l \in [D -> Int]
        /\ D \in SUBSET S
    BY DEF IsSum
  <1> DEFINE Good == {T \in SUBSET S : gh[T] = g[T] - gl[T \cap D]}
  <1>1. {} \in Good
    <2>1. {} \cap D = {}
      OBVIOUS
    <2> QED BY <2>1 DEF IsSum
  <1>2. ASSUME NEW T \in SUBSET S, T # {}, \A x \in T : T \ {x} \in Good
        PROVE  T \in Good
    <2>1. PICK x \in T : TRUE
      BY <1>2
    <2>2. /\ g[T] = f[x] + g[T \ {x}] /\ gh[T] = h[x] + gh[T \ {x}]
          /\ g[T \ {x}] \in Int /\ gh[T \ {x}] \in Int
          /\ gl[(T \ {x}) \cap D] \in Int /\ f[x] \in Int
      BY DEF IsSum
    <2>3. gh[T \ {x}] = g[T \ {x}] - gl[(T \ {x}) \cap D]
      BY <1>2
    <2> SUFFICES gh[T] = g[T] - gl[T \cap D]
      OBVIOUS
    <2> HIDE DEF Good
    <2>4. CASE x \in D
      <3>1. T \cap D \in SUBSET D /\ x \in T \cap D /\ (T \cap D) \ {x} = (T \ {x}) \cap D
        BY <2>4
      <3>2. gl[T \cap D] = l[x] + gl[(T \cap D) \ {x}]
        BY <3>1 DEF IsSum
      <3>3. l[x] \in Int /\ h[x] = f[x] - l[x]
        <4>1. l[x] \in Int
          BY <1>0, <2>4
        <4>2. h[x] = f[x] - l[x]
          BY <2>4, Zenon
        <4> QED BY <4>1, <4>2
      <3>4. \A a, b, c, w \in Int : (a - b) + (w - c) = (a + w) - (b + c)
        OBVIOUS
      <3>5. gh[T] = (f[x] - l[x]) + (g[T \ {x}] - gl[(T \ {x}) \cap D])
        BY <2>2, <2>3, <3>3, Zenon
      <3>6. gh[T] = (f[x] + g[T \ {x}]) - (l[x] + gl[(T \ {x}) \cap D])
        <4> DEFINE w == g[T \ {x}]  c == gl[(T \ {x}) \cap D]  a == f[x]  b == l[x]
        <4>1. a \in Int /\ b \in Int /\ c \in Int /\ w \in Int
          BY <2>2, <3>3
        <4>2. gh[T] = (a - b) + (w - c)
          BY <3>5
        <4> HIDE DEF a, b, c, w
        <4>3. gh[T] = (a + w) - (b + c)
          BY <3>4, <4>1, <4>2
        <4> QED BY <4>3 DEF a, b, c, w
      <3> QED BY <2>2, <3>1, <3>2, <3>6, Zenon
    <2>5. CASE x \notin D
      <3>1. T \cap D = (T \ {x}) \cap D /\ h[x] = f[x]
        BY <2>5
      <3>2. \A a, c, w \in Int : a + (w - c) = (a + w) - c
        OBVIOUS
      <3>3. gh[T] = f[x] + (g[T \ {x}] - gl[(T \ {x}) \cap D])
        BY <2>2, <2>3, <3>1, Zenon
      <3>4. gh[T] = (f[x] + g[T \ {x}]) - gl[(T \ {x}) \cap D]
        BY <2>2, <3>2, <3>3, Zenon
      <3> QED BY <2>2, <3>1, <3>4, Zenon
    <2> QED BY <2>4, <2>5
  <1> HIDE DEF Good
  <1>3. \A T \in SUBSET S : T \in Good
    BY <1>0, <1>1, <1>2, SetsGrow
  <1>4. S \in Good /\ S \cap D = D
    BY <1>3
  <1> QED BY <1>4 DEF Good

-----------------------------------------------------------------------------
(* Exact divisions, and what the two steps of Normalize make of a number.  *)

LEMMA ExactValue ==
  ASSUME NEW x \in Int, NEW n \in Nat \ {0}, x % n = 0
  PROVE  Exact(x, n) \in Int /\ Exact(x, n) * n = x
  BY ExactQuotient DEF Exact

LEMMA ExactNat ==
  ASSUME NEW x \in Nat, NEW n \in Nat \ {0}, x % n = 0
  PROVE  Exact(x, n) \in Nat
PROOF
  <1> DEFINE y == Exact(x, n)
  <1>1. y \in Int /\ y * n = x
    BY ExactValue
  <1> HIDE DEF y
  <1>2. y < 0 => y * n < 0
    BY <1>1
  <1> QED BY <1>1, <1>2 DEF y

LEMMA ExactOne == ASSUME NEW x \in Int PROVE Exact(x, 1) = x
PROOF
  <1>1. x % 1 = 0 /\ x \div 1 = x
    OBVIOUS
  <1> QED BY <1>1 DEF Exact

\* A number is determined by a multiple of it.
LEMMA MultiplesDetermine ==
  ASSUME NEW x \in Int, NEW y \in Int, NEW n \in Nat \ {0}, x * n = y * n
  PROVE  x = y
  OBVIOUS

LEMMA MultipleDivides ==
  ASSUME NEW q \in Int, NEW n \in Nat \ {0}
  PROVE  (q * n) % n = 0
PROOF
  <1> DEFINE d == (q * n) \div n
             m == (q * n) % n
  <1>1. q * n \in Int
    OBVIOUS
  <1>2. \A x \in Int : \E y, r \in Int :
          y = x \div n /\ r = x % n /\ x = y * n + r /\ 0 <= r /\ r < n
    OBVIOUS
  <1>3. d \in Int /\ m \in Int /\ q * n = d * n + m /\ 0 <= m /\ m < n
    BY <1>1, <1>2
  <1> HIDE DEF d, m
  <1>4. (q - d) * n = m
    BY <1>3
  <1>5. q - d >= 1 => (q - d) * n >= n
    BY <1>3
  <1>6. q - d <= -1 => (q - d) * n < 0
    BY <1>3
  <1>7. q = d
    BY <1>3, <1>4, <1>5, <1>6
  <1> QED BY <1>3, <1>4, <1>7 DEF m

LEMMA DividesMultiple ==
  ASSUME NEW x \in Int, NEW n \in Nat \ {0}, x % n = 0, NEW k \in Int
  PROVE  (x * k) % n = 0
PROOF
  <1>1. PICK q \in Int : q * n = x
    BY ExactQuotient
  <1>2. x * k = (q * k) * n
    BY <1>1
  <1>3. q * k \in Int
    OBVIOUS
  <1> QED BY <1>2, <1>3, MultipleDivides

\* Both steps of Normalize, in the default mode: x becomes y = x/(k+1), then
\* z = -k y.
LEMMA NormalizedEvenly ==
  ASSUME NEW x \in Int, NEW k \in Nat, NEW y \in Int, NEW z \in Int,
         y * (k + 1) = x, z = y * (-k)
  PROVE  z = y - x /\ z * (k + 1) = (-x) * k
  OBVIOUS

\* The same in xgboost mode, with the rate r = lr / (lr + k): y = x r, then
\* z = -y k / lr.
LEMMA NormalizedByRate ==
  ASSUME NEW x \in Int, NEW k \in Nat, NEW y \in Int, NEW z \in Int, NEW r \in Nat,
         NEW lr \in Nat \ {0}, NEW one \in Nat \ {0},
         r * (lr + k * one) = lr * one, y * one = x * r, z * lr = y * (-(k * one))
  PROVE  z = y - x /\ z * (k * one + lr) = (-x) * (k * one)
PROOF
  <1> DEFINE m == k * one
  <1>1. m \in Nat
    OBVIOUS
  <1> HIDE DEF m
  <1>2. r * (lr + m) = lr * one /\ z * lr = y * (-m)
    BY DEF m
  <1>3. (y * (lr + m)) * one = (x * lr) * one
    <2>1. (y * (lr + m)) * one = (y * one) * (lr + m)
      BY <1>1
    <2>2. (x * r) * (lr + m) = x * (r * (lr + m))
      BY <1>1
    <2>3. x * (lr * one) = (x * lr) * one
      BY <1>1
    <2> QED BY <1>2, <2>1, <2>2, <2>3
  <1>4. y * (lr + m) = x * lr
    <2>1. y * (lr + m) \in Int /\ x * lr \in Int
      BY <1>1
    <2> QED BY <1>3, <2>1, MultiplesDetermine
  <1>5. z * lr = (y - x) * lr
    BY <1>1, <1>2, <1>4
  <1>6. z = y - x
    <2>1. y - x \in Int
      OBVIOUS
    <2> QED BY <1>5, <2>1, MultiplesDetermine
  <1>7. (z * (m + lr)) * lr = ((-x) * m) * lr
    <2>1. (z * (m + lr)) * lr = (z * lr) * (m + lr)
      BY <1>1
    <2>2. (y * (-m)) * (m + lr) = (-m) * (y * (lr + m))
      BY <1>1
    <2>3. (-m) * (x * lr) = ((-x) * m) * lr
      BY <1>1
    <2> QED BY <1>2, <1>4, <2>1, <2>2, <2>3
  <1>8. z * (m + lr) = (-x) * m
    <2>1. z * (m + lr) \in Int /\ (-x) * m \in Int
      BY <1>1
    <2> QED BY <1>7, <2>1, MultiplesDetermine
  <1> QED BY <1>6, <1>8 DEF m

-----------------------------------------------------------------------------
(* DART: scores by the positions of the rounds.  With d dropped, a round   *)
(* at a position in d contributes other[out] instead of out.               *)

AtRounds(score, ms, trees) ==
  \A c \in Class :
    /\ \A p \in DOMAIN ms : score[c][ms[p].id] = trees[p][c]
    /\ \A i \in RoundId : (\A p \in DOMAIN ms : ms[p].id # i) => score[c][i] = Zero

Changed(ms, d, other) ==
  [p \in DOMAIN ms |-> [c \in Class |->
     IF p \in d THEN other[ms[p].tree[c]] ELSE ms[p].tree[c]]]
Removed  == [out \in Output |-> Zero]
Reversed == [out \in Output |-> Negated(out)]

RoundsTyped(ms) ==
  /\ ms \in Seq(Round) /\ Distinct(ms)
  /\ DOMAIN ms = 1..Len(ms) /\ Len(ms) \in Nat
  /\ \A p \in DOMAIN ms : /\ ms[p].id \in RoundId /\ ms[p].tree \in [Class -> Output]
                          /\ \A c \in Class : ms[p].tree[c] \in Output

LEMMA RoundsAreTyped ==
  ASSUME NEW ms \in Seq(Round), Distinct(ms)
  PROVE  RoundsTyped(ms)
PROOF
  <1>1. \A p \in DOMAIN ms : ms[p] \in Round
    OBVIOUS
  <1> QED BY <1>1 DEF RoundsTyped, Round

LEMMA AtRoundsMeans ==
  ASSUME NEW ms, RoundsTyped(ms), NEW d \in SUBSET DOMAIN ms, NEW other, NEW score
  PROVE  (\A c \in Class : \A i \in RoundId :
            score[c][i] = IF \E p \in d : ms[p].id = i THEN other[InModels(c, i, ms)]
                          ELSE InModels(c, i, ms))
         <=> AtRounds(score, ms, Changed(ms, d, other))
PROOF
  <1> DEFINE Is(c, i) == score[c][i] = IF \E p \in d : ms[p].id = i THEN other[InModels(c, i, ms)]
                                       ELSE InModels(c, i, ms)
  <1>1. ASSUME NEW c \in Class, NEW p \in DOMAIN ms
        PROVE  /\ ms[p].id \in RoundId
               /\ Is(c, ms[p].id) <=> score[c][ms[p].id] = Changed(ms, d, other)[p][c]
    <2>1. InModels(c, ms[p].id, ms) = ms[p].tree[c]
      BY InModelsHit DEF RoundsTyped
    <2>2. p \in d <=> \E q \in d : ms[q].id = ms[p].id
      BY DEF RoundsTyped, Distinct
    <2> QED BY <2>1, <2>2 DEF Changed, RoundsTyped
  <1>2. ASSUME NEW c \in Class, NEW i \in RoundId, \A p \in DOMAIN ms : ms[p].id # i
        PROVE  Is(c, i) <=> score[c][i] = Zero
    <2>1. InModels(c, i, ms) = Zero
      BY <1>2, InModelsMiss
    <2> QED BY <1>2, <2>1
  <1>3. ASSUME \A c \in Class : \A i \in RoundId : Is(c, i)
        PROVE  AtRounds(score, ms, Changed(ms, d, other))
    <2> HIDE DEF Is
    <2> QED BY <1>1, <1>2, <1>3 DEF AtRounds
  <1>4. ASSUME AtRounds(score, ms, Changed(ms, d, other)), NEW c \in Class, NEW i \in RoundId
        PROVE  Is(c, i)
    <2> HIDE DEF Is
    <2>1. CASE \E p \in DOMAIN ms : ms[p].id = i
      <3>1. PICK p \in DOMAIN ms : ms[p].id = i
        BY <2>1
      <3> QED BY <1>1, <1>4, <3>1 DEF AtRounds
    <2>2. CASE \A p \in DOMAIN ms : ms[p].id # i
      BY <1>2, <1>4, <2>2 DEF AtRounds
    <2> QED BY <2>1, <2>2
  <1> QED BY <1>3, <1>4

\* Nothing dropped: the score is what the model predicts.
LEMMA MatchesMeans ==
  ASSUME NEW ms, RoundsTyped(ms), NEW other, NEW score
  PROVE  (\A c \in Class : \A i \in RoundId : score[c][i] = InModels(c, i, ms))
         <=> AtRounds(score, ms, Changed(ms, {}, other))
PROOF
  <1>1. {} \in SUBSET DOMAIN ms
    OBVIOUS
  <1>2. (\A c \in Class : \A i \in RoundId :
            score[c][i] = IF \E p \in {} : ms[p].id = i THEN other[InModels(c, i, ms)]
                          ELSE InModels(c, i, ms))
         <=> AtRounds(score, ms, Changed(ms, {}, other))
    BY <1>1, AtRoundsMeans
  <1>3. \A i : ~\E p \in {} : ms[p].id = i
    OBVIOUS
  <1> QED BY <1>2, <1>3

\* A model with other trees in the same rounds.
SameRounds(ms, new, d) ==
  /\ RoundsTyped(new) /\ Len(new) = Len(ms) /\ DOMAIN new = DOMAIN ms
  /\ \A p \in DOMAIN ms : /\ new[p].id = ms[p].id
                          /\ p \notin d => new[p] = ms[p]

LEMMA ShrinkageRounds ==
  ASSUME NEW ms, RoundsTyped(ms), NEW d \in SUBSET DOMAIN ms, NEW n, NEW m,
         \A p \in d : \A c \in Class : Shrunk(ms[p].tree[c], n, m) \in Output
  PROVE  /\ SameRounds(ms, Shrinkage(ms, d, n, m), d)
         /\ \A p \in d : \A c \in Class :
              Shrinkage(ms, d, n, m)[p].tree[c] = Shrunk(ms[p].tree[c], n, m)
PROOF
  <1> DEFINE new == Shrinkage(ms, d, n, m)
  <1>1. DOMAIN new = DOMAIN ms
    BY DEF Shrinkage
  <1>2. \A p \in DOMAIN ms : ms[p] \in Round
    BY DEF RoundsTyped
  <1>3. ASSUME NEW p \in d
        PROVE  /\ new[p] = [id |-> ms[p].id, tree |-> new[p].tree]
               /\ new[p].tree = [c \in Class |-> Shrunk(ms[p].tree[c], n, m)]
    BY <1>2 DEF Shrinkage, Round
  <1>4. \A p \in DOMAIN ms : p \notin d => new[p] = ms[p]
    BY DEF Shrinkage
  <1> HIDE DEF new
  <1>5. \A p \in DOMAIN ms : new[p] \in Round /\ new[p].id = ms[p].id
    <2>1. ASSUME NEW p \in d PROVE new[p] \in Round /\ new[p].id = ms[p].id
      <3> DEFINE tree == new[p].tree
      <3>1. new[p] = [id |-> ms[p].id, tree |-> tree] /\ tree \in [Class -> Output]
        BY <1>3
      <3>2. ms[p].id \in RoundId
        BY DEF RoundsTyped
      <3> HIDE DEF tree
      <3> QED BY <3>1, <3>2 DEF Round
    <2> QED BY <1>2, <1>4, <2>1
  <1>6. new \in Seq(Round) /\ Len(new) = Len(ms)
    <2>1. new = [p \in 1..Len(ms) |-> new[p]]
      <3>1. new = [p \in DOMAIN ms |-> new[p]]
        BY DEF new, Shrinkage
      <3> QED BY <3>1 DEF RoundsTyped
    <2>2. \A p \in 1..Len(ms) : new[p] \in Round
      BY <1>5 DEF RoundsTyped
    <2> QED BY <2>1, <2>2 DEF RoundsTyped
  <1>7. Distinct(new)
    <2>1. \A p, q \in DOMAIN ms : ms[p].id = ms[q].id => p = q
      BY DEF Distinct, RoundsTyped
    <2> QED BY <1>1, <1>5, <2>1 DEF Distinct
  <1>8. RoundsTyped(new)
    BY <1>6, <1>7, RoundsAreTyped
  <1>9. \A p \in d : \A c \in Class : new[p].tree[c] = Shrunk(ms[p].tree[c], n, m)
    BY <1>3
  <1> QED BY <1>1, <1>4, <1>5, <1>6, <1>8, <1>9 DEF SameRounds, new

LEMMA ShrunkNegated ==
  ASSUME NEW out \in Output
  PROVE  Shrunk(out, -1, 1) = Negated(out) /\ Negated(out) \in Output
PROOF
  <1>1. out.leaves * (-1) = -out.leaves /\ out.bias * (-1) = -out.bias
        /\ -out.leaves \in Int /\ -out.bias \in Int
    BY DEF Output
  <1> QED BY <1>1, ExactOne DEF Shrunk, Negated, Output

LEMMA DroppedRounds ==
  ASSUME NEW ms, RoundsTyped(ms), NEW d \in SUBSET DOMAIN ms
  PROVE  /\ SameRounds(ms, WithDropped(ms, d), d)
         /\ \A p \in d : \A c \in Class : WithDropped(ms, d)[p].tree[c] = Negated(ms[p].tree[c])
PROOF
  <1>1. \A p \in d : \A c \in Class :
          Shrunk(ms[p].tree[c], -1, 1) = Negated(ms[p].tree[c]) /\ Shrunk(ms[p].tree[c], -1, 1) \in Output
    BY ShrunkNegated DEF RoundsTyped
  <1>2. \A p \in d : \A c \in Class : Shrunk(ms[p].tree[c], -1, 1) \in Output
    BY <1>1
  <1> QED BY <1>1, <1>2, ShrinkageRounds DEF WithDropped

-----------------------------------------------------------------------------
(* How the operations on scores change what they hold of each round.       *)

LEMMA AtSameRounds ==
  ASSUME NEW ms, NEW new, NEW d, SameRounds(ms, new, d), NEW score, NEW trees,
         AtRounds(score, ms, trees)
  PROVE  AtRounds(score, new, trees)
  BY DEF AtRounds, SameRounds

LEMMA AtEqualTrees ==
  ASSUME NEW ms, NEW score, NEW trees, AtRounds(score, ms, trees), NEW new,
         \A p \in DOMAIN ms : \A c \in Class : new[p][c] = trees[p][c]
  PROVE  AtRounds(score, ms, new)
  BY DEF AtRounds

LEMMA AddRoundsAt ==
  ASSUME NEW ms, RoundsTyped(ms), NEW d \in SUBSET DOMAIN ms, NEW score \in Score, NEW trees,
         AtRounds(score, ms, trees), NEW new, \A p \in DOMAIN ms, c \in Class : new[p][c] =
           IF p \in d THEN Plus(trees[p][c], ms[p].tree[c]) ELSE trees[p][c]
  PROVE  AddRounds(score, ms, d) \in Score /\ AtRounds(AddRounds(score, ms, d), ms, new)
PROOF
  <1> DEFINE sum == AddRounds(score, ms, d)
             At(i) == {p \in d : ms[p].id = i}
  <1>1. ASSUME NEW c \in Class, NEW i \in RoundId
        PROVE  sum[c][i] = IF At(i) = {} THEN score[c][i]
                           ELSE Plus(score[c][i], ms[CHOOSE p \in At(i) : TRUE].tree[c])
    BY DEF AddRounds
  <1>2. sum = [c \in Class |-> [i \in RoundId |->
                 IF At(i) = {} THEN score[c][i]
                 ELSE Plus(score[c][i], ms[CHOOSE p \in At(i) : TRUE].tree[c])]]
    BY DEF AddRounds
  <1>3. \A c \in Class : \A i \in RoundId : score[c][i] \in Output
    BY DEF Score
  <1>4. ASSUME NEW c \in Class, NEW i \in RoundId PROVE sum[c][i] \in Output
    <2>1. CASE At(i) = {}
      BY <1>1, <1>3, <2>1
    <2>2. CASE At(i) # {}
      <3>1. (CHOOSE p \in At(i) : TRUE) \in At(i)
        BY <2>2
      <3>2. ms[CHOOSE p \in At(i) : TRUE].tree[c] \in Output
        BY <3>1 DEF RoundsTyped
      <3> QED BY <1>1, <1>3, <2>2, <3>2, PlusType
    <2> QED BY <2>1, <2>2
  <1>5. sum \in Score
    BY <1>2, <1>4 DEF Score
  <1>6. ASSUME NEW c \in Class, NEW p \in DOMAIN ms
        PROVE  sum[c][ms[p].id] = new[p][c]
    <2>1. ms[p].id \in RoundId /\ score[c][ms[p].id] = trees[p][c]
      BY DEF AtRounds, RoundsTyped
    <2>2. CASE p \in d
      <3>1. At(ms[p].id) = {p}
        BY <2>2 DEF RoundsTyped, Distinct
      <3>2. (CHOOSE q \in At(ms[p].id) : TRUE) = p /\ At(ms[p].id) # {}
        BY <3>1
      <3> HIDE DEF At, sum
      <3> QED BY <1>1, <2>1, <2>2, <3>2
    <2>3. CASE p \notin d
      <3>1. At(ms[p].id) = {}
        BY <2>3 DEF RoundsTyped, Distinct
      <3> HIDE DEF At, sum
      <3> QED BY <1>1, <2>1, <2>3, <3>1
    <2> QED BY <2>2, <2>3
  <1>7. ASSUME NEW c \in Class, NEW i \in RoundId, \A p \in DOMAIN ms : ms[p].id # i
        PROVE  sum[c][i] = Zero
    <2>1. At(i) = {} /\ score[c][i] = Zero
      BY <1>7 DEF AtRounds
    <2> HIDE DEF At, sum
    <2> QED BY <1>1, <2>1
  <1> QED BY <1>5, <1>6, <1>7 DEF AtRounds

LEMMA AddScoreAt ==
  ASSUME NEW ms, RoundsTyped(ms), NEW d \in SUBSET DOMAIN ms, NEW other, NEW score \in Score,
         AtRounds(score, ms, Changed(ms, d, other)),
         NEW r \in Round, \A p \in DOMAIN ms : ms[p].id # r.id
  PROVE  AtRounds(AddScore(score, r.id, r.tree), Append(ms, r), Changed(Append(ms, r), d, other))
PROOF
  <1> DEFINE grown == Append(ms, r)
             sum == AddScore(score, r.id, r.tree)
  <1>1. r.id \in RoundId /\ r.tree \in [Class -> Output]
    BY DEF Round
  <1>2. \A c \in Class, i \in RoundId :
          sum[c][i] = IF i = r.id THEN Plus(score[c][i], r.tree[c]) ELSE score[c][i]
    BY <1>1, AddScoreValue
  <1>3. /\ DOMAIN grown = 1..(Len(ms) + 1) /\ grown[Len(ms) + 1] = r
        /\ \A p \in DOMAIN ms : p \in DOMAIN grown /\ grown[p] = ms[p]
        /\ \A p \in DOMAIN grown : p \in DOMAIN ms \/ p = Len(ms) + 1
        /\ Len(ms) + 1 \notin d /\ Len(ms) + 1 \in DOMAIN grown
    BY DEF RoundsTyped
  <1> HIDE DEF grown, sum
  <1>4. \A c \in Class : score[c][r.id] = Zero /\ Plus(Zero, r.tree[c]) = r.tree[c]
    BY <1>1, ZeroPlus DEF AtRounds
  <1>5. ASSUME NEW c \in Class, NEW p \in DOMAIN grown
        PROVE  sum[c][grown[p].id] = Changed(grown, d, other)[p][c]
    <2>1. CASE p \in DOMAIN ms
      <3>1. /\ ms[p].id \in RoundId /\ ms[p].id # r.id
            /\ score[c][ms[p].id] = Changed(ms, d, other)[p][c]
        BY <2>1 DEF RoundsTyped, AtRounds
      <3>2. Changed(grown, d, other)[p][c] = Changed(ms, d, other)[p][c]
        BY <1>3, <2>1 DEF Changed
      <3> QED BY <1>2, <1>3, <2>1, <3>1, <3>2
    <2>2. CASE p = Len(ms) + 1
      <3>1. Changed(grown, d, other)[p][c] = r.tree[c]
        BY <1>3, <2>2 DEF Changed
      <3> QED BY <1>1, <1>2, <1>3, <1>4, <2>2, <3>1
    <2> QED BY <1>3, <2>1, <2>2
  <1>6. ASSUME NEW c \in Class, NEW i \in RoundId, \A p \in DOMAIN grown : grown[p].id # i
        PROVE  sum[c][i] = Zero
    <2>1. i # r.id /\ \A p \in DOMAIN ms : ms[p].id # i
      BY <1>3, <1>6
    <2> QED BY <1>2, <2>1 DEF AtRounds
  <1> QED BY <1>5, <1>6 DEF AtRounds, grown, sum

LEMMA AddNothingAt ==
  ASSUME NEW ms, RoundsTyped(ms), NEW score \in Score, NEW trees, AtRounds(score, ms, trees),
         NEW id \in RoundId, NEW tree \in [Class -> Output], \A c \in Class : tree[c] = Zero
  PROVE  AtRounds(AddScore(score, id, tree), ms, trees)
PROOF
  <1>1. \A c \in Class, i \in RoundId : score[c][i] \in Output
    BY DEF Score
  <1>2. \A c \in Class, i \in RoundId : AddScore(score, id, tree)[c][i] = score[c][i]
    BY <1>1, AddScoreValue, ZeroPlus
  <1> QED BY <1>2 DEF AtRounds, RoundsTyped

-----------------------------------------------------------------------------
(* Normalize and the iteration around it.                                  *)

\* Scaling by n/d leaves no remainder.
Whole(out, n, d) == (out.leaves * n) % d = 0 /\ (out.bias * n) % d = 0

\* Neither step of Normalize does, for the rounds d dropped with the rate r.
NormalizesExactly(ms, d, r) ==
  LET k == Cardinality(d)
  IN  \A p \in d : \A c \in Class :
        IF XGBoostMode
        THEN /\ Whole(ms[p].tree[c], r, Unit)
             /\ Whole(Shrunk(ms[p].tree[c], r, Unit), -k * Unit, learning_rate)
        ELSE Whole(ms[p].tree[c], 1, k + 1)

\* The rate of an iteration that dropped d.
RateOf(d, r) ==
  XGBoostMode /\ d # {} =>
    r * (learning_rate + Cardinality(d) * Unit) = learning_rate * Unit

\* What is left of a tree that weighed -out before it was dropped.
Reweighted(out, now, k) ==
  IF XGBoostMode THEN now.leaves * (k * Unit + learning_rate) = (-out.leaves) * (k * Unit)
  ELSE now.leaves * (k + 1) = (-out.leaves) * k

LEMMA ShrunkValue ==
  ASSUME NEW out \in Output, NEW n \in Int, NEW d \in Nat \ {0}, Whole(out, n, d)
  PROVE  /\ Shrunk(out, n, d) \in Output
         /\ Shrunk(out, n, d).leaves * d = out.leaves * n
         /\ Shrunk(out, n, d).bias * d = out.bias * n
PROOF
  <1>1. out.leaves * n \in Int /\ out.bias * n \in Int
    BY DEF Output
  <1>2. /\ Exact(out.leaves * n, d) \in Int /\ Exact(out.leaves * n, d) * d = out.leaves * n
        /\ Exact(out.bias * n, d) \in Int /\ Exact(out.bias * n, d) * d = out.bias * n
    BY <1>1, ExactValue DEF Whole
  <1> DEFINE a == Exact(out.leaves * n, d)  b == Exact(out.bias * n, d)
  <1> HIDE DEF a, b
  <1>3. Shrunk(out, n, d) = [leaves |-> a, bias |-> b]
    BY DEF Shrunk, a, b
  <1> QED BY <1>2, <1>3 DEF Output, a, b

LEMMA ShrunkByOne ==
  ASSUME NEW out \in Output, NEW n \in Int
  PROVE  Shrunk(out, n, 1) = [leaves |-> out.leaves * n, bias |-> out.bias * n]
         /\ Shrunk(out, n, 1) \in Output
PROOF
  <1>1. out.leaves * n \in Int /\ out.bias * n \in Int
    BY DEF Output
  <1> QED BY <1>1, ExactOne DEF Shrunk, Output

LEMMA NormalizedTree ==
  ASSUME NEW out \in Output, NEW k \in Nat, NEW r \in Nat, learning_rate \in Nat \ {0},
         XGBoostMode => r * (learning_rate + k * Unit) = learning_rate * Unit,
         XGBoostMode => Whole(out, r, Unit)
                        /\ Whole(Shrunk(out, r, Unit), -k * Unit, learning_rate),
         ~XGBoostMode => Whole(out, 1, k + 1),
         NEW first, first = IF XGBoostMode THEN Shrunk(out, r, Unit) ELSE Shrunk(out, 1, k + 1),
         NEW second, second = IF XGBoostMode THEN Shrunk(first, -k * Unit, learning_rate)
                              ELSE Shrunk(first, -k, 1)
  PROVE  /\ first \in Output /\ second \in Output
         /\ second = Plus(Negated(out), first)
         /\ Reweighted(out, second, k)
PROOF
  <1>0. Unit \in Nat \ {0} /\ out.leaves \in Int /\ out.bias \in Int
    BY DARTAssumption DEF Output
  <1>1. CASE XGBoostMode
    <2>1. /\ first \in Output
          /\ first.leaves * Unit = out.leaves * r /\ first.bias * Unit = out.bias * r
      BY <1>0, <1>1, ShrunkValue
    <2>2. -k * Unit \in Int /\ -k * Unit = -(k * Unit)
      BY <1>0
    <2>3. /\ second \in Output
          /\ second.leaves * learning_rate = first.leaves * (-k * Unit)
          /\ second.bias * learning_rate = first.bias * (-k * Unit)
      <3>1. Whole(first, -k * Unit, learning_rate) /\ second = Shrunk(first, -k * Unit, learning_rate)
        BY <1>1
      <3> QED BY <2>1, <2>2, <3>1, ShrunkValue
    <2>4. /\ first.leaves \in Int /\ first.bias \in Int /\ second.leaves \in Int /\ second.bias \in Int
          /\ second = [leaves |-> second.leaves, bias |-> second.bias]
      BY <2>1, <2>3 DEF Output
    <2>5. /\ second.leaves = first.leaves - out.leaves
          /\ second.leaves * (k * Unit + learning_rate) = (-out.leaves) * (k * Unit)
      <3> DEFINE x == out.leaves  y == first.leaves  z == second.leaves  lr == learning_rate  one == Unit
      <3>1. x \in Int /\ y \in Int /\ z \in Int /\ lr \in Nat \ {0} /\ one \in Nat \ {0}
        BY <1>0, <2>4
      <3>2. r * (lr + k * one) = lr * one /\ y * one = x * r /\ z * lr = y * (-(k * one))
        BY <1>1, <2>1, <2>2, <2>3
      <3> HIDE DEF x, y, z, lr, one
      <3>3. z = y - x /\ z * (k * one + lr) = (-x) * (k * one)
        BY <3>1, <3>2, NormalizedByRate
      <3> QED BY <3>3 DEF x, y, z, lr, one
    <2>6. second.bias = first.bias - out.bias
      <3> DEFINE x == out.bias  y == first.bias  z == second.bias  lr == learning_rate  one == Unit
      <3>1. x \in Int /\ y \in Int /\ z \in Int /\ lr \in Nat \ {0} /\ one \in Nat \ {0}
        BY <1>0, <2>4
      <3>2. r * (lr + k * one) = lr * one /\ y * one = x * r /\ z * lr = y * (-(k * one))
        BY <1>1, <2>1, <2>2, <2>3
      <3> HIDE DEF x, y, z, lr, one
      <3>3. z = y - x /\ z * (k * one + lr) = (-x) * (k * one)
        BY <3>1, <3>2, NormalizedByRate
      <3> QED BY <3>3 DEF x, y, z, lr, one
    <2>7. second = Plus(Negated(out), first)
      <3>1. second.leaves = (-out.leaves) + first.leaves /\ second.bias = (-out.bias) + first.bias
        BY <1>0, <2>4, <2>5, <2>6
      <3> QED BY <2>4, <3>1 DEF Plus, Negated
    <2> QED BY <1>1, <2>1, <2>3, <2>5, <2>7 DEF Reweighted
  <1>2. CASE ~XGBoostMode
    <2>1. /\ first \in Output
          /\ first.leaves * (k + 1) = out.leaves * 1 /\ first.bias * (k + 1) = out.bias * 1
      <3>1. k + 1 \in Nat \ {0} /\ 1 \in Int
        OBVIOUS
      <3>2. first = Shrunk(out, 1, k + 1) /\ Whole(out, 1, k + 1)
        BY <1>2
      <3> QED BY <3>1, <3>2, ShrunkValue
    <2>2. /\ second \in Output
          /\ second = [leaves |-> first.leaves * (-k), bias |-> first.bias * (-k)]
      <3>1. second = Shrunk(first, -k, 1) /\ -k \in Int
        BY <1>2
      <3> QED BY <2>1, <3>1, ShrunkByOne
    <2>3. /\ first.leaves \in Int /\ first.bias \in Int /\ second.leaves \in Int /\ second.bias \in Int
          /\ second = [leaves |-> second.leaves, bias |-> second.bias]
      BY <2>1, <2>2 DEF Output
    <2>4. /\ second.leaves = first.leaves - out.leaves
          /\ second.leaves * (k + 1) = (-out.leaves) * k
      <3>1. first.leaves * (k + 1) = out.leaves /\ second.leaves = first.leaves * (-k)
        BY <1>0, <2>1, <2>2
      <3> QED BY <1>0, <2>3, <3>1, NormalizedEvenly
    <2>5. second.bias = first.bias - out.bias
      <3>1. first.bias * (k + 1) = out.bias /\ second.bias = first.bias * (-k)
        BY <1>0, <2>1, <2>2
      <3> QED BY <1>0, <2>3, <3>1, NormalizedEvenly
    <2>6. second = Plus(Negated(out), first)
      <3>1. second.leaves = (-out.leaves) + first.leaves /\ second.bias = (-out.bias) + first.bias
        BY <1>0, <2>3, <2>4, <2>5
      <3> QED BY <2>3, <3>1 DEF Plus, Negated
    <2> QED BY <1>2, <2>1, <2>2, <2>4, <2>6 DEF Reweighted
  <1> QED BY <1>1, <1>2

LEMMA NormalizedRounds ==
  ASSUME NEW ms, RoundsTyped(ms), NEW d \in SUBSET DOMAIN ms, IsFiniteSet(d), NEW r \in Nat,
         learning_rate \in Rates, RateOf(d, r), NormalizesExactly(ms, d, r),
         NEW valid, valid = ForValid(ms, d, r), NEW done, done = ForTrain(valid, d)
  PROVE  /\ SameRounds(ms, valid, d) /\ SameRounds(ms, done, d)
         /\ \A p \in d : \A c \in Class :
              /\ done[p].tree[c] = Plus(Negated(ms[p].tree[c]), valid[p].tree[c])
              /\ Reweighted(ms[p].tree[c], done[p].tree[c], Cardinality(d))
PROOF
  <1> DEFINE k == Cardinality(d)
             First1(out) == IF XGBoostMode THEN Shrunk(out, r, Unit) ELSE Shrunk(out, 1, k + 1)
             Second1(out) == IF XGBoostMode THEN Shrunk(out, -k * Unit, learning_rate)
                             ELSE Shrunk(out, -k, 1)
  <1>1. k \in Nat /\ learning_rate \in Nat \ {0}
    BY FS_CardinalityType, DARTAssumption
  <1>2. ASSUME NEW p \in d, NEW c \in Class
        PROVE  /\ First1(ms[p].tree[c]) \in Output
               /\ Second1(First1(ms[p].tree[c])) \in Output
               /\ Second1(First1(ms[p].tree[c])) = Plus(Negated(ms[p].tree[c]), First1(ms[p].tree[c]))
               /\ Reweighted(ms[p].tree[c], Second1(First1(ms[p].tree[c])), k)
    <2> DEFINE out == ms[p].tree[c]
    <2>1. out \in Output
      BY DEF RoundsTyped
    <2>2. XGBoostMode => r * (learning_rate + k * Unit) = learning_rate * Unit
      BY DEF RateOf
    <2>3. /\ XGBoostMode => Whole(out, r, Unit)
                            /\ Whole(Shrunk(out, r, Unit), -k * Unit, learning_rate)
          /\ ~XGBoostMode => Whole(out, 1, k + 1)
      BY DEF NormalizesExactly
    <2> DEFINE first == First1(out)  second == Second1(first)
    <2>4. /\ first = IF XGBoostMode THEN Shrunk(out, r, Unit) ELSE Shrunk(out, 1, k + 1)
          /\ second = IF XGBoostMode THEN Shrunk(first, -k * Unit, learning_rate)
                      ELSE Shrunk(first, -k, 1)
      OBVIOUS
    <2> HIDE DEF out, k, first, second, First1, Second1
    <2>5. /\ first \in Output /\ second \in Output
          /\ second = Plus(Negated(out), first)
          /\ Reweighted(out, second, k)
      BY <1>1, <2>1, <2>2, <2>3, <2>4, NormalizedTree
    <2> QED BY <2>5 DEF out, first, second
  <1>3. SameRounds(ms, valid, d) /\ \A p \in d : \A c \in Class : valid[p].tree[c] = First1(ms[p].tree[c])
    <2>1. CASE XGBoostMode
      <3>1. valid = Shrinkage(ms, d, r, Unit)
        BY <2>1 DEF ForValid
      <3>2. \A p \in d : \A c \in Class : Shrunk(ms[p].tree[c], r, Unit) \in Output
        BY <1>2, <2>1
      <3> QED BY <2>1, <3>1, <3>2, ShrinkageRounds
    <2>2. CASE ~XGBoostMode
      <3>1. valid = Shrinkage(ms, d, 1, k + 1)
        BY <2>2 DEF ForValid
      <3>2. \A p \in d : \A c \in Class : Shrunk(ms[p].tree[c], 1, k + 1) \in Output
        BY <1>2, <2>2
      <3> HIDE DEF k
      <3> QED BY <2>2, <3>1, <3>2, ShrinkageRounds
    <2> QED BY <2>1, <2>2
  <1>4. RoundsTyped(valid) /\ DOMAIN valid = DOMAIN ms
    BY <1>3 DEF SameRounds
  <1>5. SameRounds(valid, done, d) /\ \A p \in d : \A c \in Class : done[p].tree[c] = Second1(valid[p].tree[c])
    <2>1. CASE XGBoostMode
      <3>1. done = Shrinkage(valid, d, -k * Unit, learning_rate)
        BY <2>1 DEF ForTrain
      <3>2. \A p \in d : \A c \in Class : Shrunk(valid[p].tree[c], -k * Unit, learning_rate) \in Output
        BY <1>2, <1>3, <2>1
      <3> HIDE DEF k
      <3> QED BY <1>4, <2>1, <3>1, <3>2, ShrinkageRounds
    <2>2. CASE ~XGBoostMode
      <3>1. done = Shrinkage(valid, d, -k, 1)
        BY <2>2 DEF ForTrain
      <3>2. \A p \in d : \A c \in Class : Shrunk(valid[p].tree[c], -k, 1) \in Output
        BY <1>2, <1>3, <2>2
      <3> HIDE DEF k
      <3> QED BY <1>4, <2>2, <3>1, <3>2, ShrinkageRounds
    <2> QED BY <2>1, <2>2
  <1>6. SameRounds(ms, done, d)
    BY <1>3, <1>5 DEF SameRounds
  <1> HIDE DEF First1, Second1, k
  <1>7. ASSUME NEW p \in d, NEW c \in Class
        PROVE  /\ done[p].tree[c] = Plus(Negated(ms[p].tree[c]), valid[p].tree[c])
               /\ Reweighted(ms[p].tree[c], done[p].tree[c], k)
    <2>1. done[p].tree[c] = Second1(First1(ms[p].tree[c])) /\ valid[p].tree[c] = First1(ms[p].tree[c])
      BY <1>3, <1>5
    <2> QED BY <1>2, <2>1
  <1> QED BY <1>3, <1>6, <1>7 DEF k

\* What an iteration makes of the models: the rounds it dropped at their new
\* weight, the others as they were, and the new round unless it is taken back.
AfterTraining(ms, d, split, r) ==
  /\ RoundsTyped(models')
  /\ Len(models') = IF Kept(split) THEN Len(ms) + 1 ELSE Len(ms)
  /\ \A p \in DOMAIN ms : p \in DOMAIN models' /\ models'[p].id = ms[p].id
                          /\ (p \notin d => models'[p] = ms[p])
  /\ Kept(split) => models'[Len(ms) + 1] = [id |-> born + 1, tree |-> NewTrees(split, r)]
  /\ \A p \in d : \A c \in Class : Reweighted(ms[p].tree[c], models'[p].tree[c], Cardinality(d))

\* The models with the new round of an iteration.
NewRound(split, r) == [id |-> born + 1, tree |-> NewTrees(split, r)]
GrownBy(ms, split, r) == IF Kept(split) THEN Append(ms, NewRound(split, r)) ELSE ms

LEMMA NewRoundTyped ==
  ASSUME Sound, born \in Nat, born < MaxRounds, NEW split \in SUBSET Class, NEW r \in Nat
  PROVE  /\ NewRound(split, r) \in Round
         /\ NewRound(split, r).id = born + 1 /\ born + 1 \in RoundId
         /\ NewRound(split, r).tree = ScoreChange(split, r)
         /\ ScoreChange(split, r) \in [Class -> Output]
PROOF
  <1>1. born + 1 \in RoundId
    BY GBDTAssumption DEF RoundId
  <1>2. r \in Int
    OBVIOUS
  <1>3. NewTrees(split, r) \in [Class -> Output] /\ ScoreChange(split, r) = NewTrees(split, r)
    BY <1>2, TreesTyped
  <1> QED BY <1>1, <1>3 DEF NewRound, Round

IsGrown(ms, split, r, grown) ==
  /\ RoundsTyped(grown)
  /\ Len(grown) = IF Kept(split) THEN Len(ms) + 1 ELSE Len(ms)
  /\ \A p \in DOMAIN ms : p \in DOMAIN grown /\ grown[p] = ms[p]
  /\ Kept(split) => grown[Len(ms) + 1] = NewRound(split, r)

LEMMA GrownRounds ==
  ASSUME Sound, born \in Nat, born < MaxRounds, NEW split \in SUBSET Class, NEW r \in Nat,
         NEW ms, RoundsTyped(ms), \A p \in DOMAIN ms : ms[p].id <= born
  PROVE  IsGrown(ms, split, r, GrownBy(ms, split, r))
PROOF
  <1> DEFINE new == NewRound(split, r)
             grown == GrownBy(ms, split, r)
  <1>1. new \in Round /\ new.id = born + 1
    BY NewRoundTyped
  <1> HIDE DEF new
  <1>2. ms \in Seq(Round) /\ Distinct(ms) /\ DOMAIN ms = 1..Len(ms) /\ Len(ms) \in Nat
    BY DEF RoundsTyped
  <1>3. \A p \in DOMAIN ms : ms[p].id # born + 1
    BY DEF RoundsTyped, RoundId
  <1>4. CASE Kept(split)
    <2>1. grown = Append(ms, new)
      BY <1>4 DEF GrownBy, new
    <2> HIDE DEF grown
    <2>2. grown \in Seq(Round) /\ Len(grown) = Len(ms) + 1
      BY <1>1, <1>2, <2>1
    <2>3. grown[Len(ms) + 1] = new /\ \A p \in DOMAIN ms : p \in DOMAIN grown /\ grown[p] = ms[p]
      BY <1>2, <2>1
    <2>4. Distinct(grown)
      BY <1>1, <1>2, <1>3, <2>1, InModelsAppend
    <2>5. RoundsTyped(grown)
      BY <2>2, <2>4, RoundsAreTyped
    <2> QED BY <1>4, <2>2, <2>3, <2>5 DEF IsGrown, grown, new
  <1>5. CASE ~Kept(split)
    BY <1>5 DEF GrownBy, IsGrown
  <1> QED BY <1>4, <1>5

LEMMA GrownScore ==
  ASSUME Sound, born \in Nat, born < MaxRounds, NEW split \in SUBSET Class, NEW r \in Nat,
         models \in Seq(Round), NEW ms, RoundsTyped(ms), \A p \in DOMAIN ms : ms[p].id <= born,
         NEW d \in SUBSET DOMAIN ms, NEW other, NEW score \in Score,
         AtRounds(score, ms, Changed(ms, d, other))
  PROVE  /\ AddScore(score, born + 1, ScoreChange(split, r)) \in Score
         /\ AtRounds(AddScore(score, born + 1, ScoreChange(split, r)), GrownBy(ms, split, r),
                     Changed(GrownBy(ms, split, r), d, other))
PROOF
  <1> DEFINE new == NewRound(split, r)
  <1>1. /\ new \in Round /\ new.id = born + 1 /\ new.tree = ScoreChange(split, r)
        /\ born + 1 \in RoundId /\ ScoreChange(split, r) \in [Class -> Output]
    BY NewRoundTyped
  <1>2. AddScore(score, born + 1, ScoreChange(split, r)) \in Score
    BY <1>1, AddScoreValue
  <1>3. \A p \in DOMAIN ms : ms[p].id # new.id
    BY <1>1 DEF RoundsTyped, RoundId
  <1>4. CASE Kept(split)
    <2>1. GrownBy(ms, split, r) = Append(ms, new)
      BY <1>4 DEF GrownBy
    <2> HIDE DEF new
    <2>2. AtRounds(AddScore(score, new.id, new.tree), Append(ms, new), Changed(Append(ms, new), d, other))
      BY <1>1, <1>3, AddScoreAt
    <2> QED BY <1>1, <1>2, <2>1, <2>2
  <1>5. CASE ~Kept(split)
    <2>1. GrownBy(ms, split, r) = ms
      BY <1>5 DEF GrownBy
    <2>2. split = {} /\ models # <<>>
      BY <1>5 DEF Kept
    <2>3. \A c \in Class : ScoreChange(split, r)[c] = Zero
      BY <2>2 DEF ScoreChange, StartingScore, AddsDefault, Zero, Plus
    <2>4. AtRounds(AddScore(score, born + 1, ScoreChange(split, r)), ms, Changed(ms, d, other))
      BY <1>1, <2>3, AddNothingAt
    <2> QED BY <1>2, <2>1, <2>4
  <1> QED BY <1>4, <1>5

\* Adding the trees of scaled gives a score what it misses of those of done.
Completes(grown, d, scaled, done, other) ==
  /\ d \in SUBSET DOMAIN grown
  /\ SameRounds(grown, scaled, d) /\ SameRounds(grown, done, d)
  /\ \A p \in d : \A c \in Class :
       done[p].tree[c] = Plus(other[grown[p].tree[c]], scaled[p].tree[c])

LEMMA NormalizedScore ==
  ASSUME NEW grown, NEW d, NEW scaled, NEW done, NEW other,
         Completes(grown, d, scaled, done, other),
         NEW score \in Score, AtRounds(score, grown, Changed(grown, d, other))
  PROVE  /\ AddRounds(score, scaled, d) \in Score
         /\ \A c \in Class : \A i \in RoundId :
              AddRounds(score, scaled, d)[c][i] = InModels(c, i, done)
PROOF
  <1> DEFINE trees == Changed(grown, d, other)
             new == Changed(done, {}, Removed)
             sum == AddRounds(score, scaled, d)
  <1>1. /\ RoundsTyped(scaled) /\ RoundsTyped(done)
        /\ DOMAIN scaled = DOMAIN grown /\ DOMAIN done = DOMAIN grown
        /\ d \in SUBSET DOMAIN scaled /\ SameRounds(grown, scaled, d) /\ SameRounds(scaled, done, d)
    BY DEF Completes, SameRounds
  <1>2. AtRounds(score, scaled, trees)
    BY <1>1, AtSameRounds
  <1>3. \A p \in DOMAIN scaled, c \in Class :
          new[p][c] = IF p \in d THEN Plus(trees[p][c], scaled[p].tree[c]) ELSE trees[p][c]
    BY <1>1 DEF Changed, Completes, SameRounds
  <1> HIDE DEF trees, new, sum
  <1>4. sum \in Score /\ AtRounds(sum, scaled, new)
    BY <1>1, <1>2, <1>3, AddRoundsAt DEF sum
  <1>5. AtRounds(sum, done, new)
    BY <1>1, <1>4, AtSameRounds
  <1>6. \A c \in Class : \A i \in RoundId : sum[c][i] = InModels(c, i, done)
    BY <1>1, <1>5, MatchesMeans DEF new
  <1> QED BY <1>4, <1>6 DEF sum

LEMMA TrainedRounds ==
  ASSUME Sound, born \in Nat, born < MaxRounds, NEW split \in SUBSET Class,
         valid_score \in Seq(Score), models \in Seq(Round),
         NEW ms, RoundsTyped(ms), Len(ms) = Len(models), \A p \in DOMAIN ms : ms[p].id <= born,
         NEW d \in SUBSET DOMAIN ms, IsFiniteSet(d), split = {} => d = {}, NEW r \in Nat,
         NEW score \in Score, AtRounds(score, ms, Changed(ms, d, Removed)),
         \A v \in DOMAIN valid_score : AtRounds(valid_score[v], ms, Changed(ms, d, Reversed)),
         learning_rate \in Rates, RateOf(d, r), NormalizesExactly(ms, d, r),
         Trained(split, d, ms, score, r)
  PROVE  /\ AfterTraining(ms, d, split, r)
         /\ train_score' \in Score /\ valid_score' \in Seq(Score)
         /\ \A c \in Class : \A i \in RoundId : train_score'[c][i] = InModels(c, i, models')
         /\ \A v \in DOMAIN valid_score' : \A c \in Class : \A i \in RoundId :
              valid_score'[v][c][i] = InModels(c, i, models')
PROOF
  <1> DEFINE id == born + 1
             change == ScoreChange(split, r)
             grown == GrownBy(ms, split, r)
             scored == AddScore(score, id, change)
             validScored == AddToAll(valid_score, id, change)
             valid == ForValid(grown, d, r)
             done == ForTrain(valid, d)
  <1>1. /\ split = {} => models' = grown /\ train_score' = scored /\ valid_score' = validScored
        /\ split # {} => /\ models' = done
                         /\ valid_score' = ValidNormalized(validScored, valid, d)
                         /\ train_score' = AddRounds(scored, done, d)
    BY DEF Trained, GrownBy, NewRound
  <1>2. id \in RoundId /\ change \in [Class -> Output]
    BY NewRoundTyped
  <1>3. validScored \in Seq(Score) /\ DOMAIN validScored = DOMAIN valid_score
        /\ \A v \in DOMAIN valid_score : validScored[v] = AddScore(valid_score[v], id, change)
                                         /\ valid_score[v] \in Score /\ validScored[v] \in Score
    <2>1. \A v \in DOMAIN valid_score : valid_score[v] \in Score
      OBVIOUS
    <2> HIDE DEF id, change
    <2> QED BY <1>2, <2>1, AddToAllValue, AddScoreValue
  <1>4. /\ RoundsTyped(grown)
        /\ Len(grown) = IF Kept(split) THEN Len(ms) + 1 ELSE Len(ms)
        /\ d \in SUBSET DOMAIN grown
        /\ \A p \in DOMAIN ms : p \in DOMAIN grown /\ grown[p] = ms[p]
        /\ Kept(split) => grown[Len(ms) + 1] = NewRound(split, r)
        /\ scored \in Score
        /\ AtRounds(scored, grown, Changed(grown, d, Removed))
    <2>1. /\ RoundsTyped(grown)
          /\ Len(grown) = IF Kept(split) THEN Len(ms) + 1 ELSE Len(ms)
          /\ \A p \in DOMAIN ms : p \in DOMAIN grown /\ grown[p] = ms[p]
          /\ Kept(split) => grown[Len(ms) + 1] = NewRound(split, r)
      <3>1. IsGrown(ms, split, r, GrownBy(ms, split, r))
        BY GrownRounds
      <3> QED BY <3>1, Zenon DEF IsGrown
    <2>2. scored \in Score /\ AtRounds(scored, grown, Changed(grown, d, Removed))
      BY GrownScore
    <2> HIDE DEF grown, scored
    <2>3. d \in SUBSET DOMAIN grown
      BY <2>1
    <2> QED BY <2>1, <2>2, <2>3
  <1>5. ASSUME NEW v \in DOMAIN valid_score
        PROVE  AtRounds(validScored[v], grown, Changed(grown, d, Reversed))
    <2>1. AtRounds(valid_score[v], ms, Changed(ms, d, Reversed)) /\ valid_score[v] \in Score
      BY <1>3
    <2>2. AtRounds(AddScore(valid_score[v], id, change), grown, Changed(grown, d, Reversed))
      BY <2>1, GrownScore
    <2> QED BY <1>3, <2>2
  <1>6. NormalizesExactly(grown, d, r)
    BY <1>4 DEF NormalizesExactly
  <1> HIDE DEF id, change, grown, scored, validScored, valid, done
  <1>7. CASE split = {}
    <2>1. d = {} /\ models' = grown /\ train_score' = scored /\ valid_score' = validScored
      BY <1>1, <1>7
    <2>2. \A c \in Class : \A i \in RoundId : train_score'[c][i] = InModels(c, i, models')
      BY <1>4, <2>1, MatchesMeans
    <2>3. \A v \in DOMAIN valid_score' : \A c \in Class : \A i \in RoundId :
            valid_score'[v][c][i] = InModels(c, i, models')
      BY <1>3, <1>4, <1>5, <2>1, MatchesMeans
    <2>4. AfterTraining(ms, d, split, r)
      BY <1>4, <2>1 DEF AfterTraining, NewRound
    <2> QED BY <1>3, <1>4, <2>1, <2>2, <2>3, <2>4
  <1>8. CASE split # {}
    <2>1. /\ models' = done /\ train_score' = AddRounds(scored, done, d)
          /\ valid_score' = ValidNormalized(validScored, valid, d)
      BY <1>1, <1>8
    <2>2. /\ SameRounds(grown, valid, d) /\ SameRounds(grown, done, d)
          /\ \A p \in d : \A c \in Class :
               /\ done[p].tree[c] = Plus(Negated(grown[p].tree[c]), valid[p].tree[c])
               /\ Reweighted(grown[p].tree[c], done[p].tree[c], Cardinality(d))
      <3>1. valid = ForValid(grown, d, r) /\ done = ForTrain(valid, d)
        BY DEF valid, done
      <3> QED BY <1>4, <1>6, <3>1, NormalizedRounds
    <2>3. \A p \in d : \A c \in Class : grown[p].tree[c] \in Output /\ done[p].tree[c] \in Output
      BY <1>4, <2>2 DEF SameRounds, RoundsTyped
    <2>4. train_score' \in Score /\ \A c \in Class : \A i \in RoundId : train_score'[c][i] = InModels(c, i, models')
      <3>1. \A p \in d : \A c \in Class :
              done[p].tree[c] = Plus(Removed[grown[p].tree[c]], done[p].tree[c])
        BY <2>3, ZeroPlus DEF Removed
      <3>2. /\ AddRounds(scored, done, d) \in Score
            /\ \A c \in Class : \A i \in RoundId : AddRounds(scored, done, d)[c][i] = InModels(c, i, done)
        <4>1. Completes(grown, d, done, done, Removed)
          BY <1>4, <2>2, <3>1 DEF Completes
        <4>2. scored \in Score /\ AtRounds(scored, grown, Changed(grown, d, Removed))
          BY <1>4
        <4> QED BY <4>1, <4>2, NormalizedScore
      <3> QED BY <2>1, <3>2
    <2>5. ASSUME NEW v \in DOMAIN valid_score
          PROVE  /\ AddRounds(validScored[v], valid, d) \in Score
                 /\ \A c \in Class : \A i \in RoundId :
                      AddRounds(validScored[v], valid, d)[c][i] = InModels(c, i, models')
      <3>1. \A p \in d : \A c \in Class :
              done[p].tree[c] = Plus(Reversed[grown[p].tree[c]], valid[p].tree[c])
        BY <2>2, <2>3 DEF Reversed
      <3>2. validScored[v] \in Score
        BY <1>3
      <3>3. /\ AddRounds(validScored[v], valid, d) \in Score
            /\ \A c \in Class : \A i \in RoundId :
                 AddRounds(validScored[v], valid, d)[c][i] = InModels(c, i, done)
        <4>1. Completes(grown, d, valid, done, Reversed)
          BY <1>4, <2>2, <3>1 DEF Completes
        <4>2. AtRounds(validScored[v], grown, Changed(grown, d, Reversed))
          BY <1>5
        <4> QED BY <3>2, <4>1, <4>2, NormalizedScore
      <3> QED BY <2>1, <3>3
    <2>6. valid_score' = [v \in DOMAIN valid_score |-> AddRounds(validScored[v], valid, d)]
      BY <1>3, <2>1 DEF ValidNormalized
    <2>7. valid_score' \in Seq(Score)
      BY <2>5, <2>6
    <2>8. AfterTraining(ms, d, split, r)
      <3>1. RoundsTyped(models') /\ Len(models') = (IF Kept(split) THEN Len(ms) + 1 ELSE Len(ms))
        BY <1>4, <2>1, <2>2 DEF SameRounds
      <3>2. \A p \in DOMAIN ms : p \in DOMAIN models' /\ models'[p].id = ms[p].id
                                 /\ (p \notin d => models'[p] = ms[p])
        BY <1>4, <2>1, <2>2 DEF SameRounds
      <3>3. Kept(split) => models'[Len(ms) + 1] = NewRound(split, r)
        <4>1. Len(ms) + 1 \notin d
          BY DEF RoundsTyped
        <4>2. Kept(split) => Len(ms) + 1 \in DOMAIN grown
          BY <1>4 DEF RoundsTyped
        <4> QED BY <1>4, <2>1, <2>2, <4>1, <4>2 DEF SameRounds
      <3>4. \A p \in d : \A c \in Class : Reweighted(ms[p].tree[c], models'[p].tree[c], Cardinality(d))
        BY <1>4, <2>1, <2>2
      <3> QED BY <3>1, <3>2, <3>3, <3>4 DEF AfterTraining, NewRound
    <2> QED BY <2>4, <2>5, <2>6, <2>7, <2>8
  <1> QED BY <1>7, <1>8

\* Weights as a function, their sum, and how it changes with them.
LEMMA WeightsFunction ==
  ASSUME NEW w \in Seq(Nat)
  PROVE  /\ w \in [DOMAIN w -> Int] /\ IsFiniteSet(DOMAIN w)
         /\ DOMAIN w = 1..Len(w) /\ Len(w) \in Nat
PROOF
  <1>1. DOMAIN w = 1..Len(w) /\ Len(w) \in Nat /\ w = [i \in 1..Len(w) |-> w[i]]
        /\ \A i \in 1..Len(w) : w[i] \in Nat
    OBVIOUS
  <1>2. IsFiniteSet(1..Len(w))
    BY <1>1, FS_Interval
  <1>3. w \in [1..Len(w) -> Int]
    BY <1>1
  <1> QED BY <1>1, <1>2, <1>3

LEMMA SumIsNat ==
  ASSUME NEW w \in Seq(Nat)
  PROVE  Total(w) \in Nat
PROOF
  <1> DEFINE S == DOMAIN w
  <1>1. w \in [S -> Int] /\ IsFiniteSet(S) /\ \A i \in S : w[i] \in Nat
    BY WeightsFunction
  <1>2. PICK g : IsSum(g, w, S) /\ Total(w) = g[S]
    BY <1>1, SumIs
  <1> HIDE DEF S
  <1> DEFINE Good == {T \in SUBSET S : g[T] \in Nat}
  <1>3. {} \in Good
    BY <1>2 DEF IsSum
  <1>4. ASSUME NEW T \in SUBSET S, T # {}, \A x \in T : T \ {x} \in Good
        PROVE  T \in Good
    <2>1. PICK x \in T : TRUE
      BY <1>4
    <2>2. g[T] = w[x] + g[T \ {x}] /\ w[x] \in Nat /\ g[T \ {x}] \in Nat
      BY <1>1, <1>2, <1>4 DEF IsSum
    <2> QED BY <2>2
  <1> HIDE DEF Good
  <1>5. \A T \in SUBSET S : T \in Good
    BY <1>1, <1>3, <1>4, SetsGrow
  <1>6. S \in Good
    BY <1>5
  <1> QED BY <1>2, <1>6 DEF Good, S

\* No weights, no sum.
LEMMA SumOfNothing ==
  ASSUME NEW w \in Seq(Nat), w = <<>>
  PROVE  Total(w) = 0
PROOF
  <1> DEFINE S == DOMAIN w
  <1>1. w \in Seq(Nat) /\ S = {}
    OBVIOUS
  <1>2. w \in [S -> Int] /\ IsFiniteSet(S)
    BY <1>1, WeightsFunction
  <1>3. PICK g : IsSum(g, w, S) /\ Total(w) = g[S]
    BY <1>2, SumIs
  <1> QED BY <1>1, <1>3 DEF IsSum

LEMMA SumAppended ==
  ASSUME NEW w \in Seq(Nat), NEW new \in Seq(Nat), Len(new) = Len(w) + 1,
         \A i \in DOMAIN w : new[i] = w[i],
         NEW r \in Nat, new[Len(w) + 1] = r
  PROVE  Total(new) = Total(w) + r
PROOF
  <1> DEFINE S == DOMAIN w  T == DOMAIN new  last == Len(w) + 1
  <1>1. /\ new \in Seq(Nat) /\ last \in T /\ T \ {last} = S /\ new[last] = r /\ S \subseteq T
        /\ \A x \in S : w[x] = new[x]
    <2>1. DOMAIN new = 1..(Len(w) + 1) /\ DOMAIN w = 1..Len(w) /\ Len(w) \in Nat
      OBVIOUS
    <2> QED BY <2>1
  <1>2. w \in [S -> Int] /\ IsFiniteSet(S) /\ new \in [T -> Int] /\ IsFiniteSet(T)
    BY <1>1, WeightsFunction
  <1>3. PICK g : IsSum(g, w, S) /\ Total(w) = g[S]
    BY <1>2, SumIs
  <1>4. PICK h : IsSum(h, new, T) /\ Total(new) = h[T]
    BY <1>2, SumIs
  <1> HIDE DEF S, T, last
  <1>5. g[S] = h[S]
    <2>1. IsSum(g, w, S) /\ IsSum(h, new, T) /\ S \subseteq T /\ \A x \in S : w[x] = new[x]
      BY <1>1, <1>3, <1>4
    <2> QED BY <2>1, SumsAgree
  <1>6. h[T] = new[last] + h[T \ {last}] /\ h[S] \in Int
    <2>1. IsSum(h, new, T) /\ T \in SUBSET T /\ S \in SUBSET T
      BY <1>1, <1>4, Zenon
    <2> QED BY <1>1, <2>1 DEF IsSum
  <1>7. h[T] = g[S] + r
    <2>1. h[T] = r + h[S]
      BY <1>1, <1>6, Zenon
    <2>2. \A a, b \in Int : a + b = b + a
      OBVIOUS
    <2>3. r \in Int
      OBVIOUS
    <2> QED BY <1>5, <1>6, <2>1, <2>2, <2>3, Zenon
  <1> QED BY <1>3, <1>4, <1>7 DEF S, T

\* new is w less what is lost on D.
Lessened(w, new, D, lost) ==
  /\ w \in Seq(Nat) /\ new \in Seq(Nat) /\ DOMAIN new = DOMAIN w
  /\ D \in SUBSET DOMAIN w /\ lost \in [D -> Int]
  /\ \A x \in DOMAIN w : /\ x \in D => new[x] = w[x] - lost[x]
                         /\ x \notin D => new[x] = w[x]

LEMMA SumLessened ==
  ASSUME NEW w, NEW new, NEW D, NEW lost, Lessened(w, new, D, lost)
  PROVE  Total(new) = Total(w) - Total(lost)
PROOF
  <1> DEFINE S == DOMAIN w
  <1>1. /\ w \in [S -> Int] /\ IsFiniteSet(S) /\ new \in [S -> Int]
        /\ D \in SUBSET S /\ IsFiniteSet(D) /\ lost \in [D -> Int]
    BY WeightsFunction, FS_Subset DEF Lessened
  <1>2. PICK g : IsSum(g, w, S) /\ Total(w) = g[S]
    BY <1>1, SumIs
  <1>3. PICK h : IsSum(h, new, S) /\ Total(new) = h[S]
    BY <1>1, SumIs
  <1>4. PICK gl : IsSum(gl, lost, D) /\ Total(lost) = gl[D]
    BY <1>1, SumIs
  <1>5. \A x \in S : /\ x \in D => new[x] = w[x] - lost[x]
                     /\ x \notin D => new[x] = w[x]
    BY DEF Lessened
  <1> HIDE DEF S
  <1>6. h[S] = g[S] - gl[D]
    <2>1. IsSum(g, w, S) /\ IsSum(h, new, S) /\ IsSum(gl, lost, D) /\ D \subseteq S
      BY <1>1, <1>2, <1>3, <1>4
    <2> QED BY <1>5, <2>1, SumsLose
  <1> QED BY <1>2, <1>3, <1>4, <1>6 DEF S

-----------------------------------------------------------------------------
(* What DART keeps from call to call.                                      *)

\* The rate a pending drop left for its iteration.
PendingRate == ~HasObjective /\ updated => rate = ShrinkageRate(Cardinality(drop_index))

\* tree_weight_ also holds the weights of rounds that are dropped, and negated, now.
WeightsHold(ms, d) ==
  \A i \in DOMAIN tree_weight : \A c \in Class :
    LET out == ms[NumInit + i].tree[c].leaves
    IN  out # 0 => tree_weight[i] = IF NumInit + i \in d THEN -out ELSE out

WeightsKept ==
  ~Uniform => /\ Len(models) = NumInit + iter
              /\ Len(tree_weight) = iter
              /\ WeightsHold(models, Pending)
              /\ SumOfWeights

\* What does not depend on scores.
RoundsInStep ==
  /\ Len(models) >= NumInit + iter
  /\ RoundsDistinct /\ IdsBorn /\ FreshMatches /\ MergedInFront

DartIInv ==
  /\ Typed
  /\ \E x \in Cases : setup = x.setup /\ options = x.options /\ SoundCase(x)
  /\ RoundsInStep
  /\ rate \in Nat /\ learning_rate \in Rates /\ updated \in BOOLEAN
  /\ Pending \subseteq Droppable /\ PendingRate
  /\ DartScores
  /\ tree_weight \in Seq(Nat) /\ sum_weight \in Nat /\ WeightsKept

\* The divisions of a step that drops or trains are exact: Unit is fine
\* enough.  TLC stops where one is not.
NoRemainder ==
  LET d == drop_index'
      k == Cardinality(d)
      ms == IF HasObjective THEN WithDropped(models, d) ELSE models
  IN  /\ born' # born \/ updated' # updated =>
           IF XGBoostMode THEN (learning_rate * Unit) % (learning_rate + k * Unit) = 0
           ELSE learning_rate % (k + 1) = 0
      /\ born' # born => NormalizesExactly(ms, d, rate')
      /\ born' # born /\ ~Uniform => \A i \in Weighted(d) : tree_weight[i] % (k + 1) = 0

\* What a booster keeps fixed.
LEMMA DartFixed ==
  ASSUME setup' = setup, options' = options
  PROVE  /\ NumInit' = NumInit /\ LateData' = LateData /\ HasObjective' = HasObjective
         /\ FreshScore' = FreshScore /\ IsSetup(setup)' = IsSetup(setup)
         /\ Uniform' = Uniform /\ XGBoostMode' = XGBoostMode
         /\ (\E x \in Cases : setup = x.setup /\ options = x.options /\ SoundCase(x))'
            = (\E x \in Cases : setup = x.setup /\ options = x.options /\ SoundCase(x))
PROOF
  <1>1. FreshScore' = FreshScore /\ NumInit' = NumInit /\ IsSetup(setup)' = IsSetup(setup)
    BY SetupFixed
  <1> QED BY <1>1 DEF LateData, HasObjective, Uniform, XGBoostMode, SoundCase, SoundSetup

\* How the booster is used.
LEMMA CaseFacts ==
  ASSUME DartIInv
  PROVE  /\ Sound /\ DropSplits
         /\ HasObjective \/ ~(LateData \/ MayShuffle \/ MayRollback \/ MayReset)
         /\ Uniform \/ (FirstSplits /\ ~(MayShuffle \/ XGBoostMode \/ MayRollback \/ MayReset))
  BY DEF DartIInv, SoundCase, Sound, DropSplits, HasObjective, LateData, MayShuffle,
         MayRollback, MayReset, Uniform, FirstSplits, XGBoostMode

LEMMA DartTyped ==
  ASSUME DartIInv
  PROVE  /\ models \in Seq(Round) /\ RoundsTyped(models)
         /\ NumInit \in Nat /\ iter \in Nat /\ born \in Nat /\ MaxRounds \in Nat
         /\ NumInit <= born /\ born <= MaxRounds
         /\ learning_rate \in Nat \ {0} /\ Unit \in Nat \ {0}
         /\ Droppable \subseteq DOMAIN models
         /\ \A d \in SUBSET Droppable : IsFiniteSet(d) /\ Cardinality(d) \in Nat /\ d \subseteq DOMAIN models
         /\ train_score \in Score /\ valid_score \in Seq(Score)
         /\ \A v \in DOMAIN valid_score : valid_score[v] \in Score
PROOF
  <1>1. /\ models \in Seq(Round) /\ iter \in Nat /\ born \in NumInit..MaxRounds /\ IsSetup(setup)
        /\ train_score \in Score /\ valid_score \in Seq(Score) /\ Distinct(models)
        /\ Len(models) >= NumInit + iter
    BY DEF DartIInv, Typed, RoundsInStep, RoundsDistinct
  <1>2. RoundsTyped(models)
    BY <1>1, RoundsAreTyped
  <1>3. NumInit \in Nat /\ MaxRounds \in Nat
    BY <1>1, SetupTyped
  <1>4. Droppable \subseteq DOMAIN models /\ IsFiniteSet(Droppable)
    <2>1. IsFiniteSet((NumInit + 1)..(NumInit + iter))
      BY <1>1, <1>3, FS_Interval
    <2> QED BY <1>1, <1>2, <1>3, <2>1 DEF Droppable, RoundsTyped
  <1>5. \A d \in SUBSET Droppable : IsFiniteSet(d) /\ Cardinality(d) \in Nat /\ d \subseteq DOMAIN models
    BY <1>4, FS_Subset, FS_CardinalityType
  <1>6. learning_rate \in Nat \ {0} /\ Unit \in Nat \ {0}
    BY DARTAssumption DEF DartIInv
  <1>7. \A v \in DOMAIN valid_score : valid_score[v] \in Score
    BY <1>1
  <1> QED BY <1>1, <1>2, <1>3, <1>4, <1>5, <1>6, <1>7

\* The two kinds of scores, with d dropped.
LEMMA ScoresMean ==
  ASSUME NEW ms, RoundsTyped(ms), NEW d \in SUBSET DOMAIN ms, NEW score
  PROVE  /\ (\A c \in Class : \A i \in RoundId :
               score[c][i] = IF \E p \in d : ms[p].id = i THEN Zero ELSE InModels(c, i, ms))
            <=> AtRounds(score, ms, Changed(ms, d, Removed))
         /\ (\A c \in Class : \A i \in RoundId :
               score[c][i] = IF \E p \in d : ms[p].id = i THEN Negated(InModels(c, i, ms))
                             ELSE InModels(c, i, ms))
            <=> AtRounds(score, ms, Changed(ms, d, Reversed))
PROOF
  <1>1. \A c \in Class : \A i \in RoundId : /\ Removed[InModels(c, i, ms)] = Zero
                                            /\ Reversed[InModels(c, i, ms)] = Negated(InModels(c, i, ms))
    BY InModelsType DEF RoundsTyped, Removed, Reversed
  <1>2. (\A c \in Class : \A i \in RoundId :
           score[c][i] = IF \E p \in d : ms[p].id = i THEN Removed[InModels(c, i, ms)]
                         ELSE InModels(c, i, ms))
        <=> AtRounds(score, ms, Changed(ms, d, Removed))
    BY AtRoundsMeans
  <1>3. (\A c \in Class : \A i \in RoundId :
           score[c][i] = IF \E p \in d : ms[p].id = i THEN Reversed[InModels(c, i, ms)]
                         ELSE InModels(c, i, ms))
        <=> AtRounds(score, ms, Changed(ms, d, Reversed))
    BY AtRoundsMeans
  <1> QED BY <1>1, <1>2, <1>3

LEMMA DartScoresAt ==
  ASSUME DartIInv
  PROVE  /\ Pending \in SUBSET DOMAIN models
         /\ AtRounds(train_score, models, Changed(models, Pending, Removed))
         /\ \A v \in DOMAIN valid_score :
              AtRounds(valid_score[v], models, Changed(models, Pending, Reversed))
PROOF
  <1>1. RoundsTyped(models) /\ Pending \in SUBSET DOMAIN models
    BY DartTyped DEF DartIInv
  <1>2. /\ \A c \in Class : \A i \in RoundId :
             train_score[c][i] = IF \E p \in Pending : models[p].id = i THEN Zero ELSE InModels(c, i, models)
        /\ \A v \in DOMAIN valid_score : \A c \in Class : \A i \in RoundId :
             valid_score[v][c][i] = IF \E p \in Pending : models[p].id = i
                                    THEN Negated(InModels(c, i, models)) ELSE InModels(c, i, models)
    BY DEF DartIInv, DartScores
  <1> QED BY <1>1, <1>2, ScoresMean

\* With nothing pending the scores are those of GBDT.
LEMMA NothingPending ==
  ASSUME Pending = {}
  PROVE  DartScores <=> ScoresMatchModels
PROOF
  <1>1. \A i : ~\E p \in Pending : models[p].id = i
    OBVIOUS
  <1>2. DartScores <=>
          \A c \in Class : \A i \in RoundId :
            /\ train_score[c][i] = InModels(c, i, models)
            /\ \A v \in DOMAIN valid_score : valid_score[v][c][i] = InModels(c, i, models)
    BY <1>1 DEF DartScores
  <1> QED BY <1>2 DEF ScoresMatchModels, Matches

LEMMA RateValue ==
  ASSUME learning_rate \in Nat \ {0}, NEW d, IsFiniteSet(d),
         IF XGBoostMode THEN (learning_rate * Unit) % (learning_rate + Cardinality(d) * Unit) = 0
         ELSE learning_rate % (Cardinality(d) + 1) = 0
  PROVE  ShrinkageRate(Cardinality(d)) \in Nat /\ RateOf(d, ShrinkageRate(Cardinality(d)))
PROOF
  <1> DEFINE k == Cardinality(d)
  <1>1. k \in Nat /\ Unit \in Nat \ {0} /\ (d # {} => k # 0)
    BY FS_CardinalityType, FS_EmptySet, DARTAssumption
  <1> HIDE DEF k
  <1>2. CASE ~XGBoostMode
    <2>1. 1 + k \in Nat \ {0} /\ learning_rate % (1 + k) = 0
      BY <1>1, <1>2 DEF k
    <2>2. Exact(learning_rate, 1 + k) \in Nat
      BY <2>1, ExactNat
    <2> QED BY <1>2, <2>2 DEF ShrinkageRate, RateOf, k
  <1>3. CASE XGBoostMode /\ k = 0
    BY <1>1, <1>3 DEF ShrinkageRate, RateOf, k
  <1>4. CASE XGBoostMode /\ k # 0
    <2> DEFINE n == learning_rate + k * Unit  x == learning_rate * Unit
    <2>1. n \in Nat \ {0} /\ x \in Nat /\ x % n = 0
      BY <1>1, <1>4 DEF k
    <2> HIDE DEF n, x
    <2>2. Exact(x, n) \in Nat /\ Exact(x, n) * n = x
      BY <2>1, ExactNat, ExactValue
    <2>3. ShrinkageRate(k) = Exact(x, n)
      BY <1>4 DEF ShrinkageRate, n, x
    <2> QED BY <2>2, <2>3 DEF RateOf, n, x, k
  <1> QED BY <1>2, <1>3, <1>4

\* What DroppingTrees leaves when it drops d: the training score is without
\* the dropped rounds, the validation scores hold them as they were.
LEMMA DroppedScores ==
  ASSUME DartIInv, Pending = {}, NEW d \in SUBSET Droppable, NEW ms, ms = WithDropped(models, d)
  PROVE  /\ SameRounds(models, ms, d) /\ d \in SUBSET DOMAIN ms
         /\ \A p \in d : \A c \in Class : ms[p].tree[c] = Negated(models[p].tree[c])
         /\ AddRounds(train_score, ms, d) \in Score
         /\ AtRounds(AddRounds(train_score, ms, d), ms, Changed(ms, d, Removed))
         /\ \A v \in DOMAIN valid_score : AtRounds(valid_score[v], ms, Changed(ms, d, Reversed))
PROOF
  <1>1. /\ RoundsTyped(models) /\ d \in SUBSET DOMAIN models /\ train_score \in Score
    BY DartTyped
  <1>2. /\ SameRounds(models, ms, d)
        /\ \A p \in d : \A c \in Class : ms[p].tree[c] = Negated(models[p].tree[c])
    BY <1>1, DroppedRounds
  <1>3. RoundsTyped(ms) /\ DOMAIN ms = DOMAIN models
    BY <1>2 DEF SameRounds
  <1>4. /\ AtRounds(train_score, models, Changed(models, {}, Removed))
        /\ \A v \in DOMAIN valid_score : AtRounds(valid_score[v], models, Changed(models, {}, Reversed))
    BY DartScoresAt
  <1>5. ASSUME NEW p \in DOMAIN ms, NEW c \in Class
        PROVE  /\ models[p].tree[c] \in Output /\ ms[p].tree[c] \in Output
               /\ p \notin d => ms[p].tree[c] = models[p].tree[c]
               /\ p \in d => /\ Plus(models[p].tree[c], ms[p].tree[c]) = Zero
                             /\ Negated(ms[p].tree[c]) = models[p].tree[c]
    <2>1. models[p].tree[c] \in Output /\ ms[p].tree[c] \in Output
      BY <1>1, <1>3 DEF RoundsTyped
    <2>2. \A out \in Output : Plus(out, Negated(out)) = Zero /\ Negated(Negated(out)) = out
      BY DEF Output, Plus, Negated, Zero
    <2>3. p \notin d => ms[p].tree[c] = models[p].tree[c]
      BY <1>2, <1>3 DEF SameRounds
    <2> QED BY <1>2, <2>1, <2>2, <2>3
  <1>6. AddRounds(train_score, ms, d) \in Score
        /\ AtRounds(AddRounds(train_score, ms, d), ms, Changed(ms, d, Removed))
    <2> DEFINE old == Changed(models, {}, Removed)  new == Changed(ms, d, Removed)
    <2>1. AtRounds(train_score, ms, old)
      BY <1>2, <1>4, AtSameRounds
    <2>2. \A p \in DOMAIN ms, c \in Class :
            new[p][c] = IF p \in d THEN Plus(old[p][c], ms[p].tree[c]) ELSE old[p][c]
      BY <1>3, <1>5 DEF Changed, Removed
    <2> HIDE DEF old, new
    <2>3. d \in SUBSET DOMAIN ms
      BY <1>1, <1>3
    <2> QED BY <1>1, <1>3, <2>1, <2>2, <2>3, AddRoundsAt DEF new
  <1>7. ASSUME NEW v \in DOMAIN valid_score
        PROVE  AtRounds(valid_score[v], ms, Changed(ms, d, Reversed))
    <2> DEFINE old == Changed(models, {}, Reversed)  new == Changed(ms, d, Reversed)
    <2>1. AtRounds(valid_score[v], ms, old)
      BY <1>2, <1>4, AtSameRounds
    <2>2. \A p \in DOMAIN ms : \A c \in Class : new[p][c] = old[p][c]
      BY <1>3, <1>5 DEF Changed, Reversed
    <2> HIDE DEF old, new
    <2> QED BY <2>1, <2>2, AtEqualTrees DEF new
  <1> QED BY <1>1, <1>2, <1>3, <1>6, <1>7

\* and the weights of tree_weight_ now belong to negated trees.
LEMMA DroppedWeights ==
  ASSUME DartIInv, Pending = {}, ~Uniform, NEW d \in SUBSET Droppable,
         NEW ms, ms = WithDropped(models, d)
  PROVE  WeightsHold(ms, d)
PROOF
  <1>1. /\ Len(models) = NumInit + iter /\ Len(tree_weight) = iter /\ WeightsHold(models, {})
        /\ tree_weight \in Seq(Nat)
    BY DEF DartIInv, WeightsKept
  <1>2. RoundsTyped(models) /\ d \in SUBSET DOMAIN models /\ NumInit \in Nat /\ iter \in Nat
    BY DartTyped
  <1>3. /\ SameRounds(models, ms, d)
        /\ \A p \in d : \A c \in Class : ms[p].tree[c] = Negated(models[p].tree[c])
    BY <1>2, DroppedRounds
  <1>4. ASSUME NEW i \in DOMAIN tree_weight, NEW c \in Class, ms[NumInit + i].tree[c].leaves # 0
        PROVE  tree_weight[i] = IF NumInit + i \in d THEN -ms[NumInit + i].tree[c].leaves
                                ELSE ms[NumInit + i].tree[c].leaves
    <2> DEFINE p == NumInit + i  old == models[p].tree[c]
    <2>1. p \in DOMAIN models
      BY <1>1, <1>2 DEF RoundsTyped
    <2>2. old \in Output
      BY <1>2, <2>1 DEF RoundsTyped
    <2>3. old.leaves # 0 => tree_weight[i] = old.leaves
      BY <1>1 DEF WeightsHold
    <2>4. p \notin d => ms[p].tree[c] = old
      BY <1>3, <2>1 DEF SameRounds
    <2>5. p \in d => ms[p].tree[c].leaves = -old.leaves
      <3>1. p \in d => ms[p].tree[c] = Negated(old)
        BY <1>3, Zenon
      <3>2. Negated(old).leaves = -old.leaves
        BY DEF Negated
      <3> QED BY <3>1, <3>2, Zenon
    <2> QED BY <1>4, <2>2, <2>3, <2>4, <2>5 DEF Output
  <1> QED BY <1>4 DEF WeightsHold

LEMMA DartInitInv ==
  ASSUME \A x \in Cases : SoundCase(x), DartInit
  PROVE  DartIInv
PROOF
  <1>0. PICK x \in Cases : setup = x.setup /\ options = x.options /\ SoundCase(x)
    BY DEF DartInit
  <1>1. /\ Init /\ learning_rate = rate /\ drop_index = {}
        /\ tree_weight = <<>> /\ sum_weight = 0 /\ updated \in BOOLEAN
    BY DEF DartInit
  <1>2. IsSetup(setup) /\ Sound
    BY <1>0, GBDTAssumption, DARTAssumption DEF SoundCase, Sound
  <1>3. InStep
    BY <1>1, <1>2, InitInv
  <1>4. Pending = {}
    BY <1>1 DEF Pending
  <1>5. DartScores
    BY <1>3, <1>4, NothingPending DEF InStep
  <1>6. rate \in Nat \ {0} /\ learning_rate \in Rates
    BY <1>1, DARTAssumption DEF Init
  <1>7. PendingRate
    <2>1. Cardinality(drop_index) = 0
      BY <1>1, FS_EmptySet
    <2>2. Exact(learning_rate, 1) = learning_rate
      BY <1>1, <1>6, ExactOne
    <2>3. ShrinkageRate(0) = learning_rate
      BY <2>2 DEF ShrinkageRate
    <2> QED BY <1>1, <2>1, <2>3 DEF PendingRate
  <1>8. tree_weight \in Seq(Nat) /\ DOMAIN tree_weight = {} /\ Len(tree_weight) = 0
    BY <1>1
  <1>9. SumOfWeights
    <2>1. Total(tree_weight) = 0
      BY <1>1, <1>8, SumOfNothing
    <2> QED BY <1>1, <2>1, Zenon DEF SumOfWeights
  <1>10. Len(models) = NumInit /\ iter = 0 /\ NumInit \in Nat
    <2>1. models = [i \in 1..NumInit |-> InitialRound(i)] /\ iter = 0 /\ NumInit \in Nat
      BY <1>1, <1>2, SetupTyped DEF Init
    <2> QED BY <2>1
  <1>11. WeightsKept
    BY <1>4, <1>8, <1>9, <1>10 DEF WeightsKept, WeightsHold
  <1> QED BY <1>0, <1>1, <1>3, <1>4, <1>5, <1>6, <1>7, <1>8, <1>11 DEF DartIInv, InStep, RoundsInStep

\* Weights nobody touches.
LEMMA SameSum ==
  ASSUME tree_weight' = tree_weight, sum_weight' = sum_weight, options' = options, SumOfWeights
  PROVE  SumOfWeights'
  BY DEF SumOfWeights, Uniform

LEMMA GetScoreInv ==
  ASSUME DartIInv, NoRemainder, NEW drop \in SUBSET Droppable, GetTrainingScore(drop)
  PROVE  DartIInv'
PROOF
  <1>0. /\ ~HasObjective /\ ~updated /\ updated' = TRUE /\ drop_index' = drop
        /\ models' = WithDropped(models, drop)
        /\ train_score' = AddRounds(train_score, WithDropped(models, drop), drop)
        /\ rate' = ShrinkageRate(Cardinality(drop))
        /\ UNCHANGED <<setup, iter, valid_score, born, options, learning_rate, tree_weight, sum_weight>>
    BY DEF GetTrainingScore
  <1>1. /\ NumInit' = NumInit /\ LateData' = LateData /\ HasObjective' = HasObjective
        /\ FreshScore' = FreshScore /\ IsSetup(setup)' = IsSetup(setup)
        /\ Uniform' = Uniform /\ XGBoostMode' = XGBoostMode
        /\ (\E x \in Cases : setup = x.setup /\ options = x.options /\ SoundCase(x))'
    BY <1>0, DartFixed DEF DartIInv
  <1>2. Pending = {} /\ Pending' = drop /\ Droppable' = Droppable
    BY <1>0, <1>1 DEF Pending, Droppable
  <1>3. /\ SameRounds(models, models', drop) /\ drop \in SUBSET DOMAIN models'
        /\ train_score' \in Score
        /\ AtRounds(train_score', models', Changed(models', drop, Removed))
        /\ \A v \in DOMAIN valid_score : AtRounds(valid_score[v], models', Changed(models', drop, Reversed))
    BY <1>0, <1>2, DroppedScores
  <1>4. /\ RoundsTyped(models') /\ Len(models') = Len(models) /\ DOMAIN models' = DOMAIN models
        /\ \A p \in DOMAIN models : models'[p].id = models[p].id
    BY <1>3 DEF SameRounds
  <1>5. /\ IsSetup(setup) /\ iter \in Nat /\ born \in NumInit..MaxRounds /\ valid_score \in Seq(Score)
        /\ Len(models) >= NumInit + iter /\ IdsBorn /\ FreshMatches
        /\ learning_rate \in Rates /\ tree_weight \in Seq(Nat) /\ sum_weight \in Nat
    BY DEF DartIInv, Typed, RoundsInStep
  <1>6. Typed'
    BY <1>0, <1>1, <1>3, <1>4, <1>5 DEF Typed, RoundsTyped
  <1>7. FreshMatches'
    <2> SUFFICES ASSUME born = NumInit PROVE iter = 0 /\ Matches(FreshScore)'
      BY <1>0, <1>1 DEF FreshMatches
    <2>1. iter = 0 /\ Matches(FreshScore)
      BY <1>5 DEF FreshMatches
    <2>2. NumInit \in Nat
      BY DartTyped
    <2>3. drop = {}
      BY <2>1, <2>2 DEF Droppable
    <2>4. \A p \in DOMAIN models : models'[p] = models[p]
      BY <1>3, <2>3 DEF SameRounds
    <2>5. models' = models
      <3>1. models \in Seq(Round) /\ models' \in Seq(Round)
        BY <1>4, DartTyped DEF RoundsTyped
      <3> QED BY <1>4, <2>4, <3>1
    <2> QED BY <1>1, <2>1, <2>5 DEF Matches
  <1>8. RoundsInStep'
    <2>1. ~LateData
      BY <1>0, CaseFacts
    <2>2. RoundsDistinct'
      BY <1>4 DEF RoundsTyped, RoundsDistinct
    <2> QED BY <1>0, <1>1, <1>4, <1>5, <1>7, <2>1, <2>2 DEF RoundsInStep, IdsBorn, MergedInFront
  <1>9. rate' \in Nat /\ PendingRate'
    <2>1. IF XGBoostMode THEN (learning_rate * Unit) % (learning_rate + Cardinality(drop) * Unit) = 0
          ELSE learning_rate % (Cardinality(drop) + 1) = 0
      BY <1>0, Zenon DEF NoRemainder
    <2>2. ShrinkageRate(Cardinality(drop)) \in Nat
      BY <2>1, DartTyped, RateValue
    <2>3. ShrinkageRate(Cardinality(drop_index))' = ShrinkageRate(Cardinality(drop))
      BY <1>0, <1>1 DEF ShrinkageRate
    <2> QED BY <1>0, <2>2, <2>3 DEF PendingRate
  <1>10. DartScores'
    <2>1. /\ \A c \in Class : \A i \in RoundId : train_score'[c][i] =
               IF \E p \in drop : models'[p].id = i THEN Zero ELSE InModels(c, i, models')
          /\ \A v \in DOMAIN valid_score : \A c \in Class : \A i \in RoundId : valid_score[v][c][i] =
               IF \E p \in drop : models'[p].id = i THEN Negated(InModels(c, i, models'))
               ELSE InModels(c, i, models')
      BY <1>3, <1>4, ScoresMean
    <2> QED BY <1>0, <1>2, <2>1 DEF DartScores
  <1>11. WeightsKept'
    <2> SUFFICES ASSUME ~Uniform PROVE WeightsKept'
      BY <1>1 DEF WeightsKept
    <2>1. Len(models) = NumInit + iter /\ Len(tree_weight) = iter /\ SumOfWeights
      BY DEF DartIInv, WeightsKept
    <2>2. WeightsHold(models', drop)
      BY <1>0, <1>2, DroppedWeights
    <2>3. WeightsHold(models, Pending)'
      BY <1>0, <1>1, <1>2, <2>2 DEF WeightsHold
    <2>4. SumOfWeights'
      BY <1>0, <2>1, SameSum
    <2> QED BY <1>0, <1>1, <1>4, <2>1, <2>3, <2>4 DEF WeightsKept
  <1> QED BY <1>0, <1>1, <1>2, <1>5, <1>6, <1>8, <1>9, <1>10, <1>11 DEF DartIInv

\* What an iteration starts from, when it dropped d and trains with the rate r.
Ready(d, ms, score, r) ==
  /\ d \in SUBSET Droppable /\ SameRounds(models, ms, d)
  /\ score \in Score /\ AtRounds(score, ms, Changed(ms, d, Removed))
  /\ \A v \in DOMAIN valid_score : AtRounds(valid_score[v], ms, Changed(ms, d, Reversed))
  /\ r \in Nat /\ RateOf(d, r)
  /\ ~Uniform => WeightsHold(ms, d)

\* A booster whose first iteration splits keeps a round exactly when it has a split.
LEMMA KeptWhenSplit ==
  ASSUME FirstSplits, models \in Seq(Round), NEW split, MayTrain(split)
  PROVE  Kept(split) <=> split # {}
PROOF
  <1>1. Len(models) = 0 => models = <<>>
    OBVIOUS
  <1> QED BY <1>1 DEF MayTrain, Kept

LEMMA IterationInv ==
  ASSUME DartIInv, NEW split \in SUBSET Class, MayTrain(split), NEW d, split = {} => d = {},
         NEW ms, NEW score, NEW r, Ready(d, ms, score, r), NormalizesExactly(ms, d, r),
         Trained(split, d, ms, score, r), born' = born + 1,
         iter' = IF split # {} THEN iter + 1 ELSE iter, UNCHANGED <<setup, options>>,
         Pending' = {}
  PROVE  AfterTraining(ms, d, split, r) /\ Typed' /\ RoundsInStep' /\ DartScores'
PROOF
  <1>1. /\ NumInit' = NumInit /\ LateData' = LateData /\ HasObjective' = HasObjective
        /\ FreshScore' = FreshScore /\ IsSetup(setup)' = IsSetup(setup)
    BY DartFixed
  <1>2. /\ models \in Seq(Round) /\ RoundsTyped(models)
        /\ NumInit \in Nat /\ iter \in Nat /\ born \in Nat /\ MaxRounds \in Nat
        /\ NumInit <= born /\ valid_score \in Seq(Score) /\ learning_rate \in Rates
        /\ IsSetup(setup) /\ Len(models) >= NumInit + iter /\ Sound
        /\ IdsBorn /\ MergedInFront /\ born < MaxRounds
    BY DartTyped, CaseFacts DEF DartIInv, Typed, RoundsInStep, MayTrain
  <1>3. /\ d \in SUBSET Droppable /\ IsFiniteSet(d) /\ d \subseteq DOMAIN models
        /\ SameRounds(models, ms, d) /\ r \in Nat
    BY DartTyped DEF Ready
  <1>4. /\ RoundsTyped(ms) /\ Len(ms) = Len(models) /\ DOMAIN ms = DOMAIN models
        /\ DOMAIN models = 1..Len(models) /\ Len(models) \in Nat
        /\ \A p \in DOMAIN models : /\ ms[p].id = models[p].id
                                    /\ p \notin d => ms[p] = models[p]
    BY <1>2, <1>3 DEF SameRounds, RoundsTyped
  <1>5. \A p \in DOMAIN ms : ms[p].id <= born
    BY <1>2, <1>4 DEF IdsBorn
  <1>6. /\ AfterTraining(ms, d, split, r)
        /\ train_score' \in Score /\ valid_score' \in Seq(Score)
        /\ \A c \in Class : \A i \in RoundId : train_score'[c][i] = InModels(c, i, models')
        /\ \A v \in DOMAIN valid_score' : \A c \in Class : \A i \in RoundId :
             valid_score'[v][c][i] = InModels(c, i, models')
    <2>1. d \in SUBSET DOMAIN ms
      BY <1>3, <1>4
    <2>2. /\ score \in Score /\ AtRounds(score, ms, Changed(ms, d, Removed))
          /\ \A v \in DOMAIN valid_score : AtRounds(valid_score[v], ms, Changed(ms, d, Reversed))
          /\ RateOf(d, r)
      BY DEF Ready
    <2> QED BY <1>2, <1>3, <1>4, <1>5, <2>1, <2>2, TrainedRounds
  <1>7. /\ RoundsTyped(models')
        /\ Len(models') = IF Kept(split) THEN Len(models) + 1 ELSE Len(models)
        /\ \A p \in DOMAIN models : p \in DOMAIN models' /\ models'[p].id = models[p].id
                                    /\ (p \notin d => models'[p] = models[p])
        /\ Kept(split) => models'[Len(models) + 1].id = born + 1
    BY <1>4, <1>6 DEF AfterTraining
  <1>8. /\ models' \in Seq(Round) /\ DOMAIN models' = 1..Len(models') /\ Distinct(models')
    BY <1>7 DEF RoundsTyped
  <1>9. Kept(split) \/ split = {}
    BY DEF Kept
  <1>10. Typed'
    BY <1>1, <1>2, <1>6, <1>8 DEF Typed
  <1>11. Len(models') >= NumInit' + iter'
    BY <1>1, <1>2, <1>4, <1>7, <1>9
  <1>12. \A p \in DOMAIN models' : p \in DOMAIN models \/ (Kept(split) /\ p = Len(models) + 1)
    BY <1>4, <1>7, <1>8
  <1>13. IdsBorn'
    <2>1. \A p \in DOMAIN models : models[p].id \in Nat /\ models[p].id <= born
      BY <1>2 DEF IdsBorn, RoundsTyped, RoundId
    <2>2. \A p \in DOMAIN models' : models'[p].id <= born + 1
      BY <1>2, <1>7, <1>12, <2>1
    <2> QED BY <2>2 DEF IdsBorn
  <1>14. FreshMatches' /\ RoundsDistinct'
    BY <1>1, <1>2, <1>8 DEF FreshMatches, RoundsDistinct
  <1>15. MergedInFront'
    <2> SUFFICES ASSUME LateData PROVE MergedInFront'
      BY <1>1 DEF MergedInFront
    <2>1. FirstSplits
      BY <1>2 DEF Sound, SoundSetup, FirstSplits, LateData
    <2>2. Kept(split) <=> split # {}
      BY <1>2, <2>1, KeptWhenSplit
    <2>3. /\ Len(models) = NumInit + iter
          /\ \A p \in DOMAIN models :
               IF p <= NumInit THEN models[p] = InitialRound(p) ELSE models[p].id > NumInit
      BY <1>2 DEF MergedInFront
    <2>4. Len(models') = NumInit' + iter'
      BY <1>1, <1>2, <1>7, <2>2, <2>3
    <2>5. ASSUME NEW p \in DOMAIN models'
          PROVE  IF p <= NumInit THEN models'[p] = InitialRound(p) ELSE models'[p].id > NumInit
      <3>1. CASE p \in DOMAIN models
        <4>1. p <= NumInit => p \notin d
          BY <1>2, <1>3, <1>4, <3>1 DEF Droppable
        <4> QED BY <1>7, <2>3, <3>1, <4>1
      <3>2. CASE Kept(split) /\ p = Len(models) + 1
        <4>1. ~(p <= NumInit) /\ born + 1 > NumInit
          BY <1>2, <1>4, <3>2, <2>3
        <4> QED BY <1>7, <3>2, <4>1
      <3> QED BY <1>12, <3>1, <3>2
    <2> QED BY <1>1, <2>4, <2>5 DEF MergedInFront
  <1>16. DartScores'
    <2>1. \A i : ~\E p \in Pending' : models'[p].id = i
      OBVIOUS
    <2> QED BY <1>6, <2>1 DEF DartScores
  <1> QED BY <1>6, <1>10, <1>11, <1>13, <1>14, <1>15, <1>16 DEF RoundsInStep

\* A weight divided by k + 1 in the default mode: what is lost and what stays.
LEMMA WeightShared ==
  ASSUME NEW w \in Nat, NEW k \in Nat, w % (k + 1) = 0, ~XGBoostMode
  PROVE  /\ NewWeight(w, k) \in Nat /\ WeightLoss(w, k) \in Int
         /\ NewWeight(w, k) * (k + 1) = w * k
         /\ NewWeight(w, k) = w - WeightLoss(w, k)
PROOF
  <1> DEFINE lost == Exact(w, k + 1)  kept == Exact(w * k, k + 1)
  <1>1. k + 1 \in Nat \ {0} /\ w * k \in Nat /\ w \in Int /\ k \in Int
    OBVIOUS
  <1>2. lost \in Int /\ lost * (k + 1) = w
    BY <1>1, ExactValue
  <1>3. (w * k) % (k + 1) = 0
    BY <1>1, DividesMultiple
  <1>4. kept \in Nat /\ kept * (k + 1) = w * k
    <2> DEFINE x == w * k
    <2>1. x \in Nat /\ x \in Int /\ x % (k + 1) = 0
      BY <1>1, <1>3
    <2> HIDE DEF x
    <2>2. Exact(x, k + 1) \in Nat /\ Exact(x, k + 1) * (k + 1) = x
      BY <1>1, <2>1, ExactValue, ExactNat
    <2> QED BY <2>2 DEF x
  <1>5. NewWeight(w, k) = kept /\ WeightLoss(w, k) = lost
    BY DEF NewWeight, WeightLoss
  <1> HIDE DEF lost, kept
  <1>6. kept = w - lost
    <2>1. (w - lost) * (k + 1) = w * k
      BY <1>2
    <2>2. w - lost \in Int /\ kept \in Int
      BY <1>2, <1>4
    <2> QED BY <1>1, <1>4, <2>1, <2>2, MultiplesDetermine
  <1> QED BY <1>2, <1>4, <1>5, <1>6

LEMMA WeightsNormalized ==
  ASSUME DartIInv, ~Uniform, NEW d \in SUBSET Droppable,
         \A i \in Weighted(d) : tree_weight[i] % (Cardinality(d) + 1) = 0
  PROVE  /\ NormalizedWeights(d) \in Seq(Nat) /\ Len(NormalizedWeights(d)) = iter
         /\ NormalizedSum(d) = Total(NormalizedWeights(d))
         /\ \A i \in DOMAIN tree_weight :
              IF NumInit + i \in d
              THEN NormalizedWeights(d)[i] * (Cardinality(d) + 1) = tree_weight[i] * Cardinality(d)
              ELSE NormalizedWeights(d)[i] = tree_weight[i]
PROOF
  <1> DEFINE k == Cardinality(d)
             D == Weighted(d)
             lost == [i \in D |-> WeightLoss(tree_weight[i], k)]
             new == NormalizedWeights(d)
  <1>1. /\ k \in Nat /\ NumInit \in Nat /\ iter \in Nat /\ ~XGBoostMode
        /\ tree_weight \in Seq(Nat) /\ Len(tree_weight) = iter /\ SumOfWeights
    BY DartTyped, CaseFacts DEF DartIInv, WeightsKept
  <1>2. DOMAIN tree_weight = 1..iter /\ \A i \in DOMAIN tree_weight : tree_weight[i] \in Nat
    BY <1>1
  <1>3. \A i \in DOMAIN tree_weight : i \in D <=> NumInit + i \in d
    BY <1>1, <1>2 DEF Weighted, Droppable
  <1>4. D \in SUBSET DOMAIN tree_weight
    BY <1>1, <1>2 DEF Weighted, Droppable
  <1>5. ASSUME NEW i \in D
        PROVE  /\ NewWeight(tree_weight[i], k) \in Nat /\ WeightLoss(tree_weight[i], k) \in Int
               /\ NewWeight(tree_weight[i], k) * (k + 1) = tree_weight[i] * k
               /\ NewWeight(tree_weight[i], k) = tree_weight[i] - WeightLoss(tree_weight[i], k)
    BY <1>1, <1>2, <1>4, WeightShared
  <1>6. new = [i \in DOMAIN tree_weight |-> IF i \in D THEN NewWeight(tree_weight[i], k) ELSE tree_weight[i]]
    BY DEF NormalizedWeights
  <1>7. lost \in [D -> Int] /\ \A i \in D : lost[i] = WeightLoss(tree_weight[i], k)
    BY <1>5
  <1>8. NormalizedSum(d) = sum_weight - Total(lost)
    BY DEF NormalizedSum
  <1> HIDE DEF k, D, lost, new
  <1>9. new \in Seq(Nat) /\ Len(new) = iter /\ DOMAIN new = DOMAIN tree_weight
    <2>1. new \in [1..iter -> Nat]
      BY <1>2, <1>5, <1>6
    <2> QED BY <1>1, <1>2, <2>1
  <1>10. \A i \in DOMAIN tree_weight : /\ i \in D => new[i] = tree_weight[i] - lost[i]
                                       /\ i \notin D => new[i] = tree_weight[i]
    BY <1>5, <1>6, <1>7
  <1>11. Total(new) = Total(tree_weight) - Total(lost)
    <2>1. Lessened(tree_weight, new, D, lost)
      BY <1>1, <1>4, <1>7, <1>9, <1>10 DEF Lessened
    <2> QED BY <2>1, SumLessened
  <1>12. NormalizedSum(d) = Total(new)
    BY <1>1, <1>8, <1>11 DEF SumOfWeights
  <1>13. \A i \in DOMAIN tree_weight :
           IF NumInit + i \in d THEN new[i] * (k + 1) = tree_weight[i] * k
           ELSE new[i] = tree_weight[i]
    BY <1>3, <1>5, <1>6
  <1> QED BY <1>9, <1>12, <1>13 DEF k, new

LEMMA WeightsInv ==
  ASSUME DartIInv, ~Uniform, NEW split \in SUBSET Class, MayTrain(split),
         NEW d, split = {} => d = {},
         NEW ms, NEW score, NEW r, Ready(d, ms, score, r), AfterTraining(ms, d, split, r),
         WeightsTrained(split, d, r),
         split # {} => \A i \in Weighted(d) : tree_weight[i] % (Cardinality(d) + 1) = 0,
         iter' = IF split # {} THEN iter + 1 ELSE iter, UNCHANGED <<setup, options>>,
         Pending' = {}
  PROVE  tree_weight' \in Seq(Nat) /\ sum_weight' \in Nat /\ WeightsKept'
PROOF
  <1>1. NumInit' = NumInit /\ Uniform' = Uniform
    BY DartFixed
  <1>2. /\ models \in Seq(Round) /\ NumInit \in Nat /\ iter \in Nat
        /\ FirstSplits /\ ~XGBoostMode
    BY DartTyped, CaseFacts
  <1>3. /\ Len(models) = NumInit + iter /\ Len(tree_weight) = iter /\ SumOfWeights
        /\ tree_weight \in Seq(Nat) /\ sum_weight \in Nat
    BY DEF DartIInv, WeightsKept
  <1>4. /\ d \in SUBSET Droppable /\ IsFiniteSet(d) /\ Cardinality(d) \in Nat
        /\ SameRounds(models, ms, d) /\ r \in Nat /\ WeightsHold(ms, d)
    BY DartTyped DEF Ready
  <1>5. /\ RoundsTyped(ms) /\ Len(ms) = Len(models) /\ DOMAIN ms = 1..Len(ms)
        /\ DOMAIN tree_weight = 1..iter
    BY <1>3, <1>4 DEF SameRounds, RoundsTyped
  <1>6. Kept(split) <=> split # {}
    BY <1>2, KeptWhenSplit
  <1>7. /\ RoundsTyped(models')
        /\ Len(models') = IF split # {} THEN Len(ms) + 1 ELSE Len(ms)
        /\ \A p \in DOMAIN ms : p \in DOMAIN models' /\ (p \notin d => models'[p] = ms[p])
        /\ split # {} => models'[Len(ms) + 1] = [id |-> born + 1, tree |-> NewTrees(split, r)]
        /\ \A p \in d : \A c \in Class : Reweighted(ms[p].tree[c], models'[p].tree[c], Cardinality(d))
    BY <1>6 DEF AfterTraining
  <1>8. Len(models') = NumInit' + iter'
    BY <1>1, <1>2, <1>3, <1>5, <1>7
  <1>9. CASE split = {}
    <2>1. /\ tree_weight' = tree_weight /\ sum_weight' = sum_weight /\ d = {} /\ iter' = iter
      BY <1>9 DEF WeightsTrained
    <2>2. \A i \in DOMAIN tree_weight : \A c \in Class :
            LET out == models'[NumInit + i].tree[c].leaves IN out # 0 => tree_weight[i] = out
      <3>1. \A i \in DOMAIN tree_weight : models'[NumInit + i] = ms[NumInit + i]
        BY <1>2, <1>3, <1>5, <1>7, <2>1, SMTT(30)
      <3> QED BY <1>4, <2>1, <3>1 DEF WeightsHold
    <2>3. WeightsHold(models, Pending)'
      BY <1>1, <2>1, <2>2 DEF WeightsHold
    <2>4. SumOfWeights'
      BY <1>3, <2>1, SameSum
    <2> QED BY <1>3, <1>8, <2>1, <2>3, <2>4 DEF WeightsKept
  <1>10. CASE split # {}
    <2> DEFINE new == NormalizedWeights(d)  k == Cardinality(d)
    <2>1. tree_weight' = Append(new, r) /\ sum_weight' = NormalizedSum(d) + r /\ iter' = iter + 1
      BY <1>10 DEF WeightsTrained
    <2>2. /\ new \in Seq(Nat) /\ Len(new) = iter /\ NormalizedSum(d) = Total(new)
          /\ \A i \in DOMAIN tree_weight :
               IF NumInit + i \in d THEN new[i] * (k + 1) = tree_weight[i] * k
               ELSE new[i] = tree_weight[i]
      BY <1>4, <1>10, WeightsNormalized
    <2> HIDE DEF new, k
    <2>3. /\ tree_weight' \in Seq(Nat) /\ Len(tree_weight') = iter + 1
          /\ DOMAIN tree_weight' = 1..(iter + 1) /\ tree_weight'[iter + 1] = r
          /\ \A i \in 1..iter : tree_weight'[i] = new[i]
      BY <1>2, <1>4, <2>1, <2>2
    <2>4. Total(tree_weight') = Total(new) + r
      <3>1. DOMAIN new = 1..iter
        BY <2>2
      <3> QED BY <1>4, <2>2, <2>3, <3>1, SumAppended
    <2>5. SumOfWeights' /\ sum_weight' \in Nat
      <3>1. sum_weight' = Total(tree_weight')
        BY <2>1, <2>2, <2>4
      <3>2. Total(tree_weight') \in Nat
        BY <2>3, SumIsNat
      <3> QED BY <3>1, <3>2 DEF SumOfWeights
    <2>6. ASSUME NEW i \in 1..(iter + 1), NEW c \in Class,
                 models'[NumInit + i].tree[c].leaves # 0
          PROVE  tree_weight'[i] = models'[NumInit + i].tree[c].leaves
      <3> DEFINE p == NumInit + i  now == models'[p].tree[c].leaves
      <3>1. CASE i = iter + 1
        <4>1. p = Len(ms) + 1
          BY <1>2, <1>3, <1>5, <3>1
        <4>2. models'[p].tree = NewTrees(split, r)
          BY <1>7, <1>10, <4>1
        <4>3. now = IF c \in split THEN r ELSE 0
          BY <4>2 DEF NewTrees
        <4> QED BY <2>3, <2>6, <3>1, <4>3
      <3>2. CASE i \in 1..iter /\ p \notin d
        <4>1. p \in DOMAIN ms /\ models'[p] = ms[p]
          BY <1>2, <1>3, <1>5, <1>7, <3>2
        <4>2. tree_weight[i] = now
          BY <1>4, <1>5, <2>6, <3>2, <4>1 DEF WeightsHold
        <4> QED BY <1>5, <2>2, <2>3, <3>2, <4>2
      <3>3. CASE i \in 1..iter /\ p \in d
        <4> DEFINE old == ms[p].tree[c].leaves
        <4>1. p \in DOMAIN ms /\ p \in DOMAIN models'
          BY <1>2, <1>3, <1>5, <1>7, <3>3, SMTT(30)
        <4>2. old \in Int /\ now \in Int /\ k \in Nat
          BY <1>4, <1>5, <1>7, <4>1 DEF RoundsTyped, Output, k
        <4>3. now * (k + 1) = (-old) * k
          BY <1>2, <1>7, <3>3 DEF Reweighted, k
        <4>4. old # 0 => tree_weight[i] = -old
          BY <1>4, <1>5, <3>3 DEF WeightsHold
        <4>5. new[i] * (k + 1) = tree_weight[i] * k /\ new[i] \in Nat /\ tree_weight[i] \in Nat
          BY <1>3, <1>5, <2>2, <3>3, SMTT(30)
        <4>6. now # 0
          BY <2>6
        <4> DEFINE a == new[i]  w == tree_weight[i]
        <4> HIDE DEF old, now, a, w
        <4>7. old # 0
          BY <4>2, <4>3, <4>6
        <4>8. a * (k + 1) = now * (k + 1)
          BY <4>3, <4>4, <4>5, <4>7 DEF a, w
        <4>9. a = now
          BY <4>2, <4>5, <4>8, MultiplesDetermine DEF a
        <4> QED BY <2>3, <3>3, <4>9 DEF a, now
      <3> QED BY <1>2, <3>1, <3>2, <3>3
    <2>7. WeightsHold(models, Pending)'
      BY <1>1, <2>3, <2>6 DEF WeightsHold
    <2> QED BY <1>8, <2>1, <2>3, <2>5, <2>7 DEF WeightsKept
  <1> QED BY <1>9, <1>10

\* An iteration of either kind, as the lemmas above take it.
Iteration(split, d, ms, score, r) ==
  /\ MayTrain(split) /\ (split = {} => d = {})
  /\ Ready(d, ms, score, r) /\ NormalizesExactly(ms, d, r)
  /\ ms = IF HasObjective THEN WithDropped(models, d) ELSE models
  /\ Trained(split, d, ms, score, r) /\ WeightsTrained(split, d, r)
  /\ ~Uniform => \A i \in Weighted(d) : tree_weight[i] % (Cardinality(d) + 1) = 0
  /\ born' = born + 1 /\ born' # born
  /\ iter' = IF split # {} THEN iter + 1 ELSE iter
  /\ drop_index' = d /\ rate' = r /\ updated' = HasObjective
  /\ UNCHANGED <<setup, options, learning_rate>>

LEMMA DartIterates ==
  ASSUME DartIInv, NoRemainder, NEW split \in SUBSET Class, DartTrainOneIter(split)
  PROVE  \E d, ms, score, r : Iteration(split, d, ms, score, r)
PROOF
  <1>1. /\ MayTrain(split) /\ born' = born + 1
        /\ iter' = (IF split # {} THEN iter + 1 ELSE iter)
        /\ UNCHANGED <<setup, options, learning_rate>>
    BY DEF DartTrainOneIter
  <1>2. born' # born
    BY <1>1, DartTyped
  <1>3. /\ NormalizesExactly(IF HasObjective THEN WithDropped(models, drop_index') ELSE models,
                             drop_index', rate')
        /\ ~Uniform => \A i \in Weighted(drop_index') : tree_weight[i] % (Cardinality(drop_index') + 1) = 0
        /\ IF XGBoostMode
           THEN (learning_rate * Unit) % (learning_rate + Cardinality(drop_index') * Unit) = 0
           ELSE learning_rate % (Cardinality(drop_index') + 1) = 0
    BY <1>2, Zenon DEF NoRemainder
  <1>4. ASSUME NEW d \in SUBSET Droppable, drop_index' = d
        PROVE  /\ ShrinkageRate(Cardinality(d)) \in Nat
               /\ RateOf(d, ShrinkageRate(Cardinality(d)))
    BY <1>3, <1>4, DartTyped, RateValue
  <1>5. CASE \E drop \in SUBSET Droppable : /\ DropSplits /\ drop # {} => split # {}
                                            /\ DropThenTrain(split, drop)
    <2>1. PICK d \in SUBSET Droppable : /\ DropSplits /\ d # {} => split # {}
                                        /\ DropThenTrain(split, d)
      BY <1>5
    <2> DEFINE ms == WithDropped(models, d)
               score == AddRounds(train_score, ms, d)
               r == ShrinkageRate(Cardinality(d))
    <2>2. /\ HasObjective /\ Trained(split, d, ms, score, r) /\ WeightsTrained(split, d, r)
          /\ rate' = r /\ drop_index' = d /\ updated' = TRUE
      BY <2>1 DEF DropThenTrain
    <2>3. Pending = {}
      BY <2>2 DEF Pending
    <2>4. /\ SameRounds(models, ms, d) /\ score \in Score
          /\ AtRounds(score, ms, Changed(ms, d, Removed))
          /\ \A v \in DOMAIN valid_score : AtRounds(valid_score[v], ms, Changed(ms, d, Reversed))
      BY <2>3, DroppedScores
    <2>5. ~Uniform => WeightsHold(ms, d)
      BY <2>3, DroppedWeights
    <2>6. r \in Nat /\ RateOf(d, r)
      BY <1>4, <2>2
    <2>7. NormalizesExactly(ms, d, r)
      BY <1>3, <2>2
    <2>8. split = {} => d = {}
      BY <2>1, CaseFacts
    <2> HIDE DEF ms, score, r
    <2>9. Ready(d, ms, score, r)
      BY <2>4, <2>5, <2>6 DEF Ready
    <2>10. ms = IF HasObjective THEN WithDropped(models, d) ELSE models
      BY <2>2 DEF ms
    <2>11. Iteration(split, d, ms, score, r)
      BY <1>1, <1>2, <1>3, <2>2, <2>7, <2>8, <2>9, <2>10 DEF Iteration
    <2> QED BY <2>11
  <1>6. CASE /\ DropSplits /\ drop_index # {} => split # {}
             /\ TrainDropped(split)
    <2>1. /\ ~HasObjective /\ updated /\ updated' = FALSE /\ rate' = rate /\ drop_index' = drop_index
          /\ Trained(split, drop_index, models, train_score, rate)
          /\ WeightsTrained(split, drop_index, rate)
      BY <1>6 DEF TrainDropped
    <2>2. Pending = drop_index /\ drop_index \in SUBSET Droppable
      BY <2>1 DEF Pending, DartIInv
    <2>3. /\ AtRounds(train_score, models, Changed(models, drop_index, Removed))
          /\ \A v \in DOMAIN valid_score :
               AtRounds(valid_score[v], models, Changed(models, drop_index, Reversed))
      BY <2>2, DartScoresAt
    <2>4. rate \in Nat /\ RateOf(drop_index, rate)
      BY <1>4, <2>1, <2>2 DEF DartIInv, PendingRate
    <2>5. ~Uniform => WeightsHold(models, drop_index)
      BY <2>2 DEF DartIInv, WeightsKept
    <2>6. SameRounds(models, models, drop_index) /\ train_score \in Score
      BY DartTyped DEF SameRounds
    <2>7. Ready(drop_index, models, train_score, rate)
      BY <2>2, <2>3, <2>4, <2>5, <2>6 DEF Ready
    <2>8. split = {} => drop_index = {}
      BY <1>6, CaseFacts
    <2>9. NormalizesExactly(models, drop_index, rate)
      BY <1>3, <2>1
    <2>10. updated' = HasObjective
      BY <2>1 DEF HasObjective, DartIInv, Typed, IsSetup
    <2>11. Iteration(split, drop_index, models, train_score, rate)
      BY <1>1, <1>2, <1>3, <2>1, <2>7, <2>8, <2>9, <2>10 DEF Iteration
    <2> QED BY <2>11
  <1> QED BY <1>5, <1>6 DEF DartTrainOneIter

LEMMA DartTrainInv ==
  ASSUME DartIInv, NEW split \in SUBSET Class, NEW d, NEW ms, NEW score, NEW r,
         Iteration(split, d, ms, score, r)
  PROVE  DartIInv' /\ AfterTraining(ms, d, split, r)
PROOF
  <1>1. /\ MayTrain(split) /\ (split = {} => d = {})
        /\ Ready(d, ms, score, r) /\ NormalizesExactly(ms, d, r)
        /\ Trained(split, d, ms, score, r) /\ WeightsTrained(split, d, r)
        /\ ~Uniform => \A i \in Weighted(d) : tree_weight[i] % (Cardinality(d) + 1) = 0
        /\ born' = born + 1
        /\ iter' = (IF split # {} THEN iter + 1 ELSE iter)
        /\ rate' = r /\ updated' = HasObjective
        /\ UNCHANGED <<setup, options, learning_rate>>
    BY DEF Iteration
  <1>2. /\ HasObjective' = HasObjective /\ Uniform' = Uniform
        /\ (\E x \in Cases : setup = x.setup /\ options = x.options /\ SoundCase(x))'
    BY <1>1, DartFixed DEF DartIInv
  <1>3. HasObjective \in BOOLEAN
    BY SetupTyped DEF DartIInv, Typed
  <1>4. Pending' = {} /\ updated' \in BOOLEAN /\ PendingRate'
    BY <1>1, <1>2, <1>3 DEF Pending, PendingRate
  <1>5. AfterTraining(ms, d, split, r) /\ Typed' /\ RoundsInStep' /\ DartScores'
    BY <1>1, <1>4, IterationInv
  <1>6. rate' \in Nat /\ learning_rate' \in Rates
    BY <1>1 DEF Ready, DartIInv
  <1>7. tree_weight' \in Seq(Nat) /\ sum_weight' \in Nat /\ WeightsKept'
    <2>1. CASE Uniform
      <3>1. tree_weight' = tree_weight /\ sum_weight' = sum_weight
        BY <1>1, <2>1 DEF WeightsTrained
      <3> QED BY <1>2, <2>1, <3>1 DEF DartIInv, WeightsKept
    <2>2. CASE ~Uniform
      BY <1>1, <1>4, <1>5, <2>2, WeightsInv
    <2> QED BY <2>1, <2>2
  <1> QED BY <1>2, <1>4, <1>5, <1>6, <1>7 DEF DartIInv

\* A new learning rate, with drops that need no weights.
LEMMA DartResetInv ==
  ASSUME DartIInv, DartResetConfig
  PROVE  DartIInv'
PROOF
  <1>1. /\ MayReset /\ rate' \in Rates /\ learning_rate' = rate' /\ sum_weight' = 0
        /\ UNCHANGED <<setup, models, iter, train_score, valid_score, born,
                       options, drop_index, tree_weight, updated>>
    BY DEF DartResetConfig, ResetConfig
  <1>2. /\ NumInit' = NumInit /\ LateData' = LateData /\ HasObjective' = HasObjective
        /\ FreshScore' = FreshScore /\ IsSetup(setup)' = IsSetup(setup) /\ Uniform' = Uniform
        /\ (\E x \in Cases : setup = x.setup /\ options = x.options /\ SoundCase(x))'
    BY <1>1, DartFixed DEF DartIInv
  <1>3. HasObjective /\ Uniform
    BY <1>1, CaseFacts
  <1>4. Pending' = Pending /\ Pending' = {} /\ PendingRate' /\ WeightsKept'
    BY <1>2, <1>3 DEF Pending, PendingRate, WeightsKept
  <1>5. Typed' /\ RoundsInStep' /\ DartScores'
    BY <1>1, <1>2, <1>4
       DEF DartIInv, Typed, RoundsInStep, RoundsDistinct, IdsBorn, FreshMatches, Matches,
           MergedInFront, DartScores
  <1>6. rate' \in Nat
    BY <1>1, DARTAssumption
  <1> QED BY <1>1, <1>2, <1>4, <1>5, <1>6 DEF DartIInv

\* Data sets that arrive later, rollbacks and shuffles meet no pending drop.
LEMMA NothingPendingThen ==
  ASSUME DartIInv, Inherited
  PROVE  Pending = {} /\ InStep
PROOF
  <1>1. HasObjective \/ (born = NumInit /\ AddValidDataset)
    BY CaseFacts DEF Inherited, AddValidDataset, ResetTrainingData, ShuffleModels
  <1>2. CASE HasObjective
    BY <1>2, CaseFacts, NothingPending DEF Pending, DartIInv, InStep, RoundsInStep
  <1>3. CASE born = NumInit
    <2>1. iter = 0 /\ NumInit \in Nat /\ Pending \subseteq Droppable
      BY <1>3, DartTyped DEF DartIInv, RoundsInStep, FreshMatches
    <2>2. Pending = {}
      BY <2>1 DEF Droppable
    <2> QED BY <2>2, CaseFacts, NothingPending DEF DartIInv, InStep, RoundsInStep
  <1> QED BY <1>1, <1>2, <1>3

LEMMA InheritedInv ==
  ASSUME DartIInv, Inherited
  PROVE  DartIInv' /\ born' = born
PROOF
  <1>1. Pending = {} /\ InStep
    BY NothingPendingThen
  <1>2. /\ UNCHANGED <<options, learning_rate, drop_index, tree_weight, sum_weight, updated>>
        /\ \/ MayRollback /\ RollbackOneIter
           \/ AddValidDataset
           \/ ResetTrainingData
           \/ ShuffleModels
    BY DEF Inherited, dart_vars
  <1>3. UNCHANGED <<setup, rate, born>>
    BY <1>2 DEF RollbackOneIter, AddValidDataset, ResetTrainingData, ShuffleModels
  <1>4. InStep'
    BY <1>1, <1>2, RollbackInv, AddValidInv, ResetTrainingInv, ShuffleInv
  <1>5. /\ NumInit' = NumInit /\ HasObjective' = HasObjective /\ Uniform' = Uniform
        /\ XGBoostMode' = XGBoostMode
        /\ (\E x \in Cases : setup = x.setup /\ options = x.options /\ SoundCase(x))'
    BY <1>2, <1>3, DartFixed DEF DartIInv
  <1>6. Pending' = {} /\ Pending' \subseteq Droppable'
    BY <1>1, <1>2, <1>5 DEF Pending
  <1>7. PendingRate'
    BY <1>2, <1>3, <1>5 DEF DartIInv, PendingRate, ShrinkageRate
  <1>8. DartScores'
    <2>1. \A i : ~\E p \in Pending' : models'[p].id = i
      BY <1>6
    <2>2. ScoresMatchModels'
      BY <1>4 DEF InStep
    <2> QED BY <2>1, <2>2 DEF DartScores, ScoresMatchModels, Matches
  <1>9. WeightsKept'
    <2> SUFFICES ASSUME ~Uniform PROVE WeightsKept'
      BY <1>5 DEF WeightsKept
    <2>1. models' = models /\ iter' = iter
      BY <1>2, CaseFacts DEF AddValidDataset, ResetTrainingData, ShuffleModels
    <2>2. Len(models) = NumInit + iter /\ Len(tree_weight) = iter /\ WeightsHold(models, {}) /\ SumOfWeights
      BY <1>1 DEF DartIInv, WeightsKept
    <2>3. WeightsHold(models, Pending)'
      BY <1>2, <1>5, <1>6, <2>1, <2>2 DEF WeightsHold
    <2>4. SumOfWeights'
      BY <1>2, <2>2, SameSum
    <2> QED BY <1>2, <1>5, <2>1, <2>2, <2>3, <2>4 DEF WeightsKept
  <1> QED BY <1>2, <1>3, <1>4, <1>5, <1>6, <1>7, <1>8, <1>9
          DEF DartIInv, InStep, RoundsInStep

LEMMA DartStands ==
  ASSUME DartIInv, UNCHANGED allVars
  PROVE  DartIInv' /\ born' = born
PROOF
  <1>1. UNCHANGED <<setup, rate, models, iter, train_score, valid_score, born,
                    options, learning_rate, drop_index, tree_weight, sum_weight, updated>>
    BY DEF allVars, vars, dart_vars
  <1>2. /\ NumInit' = NumInit /\ LateData' = LateData /\ HasObjective' = HasObjective
        /\ FreshScore' = FreshScore /\ IsSetup(setup)' = IsSetup(setup)
        /\ Uniform' = Uniform /\ XGBoostMode' = XGBoostMode
        /\ (\E x \in Cases : setup = x.setup /\ options = x.options /\ SoundCase(x))'
    BY <1>1, DartFixed DEF DartIInv
  <1>3. Pending' = Pending /\ Droppable' = Droppable
    BY <1>1, <1>2 DEF Pending, Droppable
  <1>4. Typed' /\ DartScores'
    <2>1. DartScores'
      <3>1. DartScores /\ UNCHANGED <<models, train_score, valid_score>> /\ Pending' = Pending
        BY <1>1, <1>3 DEF DartIInv
      <3> QED BY <3>1 DEF DartScores
    <2>2. Typed'
      BY <1>1, <1>2 DEF DartIInv, Typed
    <2> QED BY <2>1, <2>2 DEF DartIInv
  <1>5. RoundsInStep'
    BY <1>1, <1>2
       DEF DartIInv, RoundsInStep, RoundsDistinct, IdsBorn, FreshMatches, Matches, MergedInFront
  <1>6. PendingRate'
    BY <1>1, <1>2 DEF DartIInv, PendingRate, ShrinkageRate
  <1>7. WeightsKept'
    <2>1. WeightsHold(models, Pending)' <=> WeightsHold(models, Pending)
      BY <1>1, <1>2, <1>3 DEF WeightsHold
    <2>2. SumOfWeights => SumOfWeights'
      BY <1>1, SameSum
    <2> QED BY <1>1, <1>2, <2>1, <2>2 DEF DartIInv, WeightsKept
  <1> QED BY <1>1, <1>2, <1>3, <1>4, <1>5, <1>6, <1>7 DEF DartIInv

LEMMA DartStep ==
  ASSUME DartIInv, [DartNext]_allVars, born' # born \/ updated' # updated => NoRemainder
  PROVE  DartIInv'
PROOF
  <1>1. ASSUME NEW drop \in SUBSET Droppable, GetTrainingScore(drop) PROVE DartIInv'
    <2>1. updated' # updated
      BY <1>1 DEF GetTrainingScore
    <2> QED BY <1>1, <2>1, GetScoreInv
  <1>2. ASSUME NEW split \in SUBSET Class, DartTrainOneIter(split) PROVE DartIInv'
    <2>1. born' # born
      BY <1>2, DartTyped DEF DartTrainOneIter
    <2>2. PICK d, ms, score, r : Iteration(split, d, ms, score, r)
      BY <1>2, <2>1, DartIterates
    <2> QED BY <2>2, DartTrainInv
  <1>3. CASE DartResetConfig
    BY <1>3, DartResetInv
  <1>4. CASE Inherited
    BY <1>4, InheritedInv
  <1>5. CASE UNCHANGED allVars
    BY <1>5, DartStands
  <1> QED BY <1>1, <1>2, <1>3, <1>4, <1>5 DEF DartNext

-----------------------------------------------------------------------------
(* What the invariant gives, and the theorems about both modes.            *)

LEMMA DartInvHolds ==
  ASSUME DartIInv
  PROVE  DartInv /\ WeightsInStep
PROOF
  <1>1. DartTypeOK
    <2>1. IsOptions(options)
      BY DARTAssumption DEF DartIInv
    <2> QED BY <2>1 DEF DartIInv, DartTypeOK, Typed
  <1>2. WeightsOfRounds
    <2> SUFFICES ASSUME ~Uniform, NEW i \in DOMAIN tree_weight, NEW c \in Class,
                        NumInit + i \notin Pending, models[NumInit + i].tree[c].leaves # 0
                 PROVE  models[NumInit + i].tree[c].leaves = tree_weight[i]
      BY DEF WeightsOfRounds, DartIInv, WeightsKept
    <2> QED BY DEF DartIInv, WeightsKept, WeightsHold
  <1>3. SumOfWeights
    BY DEF DartIInv, WeightsKept, SumOfWeights
  <1> QED BY <1>1, <1>2, <1>3 DEF DartInv, DartIInv, WeightsInStep

LEMMA IterationReweights ==
  ASSUME DartIInv, NEW split \in SUBSET Class, NEW d, NEW ms, NEW score, NEW r,
         Iteration(split, d, ms, score, r)
  PROVE  SharesDropped /\ KeepsMerged
PROOF
  <1> DEFINE k == Cardinality(d)
  <1>1. /\ drop_index' = d /\ d \in SUBSET Droppable /\ SameRounds(models, ms, d)
        /\ ms = IF HasObjective THEN WithDropped(models, d) ELSE models
    BY DEF Iteration, Ready
  <1>2. /\ \A p \in DOMAIN ms : p \notin d => models'[p] = ms[p]
        /\ \A p \in d : \A c \in Class : Reweighted(ms[p].tree[c], models'[p].tree[c], k)
        /\ RoundsTyped(models') /\ \A p \in DOMAIN ms : p \in DOMAIN models'
    <2>1. AfterTraining(ms, d, split, r)
      BY DartTrainInv
    <2> QED BY <2>1 DEF AfterTraining
  <1>3. /\ RoundsTyped(models) /\ d \subseteq DOMAIN models /\ NumInit \in Nat /\ iter \in Nat
        /\ k \in Nat /\ Unit \in Nat /\ learning_rate \in Nat
        /\ Len(models) >= NumInit + iter /\ DOMAIN ms = DOMAIN models
    BY <1>1, DartTyped DEF DartIInv, RoundsInStep, SameRounds
  <1>4. ASSUME NEW p \in d, NEW c \in Class
        PROVE  LET now == models'[p].tree[c].leaves
                   old == IF HasObjective THEN models[p].tree[c].leaves
                          ELSE -models[p].tree[c].leaves
               IN  IF XGBoostMode THEN now * (k * Unit + learning_rate) = old * k * Unit
                   ELSE now * (k + 1) = old * k
    <2> DEFINE now == models'[p].tree[c].leaves
               out == models[p].tree[c].leaves
               left == ms[p].tree[c].leaves
               old == IF HasObjective THEN out ELSE -out
    <2>1. now \in Int /\ out \in Int
      BY <1>2, <1>3 DEF RoundsTyped, Output
    <2>2. -left = old
      <3>1. CASE HasObjective
        <4>1. ms[p].tree[c] = Negated(models[p].tree[c])
          BY <1>1, <1>3, <3>1, DroppedRounds
        <4>2. left = -out
          BY <4>1 DEF Negated
        <4> QED BY <2>1, <3>1, <4>2
      <3>2. CASE ~HasObjective
        BY <1>1, <3>2
      <3> QED BY <3>1, <3>2
    <2>3. IF XGBoostMode THEN now * (k * Unit + learning_rate) = (-left) * (k * Unit)
          ELSE now * (k + 1) = (-left) * k
      BY <1>2 DEF Reweighted
    <2>4. old \in Int
      BY <2>1
    <2>5. \A a \in Int, b, u \in Nat : a * (b * u) = a * b * u
      OBVIOUS
    <2> HIDE DEF now, out, left, old, k
    <2>6. IF XGBoostMode THEN now * (k * Unit + learning_rate) = old * k * Unit
          ELSE now * (k + 1) = old * k
      BY <1>3, <2>2, <2>3, <2>4, <2>5
    <2> QED BY <2>6 DEF now, out, old
  <1>5. ASSUME NEW p \in 1..NumInit PROVE models'[p] = models[p]
    <2>1. p \in DOMAIN models /\ p \notin d
      BY <1>1, <1>3 DEF RoundsTyped, Droppable
    <2> QED BY <1>1, <1>2, <1>3, <2>1 DEF SameRounds
  <1> QED BY <1>1, <1>4, <1>5 DEF SharesDropped, KeepsMerged, k

LEMMA DartReweights ==
  ASSUME DartIInv, [DartNext]_allVars, born' # born \/ updated' # updated => NoRemainder
  PROVE  SharesDropped /\ KeepsMerged
PROOF
  <1>1. ASSUME NEW drop \in SUBSET Droppable, GetTrainingScore(drop) PROVE SharesDropped /\ KeepsMerged
    BY <1>1 DEF GetTrainingScore, SharesDropped, KeepsMerged
  <1>2. ASSUME NEW split \in SUBSET Class, DartTrainOneIter(split) PROVE SharesDropped /\ KeepsMerged
    <2>1. born' # born
      BY <1>2, DartTyped DEF DartTrainOneIter
    <2>2. PICK d, ms, score, r : Iteration(split, d, ms, score, r)
      BY <1>2, <2>1, DartIterates
    <2> QED BY <2>2, IterationReweights
  <1>3. CASE DartResetConfig
    BY <1>3 DEF DartResetConfig, ResetConfig, SharesDropped, KeepsMerged
  <1>4. CASE Inherited
    BY <1>4, InheritedInv DEF SharesDropped, KeepsMerged
  <1>5. CASE UNCHANGED allVars
    BY <1>5, DartStands DEF SharesDropped, KeepsMerged
  <1> QED BY <1>1, <1>2, <1>3, <1>4, <1>5 DEF DartNext

ModesIInv ==
  /\ boosting \in {"dart", "rf"}
  /\ boosting = "dart" => DartIInv
  /\ boosting = "rf" => ForestIInv /\ Uniform /\ drop_index = {}

\* The divisions of DART are exact; see NoRemainder.
NoneRemains == boosting = "dart" /\ (born' # born \/ updated' # updated) => NoRemainder

\* A forest drops and reweights nothing, and grows at its end.
LEMMA ForestGrowsAtEnd ==
  ASSUME ForestIInv, drop_index = {}, [ForestNext]_forest_vars, UNCHANGED dart_vars
  PROVE  SharesDropped /\ KeepsMerged
PROOF
  <1>1. drop_index' = {}
    BY DEF dart_vars
  <1>2. ASSUME NEW split \in SUBSET Class, ForestTrainOneIter(split), NEW p \in 1..NumInit
        PROVE  models'[p] = models[p]
    <2>1. models \in Seq(Round) /\ NumInit \in Nat /\ iter \in Nat /\ Len(models) = iter + NumInit
      BY ForestTyped DEF ForestIInv, ForestTypeOK, Rounds
    <2>2. \E x : models' = Append(models, x)
      BY <1>2 DEF ForestTrainOneIter
    <2> QED BY <2>1, <2>2
  <1>3. CASE ForestRollbackOneIter \/ ForestAddValidDataset \/ ForestResetTrainingData
             \/ ShuffleModels \/ UNCHANGED forest_vars
    BY <1>3 DEF ForestRollbackOneIter, ForestAddValidDataset, ForestResetTrainingData,
                ShuffleModels, forest_vars, vars, SharesDropped, KeepsMerged
  <1> QED BY <1>1, <1>2, <1>3 DEF ForestNext, SharesDropped, KeepsMerged

LEMMA ModesStep ==
  ASSUME ModesIInv, [ModesNext]_modes_vars, NoneRemains
  PROVE  ModesIInv' /\ SharesDropped /\ KeepsMerged
PROOF
  <1>1. /\ boosting' = boosting
        /\ \/ boosting = "dart" /\ [DartNext]_allVars
           \/ boosting = "rf" /\ [ForestNext]_forest_vars /\ UNCHANGED dart_vars
    BY DEF ModesIInv, ModesNext, modes_vars, allVars, forest_vars
  <1>2. CASE boosting = "dart"
    <2>1. DartIInv /\ [DartNext]_allVars /\ (born' # born \/ updated' # updated => NoRemainder)
      BY <1>1, <1>2 DEF ModesIInv, NoneRemains
    <2>2. DartIInv' /\ SharesDropped /\ KeepsMerged
      BY <2>1, DartStep, DartReweights
    <2> QED BY <1>1, <1>2, <2>2 DEF ModesIInv
  <1>3. CASE boosting = "rf"
    <2>1. /\ ForestIInv /\ Uniform /\ drop_index = {}
          /\ [ForestNext]_forest_vars /\ UNCHANGED dart_vars
      BY <1>1, <1>3 DEF ModesIInv
    <2>2. ForestIInv' /\ SharesDropped /\ KeepsMerged
      BY <2>1, ForestStep, ForestGrowsAtEnd
    <2>3. Uniform' /\ drop_index' = {}
      BY <2>1 DEF dart_vars, Uniform
    <2> QED BY <1>1, <1>3, <2>2, <2>3 DEF ModesIInv
  <1> QED BY <1>2, <1>3 DEF ModesIInv

LEMMA ModesStart ==
  ASSUME \A x \in Cases : SoundCase(x), \A s \in Forests : SoundForest(s), ModesInit
  PROVE  ModesIInv
PROOF
  <1>1. CASE boosting = "dart" /\ DartInit
    BY <1>1, DartInitInv DEF ModesIInv
  <1>2. CASE boosting = "rf" /\ ForestInit /\ NoDrops
    BY <1>2, ForestInitInv DEF ModesIInv, NoDrops, Uniform
  <1> QED BY <1>1, <1>2 DEF ModesInit

LEMMA ModesHolds ==
  ASSUME ModesIInv
  PROVE  ModesInv /\ WeightsInStep
PROOF
  <1>1. CASE boosting = "dart"
    BY <1>1, DartInvHolds DEF ModesIInv, ModesInv
  <1>2. CASE boosting = "rf"
    BY <1>2, ForestInvHolds
       DEF ModesIInv, ModesInv, WeightsInStep, WeightsOfRounds, SumOfWeights
  <1> QED BY <1>1, <1>2 DEF ModesIInv

\* One step of the modes, as the theorems below use it.
LEMMA ModesInductive ==
  ASSUME \A x \in Cases : SoundCase(x), \A s \in Forests : SoundForest(s)
  PROVE  ModesSpec /\ [][NoneRemains]_modes_vars
           => []ModesIInv /\ ReweightsDropped
PROOF
  <1>1. ModesInit => ModesIInv
    BY ModesStart
  <1>2. ModesIInv /\ [ModesNext]_modes_vars /\ [NoneRemains]_modes_vars
          => ModesIInv' /\ [SharesDropped /\ KeepsMerged]_allVars
    <2> SUFFICES ASSUME ModesIInv, [ModesNext]_modes_vars, [NoneRemains]_modes_vars
                 PROVE  ModesIInv' /\ SharesDropped /\ KeepsMerged
      OBVIOUS
    <2>1. NoneRemains
      BY DEF modes_vars, allVars, vars, dart_vars, NoneRemains
    <2> QED BY <2>1, ModesStep
  <1> QED BY <1>1, <1>2, PTL DEF ModesSpec, ReweightsDropped

\* Scores stay what the model predicts in both modes (dart.hpp and rf.hpp), where
\* the divisions of DART leave no remainder.
THEOREM ModesScores ==
  ASSUME \A x \in Cases : SoundCase(x), \A s \in Forests : SoundForest(s)
  PROVE  ModesSpec /\ [][NoneRemains]_modes_vars => []ModesInv
PROOF
  <1>1. ModesIInv => ModesInv
    BY ModesHolds
  <1> QED BY <1>1, ModesInductive, PTL

\* So do the weights that drops are drawn by, and their sum.
THEOREM ModesWeights ==
  ASSUME \A x \in Cases : SoundCase(x), \A s \in Forests : SoundForest(s)
  PROVE  ModesSpec /\ [][NoneRemains]_modes_vars => []WeightsInStep
PROOF
  <1>1. ModesIInv => WeightsInStep
    BY ModesHolds
  <1> QED BY <1>1, ModesInductive, PTL

\* Every iteration leaves the rounds it dropped at the documented share of
\* their weight, and those of the merged model as they were.
THEOREM ModesReweights ==
  ASSUME \A x \in Cases : SoundCase(x), \A s \in Forests : SoundForest(s)
  PROVE  ModesSpec /\ [][NoneRemains]_modes_vars => ReweightsDropped
  BY ModesInductive, PTL
=============================================================================
