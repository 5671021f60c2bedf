-------------------------- MODULE SparkSpendProofs --------------------------
(***************************************************************************)
(* The safety properties of CoinSelection, SparkSpend and FeeQuote, and the*)
(* safety part of ImplementsAtomicSpend, for every wallet, request, limit and*)
(* size constant.                                                          *)
(***************************************************************************)
EXTENDS SpendRefinement, FeeQuote, AmountsProofs, SequenceTheorems

-----------------------------------------------------------------------------
(***************************************************************************)
(* COIN SELECTION.                                                         *)
(***************************************************************************)

-----------------------------------------------------------------------------
(***************************************************************************)
(* Sizes.                                                                  *)
(***************************************************************************)

\* Multiplying by a size keeps the order of two counts.
LEMMA TimesMonotone ==
  ASSUME NEW a \in Nat, NEW m \in Nat, NEW n \in Nat, m <= n
  PROVE  a * m \in Nat /\ a * m <= a * n
<1>1. n = m + (n - m) /\ n - m \in Nat
  OBVIOUS
<1>2. a * n = a * m + a * (n - m)
  BY <1>1
<1>3. a * (n - m) >= 0
  BY <1>1
<1> QED BY <1>2, <1>3

\* The estimate is positive and grows with the number of inputs.
LEMMA SizeMonotone ==
  ASSUME NEW c \in SelectCall, NEW m \in Nat, NEW n \in Nat, m <= n
  PROVE  /\ EstimatedSize(c, m) \in Nat \ {0}
         /\ EstimatedSize(c, m) <= EstimatedSize(c, n)
<1> DEFINE x(k) == IF k > 1 THEN k - 1 ELSE 0
           inputs(k) == InputSize * k
           mints == MintSize * c.mintNum
           utxos == UtxoSize * c.utxoNum
           extra(k) == IF c.version = "V2" THEN V2Size + V2InputSize * x(k) ELSE 0
<1>1. inputs(m) \in Nat /\ inputs(n) \in Nat /\ inputs(m) <= inputs(n)
  BY TimesMonotone, LimitsAssumption
<1>2. x(m) \in Nat /\ x(n) \in Nat /\ x(m) <= x(n)
  OBVIOUS
<1>3. extra(m) \in Nat /\ extra(n) \in Nat /\ extra(m) <= extra(n)
  <2> HIDE DEF x
  <2>1. /\ V2InputSize * x(m) \in Nat /\ V2InputSize * x(n) \in Nat
        /\ V2InputSize * x(m) <= V2InputSize * x(n)
    BY <1>2, TimesMonotone, LimitsAssumption
  <2> QED BY <2>1, LimitsAssumption
<1>4. c.mintNum \in Nat /\ c.utxoNum \in Nat /\ c.additional \in Nat
  BY DEF SelectCall
<1>5. mints \in Nat /\ utxos \in Nat
  BY <1>4, LimitsAssumption, TimesMonotone
<1>6. \A k : EstimatedSize(c, k) =
        BaseSize + inputs(k) + mints + MintSize + utxos + c.additional + extra(k)
  BY Zenon DEF EstimatedSize
<1> HIDE DEF inputs, mints, utxos, extra
<1> QED
  BY <1>1, <1>3, <1>4, <1>5, <1>6, LimitsAssumption

-----------------------------------------------------------------------------
(***************************************************************************)
(* The sorted list.                                                        *)
(***************************************************************************)

\* A nonempty set of positions has a first one in every strict total order.
LEMMA FirstExists ==
  ASSUME NEW R, NEW N \in Nat,
         \A i, j \in 1 .. N : i # j => <<i, j>> \in R \/ <<j, i>> \in R,
         \A i, j, k \in 1 .. N :
           <<i, j>> \in R /\ <<j, k>> \in R => <<i, k>> \in R
  PROVE  \A S \in SUBSET (1 .. N) :
           S # {} => \E i \in S : \A j \in S \ {i} : <<i, j>> \in R
<1> DEFINE HasFirst(S) == S # {} => \E i \in S : \A j \in S \ {i} : <<i, j>> \in R
           G == {n \in Nat : n <= N => \A S \in SUBSET (1 .. n) : HasFirst(S)}
<1>1. 0 \in G
  <2>1. \A S \in SUBSET (1 .. 0) : S = {}
    OBVIOUS
  <2>2. \A S \in SUBSET (1 .. 0) : HasFirst(S)
    BY <2>1, Zenon
  <2> HIDE DEF HasFirst
  <2> QED BY <2>2
<1>2. ASSUME NEW n \in Nat, n \in G PROVE n + 1 \in G
  <2> SUFFICES ASSUME n + 1 <= N, NEW S \in SUBSET (1 .. n + 1), S # {}
               PROVE  \E i \in S : \A j \in S \ {i} : <<i, j>> \in R
    OBVIOUS
  <2> DEFINE T == S \ {n + 1}
  <2>1. T \in SUBSET (1 .. n) /\ T \subseteq 1 .. N /\ n + 1 \in 1 .. N
    OBVIOUS
  <2>2. CASE n + 1 \notin S
    BY <1>2, <2>1, <2>2
  <2>3. CASE n + 1 \in S /\ T = {}
    BY <2>3
  <2>4. CASE n + 1 \in S /\ T # {}
    <3>1. PICK f \in T : \A j \in T \ {f} : <<f, j>> \in R
      <4>1. n <= N
        OBVIOUS
      <4>2. HasFirst(T)
        BY <1>2, <2>1, <4>1, Zenon
      <4> QED BY <2>4, <4>2
    <3>2. f \in 1 .. N /\ f # n + 1
      BY <2>1
    <3>3. CASE <<f, n + 1>> \in R
      <4>1. \A j \in S \ {f} : <<f, j>> \in R
        BY <3>1, <3>3
      <4> QED BY <4>1
    <3>4. CASE <<n + 1, f>> \in R
      <4>1. \A j \in T : <<n + 1, j>> \in R
        BY <2>1, <3>1, <3>2, <3>4
      <4>2. \A j \in S \ {n + 1} : <<n + 1, j>> \in R
        BY <4>1
      <4> QED BY <2>4, <4>2
    <3> QED BY <2>1, <3>2, <3>3, <3>4
  <2> QED BY <2>2, <2>3, <2>4
<1> HIDE DEF G
<1>3. Nat \subseteq G
  BY <1>1, <1>2, Induction
<1> QED BY <1>3 DEF G

\* The coin list of a call is a coin list in the sense of AmountsProofs.
LEMMA CoinListType ==
  ASSUME call \in SelectCall
  PROVE  /\ Len(call.coins) \in Nat
         /\ IsCoinList(call.coins)
         /\ \A i \in 1 .. Len(call.coins) :
              call.coins[i].v \in Nat /\ call.coins[i].nHeight \in Int
<1>1. call.coins \in Seq(CoinMeta)
  BY DEF SelectCall
<1>2. Len(call.coins) \in Nat /\ \A i \in 1 .. Len(call.coins) : call.coins[i] \in CoinMeta
  BY <1>1
<1>3. \A m \in CoinMeta : m.v \in Nat /\ m.nHeight \in Int
  BY DEF CoinMeta
<1> QED BY <1>2, <1>3 DEF IsCoinList

\* Precedes is a strict total order on the positions.
LEMMA PrecedesOrders ==
  ASSUME call \in SelectCall
  PROVE  /\ \A i, j \in 1 .. Len(call.coins) :
              /\ i # j => Precedes(i, j) \/ Precedes(j, i)
              /\ Precedes(i, j) => ~Precedes(j, i)
         /\ \A i, j, k \in 1 .. Len(call.coins) :
              Precedes(i, j) /\ Precedes(j, k) => Precedes(i, k)
<1> DEFINE v(i) == call.coins[i].v
           h(i) == call.coins[i].nHeight
<1>1. /\ Len(call.coins) \in Nat
      /\ \A i \in 1 .. Len(call.coins) : v(i) \in Int /\ h(i) \in Int
  BY CoinListType
<1>2. \A i, j :
        Precedes(i, j) <=>
          \/ v(i) > v(j)
          \/ v(i) = v(j) /\ h(i) < h(j)
          \/ v(i) = v(j) /\ h(i) = h(j) /\ i < j
  BY Zenon DEF Precedes
<1> HIDE DEF v, h
<1>3. \A i, j \in 1 .. Len(call.coins) :
        /\ i # j => Precedes(i, j) \/ Precedes(j, i)
        /\ Precedes(i, j) => ~Precedes(j, i)
  BY <1>1, <1>2
<1>4. \A i, j, k \in 1 .. Len(call.coins) :
        Precedes(i, j) /\ Precedes(j, k) => Precedes(i, k)
  BY <1>1, <1>2
<1> QED BY <1>3, <1>4, Zenon

\* A nonempty part of the list has a first and a last coin.
LEMMA EndsExist ==
  ASSUME call \in SelectCall, NEW S \in SUBSET (1 .. Len(call.coins)), S # {}
  PROVE  /\ \E i \in S : \A j \in S \ {i} : Precedes(i, j)
         /\ \E i \in S : \A j \in S \ {i} : Precedes(j, i)
<1> DEFINE N == Len(call.coins)
           R == {p \in (1 .. N) \X (1 .. N) : Precedes(p[1], p[2])}
           Q == {p \in (1 .. N) \X (1 .. N) : Precedes(p[2], p[1])}
<1>1. N \in Nat
  BY CoinListType
<1>2. \A i, j \in 1 .. N : <<i, j>> \in R <=> Precedes(i, j)
  OBVIOUS
<1>3. \A i, j \in 1 .. N : <<i, j>> \in Q <=> Precedes(j, i)
  OBVIOUS
<1> HIDE DEF R, Q
<1>4. /\ \A i, j \in 1 .. N : i # j => Precedes(i, j) \/ Precedes(j, i)
      /\ \A i, j, k \in 1 .. N : Precedes(i, j) /\ Precedes(j, k) => Precedes(i, k)
  BY PrecedesOrders, Zenon
<1> HIDE DEF N
<1>5. S \in SUBSET (1 .. N) /\ \A i \in S : i \in 1 .. N
  BY DEF N
<1>6. \E i \in S : \A j \in S \ {i} : Precedes(i, j)
  <2>1. /\ \A i, j \in 1 .. N : i # j => <<i, j>> \in R \/ <<j, i>> \in R
        /\ \A i, j, k \in 1 .. N :
             <<i, j>> \in R /\ <<j, k>> \in R => <<i, k>> \in R
    BY <1>2, <1>4, Zenon
  <2>2. \A T \in SUBSET (1 .. N) :
          T # {} => \E i \in T : \A j \in T \ {i} : <<i, j>> \in R
    BY <1>1, <2>1, FirstExists
  <2>3. \E i \in S : \A j \in S \ {i} : <<i, j>> \in R
    BY <1>5, <2>2, Zenon
  <2> QED BY <1>2, <1>5, <2>3, Zenon
<1>7. \E i \in S : \A j \in S \ {i} : Precedes(j, i)
  <2>1. /\ \A i, j \in 1 .. N : i # j => <<i, j>> \in Q \/ <<j, i>> \in Q
        /\ \A i, j, k \in 1 .. N :
             <<i, j>> \in Q /\ <<j, k>> \in Q => <<i, k>> \in Q
    BY <1>3, <1>4, Zenon
  <2>2. \A T \in SUBSET (1 .. N) :
          T # {} => \E i \in T : \A j \in T \ {i} : <<i, j>> \in Q
    BY <1>1, <2>1, FirstExists
  <2>3. \E i \in S : \A j \in S \ {i} : <<i, j>> \in Q
    BY <1>5, <2>2, Zenon
  <2> QED BY <1>3, <1>5, <2>3, Zenon
<1> QED BY <1>6, <1>7, Zenon

\* coins.begin() is a biggest remaining coin, and the oldest of those.
LEMMA FrontIsFirst ==
  ASSUME call \in SelectCall, NEW S \in SUBSET (1 .. Len(call.coins)), S # {}
  PROVE  /\ Front(S) \in S
         /\ \A j \in S \ {Front(S)} : Precedes(Front(S), j)
<1>1. \E i \in S : \A j \in S \ {i} : Precedes(i, j)
  BY EndsExist
<1> QED BY <1>1, Zenon DEF Front

\* The backward scan finds a coin that is big enough, and no coin of its
\* amount that it leaves behind is older.
LEMMA ScanFinds ==
  ASSUME call \in SelectCall, NEW S \in SUBSET (1 .. Len(call.coins)),
         NEW need \in Int, NEW b \in S, call.coins[b].v >= need
  PROVE  SmallestSufficient(S, need) \in ScanStops(S, need)
<1> DEFINE E == {i \in S : call.coins[i].v = call.coins[b].v}
           P == ScanStops(S, need)
<1>1. \A i \in S : i \in 1 .. Len(call.coins)
  OBVIOUS
<1>2. P # {}
  <2>1. E \in SUBSET (1 .. Len(call.coins)) /\ E # {}
    OBVIOUS
  <2>2. Front(E) \in E /\ \A j \in E \ {Front(E)} : Precedes(Front(E), j)
    BY <2>1, FrontIsFirst
  <2> DEFINE f == Front(E)
  <2>3. f \in S /\ call.coins[f].v = call.coins[b].v
    BY <2>2
  <2>4. ASSUME NEW j \in S, Precedes(j, f)
        PROVE  call.coins[j].v # call.coins[f].v
    <3>1. SUFFICES ASSUME call.coins[j].v = call.coins[f].v PROVE FALSE
      OBVIOUS
    <3>2. j \in E
      BY <2>3, <3>1
    <3>3. j # f
      BY <1>1, <2>3, <2>4, PrecedesOrders
    <3>4. Precedes(f, j)
      BY <2>2, <3>2, <3>3
    <3> QED BY <1>1, <2>3, <2>4, <3>4, PrecedesOrders
  <2>5. call.coins[f].v >= need
    BY <2>3
  <2>6. f \in P
    BY <2>3, <2>4, <2>5 DEF ScanStops
  <2> QED BY <2>6
<1>3. P \in SUBSET (1 .. Len(call.coins))
  BY DEF ScanStops
<1> HIDE DEF P
<1>4. \E i \in P : \A j \in P \ {i} : Precedes(j, i)
  BY <1>2, <1>3, EndsExist
<1> QED BY <1>4, Zenon DEF SmallestSufficient, P

-----------------------------------------------------------------------------
(***************************************************************************)
(* The invariant, action by action.                                        *)
(***************************************************************************)

\* Choices are finite, and what they are worth is bounded by the balance.
LEMMA ChoiceFacts ==
  ASSUME call \in SelectCall, NEW S \in Choices
  PROVE  /\ IsFiniteSet(S) /\ Cardinality(S) \in Nat
         /\ Value(call.coins, S) \in Nat
         /\ Value(call.coins, S) <= Balance(call.coins)
         /\ Balance(call.coins) \in Nat
<1>1. Len(call.coins) \in Nat /\ IsCoinList(call.coins)
  BY CoinListType
<1>2. S \subseteq 1 .. Len(call.coins)
  BY DEF Choices
<1>3. IsFiniteSet(S) /\ Cardinality(S) \in Nat
  <2>1. IsFiniteSet(1 .. Len(call.coins))
    BY <1>1, FS_Interval
  <2>2. IsFiniteSet(S)
    BY <1>2, <2>1, FS_Subset
  <2> QED BY <2>2, FS_CardinalityType
<1>4. /\ Value(call.coins, S) \in Nat
      /\ Value(call.coins, S) <= Value(call.coins, 1 .. Len(call.coins))
      /\ Value(call.coins, 1 .. Len(call.coins)) \in Nat
  BY <1>1, <1>2, ValueMonotone
<1> QED BY <1>3, <1>4 DEF Balance

\* Before the first call the invariant holds.
LEMMA SelectInitInv == SelectInit => SelectInv
<1> SUFFICES ASSUME SelectInit PROVE SelectInv
  OBVIOUS
<1>1. call \in SelectCall
  <2>1. <<>> \in Seq(CoinMeta)
    OBVIOUS
  <2> QED BY <2>1 DEF SelectInit, NoCall, SelectCall
<1> QED
  BY <1>1, LimitsAssumption
  DEF SelectInit, SelectInv, SelectTypeOK, SelectionAccounted, ChecksPassed,
      FeeIsLowerBound, PickedDominate, PickedFewest, LeastFee, FailureIsReal,
      NeverShort, OldestFirst, SelectErrors

\* A choice's estimate is a positive number.
LEMMA ChoiceSize ==
  ASSUME NEW c \in SelectCall, NEW S \in SUBSET (1 .. Len(c.coins))
  PROVE  Cardinality(S) \in Nat /\ EstimatedSize(c, Cardinality(S)) \in Nat \ {0}
<1>1. c.coins \in Seq(CoinMeta)
  BY DEF SelectCall
<1>2. Len(c.coins) \in Nat
  BY <1>1
<1>3. IsFiniteSet(1 .. Len(c.coins))
  BY <1>2, FS_Interval
<1>4. IsFiniteSet(S)
  BY <1>3, FS_Subset
<1>5. Cardinality(S) \in Nat
  BY <1>4, FS_CardinalityType
<1> QED BY <1>5, SizeMonotone

\* The checks at the entry of SelectSparkCoins establish it for the first
\* round, whatever the arguments of the call are.
LEMMA SelectEntryInv ==
  ASSUME SelectInv, NEW c \in SelectCall, SelectSparkCoins(c)
  PROVE  SelectInv'
<1>1. /\ at = "idle" /\ call' = c /\ fee' = 0 /\ fee = 0
      /\ left' = {} /\ picked' = {} /\ spend_val' = spend_val
  BY DEF SelectInv, ChecksPassed, SelectSparkCoins
<1>2. \/ /\ at' = "round" /\ err' = "none"
         /\ c.version \in {"V1", "V2"} /\ MoneyRange(c.required)
      \/ /\ at' = "error" /\ err' \in SelectErrors
         /\ err' # "unable to select coins" /\ err' # "none"
         /\ ~(c.version \in {"V1", "V2"} /\ MoneyRange(c.required))
  BY <1>1 DEF Throw, SelectErrors, SelectInv, SelectTypeOK, SelectSparkCoins
<1>3. SelectTypeOK'
  BY <1>1, <1>2, LimitsAssumption DEF SelectInv, SelectTypeOK
<1>4. SelectionAccounted' /\ PickedDominate' /\ PickedFewest' /\ LeastFee'
      /\ OldestFirst'
  BY <1>2 DEF SelectionAccounted, PickedDominate, PickedFewest, LeastFee, OldestFirst
<1>5. ChecksPassed' /\ NeverShort' /\ FailureIsReal'
  BY <1>1, <1>2 DEF ChecksPassed, NeverShort, FailureIsReal
<1>6. FeeIsLowerBound'
  <2>1. \A S \in SUBSET (1 .. Len(c.coins)) :
          0 <= EstimatedSize(c, Cardinality(S))
    <3> TAKE S \in SUBSET (1 .. Len(c.coins))
    <3>1. EstimatedSize(c, Cardinality(S)) \in Nat \ {0}
      BY ChoiceSize
    <3> QED BY <3>1
  <2> QED BY <1>1, <2>1, Zenon DEF FeeIsLowerBound, Choices
<1> QED BY <1>3, <1>4, <1>5, <1>6 DEF SelectInv

\* A call that is given back leaves the state of the beginning ...
LEMMA SelectResetInv ==
  ASSUME at' = "idle" /\ call' = NoCall /\ err' = "none",
         fee' = 0 /\ left' = {} /\ picked' = {} /\ spend_val' = 0
  PROVE  SelectInv'
<1>1. call' \in SelectCall
  <2>1. <<>> \in Seq(CoinMeta)
    OBVIOUS
  <2> QED BY <2>1 DEF NoCall, SelectCall
<1>2. SelectTypeOK' /\ ChecksPassed'
  BY <1>1, LimitsAssumption DEF SelectTypeOK, ChecksPassed
<1> QED
  BY <1>2
  DEF SelectInv, SelectionAccounted, FeeIsLowerBound, PickedDominate,
      PickedFewest, LeastFee, FailureIsReal, NeverShort, OldestFirst

\* ... and so the invariant holds once estimateSparkFee has returned.
LEMMA ReturnInv == ASSUME Return PROVE SelectInv'
BY SelectResetInv DEF Return

\* The invariant depends on the variables of the selection only.
LEMMA SelectStutterInv ==
  ASSUME SelectInv, UNCHANGED selectVars PROVE SelectInv'
BY DEF selectVars, SelectInv, SelectTypeOK, SelectionAccounted, ChecksPassed,
       FeeIsLowerBound, PickedDominate, PickedFewest, LeastFee, FailureIsReal,
       NeverShort, OldestFirst, Choices, CurrentRequired, Need, Pays, Payable

\* A choice that pays covers what the current round asks for.
LEMMA PayingCovers ==
  ASSUME SelectInv, at \in {"round", "take"}, NEW S \in Choices, Pays(S)
  PROVE  /\ Value(call.coins, S) >= CurrentRequired
         /\ CurrentRequired \in Int
         /\ call.required \in Int
         /\ EstimatedSize(call, Cardinality(S)) \in Nat \ {0}
<1>1. /\ call \in SelectCall /\ fee \in Nat
      /\ call.subtractFee \/ fee <= EstimatedSize(call, Cardinality(S))
  BY LimitsAssumption DEF SelectInv, SelectTypeOK, FeeIsLowerBound
<1>2. call.required \in Int /\ call.subtractFee \in BOOLEAN
  BY <1>1 DEF SelectCall
<1>3. EstimatedSize(call, Cardinality(S)) \in Nat \ {0}
  BY <1>1, ChoiceSize DEF Choices
<1>4. Value(call.coins, S) \in Nat
  BY <1>1, ChoiceFacts
<1>5. CurrentRequired \in Int
  BY <1>1, <1>2 DEF CurrentRequired
<1>6. Value(call.coins, S) >= CurrentRequired
  <2>1. CASE call.subtractFee
    BY <1>2, <2>1 DEF Pays, CurrentRequired
  <2>2. CASE ~call.subtractFee
    BY <1>1, <1>2, <1>3, <1>4, <2>2 DEF Pays, CurrentRequired
  <2> QED BY <2>1, <2>2
<1> QED BY <1>2, <1>3, <1>5, <1>6

\* The head of the fee loop: nothing is picked, so the picked coins trivially
\* dominate, and an insufficient balance refutes every choice of coins.
LEMMA StartRoundInv == ASSUME SelectInv, StartRound PROVE SelectInv'
<1>1. /\ at = "round" /\ call' = call /\ fee' = fee /\ err = "none"
      /\ call \in SelectCall /\ fee \in 0 .. MaxSize /\ fee \in Nat
      /\ call.version \in {"V1", "V2"} /\ MoneyRange(call.required)
      /\ call.subtractFee => fee = 0
      /\ FeeIsLowerBound
  BY LimitsAssumption DEF StartRound, SelectInv, SelectTypeOK, ChecksPassed
<1>2. /\ Len(call.coins) \in Nat /\ IsCoinList(call.coins)
      /\ call.required \in Int /\ call.subtractFee \in BOOLEAN
      /\ Balance(call.coins) \in Nat
  <2>1. {} \in Choices
    BY DEF Choices
  <2> QED BY <1>1, <2>1, CoinListType, ChoiceFacts DEF SelectCall
<1>3. CurrentRequired' = CurrentRequired /\ Choices' = Choices
      /\ CurrentRequired \in Int
  BY <1>1, <1>2 DEF CurrentRequired, Choices
<1>4. CASE RoundError # "none"
  <2>1. /\ at' = "error" /\ err' = RoundError
        /\ left' = left /\ picked' = picked /\ spend_val' = spend_val
    BY <1>4 DEF StartRound, Throw
  <2>2. RoundError \in SelectErrors /\ RoundError # "unable to select coins"
    BY <1>4 DEF RoundError, SelectErrors
  <2>3. SelectTypeOK' /\ ChecksPassed'
    BY <1>1, <1>4, <2>1, <2>2 DEF SelectInv, SelectTypeOK, ChecksPassed
  <2>4. SelectionAccounted' /\ FeeIsLowerBound' /\ PickedDominate'
        /\ PickedFewest' /\ LeastFee' /\ OldestFirst' /\ NeverShort'
    BY <2>1, <2>2 DEF SelectionAccounted, FeeIsLowerBound, PickedDominate,
      PickedFewest, LeastFee, OldestFirst, NeverShort
  <2>5. FailureIsReal'
    <3> SUFFICES ASSUME Balance(call.coins) <= MaxMoney,
                        NEW S \in Choices, Pays(S)
                 PROVE  FALSE
      BY <1>1, Zenon DEF FailureIsReal, Payable, Choices, Pays
    <3>1. /\ Value(call.coins, S) >= CurrentRequired
          /\ EstimatedSize(call, Cardinality(S)) \in Nat \ {0}
      BY <1>1, PayingCovers
    <3>2. /\ Value(call.coins, S) \in Nat
          /\ Value(call.coins, S) <= Balance(call.coins)
      BY <1>1, ChoiceFacts
    <3>3. CurrentRequired <= Balance(call.coins) /\ CurrentRequired <= MaxMoney
      BY <1>2, <1>3, <3>1, <3>2, LimitsAssumption
    <3>4. call.subtractFee \/ fee <= MaxMoney - call.required
      BY <1>1, <1>2, <3>3, LimitsAssumption DEF CurrentRequired
    <3>5. MoneyRange(fee)
      BY <1>1, <1>2, <3>4, LimitsAssumption DEF MoneyRange
    <3>6. RoundError = "none"
      <4>1. ~(fee > MaxMoney - call.required) \/ call.subtractFee
        BY <1>1, <1>2, <3>4, LimitsAssumption
      <4>2. ~(Balance(call.coins) > MaxMoney)
        BY <1>2, LimitsAssumption
      <4>3. ~(CurrentRequired > Balance(call.coins))
        BY <1>2, <1>3, <3>3
      <4> QED BY <3>5, <4>1, <4>2, <4>3, Zenon DEF RoundError
    <3> QED BY <1>4, <3>6
  <2> QED BY <2>3, <2>4, <2>5 DEF SelectInv
<1>5. CASE RoundError = "none"
  <2>1. /\ at' = "take" /\ err' = "none" /\ left' = 1 .. Len(call.coins)
        /\ picked' = {} /\ spend_val' = 0
    BY <1>1, <1>5 DEF StartRound
  <2>2. Balance(call.coins) <= MaxMoney /\ CurrentRequired <= Balance(call.coins)
    <3>1. /\ ~(Balance(call.coins) > MaxMoney)
          /\ ~(CurrentRequired > Balance(call.coins))
      BY <1>5 DEF RoundError
    <3> QED BY <1>2, <1>3, <3>1, LimitsAssumption
  <2>3. SelectTypeOK'
    BY <1>1, <2>1, LimitsAssumption DEF SelectTypeOK
  <2>4. ChecksPassed'
    BY <1>1, <1>3, <2>1, <2>2, Zenon DEF ChecksPassed, MoneyRange
  <2>5. SelectionAccounted' /\ OldestFirst'
    <3>1. Value(call.coins, {}) = 0
      BY <1>2, ValueEmpty
    <3> QED BY <1>1, <2>1, <3>1 DEF SelectionAccounted, OldestFirst
  <2>6. FeeIsLowerBound'
    BY <1>1, <2>1, Zenon DEF FeeIsLowerBound, Choices, Pays
  <2>7. LeastFee' /\ FailureIsReal' /\ NeverShort'
    BY <2>1 DEF LeastFee, FailureIsReal, NeverShort
  <2>8. \A S \in Choices :
          /\ 0 <= Cardinality(S)
          /\ Cardinality(S) <= 0 => Value(call.coins, S) <= 0
    <3> TAKE S \in Choices
    <3>1. IsFiniteSet(S) /\ Cardinality(S) \in Nat
      BY <1>1, ChoiceFacts
    <3>2. Cardinality(S) <= 0 => S = {}
      BY <3>1, FS_EmptySet
    <3>3. S = {} => Value(call.coins, S) = 0
      BY <1>2, ValueEmpty
    <3> QED BY <3>1, <3>2, <3>3
  <2>9. PickedDominate' /\ PickedFewest'
    <3>1. Cardinality({}) = 0
      BY FS_EmptySet
    <3> QED BY <1>1, <1>3, <2>1, <2>8, <3>1, Zenon DEF PickedDominate, PickedFewest, Choices
  <2> QED BY <2>3, <2>4, <2>5, <2>6, <2>7, <2>9 DEF SelectInv
<1> QED BY <1>4, <1>5

\* Adding to a dominating selection a coin that is worth at least any other
\* leaves it dominating.
LEMMA DominanceGrows ==
  ASSUME call \in SelectCall, NEW P \in Choices, NEW i \in 1 .. Len(call.coins),
         i \notin P,
         \A j \in (1 .. Len(call.coins)) \ P : call.coins[j].v <= call.coins[i].v,
         \A S \in Choices : Cardinality(S) <= Cardinality(P)
                              => Value(call.coins, S) <= Value(call.coins, P)
  PROVE  \A S \in Choices : Cardinality(S) <= Cardinality(P) + 1
                              => Value(call.coins, S) <= Value(call.coins, P \cup {i})
<1> DEFINE V(S) == Value(call.coins, S)
<1>1. IsCoinList(call.coins) /\ Len(call.coins) \in Nat
      /\ \A j \in 1 .. Len(call.coins) : call.coins[j].v \in Nat
  BY CoinListType
<1>2. P \in SUBSET (1 .. Len(call.coins)) /\ P \cup {i} \in Choices
  BY DEF Choices
<1>3. V(P \cup {i}) = V(P) + call.coins[i].v
  BY <1>1, <1>2, ValueAdd
<1>4. V(P) \in Nat /\ Cardinality(P) \in Nat /\ V(P \cup {i}) \in Nat
  BY <1>2, ChoiceFacts
<1> SUFFICES ASSUME NEW S \in Choices, Cardinality(S) <= Cardinality(P) + 1
             PROVE  V(S) <= V(P \cup {i})
  BY Zenon
<1>5. CASE S \subseteq P \cup {i}
  BY <1>1, <1>2, <1>5, ValueMonotone DEF Choices
<1>6. CASE ~(S \subseteq P \cup {i})
  <2>1. PICK x \in S : x \notin P /\ x # i
    BY <1>6
  <2>2. x \in 1 .. Len(call.coins) /\ S \ {x} \in Choices /\ (S \ {x}) \cup {x} = S
    BY <2>1 DEF Choices
  <2>3. V((S \ {x}) \cup {x}) = V(S \ {x}) + call.coins[x].v
    BY <1>1, <2>2, ValueAdd DEF Choices
  <2>4. Cardinality(S \ {x}) <= Cardinality(P)
    <3>1. IsFiniteSet(S) /\ Cardinality(S) \in Nat
      BY ChoiceFacts
    <3>2. Cardinality(S \ {x}) = Cardinality(S) - 1
      BY <2>1, <3>1, FS_RemoveElement
    <3> QED BY <1>4, <3>1, <3>2
  <2>5. V(S \ {x}) <= V(P) /\ V(S \ {x}) \in Nat
    BY <2>2, <2>4, ChoiceFacts
  <2>6. call.coins[x].v <= call.coins[i].v /\ call.coins[x].v \in Nat
        /\ call.coins[i].v \in Nat
    BY <1>1, <2>1, <2>2
  <2>7. V(S) = V(S \ {x}) + call.coins[x].v
    BY <2>2, <2>3
  <2> HIDE DEF V
  <2> QED BY <1>3, <1>4, <2>5, <2>6, <2>7
<1> QED BY <1>5, <1>6

\* Both ways of taking a coin preserve the invariant: the coin is no younger
\* than its equals, and unless it completes the amount no coin left is bigger.
LEMMA ChooseInv ==
  ASSUME SelectInv, at = "take", Need > 0, NEW i \in left, Choose(i),
         \A j \in left \ {i} : call.coins[i].v = call.coins[j].v
                                 => call.coins[i].nHeight <= call.coins[j].nHeight,
         call.coins[i].v < Need => \A j \in left : call.coins[j].v <= call.coins[i].v
  PROVE  SelectInv'
<1>1. /\ at' = "take" /\ call' = call /\ fee' = fee /\ err' = err
      /\ left' = left \ {i} /\ picked' = picked \cup {i}
      /\ spend_val' = spend_val + call.coins[i].v
  BY DEF Choose
<1>2. /\ call \in SelectCall /\ fee \in Nat /\ err = "none"
      /\ left \in SUBSET (1 .. Len(call.coins)) /\ picked \in Choices
      /\ spend_val \in Nat
      /\ picked \cap left = {} /\ picked \cup left = 1 .. Len(call.coins)
      /\ spend_val = Value(call.coins, picked)
      /\ Balance(call.coins) <= MaxMoney
  BY LimitsAssumption
  DEF SelectInv, SelectTypeOK, SelectionAccounted, ChecksPassed, Choices
<1>3. /\ i \in 1 .. Len(call.coins) /\ i \notin picked
      /\ picked \cup {i} \in Choices
  BY <1>2 DEF Choices
<1>4. /\ Len(call.coins) \in Nat /\ IsCoinList(call.coins)
      /\ \A j \in 1 .. Len(call.coins) :
           call.coins[j].v \in Nat /\ call.coins[j].nHeight \in Int
  BY <1>2, CoinListType
<1>5. /\ spend_val' = Value(call.coins, picked \cup {i})
      /\ spend_val' \in 0 .. MaxMoney
  <2>1. Value(call.coins, picked \cup {i}) = spend_val + call.coins[i].v
    BY <1>2, <1>3, <1>4, ValueAdd DEF Choices
  <2>2. /\ Value(call.coins, picked \cup {i}) \in Nat
        /\ Value(call.coins, picked \cup {i}) <= Balance(call.coins)
        /\ Balance(call.coins) \in Nat
    BY <1>2, <1>3, ChoiceFacts
  <2> QED BY <1>1, <1>2, <2>1, <2>2, LimitsAssumption
<1>6. CurrentRequired' = CurrentRequired /\ Choices' = Choices
      /\ CurrentRequired \in Int
  <2>1. call.required \in Int
    BY <1>2 DEF SelectCall
  <2> QED BY <1>1, <1>2, <2>1 DEF CurrentRequired, Choices
<1>7. IsFiniteSet(picked) /\ Cardinality(picked) \in Nat
      /\ Cardinality(picked \cup {i}) = Cardinality(picked) + 1
  <2>1. IsFiniteSet(picked) /\ Cardinality(picked) \in Nat
    BY <1>2, ChoiceFacts
  <2> QED BY <1>3, <2>1, FS_AddElement
<1>8. \A S \in Choices : Cardinality(S) <= Cardinality(picked)
                           => Value(call.coins, S) <= spend_val
  BY DEF SelectInv, PickedDominate
<1>9. SelectTypeOK'
  BY <1>1, <1>2, <1>3, <1>5 DEF SelectInv, SelectTypeOK, Choices
<1>10. SelectionAccounted'
  BY <1>1, <1>2, <1>3, <1>5 DEF SelectionAccounted
<1>11. ChecksPassed'
  BY <1>1, <1>6, Zenon DEF SelectInv, ChecksPassed
<1>12. FeeIsLowerBound'
  BY <1>1, Zenon DEF SelectInv, FeeIsLowerBound, Choices, Pays
<1>13. PickedDominate'
  <2> SUFFICES ASSUME Need' > 0
               PROVE  \A S \in Choices :
                        Cardinality(S) <= Cardinality(picked \cup {i})
                          => Value(call.coins, S) <= spend_val'
    BY <1>1, <1>6, Zenon DEF PickedDominate
  <2>1. call.coins[i].v < Need
    BY <1>1, <1>2, <1>3, <1>4, <1>6 DEF Need
  <2>2. \A j \in (1 .. Len(call.coins)) \ picked : call.coins[j].v <= call.coins[i].v
    BY <1>2, <2>1
  <2>3. \A S \in Choices : Cardinality(S) <= Cardinality(picked)
                             => Value(call.coins, S) <= Value(call.coins, picked)
    BY <1>2, <1>8
  <2>4. \A S \in Choices : Cardinality(S) <= Cardinality(picked) + 1
                             => Value(call.coins, S) <= Value(call.coins, picked \cup {i})
    BY <1>2, <1>3, <2>2, <2>3, DominanceGrows
  <2> QED BY <1>5, <1>7, <2>4
<1>14. PickedFewest'
  <2> SUFFICES ASSUME NEW S \in Choices, Value(call.coins, S) >= CurrentRequired
               PROVE  Cardinality(picked) + 1 <= Cardinality(S)
    BY <1>1, <1>6, <1>7, Zenon DEF PickedFewest
  <2>1. Cardinality(S) \in Nat /\ Value(call.coins, S) \in Nat
    BY <1>2, ChoiceFacts
  <2>2. ~(Value(call.coins, S) <= spend_val)
    BY <1>2, <1>6, <2>1 DEF Need
  <2>3. ~(Cardinality(S) <= Cardinality(picked))
    BY <1>8, <2>2
  <2> QED BY <1>7, <2>1, <2>3
<1>15. LeastFee' /\ FailureIsReal' /\ NeverShort'
  BY <1>1, <1>2 DEF LeastFee, FailureIsReal, NeverShort
<1>16. OldestFirst'
  <2>1. ASSUME NEW p \in picked \cup {i}, NEW j \in left \ {i},
               call.coins[p].v = call.coins[j].v
        PROVE  call.coins[p].nHeight <= call.coins[j].nHeight
    <3>1. CASE p = i
      BY <2>1, <3>1
    <3>2. CASE p # i
      BY <2>1, <3>2 DEF SelectInv, OldestFirst
    <3> QED BY <3>1, <3>2
  <2> QED BY <1>1, <2>1 DEF OldestFirst
<1> QED
  BY <1>9, <1>10, <1>11, <1>12, <1>13, <1>14, <1>15, <1>16 DEF SelectInv

\* Taking the biggest coin of the sorted list.
LEMMA TakeLargestInv == ASSUME SelectInv, TakeLargest PROVE SelectInv'
<1> DEFINE f == Front(left)
<1>1. /\ at = "take" /\ Need > 0 /\ left # {} /\ Choose(f)
      /\ call \in SelectCall /\ left \in SUBSET (1 .. Len(call.coins))
  BY DEF TakeLargest, SelectInv, SelectTypeOK
<1>2. f \in left /\ \A j \in left \ {f} : Precedes(f, j)
  BY <1>1, FrontIsFirst
<1>3. \A j \in 1 .. Len(call.coins) :
        call.coins[j].v \in Nat /\ call.coins[j].nHeight \in Int
  BY <1>1, CoinListType
<1> HIDE DEF f
<1>4. \A j \in left \ {f} :
        /\ call.coins[j].v <= call.coins[f].v
        /\ call.coins[f].v = call.coins[j].v
             => call.coins[f].nHeight <= call.coins[j].nHeight
  <2> TAKE j \in left \ {f}
  <2>1. /\ call.coins[j].v \in Nat /\ call.coins[j].nHeight \in Int
        /\ call.coins[f].v \in Nat /\ call.coins[f].nHeight \in Int
    BY <1>1, <1>2, <1>3
  <2>2. Precedes(f, j)
    BY <1>2
  <2> QED BY <2>1, <2>2 DEF Precedes
<1>5. \A j \in left : call.coins[j].v <= call.coins[f].v
  BY <1>1, <1>2, <1>3, <1>4
<1> QED BY <1>1, <1>2, <1>4, <1>5, ChooseInv

\* Taking the smallest coin that suffices, which ends the round.
LEMMA TakeSufficientInv == ASSUME SelectInv, TakeSufficient PROVE SelectInv'
<1> DEFINE s == SmallestSufficient(left, Need)
<1>1. /\ at = "take" /\ Need > 0 /\ left # {} /\ Choose(s)
      /\ Need < call.coins[Front(left)].v
      /\ call \in SelectCall /\ left \in SUBSET (1 .. Len(call.coins))
      /\ spend_val \in Nat /\ fee \in Nat
  BY LimitsAssumption DEF TakeSufficient, SelectInv, SelectTypeOK
<1>2. Need \in Int
  <2>1. call.required \in Int
    BY <1>1 DEF SelectCall
  <2> QED BY <1>1, <2>1 DEF Need, CurrentRequired
<1>3. \A j \in 1 .. Len(call.coins) :
        call.coins[j].v \in Nat /\ call.coins[j].nHeight \in Int
  BY <1>1, CoinListType
<1>4. s \in ScanStops(left, Need)
  <2>1. Front(left) \in left
    BY <1>1, FrontIsFirst
  <2>2. Front(left) \in 1 .. Len(call.coins)
    BY <1>1, <2>1
  <2>3. call.coins[Front(left)].v \in Nat
    BY <1>3, <2>2
  <2>4. call.coins[Front(left)].v >= Need
    BY <1>1, <1>2, <2>3
  <2> QED BY <1>1, <1>2, <2>1, <2>4, ScanFinds
<1> HIDE DEF s
<1>5. /\ s \in left /\ call.coins[s].v >= Need
      /\ \A j \in left : Precedes(j, s) => call.coins[j].v # call.coins[s].v
  BY <1>4 DEF ScanStops
<1>6. ~(call.coins[s].v < Need)
  BY <1>1, <1>2, <1>3, <1>5
<1>7. \A j \in left \ {s} : call.coins[s].v = call.coins[j].v
                              => call.coins[s].nHeight <= call.coins[j].nHeight
  <2> SUFFICES ASSUME NEW j \in left \ {s}, call.coins[s].v = call.coins[j].v
               PROVE  call.coins[s].nHeight <= call.coins[j].nHeight
    OBVIOUS
  <2>1. ~Precedes(j, s)
    BY <1>5
  <2>2. j \in 1 .. Len(call.coins) /\ s \in 1 .. Len(call.coins) /\ j # s
    BY <1>1, <1>5
  <2>3. Precedes(s, j)
    BY <1>1, <2>1, <2>2, PrecedesOrders
  <2>4. /\ call.coins[j].v \in Nat /\ call.coins[j].nHeight \in Int
        /\ call.coins[s].v \in Nat /\ call.coins[s].nHeight \in Int
    BY <1>3, <2>2
  <2> QED BY <2>3, <2>4 DEF Precedes
<1> QED BY <1>1, <1>5, <1>6, <1>7, ChooseInv

\* The rest of the fee loop: the fee it keeps is the least, the fee it raises
\* is still a lower bound, and each of its exceptions is justified.
LEMMA FinishRoundInv == ASSUME SelectInv, FinishRound PROVE SelectInv'
<1> DEFINE n == Cardinality(picked)
           size == EstimatedSize(call, n)
           last == fee >= size \/ call.subtractFee
<1>1. /\ at = "take" /\ (Need <= 0 \/ left = {})
      /\ call' = call /\ left' = left /\ picked' = picked /\ spend_val' = spend_val
  BY DEF FinishRound
<1>2. /\ call \in SelectCall /\ fee \in Nat /\ fee <= MaxSize /\ err = "none"
      /\ spend_val \in Nat /\ picked \in Choices
      /\ picked \cup left = 1 .. Len(call.coins)
      /\ spend_val = Value(call.coins, picked)
      /\ call.version \in {"V1", "V2"} /\ MoneyRange(call.required)
      /\ call.subtractFee => fee = 0
      /\ Balance(call.coins) <= MaxMoney /\ CurrentRequired <= Balance(call.coins)
  BY <1>1, LimitsAssumption
  DEF SelectInv, SelectTypeOK, SelectionAccounted, ChecksPassed, Choices
<1>3. /\ call.required \in Nat /\ call.subtractFee \in BOOLEAN
      /\ CurrentRequired \in Int
  <2>1. call.required \in Int /\ call.subtractFee \in BOOLEAN
    BY <1>2 DEF SelectCall
  <2> QED BY <1>2, <2>1 DEF MoneyRange, CurrentRequired
<1>4. n \in Nat /\ size \in Nat \ {0} /\ IsFiniteSet(picked)
  BY <1>2, ChoiceFacts, ChoiceSize DEF Choices
<1>5. Need <= 0 /\ spend_val >= CurrentRequired
  <2>1. CASE left = {}
    <3>1. spend_val = Balance(call.coins)
      BY <1>2, <2>1 DEF Balance
    <3> QED BY <1>2, <1>3, <3>1 DEF Need
  <2>2. CASE Need <= 0
    BY <1>2, <1>3, <2>2 DEF Need
  <2> QED BY <1>1, <2>1, <2>2
<1>6. \A S \in Choices : Pays(S) =>
        /\ n <= Cardinality(S) /\ Cardinality(S) \in Nat
        /\ size <= EstimatedSize(call, Cardinality(S))
        /\ EstimatedSize(call, Cardinality(S)) \in Nat
  <2> SUFFICES ASSUME NEW S \in Choices, Pays(S)
               PROVE  /\ n <= Cardinality(S) /\ Cardinality(S) \in Nat
                      /\ size <= EstimatedSize(call, Cardinality(S))
                      /\ EstimatedSize(call, Cardinality(S)) \in Nat
    BY Zenon
  <2>1. Value(call.coins, S) >= CurrentRequired
    BY <1>1, PayingCovers
  <2>2. n <= Cardinality(S)
    BY <1>1, <2>1 DEF SelectInv, PickedFewest
  <2>3. Cardinality(S) \in Nat
    BY <1>2, ChoiceFacts
  <2> HIDE DEF n
  <2>4. EstimatedSize(call, n) <= EstimatedSize(call, Cardinality(S))
    BY <1>2, <1>4, <2>2, <2>3, SizeMonotone
  <2>5. EstimatedSize(call, Cardinality(S)) \in Nat
    BY <1>2, <2>3, SizeMonotone
  <2> QED BY <2>2, <2>3, <2>4, <2>5
<1>7. ~(last /\ Need > 0)
  <2>1. Need \in Int
    BY <1>2, <1>3 DEF Need
  <2> QED BY <1>5, <2>1
<1>8. CASE ~InputCountOK(n) \/ size > MaxSize
  <2>1. /\ at' = "error" /\ fee' = fee
        /\ err' \in {"bad V2 input count", "size out of range"}
    BY <1>8 DEF FinishRound, Throw
  <2>2. SelectTypeOK' /\ ChecksPassed'
    <3>1. err' \in SelectErrors /\ err' # "none"
      BY <2>1 DEF SelectErrors
    <3> QED BY <1>1, <2>1, <3>1 DEF SelectInv, SelectTypeOK, ChecksPassed
  <2>3. SelectionAccounted' /\ FeeIsLowerBound' /\ PickedDominate'
        /\ PickedFewest' /\ LeastFee' /\ OldestFirst' /\ NeverShort'
    BY <2>1 DEF SelectionAccounted, FeeIsLowerBound, PickedDominate,
      PickedFewest, LeastFee, OldestFirst, NeverShort
  <2>4. FailureIsReal'
    <3> SUFFICES ASSUME ~(call.version = "V2" /\ call.required = 0),
                        NEW S \in Choices, Pays(S),
                        EstimatedSize(call, Cardinality(S)) <= MaxSize,
                        call.version = "V2" => Cardinality(S) \in 1 .. MaxChaumV2Inputs
                 PROVE  FALSE
      BY <1>1, Zenon DEF FailureIsReal, Payable, Choices, Pays
    <3>1. /\ n <= Cardinality(S) /\ Cardinality(S) \in Nat
          /\ size <= EstimatedSize(call, Cardinality(S))
          /\ EstimatedSize(call, Cardinality(S)) \in Nat
      BY <1>6
    <3>2. ~(size > MaxSize)
      BY <1>4, <3>1, LimitsAssumption
    <3>3. call.version = "V2" => n <= MaxChaumV2Inputs
      BY <1>4, <3>1, LimitsAssumption
    <3>4. call.version = "V2" => n # 0
      <4> SUFFICES ASSUME call.version = "V2", n = 0 PROVE FALSE
        OBVIOUS
      <4>1. picked = {}
        BY <1>4, FS_EmptySet
      <4>2. spend_val = 0
        <5>1. IsCoinList(call.coins)
          BY <1>2, CoinListType
        <5> QED BY <1>2, <4>1, <5>1, ValueEmpty
      <4>3. call.required > 0 /\ CurrentRequired >= call.required
        BY <1>2, <1>3 DEF CurrentRequired
      <4> QED BY <1>3, <1>5, <4>2, <4>3
    <3> QED BY <1>8, <3>2, <3>3, <3>4 DEF InputCountOK
  <2> QED BY <2>2, <2>3, <2>4 DEF SelectInv
<1>9. CASE InputCountOK(n) /\ ~(size > MaxSize)
  <2>1. /\ fee' = RaisedFee(size) /\ at' = (IF last THEN "ok" ELSE "round")
        /\ err' = "none"
    BY <1>2, <1>7, <1>9, Zenon DEF FinishRound
  <2>2. /\ size <= MaxSize
        /\ last => fee' = size /\ Pays(picked) /\ CurrentRequired' = CurrentRequired
        /\ ~last => fee' = size /\ ~call.subtractFee
    <3>1. size <= MaxSize
      BY <1>4, <1>9, LimitsAssumption
    <3>2. CASE call.subtractFee
      <4>1. fee = 0 /\ ~(fee >= size) /\ last
        BY <1>2, <1>4, <3>2
      <4>2. fee' = size
        BY <2>1, <4>1 DEF RaisedFee
      <4>3. CurrentRequired = call.required /\ CurrentRequired' = CurrentRequired
        BY <1>1, <3>2 DEF CurrentRequired
      <4>4. Pays(picked)
        BY <1>2, <1>3, <1>5, <3>2, <4>3 DEF Pays
      <4> QED BY <3>1, <4>1, <4>2, <4>3, <4>4
    <3>3. CASE ~call.subtractFee /\ fee >= size
      <4>1. fee' = fee
        BY <2>1, <3>3 DEF RaisedFee
      <4>2. CurrentRequired = call.required + fee /\ CurrentRequired' = CurrentRequired
        BY <1>1, <3>3, <4>1 DEF CurrentRequired
      <4>3. Value(call.coins, picked) >= call.required + size
        BY <1>2, <1>3, <1>4, <1>5, <3>3, <4>2
      <4>4. Pays(picked)
        BY <3>3, <4>3 DEF Pays
      <4>5. fee <= size
        BY <1>1, <1>2, <3>3, <4>4 DEF SelectInv, FeeIsLowerBound
      <4>6. fee = size
        BY <1>2, <1>4, <3>3, <4>5
      <4> QED BY <3>1, <3>3, <4>1, <4>2, <4>4, <4>6
    <3>4. CASE ~call.subtractFee /\ ~(fee >= size)
      BY <2>1, <3>1, <3>4 DEF RaisedFee
    <3> QED BY <3>2, <3>3, <3>4
  <2>3. fee' = size
    BY <2>2
  <2>4. SelectTypeOK'
    <3>1. fee' \in 0 .. MaxSize /\ at' \in {"ok", "round"}
      BY <1>4, <2>1, <2>2, <2>3, LimitsAssumption
    <3> QED BY <1>1, <2>1, <3>1 DEF SelectInv, SelectTypeOK
  <2>5. SelectionAccounted' /\ OldestFirst'
    BY <1>1, <2>1 DEF SelectInv, SelectionAccounted, OldestFirst
  <2>6. ChecksPassed'
    BY <1>1, <1>2, <2>1, <2>2 DEF ChecksPassed, MoneyRange
  <2>7. FeeIsLowerBound'
    BY <1>1, <1>6, <2>1, <2>3, Zenon DEF FeeIsLowerBound, Choices, Pays
  <2>8. PickedDominate' /\ PickedFewest' /\ FailureIsReal' /\ NeverShort'
    BY <2>1 DEF PickedDominate, PickedFewest, FailureIsReal, NeverShort
  <2>9. LeastFee'
    <3>1. at' = "ok" => last
      BY <2>1
    <3> QED BY <1>1, <1>6, <2>2, <2>3, <3>1, Zenon DEF LeastFee, Pays, Choices
  <2> QED BY <2>4, <2>5, <2>6, <2>7, <2>8, <2>9 DEF SelectInv
<1> QED BY <1>8, <1>9

\* Every step of a call preserves the invariant.
LEMMA SelectStepInv == ASSUME SelectInv, SelectStep PROVE SelectInv'
BY StartRoundInv, TakeLargestInv, TakeSufficientInv, FinishRoundInv, Zenon
   DEF SelectStep

\* The inductive invariant holds for every wallet, amount, version and size
\* constant.
THEOREM SelectInvariant == SelectSpec => []SelectInv
<1>1. SelectInit => SelectInv
  BY SelectInitInv
<1>2. SelectInv /\ [SelectNext]_selectVars => SelectInv'
  <2> SUFFICES ASSUME SelectInv, [SelectNext]_selectVars PROVE SelectInv'
    OBVIOUS
  <2>1. CASE EstimateSparkFee
    BY <2>1, SelectEntryInv, CallsAssumption DEF EstimateSparkFee
  <2>2. CASE SelectStep
    BY <2>2, SelectStepInv
  <2>3. CASE Return
    BY <2>3, ReturnInv
  <2>4. CASE UNCHANGED selectVars
    BY <2>4, SelectStutterInv
  <2> QED BY <2>1, <2>2, <2>3, <2>4 DEF SelectNext
<1> QED BY <1>1, <1>2, PTL DEF SelectSpec

\* GetCoinsToSpend's CAmount sums and the unsigned size stay in range.
THEOREM SelectTypeCorrect == SelectSpec => []SelectTypeOK
BY SelectInvariant, PTL DEF SelectInv

\* GetCoinsToSpend loses no coin, takes none twice and adds up what it took.
THEOREM SelectionIsAccounted == SelectSpec => []SelectionAccounted
BY SelectInvariant, PTL DEF SelectInv

\* The fee loop returns a fixed point, and the one with the fewest inputs.
THEOREM FeeIsLeast == SelectSpec => []LeastFee
BY SelectInvariant, PTL DEF SelectInv

\* SelectSparkCoins throws only when no choice of the coins would do.
THEOREM FailuresAreReal == SelectSpec => []FailureIsReal
BY SelectInvariant, PTL DEF SelectInv

\* The guard against a negative changeToMint is never needed.
THEOREM NeverComesShort == SelectSpec => []NeverShort
BY SelectInvariant, PTL DEF SelectInv

\* Among coins of one amount the older block is spent first.
THEOREM OlderCoinsFirst == SelectSpec => []OldestFirst
BY SelectInvariant, PTL DEF SelectInv

-----------------------------------------------------------------------------
(***************************************************************************)
(* CREATING A SPEND.                                                       *)
(***************************************************************************)

-----------------------------------------------------------------------------
(***************************************************************************)
(* Requests.                                                               *)
(***************************************************************************)

\* A request's payments are one list, transparent ones first.
LEMMA PaymentsType ==
  ASSUME NEW r \in Request
  PROVE  /\ r.recipients \in Seq(Payment) /\ r.privateRecipients \in Seq(Payment)
         /\ Len(r.recipients) \in Nat /\ Len(r.privateRecipients) \in Nat
         /\ AllPayments(r) \in Seq(Payment)
         /\ Len(AllPayments(r)) = Len(r.recipients) + Len(r.privateRecipients)
         /\ \A i \in 1 .. Len(AllPayments(r)) : AllPayments(r)[i].amount \in Int
<1>1. r.recipients \in Seq(Payment) /\ r.privateRecipients \in Seq(Payment)
  BY DEF Request
<1>2. /\ Len(r.recipients) \in Nat /\ Len(r.privateRecipients) \in Nat
      /\ AllPayments(r) \in Seq(Payment)
      /\ Len(AllPayments(r)) = Len(r.recipients) + Len(r.privateRecipients)
  BY <1>1 DEF AllPayments
<1>3. \A i \in 1 .. Len(AllPayments(r)) : AllPayments(r)[i] \in Payment
  BY <1>2, ElementOfSeq
<1>4. \A p \in Payment : p.amount \in Int
  BY DEF Payment
<1> QED BY <1>1, <1>2, <1>3, <1>4

\* The amounts of a list of payments.
LEMMA AmountsType ==
  ASSUME NEW s \in Seq(Payment)
  PROVE  /\ Len(s) \in Nat
         /\ AmountsOf(s) \in Seq(Int) /\ Len(AmountsOf(s)) = Len(s)
         /\ \A i \in 1 .. Len(s) : AmountsOf(s)[i] = s[i].amount /\ s[i].amount \in Int
         /\ Sum(AmountsOf(s)) \in Int
<1>1. Len(s) \in Nat /\ \A i \in 1 .. Len(s) : s[i] \in Payment
  OBVIOUS
<1>2. \A p \in Payment : p.amount \in Int
  BY DEF Payment
<1>3. /\ AmountsOf(s) \in Seq(Int) /\ Len(AmountsOf(s)) = Len(s)
      /\ \A i \in 1 .. Len(s) : AmountsOf(s)[i] = s[i].amount /\ s[i].amount \in Int
  BY <1>1, <1>2 DEF AmountsOf
<1>4. \A n \in 0 .. Len(s) : Total(AmountsOf(s), n) \in Int
  BY <1>1, <1>3, TotalInt
<1>5. Total(AmountsOf(s), Len(s)) \in Int
  BY <1>1, <1>4
<1> QED BY <1>1, <1>3, <1>5 DEF Sum

\* The total of amounts that are not negative is none of them less than.
LEMMA TotalNat ==
  ASSUME NEW f, NEW N \in Nat, \A i \in 1 .. N : f[i] \in Nat
  PROVE  \A n \in 0 .. N : Total(f, n) \in Nat /\ Total(f, n) <= Total(f, N)
<1> DEFINE G == {m \in Nat : m <= N =>
                   Total(f, m) \in Nat /\ \A n \in 0 .. m : Total(f, n) <= Total(f, m)}
<1>1. 0 \in G
  BY TotalStep
<1>2. ASSUME NEW m \in Nat, m \in G PROVE m + 1 \in G
  <2> SUFFICES ASSUME m + 1 <= N
               PROVE  /\ Total(f, m + 1) \in Nat
                      /\ \A n \in 0 .. m + 1 : Total(f, n) <= Total(f, m + 1)
    OBVIOUS
  <2>1. Total(f, m + 1) = Total(f, m) + f[m + 1] /\ f[m + 1] \in Nat
    BY TotalStep
  <2>2. Total(f, m) \in Nat /\ \A n \in 0 .. m : Total(f, n) <= Total(f, m)
    BY <1>2
  <2>3. \A n \in 0 .. m : Total(f, n) \in Int
    BY TotalInt
  <2>4. ASSUME NEW n \in 0 .. m + 1 PROVE Total(f, n) <= Total(f, m + 1)
    <3>1. CASE n = m + 1
      BY <2>1, <2>2, <3>1
    <3>2. CASE n # m + 1
      <4>1. n \in 0 .. m
        BY <3>2
      <4> QED BY <2>1, <2>2, <2>3, <4>1
    <3> QED BY <3>1, <3>2
  <2> QED BY <2>1, <2>2, <2>4
<1> HIDE DEF G
<1>3. Nat \subseteq G
  BY <1>1, <1>2, Induction
<1>4. N \in G
  BY <1>3
<1>5. ASSUME NEW n \in 0 .. N PROVE Total(f, n) \in Nat
  <2>1. n \in G /\ n <= N
    BY <1>3
  <2> QED BY <2>1 DEF G
<1> QED BY <1>4, <1>5 DEF G

\* What CallOf passes on is a call of SelectSparkCoins.
LEMMA CallOfType ==
  ASSUME NEW r \in Request
  PROVE  CallOf(r) \in SelectCall
<1>1. /\ Len(r.recipients) \in Nat /\ Len(r.privateRecipients) \in Nat
      /\ AllPayments(r) \in Seq(Payment)
  BY PaymentsType
<1>2. Sum(AmountsOf(AllPayments(r))) \in Int
  BY <1>1, AmountsType
<1>3. /\ r.coins \in Seq(CoinMeta) /\ r.additional \in Nat
      /\ r.version \in {"V1", "V2", "unknown"}
  BY DEF Request
<1> QED BY <1>1, <1>2, <1>3 DEF CallOf, SelectCall

\* What the checks of the request establish.
LEMMA RequestChecked ==
  ASSUME NEW r \in Request, RequestError(r) = "none"
  PROVE  /\ r.version \in {"V1", "V2"}
         /\ Len(r.privateRecipients) < SparkOutLimit - 1
         /\ \A i \in 1 .. Len(AllPayments(r)) : AllPayments(r)[i].amount \in Nat
         /\ Sum(AmountsOf(AllPayments(r))) \in 0 .. MaxMoney
         /\ MoneyRange(CallOf(r).required)
<1>1. /\ AllPayments(r) \in Seq(Payment) /\ Len(AllPayments(r)) \in Nat
      /\ Len(r.privateRecipients) \in Nat
      /\ \A i \in 1 .. Len(AllPayments(r)) : AllPayments(r)[i].amount \in Int
  BY PaymentsType, LenProperties
<1>2. /\ r.version \in {"V1", "V2"} /\ ~BadAmounts(AllPayments(r))
      /\ ~(Len(r.privateRecipients) >= SparkOutLimit - 1)
  BY DEF RequestError
<1>3. Len(r.privateRecipients) < SparkOutLimit - 1
  BY <1>1, <1>2, OutputLimitsAssumption
<1>4. \A i \in 1 .. Len(AllPayments(r)) : AllPayments(r)[i].amount \in Nat
  BY <1>1, <1>2 DEF BadAmounts, MoneyRange
<1>5. /\ Sum(AmountsOf(AllPayments(r))) \in Int
      /\ Len(AmountsOf(AllPayments(r))) = Len(AllPayments(r))
      /\ \A i \in 1 .. Len(AllPayments(r)) :
           AmountsOf(AllPayments(r))[i] = AllPayments(r)[i].amount
  BY <1>1, AmountsType
<1>6. \A n \in 0 .. Len(AllPayments(r)) : Total(AmountsOf(AllPayments(r)), n) \in Nat
  BY <1>1, <1>4, <1>5, TotalNat
<1>7. Sum(AmountsOf(AllPayments(r))) \in Nat
  BY <1>1, <1>5, <1>6 DEF Sum
<1>8. Sum(AmountsOf(AllPayments(r))) <= MaxMoney
  BY <1>2, <1>7, LimitsAssumption DEF BadAmounts
<1> QED BY <1>2, <1>3, <1>4, <1>7, <1>8, LimitsAssumption DEF MoneyRange, CallOf

-----------------------------------------------------------------------------
(***************************************************************************)
(* The fee split.                                                          *)
(***************************************************************************)

\* Subsets of a list's positions are finite.
LEMMA PositionsFinite ==
  ASSUME NEW N \in Nat, NEW S \in SUBSET (1 .. N)
  PROVE  IsFiniteSet(S) /\ Cardinality(S) \in Nat /\ Cardinality(S) <= N
<1>1. IsFiniteSet(1 .. N) /\ Cardinality(1 .. N) = N
  BY FS_Interval
<1> QED BY <1>1, FS_Subset, FS_CardinalityType

\* Equal amounts at some positions of a list.
LEMMA TotalEqual ==
  ASSUME NEW N \in Nat, NEW S \in SUBSET (1 .. N), NEW c \in Int
  PROVE  Total([i \in 1 .. N |-> IF i \in S THEN c ELSE 0], N) = Cardinality(S) * c
<1> DEFINE f == [i \in 1 .. N |-> IF i \in S THEN c ELSE 0]
           upTo(m) == S \cap (1 .. m)
           G == {m \in Nat : m <= N => Total(f, m) = Cardinality(upTo(m)) * c}
<1>1. 0 \in G
  <2>1. upTo(0) = {}
    OBVIOUS
  <2>2. Cardinality(upTo(0)) * c = 0
    BY <2>1, FS_EmptySet
  <2> QED BY <2>2, TotalStep
<1>2. ASSUME NEW m \in Nat, m \in G PROVE m + 1 \in G
  <2> SUFFICES ASSUME m + 1 <= N
               PROVE  Total(f, m + 1) = Cardinality(upTo(m + 1)) * c
    OBVIOUS
  <2>1. Total(f, m + 1) = Cardinality(upTo(m)) * c + f[m + 1]
    <3> HIDE DEF f, upTo
    <3>1. Total(f, m) = Cardinality(upTo(m)) * c
      BY <1>2
    <3> QED BY <3>1, TotalStep
  <2>2. IsFiniteSet(upTo(m)) /\ Cardinality(upTo(m)) \in Nat
    BY PositionsFinite
  <2>3. CASE m + 1 \in S
    <3>1. upTo(m + 1) = upTo(m) \cup {m + 1} /\ m + 1 \notin upTo(m)
      BY <2>3
    <3>2. Cardinality(upTo(m + 1)) = Cardinality(upTo(m)) + 1
      BY <2>2, <3>1, FS_AddElement
    <3>3. f[m + 1] = c
      BY <2>3
    <3> HIDE DEF f, upTo
    <3> QED BY <2>1, <2>2, <3>2, <3>3
  <2>4. CASE m + 1 \notin S
    <3>1. upTo(m + 1) = upTo(m) /\ f[m + 1] = 0
      BY <2>4
    <3> HIDE DEF f, upTo
    <3>2. Cardinality(upTo(m)) * c \in Int
      BY <2>2
    <3> QED BY <2>1, <3>1, <3>2
  <2> QED BY <2>3, <2>4
<1> HIDE DEF G
<1>3. N \in G
  BY <1>1, <1>2, Induction
<1>4. upTo(N) = S
  OBVIOUS
<1>5. Total(f, N) = Cardinality(upTo(N)) * c
  <2> HIDE DEF f, upTo
  <2> QED BY <1>3 DEF G
<1> QED BY <1>4, <1>5

\* Quotient and remainder.
LEMMA Division ==
  ASSUME NEW a \in Nat, NEW n \in Nat \ {0}
  PROVE  /\ a \div n \in Nat /\ a % n \in 0 .. n - 1
         /\ n * (a \div n) + (a % n) = a
OBVIOUS

\* A nonempty set of positions has a first and a last one.
LEMMA EndsOfPositions ==
  ASSUME NEW N \in Nat, NEW S \in SUBSET (1 .. N), S # {}
  PROVE  /\ \E i \in S : \A j \in S : i <= j
         /\ \E i \in S : \A j \in S : j <= i
<1>1. \E i \in S : \A j \in S : i <= j
  <2>1. S \subseteq Nat
    OBVIOUS
  <2> QED BY <2>1, LeastNat
<1> DEFINE T == {N - i : i \in S}
<1>2. T \subseteq Nat /\ T # {}
  <2>1. \A i \in S : i \in 1 .. N /\ N - i \in Nat
    OBVIOUS
  <2> QED BY <2>1, Zenon
<1>3. PICK t \in T : \A u \in T : t <= u
  BY <1>2, LeastNat
<1>4. PICK i \in S : t = N - i
  OBVIOUS
<1>5. ASSUME NEW j \in S PROVE j <= i
  <2>1. t <= N - j
    BY <1>3
  <2> QED BY <1>4, <2>1
<1> QED BY <1>1, <1>5

\* The shares of the fee add up to the fee, and none exceeds another by as
\* much as their number.
LEMMA FeeIsSplit ==
  ASSUME req \in Request, fee \in Nat
  PROVE  LET N == Len(AllPayments(req))
             bearers == FeeBearers(req)
         IN  /\ \A i \in 1 .. N : FeeToSubtract(i) \in Nat
             /\ \A i \in (1 .. N) \ bearers : FeeToSubtract(i) = 0
             /\ \A i, j \in bearers :
                  FeeToSubtract(i) - FeeToSubtract(j) < Cardinality(bearers)
             /\ Total([i \in 1 .. N |-> FeeToSubtract(i)], N) =
                  IF bearers = {} THEN 0 ELSE fee
<1> DEFINE N == Len(AllPayments(req))
           bearers == FeeBearers(req)
           n == Cardinality(bearers)
           q == fee \div n
           share == [i \in 1 .. N |-> FeeToSubtract(i)]
<1>1. N \in Nat /\ bearers \in SUBSET (1 .. N)
  BY PaymentsType, LenProperties DEF FeeBearers
<1>2. IsFiniteSet(bearers) /\ n \in Nat
  BY <1>1, PositionsFinite
<1>3. CASE bearers = {}
  <2>1. \A i \in 1 .. N : FeeToSubtract(i) = 0
    BY <1>3 DEF FeeToSubtract
  <2>2. Total(share, N) = 0
    <3>1. CASE N = 0
      BY <3>1, TotalStep
    <3>2. CASE N # 0
      <4>1. 1 \in 1 .. N /\ \A i \in 1 .. N : share[i] = 0
        BY <1>1, <2>1, <3>2
      <4> QED BY <1>1, <4>1, TotalSingle
    <3> QED BY <3>1, <3>2
  <2> QED BY <1>3, <2>1, <2>2
<1>4. CASE bearers # {}
  <2>1. n \in Nat \ {0}
    BY <1>2, <1>4, FS_EmptySet
  <2>2. q \in Nat /\ fee % n \in 0 .. n - 1 /\ n * q + (fee % n) = fee
    BY <2>1, Division
  <2>3. PICK first \in bearers : \A j \in bearers : first <= j
    BY <1>1, <1>4, EndsOfPositions
  <2>4. \A i \in bearers : FeeToSubtract(i) = q + IF i = first THEN fee % n ELSE 0
    <3> SUFFICES ASSUME NEW i \in bearers
                 PROVE  (\A j \in bearers : i <= j) <=> i = first
      BY DEF FeeToSubtract
    <3> QED BY <1>1, <2>3
  <2>5. \A i \in (1 .. N) \ bearers : FeeToSubtract(i) = 0
    BY DEF FeeToSubtract
  <2> DEFINE base == [i \in 1 .. N |-> IF i \in bearers THEN q ELSE 0]
             rest == [i \in 1 .. N |-> IF i = first THEN fee % n ELSE 0]
  <2>6. Total(base, N) = n * q
    BY <1>1, <2>2, TotalEqual
  <2>7. Total(rest, N) = fee % n
    <3>1. /\ first \in 1 .. N /\ rest[first] = fee % n /\ rest[first] \in Int
          /\ \A i \in 1 .. N : i # first => rest[i] = 0
      BY <1>1, <2>2
    <3> QED BY <1>1, <3>1, TotalSingle
  <2>8. \A i \in 1 .. N :
          base[i] \in Int /\ rest[i] \in Int /\ share[i] = base[i] + rest[i]
    <3> HIDE DEF q, n, bearers, N
    <3> QED BY <2>2, <2>4, <2>5
  <2>9. Total(share, N) = fee
    <3> HIDE DEF base, rest, share, q, n, N
    <3>1. Total(share, N) = Total(base, N) + Total(rest, N)
      BY <1>1, <2>8, TotalAdd
    <3> QED BY <2>2, <2>6, <2>7, <3>1
  <2>10. \A i, j \in bearers : FeeToSubtract(i) - FeeToSubtract(j) < n
    <3> HIDE DEF q, n, bearers
    <3> QED BY <2>1, <2>2, <2>4
  <2>11. \A i \in 1 .. N : FeeToSubtract(i) \in Nat
    <3> HIDE DEF q, n, bearers, N
    <3> QED BY <2>1, <2>2, <2>4, <2>5
  <2> QED BY <1>4, <2>5, <2>9, <2>10, <2>11
<1> QED BY <1>3, <1>4

-----------------------------------------------------------------------------
(***************************************************************************)
(* The inductive invariant.                                                *)
(***************************************************************************)

\* Which variables have been set at which control point.
Control ==
  /\ pc = "idle" => at = "idle" /\ req = NoRequest
  /\ pc = "select" => at # "idle"
  /\ pc \in {"fill", "inputs", "done"} => at = "ok"
  /\ pc = "failed" => at \in {"idle", "ok"}
  /\ pc \in {"idle", "select"} => paid = <<>>
  /\ pc \in {"idle", "select", "fill"} =>
       transparentOut = 0 /\ outs = {} /\ change = 0 /\ todo = {} /\ groups = {}

\* The request has passed its checks, and selection works on its call.
RequestTaken ==
  pc \in {"select", "fill", "inputs", "done"} =>
    RequestError(req) = "none" /\ call = CallOf(req)

\* A selection that succeeded respects the V2 limit.
CountChecked == at = "ok" => InputCountOK(Cardinality(picked))

OutputsFilled ==
  pc \in {"inputs", "done"} =>
    transparentOut = Total(paid, Len(req.recipients)) /\ outs = PrivateOutputs

\* The inputs made so far, and what their checks have established.
InputsMade ==
  pc \in {"inputs", "done"} =>
    /\ groups = {call.coins[i].nId : i \in picked \ todo}
    /\ \A i \in picked \ todo : InputError(i) = "none"

BuildChecked == pc = "done" => todo = {} /\ BuildError = "none"

SpendInv ==
  /\ SelectInv
  /\ SpendTypeOK
  /\ Control
  /\ RequestTaken
  /\ CountChecked
  /\ FeeBorneExactly
  /\ OutputsFilled
  /\ ValueConserved
  /\ InputsMade
  /\ BuildChecked
  /\ RepeatedChecksHold

\* There is no request in the initial state.
LEMMA NoRequestType == NoRequest \in Request
<1>1. /\ <<>> \in Seq(Payment) /\ <<>> \in Seq(CoinMeta)
      /\ <<>> \in Seq(CoverSet)
  OBVIOUS
<1> QED BY <1>1 DEF NoRequest, Request

\* The state with nothing to do, at the beginning and after each call.
LEMMA SpendIdle ==
  ASSUME SelectInv, at = "idle",
         pc = "idle" /\ req = NoRequest /\ paid = <<>> /\ transparentOut = 0,
         outs = {} /\ change = 0 /\ todo = {} /\ groups = {} /\ reason = "none"
  PROVE  SpendInv
<1>1. SpendTypeOK
  BY NoRequestType, LimitsAssumption DEF SpendTypeOK, SelectInv
<1> QED
  BY <1>1
  DEF SpendInv, Control, RequestTaken, CountChecked, FeeBorneExactly,
      OutputsFilled, ValueConserved, InputsMade, BuildChecked, RepeatedChecksHold

LEMMA SpendInitInv == Init => SpendInv
BY SelectInitInv, SpendIdle DEF Init, SelectInit

\* ReturnSpend goes back to it.
LEMMA ReturnSpendInv == ASSUME ReturnSpend PROVE SpendInv'
<1>1. /\ at' = "idle" /\ call' = NoCall /\ err' = "none"
      /\ fee' = 0 /\ left' = {} /\ picked' = {} /\ spend_val' = 0
      /\ pc' = "idle" /\ req' = NoRequest /\ paid' = <<>> /\ transparentOut' = 0
      /\ outs' = {} /\ change' = 0 /\ todo' = {} /\ groups' = {} /\ reason' = "none"
  BY DEF ReturnSpend
<1>2. SelectInv'
  BY <1>1, SelectResetInv
<1>3. SpendTypeOK'
  BY <1>1, <1>2, NoRequestType, LimitsAssumption DEF SpendTypeOK, SelectInv
<1> QED
  BY <1>1, <1>2, <1>3
  DEF SpendInv, Control, RequestTaken, CountChecked, FeeBorneExactly,
      OutputsFilled, ValueConserved, InputsMade, BuildChecked, RepeatedChecksHold

\* A request is taken or refused.
LEMMA CreateSparkSpendInv ==
  ASSUME SpendInv, NEW r \in Request, CreateSparkSpend(r)
  PROVE  SpendInv'
<1>1. /\ pc = "idle" /\ at = "idle" /\ req' = r
      /\ paid' = <<>> /\ transparentOut' = 0 /\ outs' = {} /\ change' = 0
      /\ todo' = {} /\ groups' = {} /\ reason = "none"
  BY DEF CreateSparkSpend, SpendInv, Control, SpendTypeOK
<1>2. CASE RequestError(r) = "none"
  <2>1. SelectSparkCoins(CallOf(r)) /\ pc' = "select" /\ reason' = "none"
    BY <1>1, <1>2 DEF CreateSparkSpend
  <2>2. CallOf(r) \in SelectCall
    BY CallOfType
  <2>3. SelectInv'
    BY <2>1, <2>2, SelectEntryInv DEF SpendInv
  <2>4. call' = CallOf(r) /\ at' \in {"round", "error"}
    BY <2>1 DEF SelectSparkCoins, Throw
  <2>5. SpendTypeOK'
    BY <1>1, <2>1, <2>3, LimitsAssumption DEF SpendTypeOK, SelectInv
  <2> QED
    BY <1>1, <1>2, <2>1, <2>3, <2>4, <2>5
    DEF SpendInv, Control, RequestTaken, CountChecked, FeeBorneExactly,
        OutputsFilled, ValueConserved, InputsMade, BuildChecked, RepeatedChecksHold
<1>3. CASE RequestError(r) # "none"
  <2>1. pc' = "failed" /\ reason' = RequestError(r) /\ UNCHANGED selectVars
    BY <1>3 DEF CreateSparkSpend, ThrowInSpend
  <2>2. SelectInv' /\ at' = "idle"
    BY <1>1, <2>1, SelectStutterInv DEF SpendInv, selectVars
  <2>3. /\ reason' \in SpendErrors
        /\ reason' \notin {"unable to create spend", "missing V2 cover-set reference",
                           "bad V2 dimensions"}
    BY <1>3, <2>1 DEF RequestError, SpendErrors
  <2>4. SpendTypeOK'
    <3>1. reason' # "none"
      BY <1>3, <2>1
    <3>2. pc' = "failed" /\ SelectTypeOK'
      BY <2>1, <2>2 DEF SelectInv
    <3>3. reason' \in SpendErrors' \cup {"none"}
      BY <2>3 DEF SpendErrors
    <3>4. req' \in Request'
      BY <1>1
    <3>5. paid' \in Seq(Nat) /\ transparentOut' \in 0 .. MaxMoney /\ outs' \subseteq 1 .. Len(paid')
      BY <1>1, LimitsAssumption
    <3>6. change' \in Int /\ todo' \subseteq picked' /\ groups' \subseteq Nat
      BY <1>1
    <3> QED BY <3>1, <3>2, <3>3, <3>4, <3>5, <3>6 DEF SpendTypeOK
  <2> QED
    BY <1>1, <2>1, <2>2, <2>3, <2>4
    DEF SpendInv, Control, RequestTaken, CountChecked, FeeBorneExactly,
        OutputsFilled, ValueConserved, InputsMade, BuildChecked, RepeatedChecksHold
<1> QED BY <1>2, <1>3

\* A step of the selection.
LEMMA SelectionInv ==
  ASSUME SpendInv, SelectStep, UNCHANGED spendVars
  PROVE  SpendInv'
<1>1. /\ pc = "select" /\ at \in {"round", "take"} /\ call' = call
      /\ at' \in {"round", "take", "ok", "error"}
      /\ todo = {}
  BY DEF SpendInv, Control, SpendTypeOK, SelectStep, StartRound, TakeLargest,
         TakeSufficient, FinishRound, Choose, Throw
<1>2. SelectInv'
  BY SelectStepInv DEF SpendInv
<1>3. CountChecked'
  <2>1. CASE at' # "ok"
    BY <2>1 DEF CountChecked
  <2>2. CASE at' = "ok"
    <3>1. FinishRound
      BY <1>1, <2>2
      DEF SelectStep, StartRound, TakeLargest, TakeSufficient, Choose, Throw
    <3>2. picked' = picked /\ InputCountOK(Cardinality(picked))
      BY <2>2, <3>1 DEF FinishRound, Throw
    <3> QED BY <1>1, <3>2 DEF CountChecked, InputCountOK
  <2> QED BY <2>1, <2>2
<1>4. SpendTypeOK'
  BY <1>1, <1>2 DEF SpendInv, SpendTypeOK, SelectInv, spendVars
<1>5. pc' = "select" /\ UNCHANGED spendVars
  BY <1>1 DEF spendVars
<1>6. Control' /\ RequestTaken' /\ RepeatedChecksHold'
  BY <1>1, <1>5 DEF SpendInv, Control, RequestTaken, RepeatedChecksHold, spendVars
<1> QED
  BY <1>2, <1>3, <1>4, <1>5, <1>6
  DEF SpendInv, FeeBorneExactly, OutputsFilled, ValueConserved, InputsMade,
      BuildChecked

\* What a successful selection hands to the rest of the call.
LEMMA SelectedFacts ==
  ASSUME SpendInv, at = "ok", pc \in {"select", "fill", "inputs", "done"}
  PROVE  /\ req \in Request /\ RequestError(req) = "none"
         /\ call \in SelectCall /\ call = CallOf(req)
         /\ fee \in Nat /\ fee = EstimatedSize(call, Cardinality(picked))
         /\ picked \in Choices
         /\ IsFiniteSet(picked) /\ Cardinality(picked) \in Nat
         /\ Value(call.coins, picked) \in Nat
         /\ call.required = Sum(AmountsOf(AllPayments(req)))
         /\ call.required \in Nat
         /\ CurrentRequired = call.required + IF FeeBearers(req) = {} THEN fee ELSE 0
         /\ Value(call.coins, picked) >= CurrentRequired
<1>1. /\ req \in Request /\ RequestError(req) = "none"
      /\ call \in SelectCall /\ call = CallOf(req)
      /\ fee \in Nat /\ picked \in Choices
      /\ Pays(picked) /\ fee = EstimatedSize(call, Cardinality(picked))
  BY LimitsAssumption
  DEF SpendInv, SpendTypeOK, SelectTypeOK, SelectInv, LeastFee, RequestTaken, Choices
<1>2. /\ IsFiniteSet(picked) /\ Cardinality(picked) \in Nat
      /\ Value(call.coins, picked) \in Nat
  BY <1>1, ChoiceFacts
<1>3. /\ call.required = Sum(AmountsOf(AllPayments(req)))
      /\ call.subtractFee = (FeeBearers(req) # {})
  BY <1>1 DEF CallOf
<1>4. call.required \in Nat
  BY <1>1, <1>3, RequestChecked
<1>5. CurrentRequired = call.required + IF FeeBearers(req) = {} THEN fee ELSE 0
  <2>1. CASE FeeBearers(req) = {}
    BY <1>3, <2>1 DEF CurrentRequired
  <2>2. CASE FeeBearers(req) # {}
    <3>1. call.subtractFee
      BY <1>3, <2>2, Zenon
    <3>2. CurrentRequired = call.required
      BY <3>1, Zenon DEF CurrentRequired
    <3> QED BY <1>4, <2>2, <3>2
  <2> QED BY <2>1, <2>2
<1>6. Value(call.coins, picked) >= CurrentRequired
  BY <1>1, <1>2, <1>3, <1>4, <1>5 DEF Pays
<1> QED BY <1>1, <1>2, <1>3, <1>4, <1>5, <1>6

\* The selection is over: its part of the invariant is left alone.
LEMMA SelectionKept ==
  ASSUME SpendInv, UNCHANGED selectVars
  PROVE  SelectInv' /\ CountChecked'
<1>1. SelectInv'
  BY SelectStutterInv DEF SpendInv
<1>2. CountChecked'
  BY DEF SpendInv, CountChecked, InputCountOK, selectVars
<1> QED BY <1>1, <1>2

\* A throw leaves the control points at which the rest is claimed.
LEMMA ThrowInv ==
  ASSUME SpendInv, UNCHANGED selectVars, at = "ok", pc' = "failed",
         UNCHANGED req, paid' \in Seq(Nat), transparentOut' \in 0 .. MaxMoney,
         outs' \subseteq 1 .. Len(paid'), change' \in Int, todo' \subseteq picked,
         groups' \subseteq Nat, reason' \in SpendErrors,
         reason' \notin {"unable to create spend", "missing V2 cover-set reference",
                         "bad V2 dimensions"}
  PROVE  SpendInv'
<1>1. SelectInv' /\ CountChecked'
  BY SelectionKept
<1>2. reason' # "none" /\ reason' \in SpendErrors' \cup {"none"}
  BY DEF SpendErrors
<1>3. req' \in Request' /\ picked' = picked /\ at' = "ok"
  BY DEF SpendInv, SpendTypeOK, selectVars
<1>4. SpendTypeOK'
  BY <1>1, <1>2, <1>3 DEF SpendTypeOK, SelectInv
<1> QED
  BY <1>1, <1>3, <1>4
  DEF SpendInv, Control, RequestTaken, FeeBorneExactly, OutputsFilled,
      ValueConserved, InputsMade, BuildChecked, RepeatedChecksHold

\* The fee is taken out of the payments.
LEMMA DeductFeeInv == ASSUME SpendInv, DeductFee PROVE SpendInv'
<1> DEFINE payments == AllPayments(req)
           N == Len(payments)
           wanted == AmountsOf(payments)
           share == [i \in 1 .. N |-> FeeToSubtract(i)]
           bearers == FeeBearers(req)
<1>1. /\ pc = "select" /\ at = "ok" /\ UNCHANGED selectVars /\ req' = req
      /\ paid = <<>> /\ reason = "none"
      /\ transparentOut' = 0 /\ outs' = {} /\ change' = 0 /\ todo' = {} /\ groups' = {}
  BY DEF DeductFee, SpendInv, Control, SpendTypeOK
<1>2. /\ req \in Request /\ RequestError(req) = "none" /\ fee \in Nat
      /\ call = CallOf(req)
  BY <1>1, SelectedFacts
<1>3. CASE pc' = "failed"
  <2>1. /\ paid' = <<>>
        /\ reason' \in {"V1 requires one input", "amount too small after fee deduction"}
    BY <1>1, <1>3 DEF DeductFee, ThrowInSpend
  <2>2. /\ reason' \in SpendErrors
        /\ reason' \notin {"unable to create spend", "missing V2 cover-set reference",
                           "bad V2 dimensions"}
    BY <2>1 DEF SpendErrors
  <2>3. /\ paid' \in Seq(Nat) /\ transparentOut' \in 0 .. MaxMoney
        /\ outs' \subseteq 1 .. Len(paid') /\ change' \in Int
        /\ todo' \subseteq picked /\ groups' \subseteq Nat
    <3>1. <<>> \in Seq(Nat) /\ 0 \in 0 .. MaxMoney
      BY LimitsAssumption
    <3>2. paid' \in Seq(Nat) /\ transparentOut' \in 0 .. MaxMoney
      BY <1>1, <2>1, <3>1, Zenon
    <3> QED BY <1>1, <3>2
  <2> QED BY <1>1, <1>3, <2>2, <2>3, ThrowInv
<1>4. CASE pc' # "failed"
  <2>1. /\ pc' = "fill" /\ reason' = "none"
        /\ paid' = [i \in 1 .. N |-> payments[i].amount - FeeToSubtract(i)]
        /\ \A i \in bearers : ~TooSmall(i)
    BY <1>1, <1>4 DEF DeductFee, ThrowInSpend
  <2>2. /\ payments \in Seq(Payment) /\ N \in Nat
        /\ \A i \in 1 .. N : payments[i].amount \in Nat
        /\ bearers \in SUBSET (1 .. N)
    BY <1>2, PaymentsType, RequestChecked, LenProperties DEF FeeBearers
  <2>3. /\ Len(wanted) = N /\ Sum(wanted) \in Int
        /\ \A i \in 1 .. N : wanted[i] = payments[i].amount
    BY <2>2, AmountsType
  <2>4. /\ \A i \in 1 .. N : FeeToSubtract(i) \in Nat
        /\ \A i \in (1 .. N) \ bearers : FeeToSubtract(i) = 0
        /\ \A i, j \in bearers :
             FeeToSubtract(i) - FeeToSubtract(j) < Cardinality(bearers)
        /\ Total(share, N) = IF bearers = {} THEN 0 ELSE fee
    BY <1>2, FeeIsSplit
  <2>5. \A i \in bearers : payments[i].amount > FeeToSubtract(i)
    BY <2>1, <2>2, <2>4 DEF TooSmall
  <2>6. /\ \A i \in 1 .. N :
             /\ paid'[i] = wanted[i] - FeeToSubtract(i)
             /\ paid'[i] \in Nat /\ wanted[i] \in Nat
        /\ \A i \in bearers : paid'[i] > 0
    <3> SUFFICES ASSUME NEW i \in 1 .. N
                 PROVE  /\ paid'[i] = wanted[i] - FeeToSubtract(i)
                        /\ paid'[i] \in Nat /\ wanted[i] \in Nat
                        /\ i \in bearers => paid'[i] > 0
      BY <2>2
    <3>1. paid'[i] = payments[i].amount - FeeToSubtract(i)
      BY <2>1
    <3>2. payments[i].amount \in Nat /\ FeeToSubtract(i) \in Nat
      BY <2>2, <2>4
    <3>3. IF i \in bearers THEN payments[i].amount > FeeToSubtract(i)
                           ELSE FeeToSubtract(i) = 0
      BY <2>4, <2>5
    <3>4. wanted[i] = payments[i].amount
      BY <2>3
    <3> HIDE DEF N, payments, bearers, wanted
    <3> QED BY <3>1, <3>2, <3>3, <3>4
  <2>7. paid' \in Seq(Nat) /\ Len(paid') = N
    <3>1. paid' \in [1 .. N -> Nat]
      BY <2>1, <2>6
    <3> HIDE DEF N
    <3> QED BY <2>2, <3>1
  <2>8. Sum(wanted) - Sum(paid') = IF bearers = {} THEN 0 ELSE fee
    <3>1. \A i \in 1 .. N :
            share[i] \in Int /\ paid'[i] \in Int /\ wanted[i] = paid'[i] + share[i]
      <4>1. \A i \in 1 .. N : share[i] = FeeToSubtract(i) /\ share[i] \in Nat
        BY <2>4
      <4> HIDE DEF N, wanted, share
      <4> QED BY <2>6, <4>1
    <3> HIDE DEF N, wanted, share, bearers
    <3>2. Total(wanted, N) = Total(paid', N) + Total(share, N)
      BY <2>2, <3>1, TotalAdd
    <3>3. Total(wanted, N) \in Int /\ Total(paid', N) \in Int
      <4>1. \A n \in 0 .. N : Total(paid', n) \in Int
        BY <2>2, <3>1, TotalInt
      <4> QED BY <2>2, <2>3, <4>1 DEF Sum
    <3> QED BY <1>2, <2>3, <2>4, <2>7, <3>2, <3>3 DEF Sum
  <2>9. FeeBorneExactly'
    <3> DEFINE lost(i) == wanted[i] - paid'[i]
    <3>1. \A i \in 1 .. N : lost(i) = FeeToSubtract(i) /\ lost(i) \in Nat
      <4> SUFFICES ASSUME NEW i \in 1 .. N
                   PROVE  lost(i) = FeeToSubtract(i) /\ lost(i) \in Nat
        OBVIOUS
      <4>1. /\ paid'[i] = wanted[i] - FeeToSubtract(i) /\ FeeToSubtract(i) \in Nat
            /\ wanted[i] \in Nat /\ paid'[i] \in Nat
        BY <2>4, <2>6
      <4> HIDE DEF wanted, N
      <4> QED BY <4>1
    <3> HIDE DEF lost
    <3>2. \A i, j \in bearers : lost(i) - lost(j) < Cardinality(bearers)
      BY <2>2, <2>4, <3>1
    <3>3. \A i \in (1 .. N) \ bearers : lost(i) = 0
      BY <2>4, <3>1
    <3>5. \A i \in bearers : paid'[i] > 0 /\ lost(i) >= 0
      BY <2>2, <2>6, <3>1
    <3>4. fee' = fee /\ req' = req
      BY <1>1 DEF selectVars
    <3> QED
      BY <2>3, <2>7, <2>8, <3>2, <3>3, <3>4, <3>5 DEF FeeBorneExactly, lost
  <2>10. SelectInv' /\ CountChecked'
    BY <1>1, SelectionKept
  <2>11. SpendTypeOK'
    BY <1>1, <1>2, <2>1, <2>7, <2>10, LimitsAssumption DEF SpendTypeOK, SelectInv
  <2>12. Control' /\ RequestTaken'
    BY <1>1, <1>2, <2>1 DEF Control, RequestTaken, selectVars
  <2> QED
    BY <2>1, <2>9, <2>10, <2>11, <2>12
    DEF SpendInv, OutputsFilled, ValueConserved, InputsMade, BuildChecked,
        RepeatedChecksHold
<1> QED BY <1>3, <1>4

\* The payments after the fee: how many there are and what they add up to.
LEMMA PaidFacts ==
  ASSUME SpendInv, pc \in {"fill", "inputs", "done"}
  PROVE  /\ paid \in Seq(Nat) /\ Len(req.recipients) \in Nat
         /\ Len(req.privateRecipients) \in Nat
         /\ Len(paid) = Len(req.recipients) + Len(req.privateRecipients)
         /\ \A i \in 1 .. Len(paid) : paid[i] \in Nat
         /\ Total(paid, Len(req.recipients)) \in Nat
         /\ Total(paid, Len(req.recipients)) <= Sum(paid)
         /\ Sum(paid) \in 0 .. MaxMoney
         /\ fee + Sum(paid) = CurrentRequired
<1>1. /\ at = "ok" /\ paid \in Seq(Nat)
  BY DEF SpendInv, SpendTypeOK, Control
<1>2. /\ req \in Request /\ RequestError(req) = "none" /\ fee \in Nat
      /\ call.required = Sum(AmountsOf(AllPayments(req))) /\ call.required \in Nat
      /\ CurrentRequired = call.required + IF FeeBearers(req) = {} THEN fee ELSE 0
  BY <1>1, SelectedFacts
<1>3. /\ Len(req.recipients) \in Nat /\ Len(req.privateRecipients) \in Nat
      /\ AllPayments(req) \in Seq(Payment)
      /\ Len(AllPayments(req)) = Len(req.recipients) + Len(req.privateRecipients)
  BY <1>2, PaymentsType
<1>4. Len(AmountsOf(AllPayments(req))) = Len(AllPayments(req))
  BY <1>3, AmountsType
<1>5. /\ Len(paid) = Len(AmountsOf(AllPayments(req)))
      /\ Sum(AmountsOf(AllPayments(req))) - Sum(paid) =
           IF FeeBearers(req) = {} THEN 0 ELSE fee
  BY DEF SpendInv, FeeBorneExactly
<1>6. \A i \in 1 .. Len(paid) : paid[i] \in Nat
  BY <1>1, ElementOfSeq
<1>7. Len(paid) = Len(req.recipients) + Len(req.privateRecipients)
  BY <1>3, <1>4, <1>5
<1>8. \A n \in 0 .. Len(paid) : Total(paid, n) \in Nat /\ Total(paid, n) <= Sum(paid)
  <2>1. Len(paid) \in Nat
    BY <1>1, LenProperties
  <2> QED BY <1>6, <2>1, TotalNat DEF Sum
<1>9. Sum(paid) \in Nat /\ Total(paid, Len(req.recipients)) \in Nat
      /\ Total(paid, Len(req.recipients)) <= Sum(paid)
  <2>1. Len(paid) \in 0 .. Len(paid) /\ Len(req.recipients) \in 0 .. Len(paid)
    <3>1. Len(paid) \in Nat
      BY <1>1, LenProperties
    <3>2. \A a, b, n \in Nat : n = a + b => n \in 0 .. n /\ a \in 0 .. n
      OBVIOUS
    <3> QED BY <1>3, <1>7, <3>1, <3>2, Zenon
  <2>2. Sum(paid) = Total(paid, Len(paid))
    BY DEF Sum
  <2> QED BY <1>8, <2>1, <2>2, Zenon
<1>10. call.required \in 0 .. MaxMoney
  BY <1>2, RequestChecked
<1>11. Sum(paid) \in 0 .. MaxMoney /\ fee + Sum(paid) = CurrentRequired
  <2>1. CASE FeeBearers(req) = {}
    BY <1>2, <1>5, <1>9, <1>10, <2>1, LimitsAssumption
  <2>2. CASE FeeBearers(req) # {}
    BY <1>2, <1>5, <1>9, <1>10, <2>2, LimitsAssumption
  <2> QED BY <2>1, <2>2
<1> QED BY <1>1, <1>3, <1>6, <1>7, <1>9, <1>11

\* What is paid goes to the transparent outputs or to the private ones.
LEMMA PaidIsSplit ==
  ASSUME NEW p \in Seq(Nat), NEW k \in Nat, NEW O, k <= Len(p),
         O = {i \in k + 1 .. Len(p) : p[i] # 0}
  PROVE  Sum(p) = Total(p, k)
           + Total([i \in 1 .. Len(p) |-> IF i \in O THEN p[i] ELSE 0], Len(p))
<1> DEFINE N == Len(p)
           public == [i \in 1 .. N |-> IF i <= k THEN p[i] ELSE 0]
           private == [i \in 1 .. N |-> IF i \in O THEN p[i] ELSE 0]
<1>1. N \in Nat /\ \A i \in 1 .. N : p[i] \in Nat
  BY ElementOfSeq, LenProperties
<1>2. \A i \in 1 .. N :
        public[i] \in Int /\ private[i] \in Int /\ p[i] = public[i] + private[i]
  <2> SUFFICES ASSUME NEW i \in 1 .. N
               PROVE  /\ public[i] \in Int /\ private[i] \in Int
                      /\ p[i] = public[i] + private[i]
    OBVIOUS
  <2>1. p[i] \in Nat
    BY <1>1
  <2>2. CASE i <= k
    <3>1. i \notin O
      BY <2>2
    <3> QED BY <2>1, <2>2, <3>1
  <2>3. CASE ~(i <= k)
    <3>1. i \in O \/ p[i] = 0
      BY <1>1, <2>3
    <3> QED BY <2>1, <2>3, <3>1
  <2> QED BY <2>2, <2>3
<1>3. Total(p, N) = Total(public, N) + Total(private, N)
  <2> HIDE DEF public, private, N
  <2> QED BY <1>1, <1>2, TotalAdd
<1>4. Total(public, N) = Total(p, k)
  <2>1. N \in Nat /\ k \in 0 .. N
    BY <1>1
  <2>2. \A i \in 1 .. N : p[i] \in Int /\ public[i] = IF i <= k THEN p[i] ELSE 0
    BY <1>1
  <2> HIDE DEF public, N
  <2> QED BY <2>1, <2>2, TotalPrefix
<1> QED BY <1>3, <1>4 DEF Sum

\* The outputs and the change.
LEMMA FillOutputsInv == ASSUME SpendInv, FillOutputs PROVE SpendInv'
<1> DEFINE k == Len(req.recipients)
           rest == Value(call.coins, picked) - fee - Sum(paid)
<1>1. /\ pc = "fill" /\ at = "ok" /\ UNCHANGED <<selectVars, req, paid, groups>>
      /\ transparentOut' = Total(paid, k) /\ outs' = PrivateOutputs
      /\ change' = rest /\ todo' = picked /\ groups = {} /\ reason = "none"
  BY DEF FillOutputs, SpendInv, Control, SpendTypeOK
<1>2. /\ paid \in Seq(Nat) /\ k \in Nat /\ k <= Len(paid)
      /\ \A i \in 1 .. Len(paid) : paid[i] \in Nat
      /\ Total(paid, k) \in 0 .. MaxMoney
      /\ Sum(paid) \in Nat /\ fee + Sum(paid) = CurrentRequired
  <2>1. /\ paid \in Seq(Nat) /\ k \in Nat
        /\ Len(req.privateRecipients) \in Nat
        /\ Len(paid) = k + Len(req.privateRecipients)
        /\ \A i \in 1 .. Len(paid) : paid[i] \in Nat
        /\ Total(paid, k) \in Nat /\ Total(paid, k) <= Sum(paid)
        /\ Sum(paid) \in 0 .. MaxMoney /\ fee + Sum(paid) = CurrentRequired
    BY <1>1, PaidFacts
  <2> HIDE DEF k
  <2>2. k <= Len(paid)
    BY <2>1
  <2>3. Total(paid, k) \in 0 .. MaxMoney /\ Sum(paid) \in Nat
    BY <2>1, LimitsAssumption
  <2> QED BY <2>1, <2>2, <2>3
<1>3. /\ req \in Request /\ RequestError(req) = "none" /\ call = CallOf(req)
      /\ fee \in Nat /\ Value(call.coins, picked) \in Nat
      /\ Value(call.coins, picked) >= CurrentRequired
  BY <1>1, SelectedFacts
<1>4. rest \in Nat /\ rest = Value(call.coins, picked) - CurrentRequired
  BY <1>2, <1>3
<1>5. pc' = "inputs" /\ reason' = "none"
  <2>1. ~(rest < 0)
    BY <1>4
  <2> QED BY <1>1, <2>1 DEF FillOutputs
<1>6. SelectInv' /\ CountChecked'
  BY <1>1, SelectionKept
<1>7. UNCHANGED <<at, call, fee, picked, req, paid, groups>>
  BY <1>1 DEF selectVars
<1>8. outs' \subseteq 1 .. Len(paid)
  BY <1>1, <1>2 DEF PrivateOutputs
<1>9. SpendTypeOK'
  BY <1>1, <1>2, <1>3, <1>4, <1>5, <1>6, <1>7, <1>8 DEF SpendTypeOK, SelectInv
<1>10. FeeBorneExactly'
  BY <1>1, <1>5, <1>7 DEF SpendInv, FeeBorneExactly
<1>11. OutputsFilled'
  BY <1>1, <1>7 DEF OutputsFilled, PrivateOutputs
<1>12. ValueConserved'
  <2>1. PrivateOut' =
          Total([i \in 1 .. Len(paid) |-> IF i \in outs' THEN paid[i] ELSE 0], Len(paid))
    BY <1>7 DEF PrivateOut
  <2>2. outs' = {i \in k + 1 .. Len(paid) : paid[i] # 0}
    BY <1>1 DEF PrivateOutputs
  <2>3. Sum(paid) = Total(paid, k) + PrivateOut'
    BY <1>2, <2>1, <2>2, PaidIsSplit
  <2>4. PrivateOut' \in Int
    <3> DEFINE private == [i \in 1 .. Len(paid) |-> IF i \in outs' THEN paid[i] ELSE 0]
    <3>1. Len(paid) \in Nat /\ \A i \in 1 .. Len(paid) : private[i] \in Int
      BY <1>2, LenProperties
    <3> HIDE DEF private
    <3>2. \A n \in 0 .. Len(paid) : Total(private, n) \in Int
      BY <3>1, TotalInt
    <3> QED BY <2>1, <3>1, <3>2 DEF private
  <2>5. Value(call.coins, picked) = fee + transparentOut' + PrivateOut' + change'
    BY <1>1, <1>2, <1>3, <2>3, <2>4
  <2>6. CurrentRequired' = CurrentRequired
    BY <1>7 DEF CurrentRequired
  <2> QED BY <1>1, <1>4, <1>7, <2>5, <2>6 DEF ValueConserved
<1>13. Control' /\ RequestTaken'
  BY <1>1, <1>3, <1>5, <1>7 DEF Control, RequestTaken
<1>14. InputsMade'
  <2>1. picked \ todo' = {}
    BY <1>1
  <2> QED BY <1>1, <1>7, <2>1 DEF InputsMade
<1> QED
  BY <1>5, <1>6, <1>9, <1>10, <1>11, <1>12, <1>13, <1>14
  DEF SpendInv, BuildChecked, RepeatedChecksHold

\* While inputs are made, the outputs, the fee and the value stay as they are.
LEMMA OutputsKept ==
  ASSUME SpendInv, pc = "inputs", pc' \in {"inputs", "done"}, reason' = reason,
         UNCHANGED <<selectVars, req, paid, transparentOut, outs, change>>,
         todo' \subseteq picked, groups' \subseteq Nat
  PROVE  /\ SelectInv' /\ SpendTypeOK' /\ Control' /\ RequestTaken' /\ CountChecked'
         /\ FeeBorneExactly' /\ OutputsFilled' /\ ValueConserved'
         /\ RepeatedChecksHold'
<1>1. UNCHANGED selectVars
  OBVIOUS
<1>2. /\ UNCHANGED <<at, call, fee, picked, req, paid, transparentOut, outs, change>>
      /\ at = "ok" /\ reason = "none"
  BY DEF selectVars, SpendInv, Control, SpendTypeOK
<1>3. SelectInv' /\ CountChecked'
  BY <1>1, SelectionKept
<1>4. SpendTypeOK'
  BY <1>2, <1>3 DEF SpendInv, SpendTypeOK, SelectInv
<1>5. Control' /\ RequestTaken' /\ RepeatedChecksHold'
  BY <1>2 DEF SpendInv, Control, RequestTaken, RepeatedChecksHold
<1>6. FeeBorneExactly'
  BY <1>2 DEF SpendInv, FeeBorneExactly
<1>7. OutputsFilled'
  BY <1>2 DEF SpendInv, OutputsFilled, PrivateOutputs
<1>8. ValueConserved'
  <2>1. PrivateOut' = PrivateOut /\ CurrentRequired' = CurrentRequired
    BY <1>2 DEF PrivateOut, CurrentRequired
  <2> QED BY <1>2, <2>1 DEF SpendInv, ValueConserved
<1> QED BY <1>3, <1>4, <1>5, <1>6, <1>7, <1>8

\* A coin becomes an input.
LEMMA AddInputInv ==
  ASSUME SpendInv, NEW i \in todo, AddInput(i)
  PROVE  SpendInv'
<1>1. /\ pc = "inputs" /\ at = "ok" /\ reason = "none"
      /\ UNCHANGED <<selectVars, req, paid, transparentOut, outs, change>>
      /\ todo \subseteq picked /\ groups \subseteq Nat
  BY DEF AddInput, SpendInv, Control, SpendTypeOK
<1>2. UNCHANGED <<call, picked, req>> /\ UNCHANGED selectVars
  BY <1>1 DEF selectVars
<1>3. CASE InputError(i) = "none"
  <2>1. /\ pc' = "inputs" /\ reason' = reason
        /\ todo' = todo \ {i} /\ groups' = groups \cup {call.coins[i].nId}
    BY <1>1, <1>3 DEF AddInput, Referenced
  <2>2. call.coins[i].nId \in Nat
    <3>1. call.coins \in Seq(CoinMeta) /\ i \in 1 .. Len(call.coins)
      <4>1. call \in SelectCall /\ picked \in Choices
        BY <1>1, SelectedFacts
      <4> QED BY <1>1, <4>1 DEF SelectCall, Choices
    <3>2. call.coins[i] \in CoinMeta
      BY <3>1, ElementOfSeq
    <3> QED BY <3>2 DEF CoinMeta
  <2>3. todo' \subseteq picked /\ groups' \subseteq Nat
    BY <1>1, <2>1, <2>2
  <2>4. /\ SelectInv' /\ SpendTypeOK' /\ Control' /\ RequestTaken' /\ CountChecked'
        /\ FeeBorneExactly' /\ OutputsFilled' /\ ValueConserved'
        /\ RepeatedChecksHold'
    BY <1>1, <2>1, <2>3, OutputsKept
  <2>5. InputsMade'
    <3>1. /\ groups = {call.coins[j].nId : j \in picked \ todo}
          /\ \A j \in picked \ todo : InputError(j) = "none"
      BY <1>1 DEF SpendInv, InputsMade
    <3>2. picked \ todo' = (picked \ todo) \cup {i}
      BY <1>1, <2>1
    <3>3. \A j : InputError(j)' = InputError(j)
      BY <1>2 DEF InputError, SetsOf, LastSet
    <3>4. groups' = {call.coins[j].nId : j \in picked \ todo'}
      BY <2>1, <3>1, <3>2
    <3>5. \A j \in picked \ todo' : InputError(j)' = "none"
      BY <1>3, <3>1, <3>2, <3>3
    <3> QED BY <1>2, <3>4, <3>5, Zenon DEF InputsMade
  <2>6. BuildChecked'
    BY <2>1 DEF BuildChecked
  <2> QED BY <2>4, <2>5, <2>6 DEF SpendInv
<1>4. CASE InputError(i) # "none"
  <2>1. /\ pc' = "failed" /\ UNCHANGED <<todo, groups>>
        /\ reason' = InputError(i)
    BY <1>1, <1>4 DEF AddInput, ThrowInSpend
  <2>2. reason' \in {"no such set", "hash must be 32 bytes", "no such coin in set"}
    BY <1>4, <2>1 DEF InputError
  <2>3. /\ reason' \in SpendErrors
        /\ reason' \notin {"unable to create spend", "missing V2 cover-set reference",
                           "bad V2 dimensions"}
    BY <2>2 DEF SpendErrors
  <2>4. /\ paid' \in Seq(Nat) /\ transparentOut' \in 0 .. MaxMoney
        /\ outs' \subseteq 1 .. Len(paid') /\ change' \in Int
        /\ todo' \subseteq picked /\ groups' \subseteq Nat
    BY <1>1, <2>1 DEF SpendInv, SpendTypeOK
  <2> QED BY <1>1, <1>2, <2>1, <2>3, <2>4, ThrowInv
<1> QED BY <1>3, <1>4

\* There is at least one private output, and at most the change besides those
\* asked for.
LEMMA OutputsCounted ==
  ASSUME SpendInv, pc \in {"inputs", "done"}
  PROVE  /\ OutputCount \in 1 .. Len(req.privateRecipients) + 1
         /\ OutputCount \in 1 .. SparkOutLimit
         /\ Len(req.privateRecipients) \in Nat
<1> DEFINE k == Len(req.recipients)
           m == Len(req.privateRecipients)
<1>1. /\ k \in Nat /\ m \in Nat /\ Len(paid) = k + m
      /\ outs = {i \in k + 1 .. Len(paid) : paid[i] # 0}
  BY PaidFacts DEF SpendInv, OutputsFilled, PrivateOutputs
<1>2. req \in Request /\ RequestError(req) = "none"
  BY DEF SpendInv, SpendTypeOK, RequestTaken
<1>3. m < SparkOutLimit - 1
  BY <1>2, RequestChecked
<1>4. IsFiniteSet(outs) /\ Cardinality(outs) \in Nat /\ Cardinality(outs) <= m
  <2> HIDE DEF k, m
  <2>1. IsFiniteSet(k + 1 .. k + m) /\ Cardinality(k + 1 .. k + m) = m
    <3>1. k + 1 \in Int /\ k + m \in Int
      BY <1>1
    <3>2. IsFiniteSet(k + 1 .. k + m)
          /\ Cardinality(k + 1 .. k + m) = IF k + 1 > k + m THEN 0 ELSE (k + m) - (k + 1) + 1
      BY <3>1, FS_Interval
    <3> QED BY <1>1, <3>2
  <2>2. outs \subseteq k + 1 .. k + m
    BY <1>1
  <2> QED BY <2>1, <2>2, FS_Subset, FS_CardinalityType
<1>5. outs = {} <=> Cardinality(outs) = 0
  BY <1>4, FS_EmptySet
<1>6. OutputCount \in 1 .. m + 1
  <2> HIDE DEF k, m
  <2>1. CASE outs = {}
    BY <1>1, <1>5, <2>1 DEF OutputCount, HasChange
  <2>2. CASE outs # {}
    BY <1>1, <1>4, <1>5, <2>2 DEF OutputCount
  <2> QED BY <2>1, <2>2
<1> HIDE DEF k, m
<1>7. OutputCount \in 1 .. SparkOutLimit
  BY <1>1, <1>3, <1>6, OutputLimitsAssumption
<1> QED BY <1>1, <1>6, <1>7 DEF m

\* The constructor's checks.
LEMMA BuildTransactionInv ==
  ASSUME SpendInv, BuildTransaction
  PROVE  SpendInv'
<1>1. /\ pc = "inputs" /\ at = "ok" /\ reason = "none" /\ todo = {}
      /\ UNCHANGED <<selectVars, req, paid, transparentOut, outs, change, todo, groups>>
      /\ groups \subseteq Nat
  BY DEF BuildTransaction, SpendInv, Control, SpendTypeOK
<1>2. UNCHANGED <<call, picked, req, paid, outs, change, todo, groups>>
      /\ UNCHANGED selectVars
  BY <1>1 DEF selectVars
<1>3. CASE BuildError = "none"
  <2>1. pc' = "done" /\ reason' = reason
    BY <1>1, <1>3 DEF BuildTransaction
  <2>2. todo' \subseteq picked /\ groups' \subseteq Nat
    BY <1>1
  <2>3. /\ SelectInv' /\ SpendTypeOK' /\ Control' /\ RequestTaken' /\ CountChecked'
        /\ FeeBorneExactly' /\ OutputsFilled' /\ ValueConserved'
        /\ RepeatedChecksHold'
    BY <1>1, <2>1, <2>2, OutputsKept
  <2>4. InputsMade'
    <3>1. \A j : InputError(j)' = InputError(j)
      BY <1>2 DEF InputError, SetsOf, LastSet
    <3> QED BY <1>1, <1>2, <3>1 DEF SpendInv, InputsMade
  <2>5. BuildChecked'
    <3>1. BuildError' = BuildError
      BY <1>2 DEF BuildError, OutputCount, HasChange, SetsOf, LastSet
    <3> QED BY <1>1, <1>2, <1>3, <3>1 DEF BuildChecked
  <2> QED BY <2>3, <2>4, <2>5 DEF SpendInv
<1>4. CASE BuildError # "none"
  <2>1. pc' = "failed" /\ reason' = BuildError
    BY <1>1, <1>4 DEF BuildTransaction, ThrowInSpend
  <2>2. groups = {call.coins[i].nId : i \in picked}
    <3>1. picked \ todo = picked
      BY <1>1
    <3> QED BY <1>1, <3>1 DEF SpendInv, InputsMade
  <2>3. req.version = "V2" => /\ Cardinality(picked) # 0
                              /\ ~(Cardinality(picked) > MaxChaumV2Inputs)
    <3>1. Cardinality(picked) \in Nat /\ call.version = req.version
      BY <1>1, SelectedFacts DEF CallOf
    <3> QED BY <1>1, <3>1, LimitsAssumption DEF SpendInv, CountChecked, InputCountOK
  <2>4. OutputCount # 0 /\ ~(OutputCount > MaxV2Outputs)
    BY <1>1, OutputsCounted, OutputLimitsAssumption
  <2>5. BuildError \in {"bad V2 cover-set id", "wrong set size", "memo is too large"}
    BY <1>4, <2>2, <2>3, <2>4 DEF BuildError
  <2>6. /\ reason' \in SpendErrors
        /\ reason' \notin {"unable to create spend", "missing V2 cover-set reference",
                           "bad V2 dimensions"}
    BY <2>1, <2>5 DEF SpendErrors
  <2>7. /\ paid' \in Seq(Nat) /\ transparentOut' \in 0 .. MaxMoney
        /\ outs' \subseteq 1 .. Len(paid') /\ change' \in Int
        /\ todo' \subseteq picked /\ groups' \subseteq Nat
    BY <1>1 DEF SpendInv, SpendTypeOK
  <2> QED BY <1>1, <1>2, <2>1, <2>6, <2>7, ThrowInv
<1> QED BY <1>3, <1>4

\* The invariant depends on the variables of the specification only.
LEMMA SpendStutterInv == ASSUME SpendInv, UNCHANGED vars PROVE SpendInv'
<1>1. UNCHANGED selectVars
  BY DEF vars
<1>2. UNCHANGED <<at, call, fee, picked, pc, req, paid, transparentOut, outs,
                  change, todo, groups, reason>>
  BY DEF vars, selectVars, spendVars
<1>3. SelectInv' /\ CountChecked'
  BY <1>1, SelectionKept
<1>4. SpendTypeOK' /\ Control' /\ RequestTaken' /\ RepeatedChecksHold'
  BY <1>2, <1>3
  DEF SpendInv, SpendTypeOK, SelectInv, Control, RequestTaken, RepeatedChecksHold
<1>5. FeeBorneExactly' /\ OutputsFilled'
  BY <1>2 DEF SpendInv, FeeBorneExactly, OutputsFilled, PrivateOutputs
<1>6. ValueConserved'
  <2>1. PrivateOut' = PrivateOut /\ CurrentRequired' = CurrentRequired
    BY <1>2 DEF PrivateOut, CurrentRequired
  <2> QED BY <1>2, <2>1 DEF SpendInv, ValueConserved
<1>7. InputsMade'
  <2>1. \A j : InputError(j)' = InputError(j)
    BY <1>2 DEF InputError, SetsOf, LastSet
  <2> QED BY <1>2, <2>1 DEF SpendInv, InputsMade
<1>8. BuildChecked'
  <2>1. BuildError' = BuildError
    BY <1>2 DEF BuildError, OutputCount, HasChange, SetsOf, LastSet
  <2> QED BY <1>2, <2>1 DEF SpendInv, BuildChecked
<1> QED BY <1>3, <1>4, <1>5, <1>6, <1>7, <1>8 DEF SpendInv

\* Every step of createSparkSpendTransaction keeps the invariant.
LEMMA SpendNextInv == ASSUME SpendInv, [Next]_vars PROVE SpendInv'
<1>1. ASSUME NEW r \in Requests, CreateSparkSpend(r) PROVE SpendInv'
  <2>1. r \in Request
    BY RequestsAssumption
  <2> QED BY <1>1, <2>1, CreateSparkSpendInv
<1>2. ASSUME SpendStep PROVE SpendInv'
  BY <1>2, SelectionInv, DeductFeeInv, FillOutputsInv, AddInputInv,
     BuildTransactionInv, Zenon DEF SpendStep
<1>3. ASSUME ReturnSpend PROVE SpendInv'
  BY <1>3, ReturnSpendInv
<1>4. ASSUME UNCHANGED vars PROVE SpendInv'
  BY <1>4, SpendStutterInv
<1> QED BY <1>1, <1>2, <1>3, <1>4, Zenon DEF Next

-----------------------------------------------------------------------------
(***************************************************************************)
(* The theorems.                                                           *)
(***************************************************************************)

\* The inductive invariant holds for every request, wallet and limit.
THEOREM SpendInvariant == Spec => []SpendInv
<1>1. Init => SpendInv
  BY SpendInitInv
<1>2. SpendInv /\ [Next]_vars => SpendInv'
  BY SpendNextInv
<1> QED BY <1>1, <1>2, PTL DEF Spec

\* createSparkSpendTransaction's variables keep their types: no amount is
\* driven below zero by the fee and no total leaves the money range.
THEOREM SpendTypeCorrect == Spec => []SpendTypeOK
BY SpendInvariant, PTL DEF SpendInv

\* The selected coins are worth the fee, the outputs and the change.
THEOREM ValueIsConserved == Spec => []ValueConserved
BY SpendInvariant, PTL DEF SpendInv

\* The loop over recipientsToSubtractFee takes exactly the fee, and leaves
\* each bearer something.
THEOREM FeeIsBorneExactly == Spec => []FeeBorneExactly
BY SpendInvariant, PTL DEF SpendInv

\* The checks that repeat earlier ones never throw.
THEOREM RepeatedChecksAlwaysHold == Spec => []RepeatedChecksHold
BY SpendInvariant, PTL DEF SpendInv

\* More private outputs take more bytes.
LEMMA SizeGrowsWithMints ==
  ASSUME NEW c \in SelectCall, NEW n \in Nat, NEW m \in Nat, m <= c.mintNum
  PROVE  EstimatedSize([c EXCEPT !.mintNum = m, !.utxoNum = c.utxoNum], n)
           <= EstimatedSize(c, n)
<1> DEFINE d == [c EXCEPT !.mintNum = m, !.utxoNum = c.utxoNum]
           inputs == InputSize * n
           extra == IF c.version = "V2"
                    THEN V2Size + V2InputSize * (IF n > 1 THEN n - 1 ELSE 0) ELSE 0
           utxos == UtxoSize * c.utxoNum
<1>1. /\ d.mintNum = m /\ d.utxoNum = c.utxoNum /\ d.additional = c.additional
      /\ d.version = c.version
      /\ c.mintNum \in Nat /\ c.utxoNum \in Nat /\ c.additional \in Nat
  BY DEF SelectCall
<1>2. EstimatedSize(d, n) =
        BaseSize + inputs + MintSize * m + MintSize + utxos + c.additional + extra
  BY <1>1 DEF EstimatedSize
<1>3. EstimatedSize(c, n) =
        BaseSize + inputs + MintSize * c.mintNum + MintSize + utxos + c.additional + extra
  BY DEF EstimatedSize
<1>4. inputs \in Nat /\ utxos \in Nat
  BY <1>1, TimesMonotone, LimitsAssumption
<1>5. extra \in Nat
  <2>1. CASE n > 1
    <3>1. n - 1 \in Nat
      BY <2>1
    <3>2. V2InputSize * (n - 1) \in Nat
      BY <3>1, TimesMonotone, LimitsAssumption
    <3> QED BY <2>1, <3>2, LimitsAssumption
  <2>2. CASE ~(n > 1)
    <3>1. V2InputSize * 0 \in Nat
      BY TimesMonotone, LimitsAssumption
    <3> QED BY <2>2, <3>1, LimitsAssumption
  <2> QED BY <2>1, <2>2
<1>6. /\ MintSize * m \in Nat /\ MintSize * c.mintNum \in Nat
      /\ MintSize * m <= MintSize * c.mintNum
  BY <1>1, TimesMonotone, LimitsAssumption
<1> HIDE DEF inputs, extra, utxos, d
<1>7. EstimatedSize(d, n) <= EstimatedSize(c, n)
  BY <1>1, <1>2, <1>3, <1>4, <1>5, <1>6, LimitsAssumption
<1> QED BY <1>7 DEF d

\* The fee, fixed by SelectSparkCoins before the outputs exist, pays for the
\* outputs that are made, and they respect the limit.
THEOREM FeeAlwaysCoversOutputs == Spec => []FeeCoversOutputs
<1>1. ASSUME SpendInv PROVE FeeCoversOutputs
  <2> SUFFICES ASSUME pc = "done" PROVE FeeCoversOutputs
    BY DEF FeeCoversOutputs
  <2>1. at = "ok"
    BY <1>1 DEF SpendInv, Control
  <2>2. /\ call \in SelectCall /\ call = CallOf(req)
        /\ fee = EstimatedSize(call, Cardinality(picked))
        /\ Cardinality(picked) \in Nat
    BY <1>1, <2>1, SelectedFacts
  <2>3. /\ OutputCount \in 1 .. Len(req.privateRecipients) + 1
        /\ OutputCount \in 1 .. SparkOutLimit
        /\ Len(req.privateRecipients) \in Nat
    BY <1>1, OutputsCounted
  <2>4. /\ call.mintNum = Len(req.privateRecipients)
        /\ call.utxoNum = Len(req.recipients)
    BY <2>2 DEF CallOf
  <2>5. OutputCount - 1 \in Nat /\ OutputCount - 1 <= call.mintNum
    BY <2>3, <2>4
  <2>6. EstimatedSize([call EXCEPT !.mintNum = OutputCount - 1,
                                   !.utxoNum = call.utxoNum], Cardinality(picked))
          <= EstimatedSize(call, Cardinality(picked))
    BY <2>2, <2>5, SizeGrowsWithMints
  <2>7. EstimatedSize([call EXCEPT !.mintNum = OutputCount - 1,
                                   !.utxoNum = Len(req.recipients)], Cardinality(picked))
          <= fee
    BY <2>2, <2>4, <2>6
  <2> QED BY <2>3, <2>7 DEF FeeCoversOutputs
<1> QED BY <1>1, SpendInvariant, PTL

\* The cover set kept for a group is one of those given for it, the last.
LEMMA LastSetIsLast ==
  ASSUME NEW g, req \in Request, SetsOf(g) # {}
  PROVE  \E k \in SetsOf(g) :
           /\ \A j \in SetsOf(g) : j <= k
           /\ LastSet(g) = req.sets[k]
<1>1. Len(req.sets) \in Nat
  BY LenProperties DEF Request
<1>2. SetsOf(g) \in SUBSET (1 .. Len(req.sets))
  BY DEF SetsOf
<1>3. \E k \in SetsOf(g) : \A j \in SetsOf(g) : j <= k
  BY <1>1, <1>2, EndsOfPositions
<1> DEFINE k == CHOOSE k \in SetsOf(g) : \A j \in SetsOf(g) : j <= k
<1>4. k \in SetsOf(g) /\ \A j \in SetsOf(g) : j <= k
  BY <1>3, Zenon
<1> QED BY <1>4, Zenon DEF LastSet

\* A finished transaction spends every selected coin from a cover set that
\* contains it, and references the blocks of exactly those groups.
THEOREM InputsAreBound == Spec => []InputsBound
<1>1. ASSUME SpendInv PROVE InputsBound
  <2> SUFFICES ASSUME pc = "done" PROVE InputsBound
    BY DEF InputsBound
  <2>1. todo = {} /\ req \in Request
    BY <1>1 DEF SpendInv, BuildChecked, SpendTypeOK
  <2>2. /\ groups = {call.coins[i].nId : i \in picked}
        /\ \A i \in picked : InputError(i) = "none"
    <3>1. picked \ todo = picked
      BY <2>1
    <3> QED BY <1>1, <3>1 DEF SpendInv, InputsMade
  <2>3. \A i \in picked :
          /\ SetsOf(call.coins[i].nId) # {} /\ call.coins[i].nId \in req.blockHashes
          /\ \E m \in 1 .. Len(LastSet(call.coins[i].nId).coins) :
               LastSet(call.coins[i].nId).coins[m] = call.coins[i].coin
    BY <2>2 DEF InputError
  <2>4. groups \subseteq req.blockHashes
    BY <2>2, <2>3
  <2>5. ASSUME NEW i \in picked
        PROVE  \E k \in 1 .. Len(req.sets) :
                 /\ req.sets[k].setId = call.coins[i].nId
                 /\ \E m \in 1 .. Len(req.sets[k].coins) :
                      req.sets[k].coins[m] = call.coins[i].coin
    <3> DEFINE g == call.coins[i].nId
    <3>1. SetsOf(g) # {}
      BY <2>3
    <3>2. PICK k \in SetsOf(g) : LastSet(g) = req.sets[k]
      BY <2>1, <3>1, LastSetIsLast
    <3>3. k \in 1 .. Len(req.sets) /\ req.sets[k].setId = g
      BY <3>2 DEF SetsOf
    <3>4. \E m \in 1 .. Len(req.sets[k].coins) :
            req.sets[k].coins[m] = call.coins[i].coin
      BY <2>3, <3>2
    <3> QED BY <3>3, <3>4
  <2> QED BY <2>1, <2>2, <2>4, <2>5 DEF InputsBound
<1> QED BY <1>1, SpendInvariant, PTL

-----------------------------------------------------------------------------
(***************************************************************************)
(* REFINEMENT: every step of createSparkSpendTransaction is a step of      *)
(* AtomicSpend or leaves its variables alone.                              *)
(***************************************************************************)

-----------------------------------------------------------------------------
(***************************************************************************)
(* The abstract specification's operators, in terms of the detailed one's. *)
(***************************************************************************)

\* Totals, values and numbers of coins mean the same in both.
LEMMA SameAmounts ==
  /\ \A f, n : Atomic!Total(f, n) = Total(f, n)
  /\ \A c, S : Atomic!Value(c, S) = Value(c, S)
  /\ \A S : Atomic!Cardinality(S) = Cardinality(S)
<1>1. \A f, n : Atomic!Total(f, n) = Total(f, n)
  BY Zenon DEF Atomic!Total, Total
<1>2. \A c, S : Atomic!Value(c, S) = Value(c, S)
  BY <1>1 DEF Atomic!Value, Value
<1>3. \A S : Atomic!Cardinality(S) = Cardinality(S)
  BY Zenon DEF Atomic!Cardinality, Cardinality
<1> QED BY <1>1, <1>2, <1>3

\* The payments, what they add up to, and who bears the fee.
LEMMA AskedMeans ==
  ASSUME NEW r \in Request
  PROVE  /\ Atomic!Asked(r) = AllPayments(r)
         /\ Atomic!AmountAsked(r) = CallOf(r).required
         /\ Atomic!Bearers(r) = FeeBearers(r)
<1>1. Atomic!Asked(r) = AllPayments(r)
  BY DEF Atomic!Asked, AllPayments
<1>2. Atomic!AmountAsked(r) = CallOf(r).required
  <2>1. AllPayments(r) \in Seq(Payment)
    BY PaymentsType
  <2>2. Len(AmountsOf(AllPayments(r))) = Len(AllPayments(r))
    BY <2>1, AmountsType
  <2> QED BY <1>1, <2>2, SameAmounts DEF Atomic!AmountAsked, CallOf, Sum, AmountsOf
<1>3. Atomic!Bearers(r) = FeeBearers(r)
  BY <1>1 DEF Atomic!Bearers, FeeBearers
<1> QED BY <1>1, <1>2, <1>3

\* A choice of coins pays for a request when it pays for the call and stays
\* within its limits.
LEMMA PaysForMeans ==
  ASSUME NEW r \in Request, call = CallOf(r), NEW S
  PROVE  /\ Atomic!Price(r, S) = EstimatedSize(call, Cardinality(S))
         /\ Atomic!PaysFor(r, S) <=>
              /\ Pays(S)
              /\ EstimatedSize(call, Cardinality(S)) <= MaxSize
              /\ call.version = "V2" => Cardinality(S) \in 1 .. MaxChaumV2Inputs
<1>1. Atomic!Price(r, S) = EstimatedSize(call, Cardinality(S))
  BY SameAmounts DEF Atomic!Price, RequestFee
<1>2. /\ call.coins = r.coins /\ call.version = r.version
      /\ call.subtractFee = (FeeBearers(r) # {})
  BY DEF CallOf
<1>3. /\ Atomic!AmountAsked(r) = call.required
      /\ Atomic!Bearers(r) = FeeBearers(r)
  BY AskedMeans
<1>4. Atomic!PaysFor(r, S) <=>
        /\ RequestFits(r, Cardinality(S))
        /\ Value(r.coins, S) >= call.required +
             IF FeeBearers(r) = {} THEN EstimatedSize(call, Cardinality(S)) ELSE 0
  BY <1>1, <1>3, SameAmounts DEF Atomic!PaysFor
<1>5. Pays(S) <=> Value(r.coins, S) >= call.required +
             IF FeeBearers(r) = {} THEN EstimatedSize(call, Cardinality(S)) ELSE 0
  BY <1>2, Zenon DEF Pays
<1> QED BY <1>1, <1>2, <1>4, <1>5 DEF RequestFits, RequestFee

-----------------------------------------------------------------------------
(***************************************************************************)
(* What has to be known besides SpendInv.                                  *)
(***************************************************************************)

\* A V2 call for nothing stays in its first round, which fails.
EmptyRefused ==
  call.version = "V2" /\ call.required = 0 =>
    /\ at \in {"round", "take"} => fee = 0
    /\ at # "ok"

\* A V1 transaction has one input.
OneInput ==
  pc \in {"fill", "inputs", "done"} /\ req.version = "V1" => Cardinality(picked) = 1

RefinementInv == SpendInv /\ EmptyRefused /\ OneInput

\* A round that asks for nothing selects nothing, and is refused.
LEMMA EmptyRoundFails ==
  ASSUME SelectInv, FinishRound, call.version = "V2", call.required = 0, fee = 0
  PROVE  at' = "error"
<1>1. /\ at = "take" /\ call \in SelectCall /\ picked \in Choices
      /\ \A S \in Choices : Value(call.coins, S) >= CurrentRequired
                              => Cardinality(picked) <= Cardinality(S)
  BY DEF FinishRound, SelectInv, SelectTypeOK, PickedFewest, Choices
<1>2. CurrentRequired = 0
  BY DEF CurrentRequired
<1>3. {} \in Choices /\ Value(call.coins, {}) = 0
  BY <1>1, CoinListType, ValueEmpty DEF Choices
<1>4. Cardinality({}) = 0 /\ Cardinality(picked) \in Nat
  BY <1>1, ChoiceFacts, FS_EmptySet
<1>5. Cardinality(picked) = 0
  <2>1. Cardinality(picked) <= Cardinality({})
    BY <1>1, <1>2, <1>3
  <2> QED BY <1>4, <2>1
<1>6. ~InputCountOK(Cardinality(picked))
  BY <1>5 DEF InputCountOK
<1> QED BY <1>6 DEF FinishRound, Throw

\* Every step keeps what the refinement needs.
LEMMA RefinementNextInv == ASSUME RefinementInv, [Next]_vars PROVE RefinementInv'
<1>1. SpendInv /\ SpendInv' /\ EmptyRefused /\ OneInput
  BY SpendNextInv DEF RefinementInv
<1>2. ASSUME NEW r \in Requests, CreateSparkSpend(r) PROVE RefinementInv'
  <2>1. OneInput'
    BY <1>2 DEF OneInput, CreateSparkSpend, ThrowInSpend
  <2>2. at = "idle" /\ fee = 0
    BY <1>1, <1>2 DEF CreateSparkSpend, SpendInv, Control, SelectInv, ChecksPassed
  <2>3. at' # "ok" /\ fee' = 0
    BY <1>2, <2>2 DEF CreateSparkSpend, SelectSparkCoins, Throw, selectVars
  <2> QED BY <1>1, <2>1, <2>3 DEF RefinementInv, EmptyRefused
<1>3. ASSUME SelectStep, UNCHANGED spendVars PROVE RefinementInv'
  <2>1. pc' \notin {"fill", "inputs", "done"} /\ call' = call
    BY <1>1, <1>3
    DEF SpendInv, Control, SpendTypeOK, spendVars, SelectStep, StartRound, TakeLargest,
        TakeSufficient, FinishRound, Choose
  <2>2. OneInput'
    BY <2>1 DEF OneInput
  <2>3. EmptyRefused'
    <3> SUFFICES ASSUME call.version = "V2", call.required = 0
                 PROVE  at' = "error" \/ (at' # "ok" /\ fee' = 0)
      BY <2>1 DEF EmptyRefused
    <3>1. fee = 0
      BY <1>1, <1>3
      DEF EmptyRefused, SelectStep, StartRound, TakeLargest, TakeSufficient, FinishRound
    <3>2. CASE FinishRound
      BY <1>1, <3>1, <3>2, EmptyRoundFails DEF SpendInv
    <3>3. CASE StartRound \/ TakeLargest \/ TakeSufficient
      BY <3>1, <3>3 DEF StartRound, TakeLargest, TakeSufficient, Choose, Throw
    <3> QED BY <1>3, <3>2, <3>3 DEF SelectStep
  <2> QED BY <1>1, <2>2, <2>3 DEF RefinementInv
<1>4. ASSUME DeductFee PROVE RefinementInv'
  <2>1. UNCHANGED <<at, call, fee, picked, req>>
    BY <1>4 DEF DeductFee, selectVars
  <2>2. OneInput'
    BY <1>4, <2>1 DEF OneInput, DeductFee, ThrowInSpend
  <2> QED BY <1>1, <2>1, <2>2 DEF RefinementInv, EmptyRefused
<1>5. ASSUME FillOutputs \/ (\E i \in todo : AddInput(i)) \/ BuildTransaction
      PROVE  RefinementInv'
  <2>1. UNCHANGED <<at, call, fee, picked, req>> /\ pc \in {"fill", "inputs"}
    BY <1>5 DEF FillOutputs, AddInput, BuildTransaction, selectVars
  <2> QED BY <1>1, <2>1 DEF RefinementInv, EmptyRefused, OneInput
<1>6. ASSUME ReturnSpend PROVE RefinementInv'
  BY <1>1, <1>6 DEF ReturnSpend, RefinementInv, EmptyRefused, OneInput
<1>7. ASSUME UNCHANGED vars PROVE RefinementInv'
  BY <1>1, <1>7
  DEF vars, selectVars, spendVars, RefinementInv, EmptyRefused, OneInput
<1> QED
  BY <1>2, <1>3, <1>4, <1>5, <1>6, <1>7, Zenon DEF Next, SpendStep

-----------------------------------------------------------------------------
(***************************************************************************)
(* Refusals have a reason.                                                 *)
(***************************************************************************)

\* What was selected is a cheapest choice, at the fee of the call.
LEMMA PickedIsCheapest ==
  ASSUME SpendInv, at = "ok", pc \in {"select", "fill", "inputs", "done"}
  PROVE  /\ picked \in Atomic!Cheapest(req)
         /\ Atomic!Price(req, picked) = fee
<1>1. /\ req \in Request /\ call \in SelectCall /\ call = CallOf(req)
      /\ fee = EstimatedSize(call, Cardinality(picked))
      /\ picked \in Choices /\ Cardinality(picked) \in Nat
  BY SelectedFacts
<1>2. /\ Pays(picked) /\ fee <= MaxSize /\ InputCountOK(Cardinality(picked))
      /\ \A S \in Choices : Pays(S) => Cardinality(picked) <= Cardinality(S)
  BY LimitsAssumption
  DEF SpendInv, SelectInv, SelectTypeOK, LeastFee, CountChecked, Choices
<1>3. Atomic!Price(req, picked) = fee
  BY <1>1, PaysForMeans
<1>4. Atomic!PaysFor(req, picked)
  <2>1. call.version = "V2" => Cardinality(picked) \in 1 .. MaxChaumV2Inputs
    BY <1>1, <1>2, LimitsAssumption DEF InputCountOK
  <2> QED BY <1>1, <1>2, <2>1, PaysForMeans
<1>5. Choices = SUBSET (1 .. Len(req.coins))
  BY <1>1 DEF Choices, CallOf
<1>6. ASSUME NEW T \in Choices, Atomic!PaysFor(req, T)
      PROVE  Atomic!Price(req, picked) <= Atomic!Price(req, T)
  <2>1. Pays(T) /\ Atomic!Price(req, T) = EstimatedSize(call, Cardinality(T))
    BY <1>1, <1>6, PaysForMeans
  <2>2. Cardinality(T) \in Nat
    BY <1>1, ChoiceFacts
  <2>3. Cardinality(picked) <= Cardinality(T)
    BY <1>2, <2>1
  <2> QED BY <1>1, <1>3, <2>1, <2>2, <2>3, SizeMonotone
<1> QED BY <1>1, <1>3, <1>4, <1>5, <1>6 DEF Atomic!Cheapest

\* SelectSparkCoins failed: no choice of coins pays, or the request was not
\* one to consider.
LEMMA SelectionFailureHasReason ==
  SpendInv /\ at = "error" /\ pc = "select" => Atomic!Refusable(req)
<1> SUFFICES ASSUME SpendInv, at = "error", pc = "select"
             PROVE  Atomic!Refusable(req)
  OBVIOUS
<1>1. /\ req \in Request /\ RequestError(req) = "none" /\ call = CallOf(req)
      /\ call \in SelectCall /\ FailureIsReal
  BY DEF SpendInv, SpendTypeOK, RequestTaken, SelectInv, SelectTypeOK
<1>2. /\ call.version \in {"V1", "V2"} /\ MoneyRange(call.required)
      /\ call.version = req.version /\ call.coins = req.coins
      /\ call.required = Sum(AmountsOf(AllPayments(req)))
  BY <1>1, RequestChecked DEF CallOf
<1>3. CASE RequestConsidered(req)
  <2>1. Balance(call.coins) <= MaxMoney /\ ~(call.version = "V2" /\ call.required = 0)
    BY <1>2, <1>3 DEF RequestConsidered
  <2>2. ~Payable
    BY <1>1, <1>2, <2>1 DEF FailureIsReal
  <2>3. \A S \in SUBSET (1 .. Len(req.coins)) : ~Atomic!PaysFor(req, S)
    BY <1>1, <1>2, <2>2, PaysForMeans DEF Payable
  <2>4. Atomic!Cheapest(req) = {}
    BY <2>3 DEF Atomic!Cheapest
  <2> QED BY <2>4 DEF Atomic!Refusable
<1>4. CASE ~RequestConsidered(req)
  BY <1>4 DEF Atomic!Refusable
<1> QED BY <1>3, <1>4

\* A selected coin that can be made an input.
BoundTo(i) ==
  LET g == call.coins[i].nId
  IN  /\ g \in req.blockHashes /\ SetsOf(g) # {}
      /\ \E n \in 1 .. Len(LastSet(g).coins) : LastSet(g).coins[n] = call.coins[i].coin
      /\ Len(LastSet(g).coins) <= MaxCoverSet
      /\ req.version = "V2" => LastSet(g).hash32 /\ g \in 1 .. MaxSetId

\* The private payments of something.
PrivateAsked ==
  {i \in Len(req.recipients) + 1 .. Len(AllPayments(req)) : AllPayments(req)[i].amount # 0}

\* InputsExist, in terms of what the input loop and the constructor look at.
LEMMA InputsExistMeans ==
  ASSUME call.coins = req.coins, NEW S
  PROVE  InputsExist(req, S) <=>
           /\ req.version = "V1" => Cardinality(S) = 1
           /\ \A i \in S : BoundTo(i)
           /\ req.longMemos \cap PrivateAsked = {}
<1>1. \A g : LastSet(g) =
        req.sets[CHOOSE k \in {n \in 1 .. Len(req.sets) : req.sets[n].setId = g} :
                   \A j \in {n \in 1 .. Len(req.sets) : req.sets[n].setId = g} : j <= k]
  BY Zenon DEF LastSet, SetsOf
<1>2. \A c, s : c \in {s[n] : n \in 1 .. Len(s)} <=> \E n \in 1 .. Len(s) : s[n] = c
  OBVIOUS
<1> DEFINE mine(g) == {n \in 1 .. Len(req.sets) : req.sets[n].setId = g}
           last(g) == req.sets[CHOOSE k \in mine(g) : \A j \in mine(g) : j <= k]
           bound(i) ==
             /\ req.coins[i].nId \in req.blockHashes /\ mine(req.coins[i].nId) # {}
             /\ req.coins[i].coin \in {last(req.coins[i].nId).coins[n] :
                                         n \in 1 .. Len(last(req.coins[i].nId).coins)}
             /\ Len(last(req.coins[i].nId).coins) <= MaxCoverSet
             /\ req.version = "V2" =>
                  last(req.coins[i].nId).hash32 /\ req.coins[i].nId \in 1 .. MaxSetId
<1>3. InputsExist(req, S) <=>
           /\ req.version = "V1" => Cardinality(S) = 1
           /\ \A i \in S : bound(i)
           /\ req.longMemos \cap PrivateAsked = {}
  BY Zenon DEF InputsExist, PrivateAsked
<1>4. \A g : LastSet(g) = last(g) /\ SetsOf(g) = mine(g)
  BY <1>1, Zenon DEF SetsOf
<1>5. \A i \in S : bound(i) <=> BoundTo(i)
  <2> SUFFICES ASSUME NEW i \in S PROVE bound(i) <=> BoundTo(i)
    OBVIOUS
  <2> DEFINE g == req.coins[i].nId
             cover == LastSet(g)
  <2>1. call.coins[i].nId = g /\ cover = last(g) /\ SetsOf(g) = mine(g)
    BY <1>4
  <2>2. req.coins[i].coin \in {cover.coins[n] : n \in 1 .. Len(cover.coins)}
          <=> \E n \in 1 .. Len(cover.coins) : cover.coins[n] = call.coins[i].coin
    OBVIOUS
  <2> HIDE DEF last, mine
  <2> QED BY <2>1, <2>2, Zenon DEF BoundTo
<1> HIDE DEF bound
<1> QED BY <1>3, <1>5

\* The private outputs are for the private payments of something.
LEMMA OutputsAreAsked ==
  ASSUME SpendInv, pc \in {"inputs", "done"}
  PROVE  outs = PrivateAsked
<1>1. req \in Request /\ paid \in Seq(Nat) /\ outs = PrivateOutputs
  BY DEF SpendInv, SpendTypeOK, OutputsFilled
<1>2. /\ AllPayments(req) \in Seq(Payment) /\ Len(AllPayments(req)) \in Nat
      /\ Len(AmountsOf(AllPayments(req))) = Len(AllPayments(req))
      /\ \A i \in 1 .. Len(AllPayments(req)) :
           /\ AmountsOf(AllPayments(req))[i] = AllPayments(req)[i].amount
           /\ AllPayments(req)[i].amount \in Int
      /\ Len(req.recipients) \in Nat
  BY <1>1, PaymentsType, AmountsType
<1>3. /\ Len(paid) = Len(AllPayments(req))
      /\ \A i \in 1 .. Len(AllPayments(req)) \ FeeBearers(req) :
           AllPayments(req)[i].amount - paid[i] = 0
      /\ \A i \in FeeBearers(req) :
           paid[i] > 0 /\ AllPayments(req)[i].amount - paid[i] >= 0
      /\ FeeBearers(req) \subseteq 1 .. Len(AllPayments(req))
  BY <1>2 DEF SpendInv, FeeBorneExactly, FeeBearers
<1>4. \A i \in 1 .. Len(paid) : paid[i] \in Nat
  BY <1>1
<1>5. \A i \in 1 .. Len(paid) : paid[i] # 0 <=> AllPayments(req)[i].amount # 0
  BY <1>2, <1>3, <1>4
<1> QED BY <1>1, <1>2, <1>3, <1>5 DEF PrivateOutputs, PrivateAsked

\* A payment cannot bear its share: it could not bear the largest one.
LEMMA DeductFailureHasReason ==
  ASSUME SpendInv, DeductFee, pc' = "failed"
  PROVE  Atomic!Refusable(req)
<1>1. /\ pc = "select" /\ at = "ok" /\ req \in Request /\ call = CallOf(req)
      /\ call.coins = req.coins /\ fee \in Nat
  <2>1. pc = "select" /\ at = "ok"
    BY DEF DeductFee
  <2> QED BY <2>1, SelectedFacts DEF CallOf
<1>2. picked \in Atomic!Cheapest(req) /\ Atomic!Price(req, picked) = fee
  BY <1>1, PickedIsCheapest
<1>3. CASE req.version = "V1" /\ Cardinality(picked) # 1
  BY <1>1, <1>2, <1>3, InputsExistMeans DEF Atomic!Refusable
<1>4. ASSUME NEW i \in FeeBearers(req), TooSmall(i)
      PROVE  Atomic!Refusable(req)
  <2> DEFINE n == Cardinality(FeeBearers(req))
             q == fee \div n
             m == fee % n
  <2>1. /\ FeeBearers(req) \subseteq 1 .. Len(AllPayments(req))
        /\ Len(AllPayments(req)) \in Nat /\ AllPayments(req)[i].amount \in Int
    <3>1. Len(AllPayments(req)) \in Nat
      BY <1>1, PaymentsType, LenProperties
    <3>2. FeeBearers(req) \subseteq 1 .. Len(AllPayments(req))
      BY DEF FeeBearers
    <3> QED BY <1>1, <3>1, <3>2, PaymentsType
  <2>2. n \in Nat \ {0}
    BY <2>1, PositionsFinite, FS_EmptySet
  <2>3. q \in Nat /\ m \in Nat
    <3>1. fee \div n \in Nat /\ fee % n \in 0 .. n - 1
      BY <1>1, <2>2, Division
    <3> HIDE DEF n
    <3> QED BY <2>2, <3>1
  <2>4. FeeToSubtract(i) = q + IF \A j \in FeeBearers(req) : i <= j THEN m ELSE 0
    BY Zenon DEF FeeToSubtract
  <2>5. ~(AllPayments(req)[i].amount > q + m)
    <3> HIDE DEF q, m
    <3> QED BY <1>4, <2>1, <2>3, <2>4 DEF TooSmall
  <2>6. ~Atomic!Affordable(req, picked)
    <3>1. /\ Atomic!Bearers(req) = FeeBearers(req) /\ Atomic!Asked(req) = AllPayments(req)
          /\ Atomic!Cardinality(FeeBearers(req)) = n
      BY <1>1, AskedMeans, SameAmounts
    <3> QED BY <1>2, <2>5, <3>1, Zenon DEF Atomic!Affordable
  <2> QED BY <1>2, <2>6 DEF Atomic!Refusable
<1> QED BY <1>3, <1>4 DEF DeductFee

\* A coin cannot be made an input.
LEMMA InputFailureHasReason ==
  ASSUME SpendInv, NEW i \in todo, AddInput(i), pc' = "failed"
  PROVE  Atomic!Refusable(req)
<1>1. /\ pc = "inputs" /\ at = "ok" /\ req \in Request /\ call.coins = req.coins
      /\ i \in picked
  BY SelectedFacts DEF AddInput, SpendInv, SpendTypeOK, Control, CallOf
<1>2. picked \in Atomic!Cheapest(req)
  BY <1>1, PickedIsCheapest
<1>3. InputError(i) # "none"
  BY <1>1 DEF AddInput
<1>4. ~BoundTo(i)
  BY <1>3, Zenon DEF InputError, BoundTo
<1> QED BY <1>1, <1>2, <1>4, InputsExistMeans DEF Atomic!Refusable

\* The transaction cannot be built.
LEMMA BuildFailureHasReason ==
  ASSUME SpendInv, BuildTransaction, pc' = "failed"
  PROVE  Atomic!Refusable(req)
<1>1. /\ pc = "inputs" /\ at = "ok" /\ req \in Request /\ call.coins = req.coins
  BY SelectedFacts DEF BuildTransaction, SpendInv, SpendTypeOK, Control, CallOf
<1>2. picked \in Atomic!Cheapest(req)
  BY <1>1, PickedIsCheapest
<1>3. /\ BuildError \notin {"none", "missing V2 cover-set reference", "bad V2 dimensions"}
  <2>1. SpendInv'
    BY BuildTransactionInv
  <2> QED BY <1>1, <2>1 DEF BuildTransaction, ThrowInSpend, SpendInv, RepeatedChecksHold
<1>4. ~InputsExist(req, picked)
  <2>1. CASE \E i \in picked : req.version = "V2" /\
               (call.coins[i].nId = 0 \/ call.coins[i].nId > MaxSetId)
    <3>1. PICK i \in picked : req.version = "V2" /\
               (call.coins[i].nId = 0 \/ call.coins[i].nId > MaxSetId)
      BY <2>1
    <3>2. call.coins[i].nId \notin 1 .. MaxSetId
      BY <3>1, OutputLimitsAssumption
    <3> QED BY <1>1, <3>1, <3>2, InputsExistMeans DEF BoundTo
  <2>2. CASE \E i \in picked : Len(LastSet(call.coins[i].nId).coins) > MaxCoverSet
    <3>1. PICK i \in picked : Len(LastSet(call.coins[i].nId).coins) > MaxCoverSet
      BY <2>2
    <3>2. ~BoundTo(i)
      <4> SUFFICES ASSUME BoundTo(i) PROVE FALSE
        OBVIOUS
      <4>1. SetsOf(call.coins[i].nId) # {} /\ Len(LastSet(call.coins[i].nId).coins) <= MaxCoverSet
        BY DEF BoundTo
      <4>2. PICK k \in SetsOf(call.coins[i].nId) : LastSet(call.coins[i].nId) = req.sets[k]
        BY <1>1, <4>1, LastSetIsLast
      <4>3. req.sets[k] \in CoverSet
        BY <1>1 DEF SetsOf, Request
      <4>4. Len(LastSet(call.coins[i].nId).coins) \in Nat
        BY <4>2, <4>3, LenProperties DEF CoverSet
      <4> QED BY <3>1, <4>1, <4>4, OutputLimitsAssumption
    <3> QED BY <1>1, <3>2, InputsExistMeans
  <2>3. CASE req.longMemos \cap outs # {}
    BY <1>1, <2>3, InputsExistMeans, OutputsAreAsked
  <2>4. \/ \E i \in picked : req.version = "V2" /\
               (call.coins[i].nId = 0 \/ call.coins[i].nId > MaxSetId)
        \/ \E i \in picked : Len(LastSet(call.coins[i].nId).coins) > MaxCoverSet
        \/ req.longMemos \cap outs # {}
    BY <1>3, Zenon DEF BuildError
  <2> QED BY <2>1, <2>2, <2>3, <2>4
<1> QED BY <1>2, <1>4 DEF Atomic!Refusable

-----------------------------------------------------------------------------
(***************************************************************************)
(* A transaction settles its request.                                      *)
(***************************************************************************)

\* Whoever gets no output is owed nothing: what the outputs carry is paid.
LEMMA CarriedIsPaid ==
  ASSUME SpendInv, pc \in {"inputs", "done"}
  PROVE  Carried = paid
<1>1. /\ paid \in Seq(Nat) /\ outs = PrivateOutputs /\ Len(req.recipients) \in Nat
      /\ Len(paid) \in Nat
  BY PaidFacts, LenProperties DEF SpendInv, OutputsFilled
<1>2. paid = [i \in 1 .. Len(paid) |-> paid[i]]
  BY <1>1
<1>3. \A i \in 1 .. Len(paid) :
        (IF i <= Len(req.recipients) \/ i \in outs THEN paid[i] ELSE 0) = paid[i]
  BY <1>1 DEF PrivateOutputs
<1>4. Carried = [i \in 1 .. Len(paid) |-> paid[i]]
  BY <1>3 DEF Carried
<1> QED BY <1>2, <1>4

\* The request was one to consider.
LEMMA SelectedIsConsidered ==
  ASSUME RefinementInv, pc = "inputs"
  PROVE  RequestConsidered(req)
<1>1. /\ at = "ok" /\ RequestError(req) = "none" /\ call = CallOf(req)
      /\ call.required = Sum(AmountsOf(AllPayments(req)))
  BY SelectedFacts DEF RefinementInv, SpendInv, Control
<1>2. call.coins = req.coins /\ call.version = req.version
  BY <1>1 DEF CallOf
<1>3. Balance(call.coins) <= MaxMoney
  BY <1>1 DEF RefinementInv, SpendInv, SelectInv, ChecksPassed
<1>4. ~(call.version = "V2" /\ call.required = 0)
  BY <1>1 DEF RefinementInv, EmptyRefused
<1> QED BY <1>1, <1>2, <1>3, <1>4 DEF RequestConsidered

\* The checks of the input loop and of the constructor were all there is to it.
LEMMA BuiltIsBindable ==
  ASSUME RefinementInv, BuildTransaction, BuildError = "none"
  PROVE  InputsExist(req, picked)
<1>1. /\ pc = "inputs" /\ at = "ok" /\ todo = {} /\ req \in Request /\ call \in SelectCall
      /\ call.coins = req.coins /\ picked \in Choices /\ SpendInv
  BY SelectedFacts DEF BuildTransaction, RefinementInv, SpendInv, SpendTypeOK, Control, CallOf
<1>2. req.version = "V1" => Cardinality(picked) = 1
  BY <1>1 DEF RefinementInv, OneInput
<1>3. /\ \A i \in picked : ~(req.version = "V2" /\
               (call.coins[i].nId = 0 \/ call.coins[i].nId > MaxSetId))
      /\ \A i \in picked : ~(Len(LastSet(call.coins[i].nId).coins) > MaxCoverSet)
      /\ req.longMemos \cap outs = {}
  BY Zenon DEF BuildError
<1>4. ASSUME NEW i \in picked PROVE BoundTo(i)
  <2> DEFINE g == call.coins[i].nId
             cover == LastSet(g)
  <2>1. InputError(i) = "none"
    BY <1>1 DEF SpendInv, InputsMade
  <2>2. /\ g \in req.blockHashes /\ SetsOf(g) # {}
        /\ \E n \in 1 .. Len(cover.coins) : cover.coins[n] = call.coins[i].coin
        /\ req.version = "V2" => cover.hash32
    BY <2>1, Zenon DEF InputError
  <2>3. PICK k \in SetsOf(g) : cover = req.sets[k]
    BY <1>1, <2>2, LastSetIsLast
  <2>4. req.sets[k] \in CoverSet
    BY <1>1 DEF SetsOf, Request
  <2>5. Len(cover.coins) \in Nat
    BY <2>3, <2>4, LenProperties DEF CoverSet
  <2>6. Len(cover.coins) <= MaxCoverSet
    BY <1>3, <2>5, OutputLimitsAssumption
  <2>7. g \in Nat
    <3>1. call.coins \in Seq(CoinMeta) /\ i \in 1 .. Len(call.coins)
      BY <1>1 DEF Choices, SelectCall
    <3>2. call.coins[i] \in CoinMeta
      BY <3>1
    <3> QED BY <3>2 DEF CoinMeta
  <2>8. req.version = "V2" => g \in 1 .. MaxSetId
    BY <1>3, <2>7, OutputLimitsAssumption
  <2> HIDE DEF cover
  <2> QED BY <2>2, <2>6, <2>8, Zenon DEF BoundTo, cover
<1>5. req.longMemos \cap PrivateAsked = {}
  BY <1>1, <1>3, OutputsAreAsked
<1> QED BY <1>1, <1>2, <1>4, <1>5, InputsExistMeans

\* What is built is the answer that AtomicSpend asks for.
LEMMA BuiltSettles ==
  ASSUME RefinementInv, BuildTransaction, BuildError = "none",
         NEW a, a = [outcome |-> "paid", spent |-> picked, fee |-> fee, paid |-> paid,
                     change |-> change]
  PROVE  a \in Atomic!Answer /\ Atomic!Settles(req, a)
<1>1. /\ pc = "inputs" /\ at = "ok" /\ SpendInv /\ req \in Request /\ fee \in Nat
      /\ call \in SelectCall /\ call = CallOf(req) /\ picked \in Choices
      /\ call.required = Sum(AmountsOf(AllPayments(req)))
      /\ call.required \in Nat /\ Value(call.coins, picked) \in Nat
      /\ CurrentRequired = call.required + IF FeeBearers(req) = {} THEN fee ELSE 0
  <2>1. pc = "inputs" /\ at = "ok" /\ SpendInv
    BY DEF BuildTransaction, RefinementInv, SpendInv, Control
  <2> QED BY <2>1, SelectedFacts
<1>2. /\ change = Value(call.coins, picked) - CurrentRequired /\ change >= 0
      /\ paid \in Seq(Nat) /\ Sum(paid) \in 0 .. MaxMoney
      /\ fee + Sum(paid) = CurrentRequired
  BY <1>1, PaidFacts DEF SpendInv, ValueConserved
<1>3. Sum(paid) \in Nat /\ Sum(paid) = Total(paid, Len(paid))
  BY <1>2, LimitsAssumption DEF Sum
<1>4. call.coins = req.coins
  BY <1>1 DEF CallOf
<1>5. a \in Atomic!Answer
  <2>1. change \in Nat
    <3> HIDE DEF CurrentRequired
    <3> QED BY <1>1, <1>2
  <2>2. picked \in SUBSET Nat
    BY <1>1 DEF Choices
  <2> QED BY <1>1, <1>2, <2>1, <2>2 DEF Atomic!Answer
<1>6. /\ picked \in Atomic!Cheapest(req) /\ fee = Atomic!Price(req, picked)
  BY <1>1, PickedIsCheapest
<1>7. RequestConsidered(req) /\ InputsExist(req, picked)
  BY <1>1, SelectedIsConsidered, BuiltIsBindable
<1>8. /\ Atomic!Asked(req) = AllPayments(req)
      /\ Atomic!AmountAsked(req) = call.required
      /\ Atomic!Bearers(req) = FeeBearers(req)
  BY <1>1, AskedMeans
<1>9. /\ AllPayments(req) \in Seq(Payment) /\ Len(AllPayments(req)) \in Nat
      /\ Len(AmountsOf(AllPayments(req))) = Len(AllPayments(req))
      /\ \A i \in 1 .. Len(AllPayments(req)) :
           /\ AmountsOf(AllPayments(req))[i] = AllPayments(req)[i].amount
           /\ AllPayments(req)[i].amount \in Int
      /\ FeeBearers(req) \subseteq 1 .. Len(AllPayments(req))
  BY <1>1, PaymentsType, AmountsType DEF FeeBearers
<1>10. /\ Len(paid) = Len(AllPayments(req))
       /\ \A i \in 1 .. Len(AllPayments(req)) \ FeeBearers(req) :
            AllPayments(req)[i].amount - paid[i] = 0
       /\ \A i \in FeeBearers(req) :
            paid[i] > 0 /\ AllPayments(req)[i].amount - paid[i] >= 0
  BY <1>1, <1>9 DEF SpendInv, FeeBorneExactly
<1>11. Atomic!Value(req.coins, picked) = fee + Atomic!Total(paid, Len(paid)) + change
  <2> HIDE DEF CurrentRequired
  <2>1. CurrentRequired \in Int
    BY <1>1
  <2>2. Value(call.coins, picked) = fee + Sum(paid) + change
    BY <1>1, <1>2, <1>3, <2>1
  <2> QED BY <1>3, <1>4, <2>2, SameAmounts, Zenon
<1>12. Atomic!AmountAsked(req) - Atomic!Total(paid, Len(paid)) =
         IF FeeBearers(req) = {} THEN 0 ELSE fee
  <2> HIDE DEF CurrentRequired
  <2> QED BY <1>1, <1>2, <1>3, <1>8, SameAmounts
<1>13. \A i \in 1 .. Len(AllPayments(req)) :
         IF i \in FeeBearers(req) THEN paid[i] \in 1 .. AllPayments(req)[i].amount
                                  ELSE paid[i] = AllPayments(req)[i].amount
  <2>1. \A i \in 1 .. Len(paid) : paid[i] \in Nat
    BY <1>2
  <2> QED BY <1>9, <1>10, <2>1
<1>14. /\ a.spent = picked /\ a.fee = fee /\ a.paid = paid /\ a.change = change
  OBVIOUS
<1>15. Atomic!Settles(req, a)
  BY <1>6, <1>7, <1>8, <1>10, <1>11, <1>12, <1>13, <1>14, Zenon DEF Atomic!Settles
<1> QED BY <1>5, <1>15

-----------------------------------------------------------------------------
(***************************************************************************)
(* Every step is a step of AtomicSpend or changes nothing it can see.      *)
(***************************************************************************)

\* What the caller sees before, during and after a call.
LEMMA CallSeen ==
  /\ pc = "idle" => CallStatus = "idle"
  /\ pc # "idle" /\ ~Returned => CallStatus = "asked"
  /\ pc # "idle" /\ Returned => CallStatus = "answered"
  /\ CallStatus # "answered" => CallAnswer = Atomic!NoTransaction("none")
  /\ CallStatus = "answered" /\ pc # "done" => CallAnswer = Atomic!NoTransaction("refused")
  /\ CallStatus = "answered" /\ pc = "done" =>
       CallAnswer = [outcome |-> "paid", spent |-> picked, fee |-> fee,
                     paid |-> Carried, change |-> change]
BY DEF CallStatus, CallAnswer, Atomic!NoTransaction

LEMMA CallSeenNext ==
  /\ pc' = "idle" => CallStatus' = "idle"
  /\ pc' # "idle" /\ ~Returned' => CallStatus' = "asked"
  /\ pc' # "idle" /\ Returned' => CallStatus' = "answered"
  /\ CallStatus' # "answered" => CallAnswer' = Atomic!NoTransaction("none")
  /\ CallStatus' = "answered" /\ pc' # "done" => CallAnswer' = Atomic!NoTransaction("refused")
  /\ CallStatus' = "answered" /\ pc' = "done" =>
       CallAnswer' = [outcome |-> "paid", spent |-> picked', fee |-> fee',
                      paid |-> Carried', change |-> change']
BY DEF CallStatus, CallAnswer, Atomic!NoTransaction

LEMMA InitMaps == Init => Atomic!AtomicInit
BY CallSeen DEF Init, Atomic!AtomicInit

\* A request is asked, or refused at once.
LEMMA CreateMaps ==
  ASSUME RefinementInv, NEW r \in Requests, CreateSparkSpend(r)
  PROVE  Atomic!Ask
<1>1. /\ pc = "idle" /\ at = "idle" /\ req' = r /\ r \in Request
      /\ CallStatus = "idle" /\ CallAnswer = Atomic!NoTransaction("none")
  BY RequestsAssumption, CallSeen DEF CreateSparkSpend, RefinementInv, SpendInv, Control
<1>2. CASE RequestError(r) = "none"
  <2>1. pc' = "select" /\ SelectSparkCoins(CallOf(r))
    BY <1>2 DEF CreateSparkSpend
  <2>2. at' = "round"
    <3>1. CallOf(r).version \in {"V1", "V2"} /\ MoneyRange(CallOf(r).required)
      BY <1>1, <1>2, RequestChecked DEF CallOf
    <3> QED BY <2>1, <3>1 DEF SelectSparkCoins
  <2>3. CallStatus' = "asked" /\ CallAnswer' = Atomic!NoTransaction("none")
    BY <2>1, <2>2, CallSeenNext DEF Returned
  <2> QED BY <1>1, <2>3 DEF Atomic!Ask
<1>3. CASE RequestError(r) # "none"
  <2>1. pc' = "failed"
    BY <1>3 DEF CreateSparkSpend, ThrowInSpend
  <2>2. CallStatus' = "answered" /\ CallAnswer' = Atomic!NoTransaction("refused")
    BY <2>1, CallSeenNext DEF Returned
  <2>3. Atomic!Refusable(r)
    BY <1>3 DEF Atomic!Refusable, RequestConsidered
  <2> QED BY <1>1, <2>2, <2>3 DEF Atomic!Ask
<1> QED BY <1>2, <1>3

\* A step of the call that throws refuses, one that goes on is not seen.
LEMMA StepMaps ==
  ASSUME pc # "idle" /\ ~Returned, req' = req, pc' \notin {"idle", "done"},
         Returned' => Atomic!Refusable(req)
  PROVE  Atomic!Refuse \/ UNCHANGED Atomic!atomicVars
<1>1. CallStatus = "asked" /\ CallAnswer = Atomic!NoTransaction("none")
  BY CallSeen
<1>2. CASE Returned'
  <2>1. CallStatus' = "answered" /\ CallAnswer' = Atomic!NoTransaction("refused")
    BY <1>2, CallSeenNext
  <2> QED BY <1>1, <1>2, <2>1 DEF Atomic!Refuse
<1>3. CASE ~Returned'
  <2>1. CallStatus' = "asked" /\ CallAnswer' = Atomic!NoTransaction("none")
    BY <1>3, CallSeenNext
  <2> QED BY <1>1, <2>1 DEF Atomic!atomicVars
<1> QED BY <1>2, <1>3

LEMMA SelectionMaps ==
  ASSUME RefinementInv, RefinementInv', SelectStep, UNCHANGED spendVars
  PROVE  Atomic!Refuse \/ UNCHANGED Atomic!atomicVars
<1>1. at \in {"round", "take"} /\ pc' = pc /\ req' = req
  BY DEF SelectStep, StartRound, TakeLargest, TakeSufficient, FinishRound, spendVars
<1>2. pc = "select"
  BY <1>1 DEF RefinementInv, SpendInv, SpendTypeOK, Control
<1>3. Returned' => Atomic!Refusable(req')
  <2> SUFFICES ASSUME at' = "error" PROVE Atomic!Refusable(req')
    BY <1>1, <1>2 DEF Returned
  <2>1. SpendInv' /\ pc' = "select"
    BY <1>1, <1>2 DEF RefinementInv
  <2>2. (SpendInv /\ at = "error" /\ pc = "select" => Atomic!Refusable(req))'
    BY SelectionFailureHasReason, PTL
  <2> QED BY <2>1, <2>2
<1> QED BY <1>1, <1>2, <1>3, StepMaps DEF Returned

LEMMA DeductFeeMaps ==
  ASSUME RefinementInv, DeductFee
  PROVE  Atomic!Refuse \/ UNCHANGED Atomic!atomicVars
<1>1. /\ pc = "select" /\ at = "ok" /\ at' = at /\ req' = req
      /\ pc' \in {"fill", "failed"} /\ SpendInv
  BY DEF DeductFee, ThrowInSpend, selectVars, RefinementInv
<1>2. pc' = "failed" => Atomic!Refusable(req)
  BY <1>1, DeductFailureHasReason
<1> QED BY <1>1, <1>2, StepMaps DEF Returned

\* Filling the outputs never throws.
LEMMA FillOutputsMaps ==
  ASSUME RefinementInv, FillOutputs
  PROVE  UNCHANGED Atomic!atomicVars
<1>1. /\ pc = "fill" /\ at' = at /\ req' = req /\ pc' \in {"inputs", "failed"}
      /\ pc' = "failed" => reason' = "unable to create spend"
  BY DEF FillOutputs, ThrowInSpend, selectVars
<1>2. at = "ok" /\ pc' = "inputs"
  <2>1. SpendInv'
    BY FillOutputsInv DEF RefinementInv
  <2> QED BY <1>1, <2>1 DEF RefinementInv, SpendInv, Control, RepeatedChecksHold
<1>3. /\ CallStatus = "asked" /\ CallStatus' = "asked" /\ CallAnswer' = CallAnswer
  BY <1>1, <1>2, CallSeen, CallSeenNext DEF Returned
<1> QED BY <1>1, <1>3 DEF Atomic!atomicVars

LEMMA AddInputMaps ==
  ASSUME RefinementInv, NEW i \in todo, AddInput(i)
  PROVE  Atomic!Refuse \/ UNCHANGED Atomic!atomicVars
<1>1. /\ pc = "inputs" /\ at' = at /\ req' = req /\ pc' \in {"inputs", "failed"}
  BY DEF AddInput, ThrowInSpend, selectVars
<1>2. SpendInv /\ at = "ok"
  BY <1>1 DEF RefinementInv, SpendInv, Control
<1>3. pc' = "failed" => Atomic!Refusable(req)
  BY <1>2, InputFailureHasReason
<1> QED BY <1>1, <1>2, <1>3, StepMaps DEF Returned

\* The step that builds the transaction answers the request.
LEMMA BuildMaps ==
  ASSUME RefinementInv, BuildTransaction
  PROVE  Atomic!Refuse \/ Atomic!Settle \/ UNCHANGED Atomic!atomicVars
<1>1. /\ pc = "inputs" /\ at' = at /\ req' = req /\ pc' \in {"done", "failed"}
      /\ picked' = picked /\ fee' = fee /\ paid' = paid /\ outs' = outs
      /\ change' = change
  BY DEF BuildTransaction, ThrowInSpend, selectVars
<1>2. SpendInv /\ at = "ok"
  BY <1>1 DEF RefinementInv, SpendInv, Control
<1>3. CASE pc' = "failed"
  <2>1. Atomic!Refusable(req)
    BY <1>2, <1>3, BuildFailureHasReason
  <2> QED BY <1>1, <1>2, <1>3, <2>1, StepMaps DEF Returned
<1>4. CASE pc' = "done"
  <2>1. BuildError = "none"
    BY <1>4 DEF BuildTransaction, ThrowInSpend
  <2>2. Carried' = paid
    <3>1. Carried' = Carried
      BY <1>1 DEF Carried
    <3> QED BY <1>1, <1>2, <3>1, CarriedIsPaid
  <2>3. CallStatus = "asked" /\ CallStatus' = "answered"
    BY <1>1, <1>2, <1>4, CallSeen, CallSeenNext DEF Returned
  <2>4. CallAnswer' = [outcome |-> "paid", spent |-> picked, fee |-> fee,
                       paid |-> paid, change |-> change]
    BY <1>1, <1>4, <2>2, <2>3, CallSeenNext
  <2>5. CallAnswer' \in Atomic!Answer /\ Atomic!Settles(req, CallAnswer')
    BY <2>1, <2>4, BuiltSettles
  <2> QED BY <1>1, <2>3, <2>4, <2>5 DEF Atomic!Settle
<1> QED BY <1>1, <1>3, <1>4

LEMMA ReturnMaps ==
  ASSUME RefinementInv, ReturnSpend
  PROVE  Atomic!Deliver
<1>1. Returned /\ pc' = "idle" /\ req' = NoRequest
  BY DEF ReturnSpend
<1>2. pc # "idle"
  BY <1>1 DEF Returned, RefinementInv, SpendInv, Control
<1>3. /\ CallStatus = "answered" /\ CallStatus' = "idle"
      /\ CallAnswer' = Atomic!NoTransaction("none")
  BY <1>1, <1>2, CallSeen, CallSeenNext
<1> QED BY <1>1, <1>3 DEF Atomic!Deliver

LEMMA NextMaps ==
  ASSUME RefinementInv, RefinementInv', [Next]_vars
  PROVE  [Atomic!AtomicNext]_(Atomic!atomicVars)
<1>1. ASSUME NEW r \in Requests, CreateSparkSpend(r) PROVE Atomic!AtomicNext
  BY <1>1, CreateMaps DEF Atomic!AtomicNext
<1>2. ASSUME SelectStep, UNCHANGED spendVars
      PROVE  [Atomic!AtomicNext]_(Atomic!atomicVars)
  BY <1>2, SelectionMaps DEF Atomic!AtomicNext
<1>3. ASSUME DeductFee PROVE [Atomic!AtomicNext]_(Atomic!atomicVars)
  BY <1>3, DeductFeeMaps DEF Atomic!AtomicNext
<1>4. ASSUME FillOutputs PROVE [Atomic!AtomicNext]_(Atomic!atomicVars)
  BY <1>4, FillOutputsMaps
<1>5. ASSUME NEW i \in todo, AddInput(i)
      PROVE  [Atomic!AtomicNext]_(Atomic!atomicVars)
  BY <1>5, AddInputMaps DEF Atomic!AtomicNext
<1>6. ASSUME BuildTransaction PROVE [Atomic!AtomicNext]_(Atomic!atomicVars)
  BY <1>6, BuildMaps DEF Atomic!AtomicNext
<1>7. ASSUME ReturnSpend PROVE Atomic!AtomicNext
  BY <1>7, ReturnMaps DEF Atomic!AtomicNext
<1>8. ASSUME UNCHANGED vars PROVE UNCHANGED Atomic!atomicVars
  BY <1>8
  DEF vars, selectVars, spendVars, Atomic!atomicVars, CallStatus, CallAnswer, Returned, Carried
<1> QED
  BY <1>1, <1>2, <1>3, <1>4, <1>5, <1>6, <1>7, <1>8, Zenon DEF Next, SpendStep

\* The fee loop, the fee split, the input loop and the constructor's checks,
\* with every throw among them, look to a wallet like one step that answers its
\* request: a cheapest transaction that settles every payment, or a refusal
\* that has a reason.  This is the safety part of ImplementsAtomicSpend.
THEOREM RefinesAtomicSpend == Spec => Atomic!AtomicSafety
<1>1. Init => RefinementInv /\ Atomic!AtomicInit
  BY SpendInitInv, InitMaps DEF RefinementInv, EmptyRefused, OneInput, Init, SelectInit
<1>2. RefinementInv /\ [Next]_vars => RefinementInv'
  BY RefinementNextInv
<1>3. RefinementInv /\ RefinementInv' /\ [Next]_vars
        => [Atomic!AtomicNext]_(Atomic!atomicVars)
  BY NextMaps
<1> QED BY <1>1, <1>2, <1>3, PTL DEF Spec, Atomic!AtomicSafety

-----------------------------------------------------------------------------
(***************************************************************************)
(* FEE QUOTES: the fee of estimateSparkFee is the fee of the spend.        *)
(***************************************************************************)

-----------------------------------------------------------------------------
(***************************************************************************)
(* The same coins in another list.                                         *)
(***************************************************************************)

Distinct(s) == \A i, j \in 1 .. Len(s) : s[i] = s[j] => i = j

\* Where list d holds the coins that are at positions S of list c.
Moved(c, d, S) == {j \in 1 .. Len(d) : \E i \in S : d[j] = c[i]}

\* What CoinMeta says of a list of coins.
LEMMA CoinsType ==
  ASSUME NEW s \in Seq(CoinMeta)
  PROVE  Len(s) \in Nat /\ IsCoinList(s) /\ \A i \in 1 .. Len(s) : s[i] \in Range(s)
<1>1. Len(s) \in Nat /\ DOMAIN s = 1 .. Len(s) /\ \A i \in 1 .. Len(s) : s[i] \in CoinMeta
  OBVIOUS
<1>2. \A m \in CoinMeta : m.v \in Nat
  BY DEF CoinMeta
<1>3. \A i \in 1 .. Len(s) : s[i] \in Range(s)
  BY <1>1 DEF Range
<1> QED BY <1>1, <1>2, <1>3 DEF IsCoinList

\* Coins keep their number and their value wherever they stand in a list.
LEMMA MovedCoins ==
  ASSUME NEW c \in Seq(CoinMeta), NEW d \in Seq(CoinMeta),
         Distinct(c), Distinct(d), Range(c) \subseteq Range(d),
         NEW S \in SUBSET (1 .. Len(c))
  PROVE  /\ Moved(c, d, S) \in SUBSET (1 .. Len(d))
         /\ Cardinality(Moved(c, d, S)) = Cardinality(S)
         /\ Value(d, Moved(c, d, S)) = Value(c, S)
<1> DEFINE upTo(n) == S \cap (1 .. n)
           there(n) == Moved(c, d, upTo(n))
           G == {n \in Nat : n <= Len(c) =>
                   /\ Cardinality(there(n)) = Cardinality(upTo(n))
                   /\ Value(d, there(n)) = Value(c, upTo(n))}
<1>1. /\ Len(c) \in Nat /\ IsCoinList(c) /\ Len(d) \in Nat /\ IsCoinList(d)
      /\ \A i \in 1 .. Len(c) : c[i] \in Range(d)
  BY CoinsType
<1>2. 0 \in G
  <2>1. upTo(0) = {} /\ there(0) = {}
    BY DEF Moved
  <2>2. Value(c, {}) = 0 /\ Value(d, {}) = 0
    BY <1>1, ValueEmpty
  <2> QED BY <2>1, <2>2
<1>3. ASSUME NEW n \in G PROVE n + 1 \in G
  <2> SUFFICES ASSUME n + 1 <= Len(c)
               PROVE  /\ Cardinality(there(n + 1)) = Cardinality(upTo(n + 1))
                      /\ Value(d, there(n + 1)) = Value(c, upTo(n + 1))
    OBVIOUS
  <2>1. /\ n \in Nat /\ n + 1 \in 1 .. Len(c)
        /\ Cardinality(there(n)) = Cardinality(upTo(n))
        /\ Value(d, there(n)) = Value(c, upTo(n))
    BY <1>1, <1>3
  <2>2. CASE n + 1 \notin S
    <3>1. upTo(n + 1) = upTo(n)
      BY <2>1, <2>2
    <3> QED BY <2>1, <3>1
  <2>3. CASE n + 1 \in S
    <3>1. upTo(n + 1) = upTo(n) \cup {n + 1} /\ n + 1 \notin upTo(n)
      BY <2>1, <2>3
    <3>2. PICK k \in 1 .. Len(d) : d[k] = c[n + 1]
      <4>1. c[n + 1] \in Range(d) /\ DOMAIN d = 1 .. Len(d)
        BY <1>1, <2>1
      <4> QED BY <4>1 DEF Range
    <3>3. k \notin there(n)
      <4>1. SUFFICES ASSUME NEW i \in upTo(n), d[k] = c[i] PROVE FALSE
        BY DEF Moved
      <4>2. i \in 1 .. Len(c) /\ i # n + 1
        BY <2>1, <3>1
      <4> QED BY <2>1, <3>2, <4>1, <4>2 DEF Distinct
    <3>4. there(n + 1) = there(n) \cup {k}
      <4>1. \A j \in 1 .. Len(d) : d[j] = c[n + 1] <=> j = k
        BY <3>2 DEF Distinct
      <4> QED BY <3>1, <4>1 DEF Moved
    <3>5. IsFiniteSet(upTo(n)) /\ IsFiniteSet(there(n))
      <4>1. upTo(n) \subseteq 1 .. Len(c) /\ there(n) \subseteq 1 .. Len(d)
        BY DEF Moved
      <4>2. IsFiniteSet(1 .. Len(c)) /\ IsFiniteSet(1 .. Len(d))
        BY <1>1, FS_Interval
      <4> HIDE DEF upTo, there, G
      <4> QED BY <4>1, <4>2, FS_Subset
    <3> HIDE DEF upTo, there, G
    <3>6. /\ Cardinality(upTo(n + 1)) = Cardinality(upTo(n)) + 1
          /\ Cardinality(there(n + 1)) = Cardinality(there(n)) + 1
      BY <3>1, <3>3, <3>4, <3>5, FS_AddElement
    <3>7. /\ Value(c, upTo(n + 1)) = Value(c, upTo(n)) + c[n + 1].v
          /\ Value(d, there(n + 1)) = Value(d, there(n)) + d[k].v
      BY <1>1, <2>1, <3>1, <3>2, <3>3, <3>4, ValueAdd
    <3> QED BY <2>1, <3>2, <3>6, <3>7
  <2> QED BY <2>2, <2>3
<1>4. Len(c) \in G
  <2> HIDE DEF G
  <2>1. Nat \subseteq G
    BY <1>2, <1>3, Induction
  <2> QED BY <1>1, <2>1
<1>5. upTo(Len(c)) = S
  OBVIOUS
<1>6. there(Len(c)) = Moved(c, d, S)
  BY <1>5
<1>7. /\ Cardinality(there(Len(c))) = Cardinality(upTo(Len(c)))
      /\ Value(d, there(Len(c))) = Value(c, upTo(Len(c)))
  BY <1>1, <1>4
<1>8. Moved(c, d, S) \in SUBSET (1 .. Len(d))
  BY DEF Moved
<1> HIDE DEF upTo, there, G
<1> QED BY <1>5, <1>6, <1>7, <1>8

-----------------------------------------------------------------------------
(***************************************************************************)
(* What a selection answers.                                               *)
(***************************************************************************)

CallPays(c, S) ==
  Value(c.coins, S) >=
    c.required + IF c.subtractFee THEN 0 ELSE EstimatedSize(c, Cardinality(S))

\* A sound call is paid for, within the limits, by n coins and by no fewer.
CheapestCount(c, n) ==
  /\ c.version \in {"V1", "V2"} /\ MoneyRange(c.required)
  /\ ~(c.version = "V2" /\ c.required = 0)
  /\ EstimatedSize(c, n) <= MaxSize
  /\ c.version = "V2" => n \in 1 .. MaxChaumV2Inputs
  /\ \E P \in SUBSET (1 .. Len(c.coins)) : CallPays(c, P) /\ Cardinality(P) = n
  /\ \A S \in SUBSET (1 .. Len(c.coins)) : CallPays(c, S) => n <= Cardinality(S)

\* Two calls that differ in their coins only.
SameButCoins(c, d) ==
  /\ c.required = d.required /\ c.subtractFee = d.subtractFee
  /\ c.mintNum = d.mintNum /\ c.utxoNum = d.utxoNum
  /\ c.additional = d.additional /\ c.version = d.version

LEMMA SameSize ==
  ASSUME NEW c, NEW d, SameButCoins(c, d), NEW n
  PROVE  EstimatedSize(c, n) = EstimatedSize(d, n)
BY Zenon DEF SameButCoins, EstimatedSize

\* What pays in one wallet pays in every wallet that still has the coins.
LEMMA MovedPay ==
  ASSUME NEW c \in SelectCall, NEW d \in SelectCall, SameButCoins(c, d),
         Distinct(c.coins), Distinct(d.coins), Range(c.coins) \subseteq Range(d.coins),
         NEW P \in SUBSET (1 .. Len(c.coins)), CallPays(c, P)
  PROVE  \E S \in SUBSET (1 .. Len(d.coins)) :
           CallPays(d, S) /\ Cardinality(S) = Cardinality(P)
<1> DEFINE S == Moved(c.coins, d.coins, P)
<1>1. c.coins \in Seq(CoinMeta) /\ d.coins \in Seq(CoinMeta)
  BY DEF SelectCall
<1>2. /\ S \in SUBSET (1 .. Len(d.coins)) /\ Cardinality(S) = Cardinality(P)
      /\ Value(d.coins, S) = Value(c.coins, P)
  BY <1>1, MovedCoins
<1>3. EstimatedSize(c, Cardinality(P)) = EstimatedSize(d, Cardinality(S))
  BY <1>2, SameSize
<1> HIDE DEF S
<1>4. CallPays(d, S)
  BY <1>2, <1>3, Zenon DEF CallPays, SameButCoins
<1> QED BY <1>2, <1>4

\* A selection that succeeded has found the least number of coins.
LEMMA SelectedCheapest ==
  ASSUME SelectInv, CountChecked, EmptyRefused, at = "ok"
  PROVE  /\ call \in SelectCall /\ Cardinality(picked) \in Nat
         /\ CheapestCount(call, Cardinality(picked))
         /\ fee = EstimatedSize(call, Cardinality(picked))
<1>1. /\ call \in SelectCall /\ picked \in SUBSET (1 .. Len(call.coins))
      /\ fee \in 0 .. MaxSize /\ fee = EstimatedSize(call, Cardinality(picked))
      /\ Pays(picked)
      /\ \A S \in SUBSET (1 .. Len(call.coins)) :
           Pays(S) => Cardinality(picked) <= Cardinality(S)
      /\ call.version \in {"V1", "V2"} /\ MoneyRange(call.required)
  BY DEF SelectInv, SelectTypeOK, LeastFee, ChecksPassed
<1>2. Cardinality(picked) \in Nat
  BY <1>1, ChoiceFacts DEF Choices
<1>3. \A S : Pays(S) <=> CallPays(call, S)
  BY Zenon DEF Pays, CallPays
<1>4. call.version = "V2" => Cardinality(picked) \in 1 .. MaxChaumV2Inputs
  BY <1>2, LimitsAssumption DEF CountChecked, InputCountOK
<1>5. ~(call.version = "V2" /\ call.required = 0)
  BY DEF EmptyRefused
<1>6. EstimatedSize(call, Cardinality(picked)) <= MaxSize
  BY <1>1, LimitsAssumption
<1> QED BY <1>1, <1>2, <1>3, <1>4, <1>5, <1>6, Zenon DEF CheapestCount

\* With more coins to choose from the count only falls, with fewer it only rises.
LEMMA CountsCompare ==
  ASSUME NEW c \in SelectCall, NEW d \in SelectCall, SameButCoins(c, d),
         Distinct(c.coins), Distinct(d.coins), Range(c.coins) \subseteq Range(d.coins),
         NEW m \in Nat, NEW n \in Nat, CheapestCount(c, m), CheapestCount(d, n)
  PROVE  EstimatedSize(d, n) <= EstimatedSize(c, m)
<1>1. PICK P \in SUBSET (1 .. Len(c.coins)) : CallPays(c, P) /\ Cardinality(P) = m
  BY DEF CheapestCount
<1>2. PICK S \in SUBSET (1 .. Len(d.coins)) :
        CallPays(d, S) /\ Cardinality(S) = Cardinality(P)
  BY <1>1, MovedPay
<1>3. n <= m
  BY <1>1, <1>2 DEF CheapestCount
<1>4. EstimatedSize(d, n) <= EstimatedSize(d, m)
  BY <1>3, SizeMonotone
<1> QED BY <1>4, SameSize

\* A selection does not fail where a choice of coins is known to pay.
LEMMA NoFailure ==
  ASSUME SelectInv, NEW c \in SelectCall, SameButCoins(c, call),
         Distinct(c.coins), Distinct(call.coins),
         Range(c.coins) \subseteq Range(call.coins),
         NEW n \in Nat, CheapestCount(c, n), Balance(call.coins) <= MaxMoney
  PROVE  at # "error"
<1> SUFFICES ASSUME at = "error" PROVE FALSE
  OBVIOUS
<1>1. call \in SelectCall /\ FailureIsReal
  BY DEF SelectInv, SelectTypeOK
<1>2. PICK P \in SUBSET (1 .. Len(c.coins)) : CallPays(c, P) /\ Cardinality(P) = n
  BY DEF CheapestCount
<1>3. PICK S \in SUBSET (1 .. Len(call.coins)) :
        CallPays(call, S) /\ Cardinality(S) = Cardinality(P)
  BY <1>1, <1>2, MovedPay
<1>4. Pays(S)
  BY <1>3, Zenon DEF Pays, CallPays
<1>5. /\ EstimatedSize(call, Cardinality(S)) <= MaxSize
      /\ call.version = "V2" => Cardinality(S) \in 1 .. MaxChaumV2Inputs
      /\ call.version \in {"V1", "V2"} /\ MoneyRange(call.required)
      /\ ~(call.version = "V2" /\ call.required = 0)
  <2>1. EstimatedSize(c, n) = EstimatedSize(call, n)
    BY SameSize
  <2> QED BY <1>2, <1>3, <2>1, Zenon DEF CheapestCount, SameButCoins
<1>6. Payable
  BY <1>3, <1>4, <1>5, Zenon DEF Payable
<1> QED BY <1>1, <1>5, <1>6, Zenon DEF FailureIsReal
-----------------------------------------------------------------------------
(***************************************************************************)
(* The call of the estimate and the call of the spend.                     *)
(***************************************************************************)

\* What lists add up to, one after the other.
LEMMA SumConcat ==
  ASSUME NEW a \in Seq(Payment), NEW b \in Seq(Payment)
  PROVE  Sum(AmountsOf(a \o b)) = Sum(AmountsOf(a)) + Sum(AmountsOf(b))
<1> DEFINE f == AmountsOf(a)
           g == AmountsOf(b)
           h == AmountsOf(a \o b)
           G == {n \in Nat : n <= Len(b) => Total(h, Len(a) + n) = Total(f, Len(a)) + Total(g, n)}
           A == {n \in Nat : n <= Len(a) => Total(h, n) = Total(f, n)}
<1>1. /\ a \o b \in Seq(Payment) /\ Len(a \o b) = Len(a) + Len(b)
      /\ Len(a) \in Nat /\ Len(b) \in Nat
      /\ \A i \in 1 .. Len(a) : (a \o b)[i] = a[i]
      /\ \A i \in 1 .. Len(b) : (a \o b)[Len(a) + i] = b[i]
  OBVIOUS
<1>2. /\ Len(f) = Len(a) /\ \A i \in 1 .. Len(a) : f[i] = a[i].amount /\ f[i] \in Int
      /\ Len(g) = Len(b) /\ \A i \in 1 .. Len(b) : g[i] = b[i].amount /\ g[i] \in Int
      /\ Len(h) = Len(a \o b)
      /\ \A i \in 1 .. Len(a \o b) : h[i] = (a \o b)[i].amount /\ h[i] \in Int
  BY <1>1, AmountsType
<1> HIDE DEF f, g, h
<1>3. /\ \A i \in 1 .. Len(a) : h[i] = f[i] /\ h[i] \in Int
      /\ \A i \in 1 .. Len(b) : h[Len(a) + i] = g[i]
  <2>1. ASSUME NEW i \in 1 .. Len(a) PROVE h[i] = f[i] /\ h[i] \in Int
    <3>1. i \in 1 .. Len(a \o b)
      BY <1>1
    <3>2. (a \o b)[i] = a[i]
      BY <1>1
    <3> QED BY <1>2, <3>1, <3>2
  <2>2. ASSUME NEW i \in 1 .. Len(b) PROVE h[Len(a) + i] = g[i]
    <3>1. Len(a) + i \in 1 .. Len(a \o b)
      BY <1>1
    <3>2. (a \o b)[Len(a) + i] = b[i]
      BY <1>1
    <3> QED BY <1>2, <3>1, <3>2
  <2> QED BY <2>1, <2>2
<1>4. /\ \A n \in 0 .. Len(a) : Total(f, n) \in Int
      /\ \A n \in 0 .. Len(b) : Total(g, n) \in Int
  BY <1>1, <1>2, TotalInt
<1>5. Len(a) \in A
  <2>1. 0 \in A
    BY TotalStep
  <2>2. ASSUME NEW n \in A PROVE n + 1 \in A
    <3> SUFFICES ASSUME n + 1 <= Len(a) PROVE Total(h, n + 1) = Total(f, n + 1)
      OBVIOUS
    <3>1. n \in Nat /\ n + 1 \in 1 .. Len(a) /\ Total(h, n) = Total(f, n)
      BY <1>1, <2>2
    <3>2. /\ Total(h, n + 1) = Total(h, n) + h[n + 1]
          /\ Total(f, n + 1) = Total(f, n) + f[n + 1]
      BY <3>1, TotalStep
    <3> QED BY <1>3, <3>1, <3>2
  <2> HIDE DEF A
  <2>3. Nat \subseteq A
    BY <2>1, <2>2, Induction
  <2> QED BY <1>1, <2>3
<1>6. Len(b) \in G
  <2>1. 0 \in G
    <3>1. Total(g, 0) = 0 /\ Total(f, Len(a)) \in Int /\ Len(a) + 0 = Len(a)
      BY <1>1, <1>4, TotalStep
    <3> QED BY <1>1, <1>5, <3>1
  <2>2. ASSUME NEW n \in G PROVE n + 1 \in G
    <3> SUFFICES ASSUME n + 1 <= Len(b)
                 PROVE  Total(h, Len(a) + (n + 1)) = Total(f, Len(a)) + Total(g, n + 1)
      OBVIOUS
    <3>1. n \in Nat /\ Total(h, Len(a) + n) = Total(f, Len(a)) + Total(g, n)
      BY <1>1, <2>2
    <3>2. Total(h, (Len(a) + n) + 1) = Total(h, Len(a) + n) + h[(Len(a) + n) + 1]
      <4>1. Len(a) + n \in Nat
        BY <1>1, <3>1
      <4> HIDE DEF G
      <4> QED BY <4>1, TotalStep
    <3>3. Total(g, n + 1) = Total(g, n) + g[n + 1] /\ h[Len(a) + (n + 1)] = g[n + 1]
      BY <1>1, <1>3, <3>1, TotalStep
    <3>4. Len(a) + (n + 1) = (Len(a) + n) + 1
      BY <1>1, <3>1
    <3>5. Total(f, Len(a)) \in Int /\ Total(g, n) \in Int /\ g[n + 1] \in Int
      BY <1>1, <1>2, <1>4, <3>1
    <3> QED BY <3>1, <3>2, <3>3, <3>4, <3>5
  <2> HIDE DEF G
  <2>3. Nat \subseteq G
    BY <2>1, <2>2, Induction
  <2> QED BY <1>1, <2>3
<1>7. Total(h, Len(a) + Len(b)) = Total(f, Len(a)) + Total(g, Len(b))
  BY <1>1, <1>6
<1>8. Sum(f) = Total(f, Len(a)) /\ Sum(g) = Total(g, Len(b)) /\ Sum(h) = Total(h, Len(a) + Len(b))
  BY <1>1, <1>2 DEF Sum
<1>9. Sum(h) = Sum(f) + Sum(g)
  BY <1>7, <1>8
<1> QED BY <1>9 DEF f, g, h

\* createSparkSpendTransaction passes on what estimateSparkFee has passed on.
LEMMA SameCall ==
  ASSUME NEW q \in Request, coins \in Seq(CoinMeta)
  PROVE  /\ [q EXCEPT !.coins = coins] \in Request
         /\ QuoteCall(q) \in SelectCall
         /\ CallOf([q EXCEPT !.coins = coins]) = QuoteCall(q)
<1> DEFINE r == [q EXCEPT !.coins = coins]
           subtract == \E p \in Range(q.recipients \o q.privateRecipients) :
                         p.subtractFee
<1>1. /\ r \in Request /\ r.coins = coins
      /\ r.recipients = q.recipients /\ r.privateRecipients = q.privateRecipients
      /\ r.additional = q.additional /\ r.version = q.version
  BY DEF Request
<1> HIDE DEF r
<1>2. AllPayments(r) = q.recipients \o q.privateRecipients
      /\ AllPayments(r) \in Seq(Payment) /\ Len(AllPayments(r)) \in Nat
      /\ q.recipients \in Seq(Payment) /\ q.privateRecipients \in Seq(Payment)
  <2>1. AllPayments(r) = q.recipients \o q.privateRecipients
    BY <1>1 DEF AllPayments
  <2>2. AllPayments(r) \in Seq(Payment) /\ r.recipients \in Seq(Payment) /\ r.privateRecipients \in Seq(Payment)
    BY <1>1, PaymentsType
  <2>3. Len(AllPayments(r)) \in Nat
    BY <2>2, LenProperties
  <2> QED BY <1>1, <2>1, <2>2, <2>3
<1>3. Sum(AmountsOf(AllPayments(r)))
        = Sum(AmountsOf(q.recipients)) + Sum(AmountsOf(q.privateRecipients))
  BY <1>2, SumConcat
<1>4. (FeeBearers(r) # {}) = subtract
  <2>1. DOMAIN AllPayments(r) = 1 .. Len(AllPayments(r))
    BY <1>2, LenProperties
  <2>2. Range(AllPayments(r)) = {AllPayments(r)[i] : i \in 1 .. Len(AllPayments(r))}
    BY <2>1 DEF Range
  <2>3. (FeeBearers(r) # {}) <=> \E i \in 1 .. Len(AllPayments(r)) : AllPayments(r)[i].subtractFee
    BY Zenon DEF FeeBearers
  <2>4. subtract <=> \E i \in 1 .. Len(AllPayments(r)) : AllPayments(r)[i].subtractFee
    BY <1>2, <2>2, Zenon
  <2> QED BY <2>3, <2>4, Zenon
<1>5. CallOf(r) = QuoteCall(q)
  BY <1>1, <1>3, <1>4, Zenon DEF CallOf, QuoteCall
<1>6. CallOf(r) \in SelectCall
  BY <1>1, CallOfType
<1> QED BY <1>1, <1>5, <1>6 DEF r
-----------------------------------------------------------------------------
(***************************************************************************)
(* The wallet's list.                                                      *)
(***************************************************************************)

\* A coin the list did not have joins it at an end.
LEMMA JoinFacts ==
  ASSUME NEW s \in Seq(CoinMeta), Distinct(s), NEW c \in CoinMeta, c \notin Range(s),
         NEW t, t = Append(s, c) \/ t = <<c>> \o s
  PROVE  t \in Seq(CoinMeta) /\ Distinct(t) /\ Range(t) \subseteq Range(s) \cup {c}
<1>1. Len(s) \in Nat /\ \A i \in 1 .. Len(s) : s[i] \in Range(s) /\ s[i] # c
  BY CoinsType
<1>2. <<c>> \in Seq(CoinMeta) /\ Len(<<c>>) = 1 /\ <<c>>[1] = c
  OBVIOUS
<1>3. CASE t = Append(s, c)
  <2>1. /\ t \in Seq(CoinMeta) /\ Len(t) = Len(s) + 1
        /\ \A i \in 1 .. Len(s) : t[i] = s[i]
        /\ t[Len(s) + 1] = c
    BY <1>1, <1>3, AppendProperties
  <2>2. \A i \in 1 .. Len(t) : i \in 1 .. Len(s) \/ i = Len(s) + 1
    BY <1>1, <2>1
  <2>3. Distinct(t)
    BY <1>1, <2>1, <2>2 DEF Distinct
  <2>4. DOMAIN t = 1 .. Len(t) /\ \A i \in 1 .. Len(t) : t[i] \in Range(s) \cup {c}
    BY <1>1, <2>1, <2>2, LenProperties
  <2> QED BY <2>1, <2>3, <2>4 DEF Range
<1>4. CASE t = <<c>> \o s
  <2>1. /\ t \in Seq(CoinMeta) /\ Len(t) = 1 + Len(s)
        /\ \A i \in 1 .. 1 + Len(s) : t[i] = IF i <= 1 THEN <<c>>[i] ELSE s[i - 1]
    <3>1. /\ <<c>> \o s \in Seq(CoinMeta) /\ Len(<<c>> \o s) = Len(<<c>>) + Len(s)
          /\ \A i \in 1 .. Len(<<c>>) + Len(s) :
               (<<c>> \o s)[i] = IF i <= Len(<<c>>) THEN <<c>>[i] ELSE s[i - Len(<<c>>)]
      BY <1>2, ConcatProperties
    <3> QED BY <1>2, <1>4, <3>1, Zenon
  <2>2. /\ t[1] = c
        /\ \A i \in 1 .. Len(t) : i # 1 => i - 1 \in 1 .. Len(s) /\ t[i] = s[i - 1]
    BY <1>1, <1>2, <2>1
  <2>3. Distinct(t)
    <3> SUFFICES ASSUME NEW i \in 1 .. Len(t), NEW j \in 1 .. Len(t), t[i] = t[j]
                 PROVE  i = j
      BY DEF Distinct
    <3>1. CASE i # 1 /\ j # 1
      <4>1. i - 1 = j - 1
        BY <2>2, <3>1 DEF Distinct
      <4> QED BY <4>1
    <3>2. CASE i = 1 \/ j = 1
      BY <1>1, <2>2, <3>2
    <3> QED BY <3>1, <3>2
  <2>4. DOMAIN t = 1 .. Len(t) /\ \A i \in 1 .. Len(t) : t[i] \in Range(s) \cup {c}
    BY <1>1, <2>1, <2>2, LenProperties
  <2> QED BY <2>1, <2>3, <2>4 DEF Range
<1> QED BY <1>3, <1>4

\* One coin leaves the list.
Without(s, i) == SubSeq(s, 1, i - 1) \o SubSeq(s, i + 1, Len(s))

LEMMA WithoutFacts ==
  ASSUME NEW s \in Seq(CoinMeta), Distinct(s), NEW i \in 1 .. Len(s),
         NEW t, t = Without(s, i)
  PROVE  t \in Seq(CoinMeta) /\ Distinct(t) /\ Range(t) \subseteq Range(s)
<1> DEFINE a == SubSeq(s, 1, i - 1)
           b == SubSeq(s, i + 1, Len(s))
           old(k) == IF k < i THEN k ELSE k + 1
<1>1. Len(s) \in Nat /\ \A k \in 1 .. Len(s) : s[k] \in Range(s)
  BY CoinsType
<1>2. /\ a \in Seq(CoinMeta) /\ Len(a) = i - 1
      /\ \A k \in 1 .. i - 1 : a[k] = s[k]
  BY <1>1, SubSeqProperties
<1>3. /\ b \in Seq(CoinMeta) /\ Len(b) = Len(s) - i
      /\ \A k \in 1 .. Len(s) - i : b[k] = s[i + k]
  BY <1>1, SubSeqProperties
<1> HIDE DEF a, b
<1>4. t = a \o b
  BY DEF a, b, Without
<1>5. /\ t \in Seq(CoinMeta) /\ Len(t) = Len(a) + Len(b)
      /\ \A k \in 1 .. Len(a) + Len(b) : t[k] = IF k <= Len(a) THEN a[k] ELSE b[k - Len(a)]
  <2>1. a \in Seq(CoinMeta) /\ b \in Seq(CoinMeta)
    BY <1>2, <1>3
  <2>2. /\ a \o b \in Seq(CoinMeta) /\ Len(a \o b) = Len(a) + Len(b)
        /\ \A k \in 1 .. Len(a) + Len(b) :
             (a \o b)[k] = IF k <= Len(a) THEN a[k] ELSE b[k - Len(a)]
    BY <2>1, ConcatProperties, Zenon
  <2> QED BY <1>4, <2>2, Zenon
<1>6. Len(t) = Len(s) - 1 /\ i \in Int
  <2>1. /\ Len(t) = Len(a) + Len(b) /\ Len(a) = i - 1 /\ Len(b) = Len(s) - i
        /\ i \in 1 .. Len(s) /\ Len(s) \in Nat
    BY <1>1, <1>2, <1>3, <1>5, Zenon
  <2> HIDE DEF a, b
  <2> QED BY <2>1
<1>7. ASSUME NEW k \in 1 .. Len(t)
      PROVE  old(k) \in 1 .. Len(s) /\ t[k] = s[old(k)]
  <2>1. CASE k < i
    <3>1. k \in 1 .. i - 1 /\ k <= Len(a)
      BY <1>1, <1>2, <2>1
    <3>2. t[k] = a[k]
      BY <1>5, <3>1
    <3> QED BY <1>1, <1>2, <2>1, <3>1, <3>2
  <2>2. CASE ~(k < i)
    <3>1. k - (i - 1) \in 1 .. Len(s) - i /\ ~(k <= Len(a)) /\ i + (k - (i - 1)) = k + 1
      <4>1. Len(a) = i - 1 /\ Len(t) = Len(s) - 1 /\ Len(s) \in Nat /\ k \in 1 .. Len(t)
        BY <1>1, <1>2, <1>6, Zenon
      <4> QED BY <1>6, <2>2, <4>1
    <3>2. t[k] = b[k - (i - 1)]
      BY <1>2, <1>5, <3>1
    <3>3. t[k] = s[k + 1]
      BY <1>3, <3>1, <3>2
    <3>4. k + 1 \in 1 .. Len(s)
      BY <1>1, <1>6
    <3> QED BY <2>2, <3>3, <3>4
  <2> QED BY <2>1, <2>2
<1>8. \A j, k \in 1 .. Len(t) : old(j) = old(k) => j = k
  BY <1>1, <1>6
<1> HIDE DEF old
<1>9. Distinct(t)
  BY <1>7, <1>8 DEF Distinct
<1>10. DOMAIN t = 1 .. Len(t) /\ \A k \in 1 .. Len(t) : t[k] \in Range(s)
  BY <1>1, <1>5, <1>7, LenProperties
<1>11. Range(t) \subseteq Range(s)
  BY <1>10 DEF Range
<1> QED BY <1>5, <1>9, <1>11

\* The list that EndPayment leaves, as it grows.
IsKept(n, a) ==
  a = [m \in 0 .. n |->
         IF m = 0 THEN <<>>
         ELSE IF Used(coins[m]) THEN a[m - 1] ELSE Append(a[m - 1], coins[m])]

LEMMA KeptExists == \A n \in Nat : \E a : IsKept(n, a)
<1> DEFINE G == {n \in Nat : \E a : IsKept(n, a)}
<1>1. 0 \in G
  <2>1. IsKept(0, [m \in 0 .. 0 |-> <<>>])
    BY DEF IsKept
  <2> QED BY <2>1
<1>2. ASSUME NEW n \in Nat, n \in G PROVE n + 1 \in G
  <2>1. PICK a : IsKept(n, a)
    BY <1>2
  <2> DEFINE b == [m \in 0 .. n + 1 |->
                     IF m = n + 1
                     THEN IF Used(coins[n + 1]) THEN a[n] ELSE Append(a[n], coins[n + 1])
                     ELSE a[m]]
  <2>2. a[0] = <<>> /\ b[0] = <<>>
    BY <2>1 DEF IsKept
  <2>3. ASSUME NEW m \in 1 .. n + 1
        PROVE  b[m] = IF Used(coins[m]) THEN b[m - 1] ELSE Append(b[m - 1], coins[m])
    <3>1. b[m - 1] = a[m - 1]
      OBVIOUS
    <3>2. CASE m = n + 1
      BY <3>1, <3>2
    <3>3. CASE m # n + 1
      <4>1. m \in 0 .. n /\ m # 0 /\ b[m] = a[m]
        BY <3>3
      <4>2. a[m] = IF Used(coins[m]) THEN a[m - 1] ELSE Append(a[m - 1], coins[m])
        BY <2>1, <4>1, Zenon DEF IsKept
      <4> QED BY <3>1, <4>1, <4>2, Zenon
    <3> QED BY <3>2, <3>3
  <2>4. IsKept(n + 1, b)
    <3> DEFINE c == [m \in 0 .. n + 1 |->
                       IF m = 0 THEN <<>>
                       ELSE IF Used(coins[m]) THEN b[m - 1] ELSE Append(b[m - 1], coins[m])]
    <3>1. \A m \in 0 .. n + 1 : m = 0 \/ m \in 1 .. n + 1
      OBVIOUS
    <3>2. \A m \in 0 .. n + 1 : b[m] = c[m]
      BY <2>2, <2>3, <3>1, Zenon
    <3>3. DOMAIN b = DOMAIN c /\ b = [m \in DOMAIN b |-> b[m]] /\ c = [m \in DOMAIN c |-> c[m]]
      OBVIOUS
    <3>4. b = c
      BY <3>2
    <3> QED BY <3>4 DEF IsKept
  <2> QED BY <2>4
<1> HIDE DEF G
<1>3. Nat \subseteq G
  BY <1>1, <1>2, Induction
<1> QED BY <1>3 DEF G

\* Its coins are coins of the wallet, still without a double.
LEMMA UnusedFacts ==
  ASSUME coins \in Seq(CoinMeta), Distinct(coins)
  PROVE  Unused \in Seq(CoinMeta) /\ Distinct(Unused) /\ Range(Unused) \subseteq Range(coins)
<1> DEFINE N == Len(coins)
<1>1. N \in Nat /\ \A i \in 1 .. N : coins[i] \in Range(coins) /\ coins[i] \in CoinMeta
  BY CoinsType
<1>2. PICK a : IsKept(N, a) /\ Unused = a[N]
  <2>1. \E a : a = [m \in 0 .. N |->
                      IF m = 0 THEN <<>>
                      ELSE IF Used(coins[m]) THEN a[m - 1] ELSE Append(a[m - 1], coins[m])]
    BY <1>1, KeptExists DEF IsKept
  <2> QED BY <2>1, Zenon DEF Unused, IsKept
<1>3. /\ a[0] = <<>>
      /\ \A m \in 1 .. N :
           a[m] = IF Used(coins[m]) THEN a[m - 1] ELSE Append(a[m - 1], coins[m])
  <2>1. 0 \in 0 .. N /\ \A m \in 1 .. N : m \in 0 .. N /\ m # 0
    BY <1>1
  <2> QED BY <1>2, <2>1, Zenon DEF IsKept
<1> DEFINE from(m) == \A k \in 1 .. Len(a[m]) : \E j \in 1 .. m : a[m][k] = coins[j]
           G == {m \in Nat : m <= N => a[m] \in Seq(CoinMeta) /\ Distinct(a[m]) /\ from(m)}
<1>4. 0 \in G
  <2>1. a[0] \in Seq(CoinMeta) /\ Len(a[0]) = 0
    BY <1>3
  <2>2. 1 .. Len(a[0]) = {}
    BY <2>1
  <2>3. Distinct(a[0]) /\ from(0)
    BY <2>2 DEF Distinct
  <2> QED BY <2>1, <2>3
<1>5. ASSUME NEW m \in Nat, m \in G PROVE m + 1 \in G
  <2> SUFFICES ASSUME m + 1 <= N
               PROVE  a[m + 1] \in Seq(CoinMeta) /\ Distinct(a[m + 1]) /\ from(m + 1)
    <3>1. m + 1 \in Nat
      OBVIOUS
    <3> QED BY <3>1, Zenon
  <2>1. /\ m + 1 \in 1 .. N /\ (m + 1) - 1 = m
        /\ a[m] \in Seq(CoinMeta) /\ Distinct(a[m]) /\ from(m)
    BY <1>1, <1>5
  <2>2. a[m + 1] = IF Used(coins[m + 1]) THEN a[m] ELSE Append(a[m], coins[m + 1])
    BY <1>3, <2>1
  <2>3. CASE a[m + 1] = a[m]
    BY <2>1, <2>3
  <2>4. CASE a[m + 1] = Append(a[m], coins[m + 1])
    <3>1. coins[m + 1] \notin Range(a[m])
      <4>1. SUFFICES ASSUME NEW k \in 1 .. Len(a[m]), a[m][k] = coins[m + 1] PROVE FALSE
        <5>1. DOMAIN a[m] = 1 .. Len(a[m])
          BY <2>1, LenProperties
        <5> QED BY <5>1 DEF Range
      <4>2. PICK j \in 1 .. m : a[m][k] = coins[j]
        BY <2>1
      <4>3. j \in 1 .. N /\ j # m + 1
        BY <1>1, <2>1
      <4> QED BY <2>1, <4>1, <4>2, <4>3 DEF Distinct
    <3> HIDE DEF G
    <3>2. a[m + 1] \in Seq(CoinMeta) /\ Distinct(a[m + 1])
      <4> DEFINE old == a[m]
                 new == a[m + 1]
                 x == coins[m + 1]
      <4>1. old \in Seq(CoinMeta) /\ Distinct(old) /\ x \in CoinMeta /\ x \notin Range(old)
            /\ new = Append(old, x)
        BY <1>1, <2>1, <2>4, <3>1
      <4> HIDE DEF old, new, x
      <4>2. new \in Seq(CoinMeta) /\ Distinct(new)
        BY <4>1, JoinFacts
      <4> QED BY <4>2 DEF new
    <3>3. /\ Len(a[m + 1]) = Len(a[m]) + 1 /\ Len(a[m]) \in Nat
          /\ \A k \in 1 .. Len(a[m]) + 1 :
               a[m + 1][k] = IF k <= Len(a[m]) THEN a[m][k] ELSE coins[m + 1]
      BY <1>1, <2>1, <2>4, AppendProperties
    <3>4. from(m + 1)
      <4> SUFFICES ASSUME NEW k \in 1 .. Len(a[m + 1])
                   PROVE  \E j \in 1 .. m + 1 : a[m + 1][k] = coins[j]
        OBVIOUS
      <4>1. CASE k <= Len(a[m])
        <5>1. k \in 1 .. Len(a[m]) /\ a[m + 1][k] = a[m][k]
          BY <3>3, <4>1
        <5>2. PICK j \in 1 .. m : a[m][k] = coins[j]
          BY <2>1, <5>1
        <5> QED BY <5>1, <5>2
      <4>2. CASE ~(k <= Len(a[m]))
        BY <3>3, <4>2
      <4> QED BY <4>1, <4>2
    <3> QED BY <3>2, <3>4
  <2> QED BY <2>2, <2>3, <2>4
<1>6. Unused \in Seq(CoinMeta) /\ Distinct(Unused) /\ from(N)
  <2> HIDE DEF G
  <2>1. Nat \subseteq G
    BY <1>4, <1>5, Induction
  <2>2. N \in G
    BY <1>1, <2>1
  <2>3. N \in G => (N <= N => a[N] \in Seq(CoinMeta) /\ Distinct(a[N]) /\ from(N))
    BY Zenon DEF G
  <2>4. N <= N
    BY <1>1
  <2> QED BY <1>2, <2>2, <2>3, <2>4, Zenon
<1>7. \A k \in 1 .. Len(Unused) : Unused[k] \in Range(coins)
  BY <1>1, <1>2, <1>6
<1>8. Range(Unused) \subseteq Range(coins)
  <2>1. DOMAIN Unused = 1 .. Len(Unused)
    BY <1>6, LenProperties
  <2> QED BY <1>7, <2>1 DEF Range
<1> QED BY <1>6, <1>8
-----------------------------------------------------------------------------
(***************************************************************************)
(* The inductive invariant.                                                *)
(***************************************************************************)

\* The coins and requests have their types, and no coin is there twice.
WalletKept ==
  /\ coins \in Seq(CoinMeta) /\ Distinct(coins)
  /\ unseen \subseteq CoinPool /\ Range(coins) \cap unseen = {}
  /\ asked \in Request
  /\ quote.coins \in Seq(CoinMeta) /\ Distinct(quote.coins)

\* Whichever function runs, SelectSparkCoins works on the same call.
OneCall ==
  /\ at # "idle" => call = QuoteCall(asked)
  /\ pc = "select" => at # "idle"
  /\ pc \in {"fill", "inputs", "done"} => at = "ok"

QuotedCall == [QuoteCall(asked) EXCEPT !.coins = quote.coins]

\* A fee that was quoted is the least for the coins it was asked for.
QuoteIsLeast ==
  quote.answer = "ok" =>
    \E n \in Nat : CheapestCount(QuotedCall, n) /\ quote.fee = EstimatedSize(QuotedCall, n)

QuoteInv ==
  SelectInv /\ CountChecked /\ EmptyRefused /\ WalletKept /\ OneCall /\ QuoteIsLeast

\* The quote does not depend on where the coins have gone since.
LEMMA QuotedCallFacts ==
  ASSUME WalletKept
  PROVE  /\ QuoteCall(asked) \in SelectCall /\ QuotedCall \in SelectCall
         /\ QuotedCall.coins = quote.coins /\ QuoteCall(asked).coins = coins
         /\ SameButCoins(QuotedCall, QuoteCall(asked))
         /\ SameButCoins(QuoteCall(asked), QuotedCall)
<1>1. QuoteCall(asked) \in SelectCall
  BY SameCall DEF WalletKept
<1>2. quote.coins \in Seq(CoinMeta)
  BY DEF WalletKept
<1>3. QuoteCall(asked).coins = coins
  BY DEF QuoteCall
<1>4. \A c \in SelectCall : \A s \in Seq(CoinMeta) :
        /\ [c EXCEPT !.coins = s] \in SelectCall /\ [c EXCEPT !.coins = s].coins = s
        /\ SameButCoins([c EXCEPT !.coins = s], c) /\ SameButCoins(c, [c EXCEPT !.coins = s])
  BY DEF SelectCall, SameButCoins
<1> QED BY <1>1, <1>2, <1>3, <1>4, Zenon DEF QuotedCall

LEMMA QuoteInitInv == QuoteInit => QuoteInv
<1> SUFFICES ASSUME QuoteInit PROVE QuoteInv
  OBVIOUS
<1>1. SelectInv
  BY SelectInitInv DEF QuoteInit, Init
<1>2. /\ at = "idle" /\ pc = "idle" /\ call = NoCall
      /\ coins = <<>> /\ unseen = CoinPool /\ asked = NoRequest /\ quote = NoQuote
  BY DEF QuoteInit, Init, SelectInit
<1>3. /\ <<>> \in Seq(CoinMeta) /\ Distinct(<<>>) /\ Range(<<>>) = {}
  <2>1. <<>> \in Seq(CoinMeta) /\ Len(<<>>) = 0 /\ DOMAIN <<>> = 1 .. 0
    OBVIOUS
  <2> QED BY <2>1 DEF Distinct, Range
<1>4. quote.coins = <<>> /\ quote.answer = "none"
  BY <1>2 DEF NoQuote
<1>5. WalletKept
  BY <1>2, <1>3, <1>4, NoRequestType DEF WalletKept
<1> QED BY <1>1, <1>2, <1>4, <1>5
    DEF QuoteInv, CountChecked, EmptyRefused, OneCall, QuoteIsLeast, NoCall

\* What the wallet does between two calls.
LEMMA WalletStepInv ==
  ASSUME QuoteInv, Free, UNCHANGED <<vars, asked, quote>>,
         coins' \in Seq(CoinMeta), Distinct(coins)',
         unseen' \subseteq unseen, Range(coins') \cap unseen' = {}
  PROVE  QuoteInv'
<1>1. SelectInv' /\ at' = "idle" /\ pc' = "idle" /\ UNCHANGED selectVars
  BY SelectStutterInv DEF QuoteInv, vars, selectVars, spendVars, Free
<1>2. CountChecked' /\ EmptyRefused' /\ OneCall'
  BY <1>1 DEF QuoteInv, CountChecked, EmptyRefused, OneCall
<1>3. WalletKept'
  BY DEF QuoteInv, WalletKept, Distinct
<1>4. QuotedCall' = QuotedCall
  <2> DEFINE with(a, b, s, m, u, x, v) ==
        [required |-> a, subtractFee |-> b, coins |-> s, mintNum |-> m, utxoNum |-> u,
         additional |-> x, version |-> v]
  <2>1. \A a, b, s, t, m, u, x, v :
          [with(a, b, s, m, u, x, v) EXCEPT !.coins = t] = with(a, b, t, m, u, x, v)
    OBVIOUS
  <2>2. asked' = asked /\ quote' = quote
    OBVIOUS
  <2> DEFINE A == Sum(AmountsOf(asked.recipients)) + Sum(AmountsOf(asked.privateRecipients))
             B == \E p \in Range(asked.recipients \o asked.privateRecipients) : p.subtractFee
             M == Len(asked.privateRecipients)
             U == Len(asked.recipients)
             X == asked.additional
             V == asked.version
  <2>3. QuoteCall(asked) = with(A, B, coins, M, U, X, V)
    BY Zenon DEF QuoteCall
  <2>4. QuoteCall(asked)' = with(A, B, coins', M, U, X, V)
    BY <2>2, Zenon DEF QuoteCall
  <2> HIDE DEF A, B, M, U, X, V, with
  <2>5. /\ [with(A, B, coins, M, U, X, V) EXCEPT !.coins = quote.coins]
              = with(A, B, quote.coins, M, U, X, V)
        /\ [with(A, B, coins', M, U, X, V) EXCEPT !.coins = quote.coins]
              = with(A, B, quote.coins, M, U, X, V)
    BY <2>1
  <2>6. QuotedCall = with(A, B, quote.coins, M, U, X, V)
    BY <2>3, <2>5 DEF QuotedCall
  <2>7. QuotedCall' = with(A, B, quote.coins, M, U, X, V)
    BY <2>2, <2>4, <2>5 DEF QuotedCall
  <2> QED BY <2>6, <2>7
<1>5. QuoteIsLeast'
  BY <1>4, Zenon DEF QuoteInv, QuoteIsLeast, CheapestCount, CallPays, EstimatedSize
<1> QED BY <1>1, <1>2, <1>3, <1>5 DEF QuoteInv
LEMMA ReceiveInv ==
  ASSUME QuoteInv, NEW c \in unseen, Receive(c) PROVE QuoteInv'
<1>1. /\ coins \in Seq(CoinMeta) /\ Distinct(coins) /\ c \in CoinMeta /\ c \notin Range(coins)
      /\ Range(coins) \cap unseen = {}
  BY CoinPoolAssumption DEF QuoteInv, WalletKept
<1>2. /\ Free /\ UNCHANGED <<vars, asked, quote>> /\ unseen' = unseen \ {c}
      /\ coins' = Append(coins, c) \/ coins' = <<c>> \o coins
  BY DEF Receive
<1> DEFINE t == coins'
<1>3. t \in Seq(CoinMeta) /\ Distinct(t) /\ Range(t) \subseteq Range(coins) \cup {c}
  <2>1. t = Append(coins, c) \/ t = <<c>> \o coins
    BY <1>2
  <2> HIDE DEF t
  <2> QED BY <1>1, <2>1, JoinFacts
<1>4. Distinct(coins)'
  BY <1>3 DEF Distinct
<1>5. Range(coins') \cap unseen' = {} /\ unseen' \subseteq unseen
  BY <1>1, <1>2, <1>3
<1> QED BY <1>2, <1>3, <1>4, <1>5, WalletStepInv

LEMMA LoseInv ==
  ASSUME QuoteInv, NEW i \in 1 .. Len(coins), Lose(i) PROVE QuoteInv'
<1>1. coins \in Seq(CoinMeta) /\ Distinct(coins) /\ Range(coins) \cap unseen = {}
  BY DEF QuoteInv, WalletKept
<1>2. /\ Free /\ UNCHANGED <<vars, asked, quote>> /\ unseen' = unseen
      /\ coins' = Without(coins, i)
  BY DEF Lose, Without
<1>3. coins' \in Seq(CoinMeta) /\ Distinct(coins') /\ Range(coins') \subseteq Range(coins)
  BY <1>1, <1>2, WithoutFacts
<1>4. Distinct(coins)'
  BY <1>3 DEF Distinct
<1>5. Range(coins') \cap unseen' = {} /\ unseen' \subseteq unseen
  BY <1>1, <1>2, <1>3
<1> QED BY <1>2, <1>3, <1>4, <1>5, WalletStepInv

\* SelectSparkCoins starts on the call of the request that is asked.
LEMMA SelectionStarts ==
  ASSUME QuoteInv, UNCHANGED <<coins, unseen, quote>>, asked' \in Request,
         SelectSparkCoins(QuoteCall(asked)'), pc' \in {"idle", "select"},
         QuoteIsLeast'
  PROVE  QuoteInv'
<1>1. WalletKept'
  BY DEF QuoteInv, WalletKept, Distinct
<1>2. QuoteCall(asked)' \in SelectCall
  <2>1. coins \in Seq(CoinMeta)
    BY DEF QuoteInv, WalletKept
  <2>2. QuoteCall(asked') \in SelectCall
    BY <2>1, SameCall
  <2>3. QuoteCall(asked') = QuoteCall(asked)'
    BY Zenon DEF QuoteCall
  <2> QED BY <2>2, <2>3
<1>3. SelectInv'
  BY <1>2, SelectEntryInv DEF QuoteInv
<1>4. /\ at = "idle" /\ fee' = fee /\ fee = 0
      /\ call' = QuoteCall(asked)' /\ at' \in {"round", "error"}
  BY DEF SelectSparkCoins, Throw, QuoteInv, SelectInv, ChecksPassed
<1>5. CountChecked' /\ EmptyRefused' /\ OneCall'
  BY <1>4 DEF CountChecked, EmptyRefused, OneCall
<1> QED BY <1>1, <1>3, <1>5 DEF QuoteInv

LEMMA EstimateFeeInv ==
  ASSUME QuoteInv, NEW r \in Requests, EstimateFee(r) PROVE QuoteInv'
<1>1. /\ asked' = r /\ UNCHANGED <<coins, unseen, quote>> /\ pc' = "idle"
      /\ quote.answer = "none" /\ SelectSparkCoins(QuoteCall(r))
  BY DEF EstimateFee, Free, spendVars
<1>2. QuoteCall(r) = QuoteCall(asked)'
  BY <1>1, Zenon DEF QuoteCall
<1>3. asked' \in Request /\ QuoteIsLeast'
  BY <1>1, RequestsAssumption DEF QuoteIsLeast
<1> QED BY <1>1, <1>2, <1>3, SelectionStarts

LEMMA TakeQuoteInv == ASSUME QuoteInv, TakeQuote PROVE QuoteInv'
<1>1. /\ at \in {"ok", "error"} /\ pc = "idle" /\ pc' = "idle"
      /\ Return /\ at' = "idle" /\ UNCHANGED <<coins, unseen, asked>>
      /\ quote' = [answer |-> at, fee |-> fee, coins |-> coins]
  BY DEF TakeQuote, Return, spendVars
<1>2. quote'.answer = at /\ quote'.fee = fee /\ quote'.coins = coins
  BY <1>1
<1>3. SelectInv' /\ CountChecked' /\ OneCall'
  BY <1>1, ReturnInv DEF CountChecked, OneCall
<1>4. EmptyRefused'
  BY <1>1 DEF EmptyRefused
<1>5. WalletKept'
  BY <1>1, <1>2 DEF QuoteInv, WalletKept, Distinct
<1>6. QuoteIsLeast'
  <2> SUFFICES ASSUME at = "ok"
               PROVE  \E n \in Nat : CheapestCount(QuotedCall', n)
                                     /\ fee = EstimatedSize(QuotedCall', n)
    BY <1>2, Zenon DEF QuoteIsLeast, CheapestCount, CallPays, EstimatedSize
  <2>1. call = QuoteCall(asked) /\ call \in SelectCall /\ call.coins = coins
    BY QuotedCallFacts DEF QuoteInv, OneCall
  <2>2. QuoteCall(asked)' = QuoteCall(asked)
    BY <1>1, Zenon DEF QuoteCall
  <2>3. QuotedCall' = [call EXCEPT !.coins = coins]
    BY <1>2, <2>1, <2>2 DEF QuotedCall
  <2>4. \A c \in SelectCall : [c EXCEPT !.coins = c.coins] = c
    BY DEF SelectCall
  <2>5. QuotedCall' = call
    BY <2>1, <2>3, <2>4
  <2>6. /\ Cardinality(picked) \in Nat /\ CheapestCount(call, Cardinality(picked))
        /\ fee = EstimatedSize(call, Cardinality(picked))
    BY SelectedCheapest DEF QuoteInv
  <2> QED BY <2>5, <2>6
<1> QED BY <1>3, <1>4, <1>5, <1>6 DEF QuoteInv

LEMMA PayInv == ASSUME QuoteInv, Pay PROVE QuoteInv'
<1> DEFINE r == [asked EXCEPT !.coins = coins]
<1>1. /\ at = "idle" /\ pc = "idle" /\ UNCHANGED <<coins, unseen, asked, quote>>
      /\ CreateSparkSpend(r) /\ asked \in Request /\ coins \in Seq(CoinMeta)
  BY DEF Pay, Free, quoteVars, QuoteInv, WalletKept
<1>2. CallOf(r) = QuoteCall(asked) /\ QuoteCall(asked)' = QuoteCall(asked)
  <2>1. QuoteCall(asked)' = QuoteCall(asked)
    BY <1>1, Zenon DEF QuoteCall
  <2> QED BY <1>1, <2>1, SameCall
<1> HIDE DEF r
<1>3. QuotedCall' = QuotedCall
  BY <1>1, <1>2 DEF QuotedCall
<1>4. QuoteIsLeast'
  BY <1>1, <1>3, Zenon DEF QuoteInv, QuoteIsLeast, CheapestCount, CallPays, EstimatedSize
<1>5. CASE RequestError(r) = "none"
  <2>1. SelectSparkCoins(QuoteCall(asked)') /\ pc' = "select"
    BY <1>1, <1>2, <1>5 DEF CreateSparkSpend
  <2> QED BY <1>1, <1>4, <2>1, SelectionStarts
<1>6. CASE RequestError(r) # "none"
  <2>1. pc' = "failed" /\ UNCHANGED selectVars
    BY <1>1, <1>6 DEF CreateSparkSpend, ThrowInSpend
  <2>2. SelectInv' /\ at' = "idle"
    BY <1>1, <2>1, SelectStutterInv DEF QuoteInv, selectVars
  <2>3. CountChecked' /\ EmptyRefused' /\ OneCall'
    BY <2>1, <2>2 DEF CountChecked, EmptyRefused, OneCall
  <2>4. WalletKept'
    BY <1>1 DEF QuoteInv, WalletKept, Distinct
  <2> QED BY <1>4, <2>2, <2>3, <2>4 DEF QuoteInv
<1> QED BY <1>5, <1>6

\* A step inside either call.
LEMMA RunningInv ==
  ASSUME QuoteInv, SpendStep, UNCHANGED quoteVars PROVE QuoteInv'
<1>1. UNCHANGED <<coins, unseen, asked, quote>>
  BY DEF quoteVars
<1>2. WalletKept'
  BY <1>1 DEF QuoteInv, WalletKept, Distinct
<1>3. QuoteCall(asked)' = QuoteCall(asked)
  BY <1>1, Zenon DEF QuoteCall
<1>4. QuotedCall' = QuotedCall
  BY <1>1, <1>3 DEF QuotedCall
<1>5. QuoteIsLeast'
  BY <1>1, <1>4, Zenon DEF QuoteInv, QuoteIsLeast, CheapestCount, CallPays, EstimatedSize
<1>6. ASSUME SelectStep, UNCHANGED spendVars
      PROVE  SelectInv' /\ CountChecked' /\ EmptyRefused' /\ OneCall'
  <2>1. /\ at \in {"round", "take"} /\ call' = call /\ at' # "idle" /\ pc' = pc
        /\ call = QuoteCall(asked)
    BY <1>6 DEF SelectStep, StartRound, TakeLargest, TakeSufficient, FinishRound, Choose,
                Throw, spendVars, QuoteInv, OneCall
  <2>2. SelectInv'
    BY <1>6, SelectStepInv DEF QuoteInv
  <2>3. OneCall'
    BY <1>3, <2>1 DEF QuoteInv, OneCall
  <2>4. CountChecked'
    <3> SUFFICES ASSUME at' = "ok" PROVE InputCountOK(Cardinality(picked))'
      BY DEF CountChecked
    <3>1. FinishRound
      BY <1>6, <2>1 DEF SelectStep, StartRound, TakeLargest, TakeSufficient, Choose, Throw
    <3>2. picked' = picked /\ InputCountOK(Cardinality(picked))
      BY <3>1 DEF FinishRound, Throw
    <3> QED BY <2>1, <3>2 DEF InputCountOK
  <2>5. EmptyRefused'
    <3> SUFFICES ASSUME call.version = "V2", call.required = 0
                 PROVE  at' = "error" \/ (at' # "ok" /\ fee' = 0)
      BY <2>1 DEF EmptyRefused
    <3>1. fee = 0
      BY <2>1 DEF QuoteInv, EmptyRefused
    <3>2. CASE FinishRound
      BY <3>1, <3>2, EmptyRoundFails DEF QuoteInv
    <3>3. CASE StartRound \/ TakeLargest \/ TakeSufficient
      BY <3>1, <3>3 DEF StartRound, TakeLargest, TakeSufficient, Choose, Throw
    <3> QED BY <1>6, <3>2, <3>3 DEF SelectStep
  <2> QED BY <2>2, <2>3, <2>4, <2>5
<1>7. ASSUME DeductFee \/ FillOutputs \/ (\E i \in todo : AddInput(i)) \/ BuildTransaction
      PROVE  SelectInv' /\ CountChecked' /\ EmptyRefused' /\ OneCall'
  <2>1. /\ UNCHANGED selectVars /\ at = "ok"
        /\ pc' \in {"fill", "inputs", "done", "failed"}
    BY <1>7 DEF DeductFee, FillOutputs, AddInput, BuildTransaction, ThrowInSpend,
                QuoteInv, OneCall
  <2>2. SelectInv' /\ UNCHANGED <<at, call, fee, picked>>
    BY <2>1, SelectStutterInv DEF QuoteInv, selectVars
  <2>3. CountChecked' /\ EmptyRefused' /\ OneCall'
    BY <1>3, <2>1, <2>2 DEF QuoteInv, CountChecked, EmptyRefused, OneCall, InputCountOK
  <2> QED BY <2>2, <2>3
<1>8. SelectInv' /\ CountChecked' /\ EmptyRefused' /\ OneCall'
  BY <1>6, <1>7, Zenon DEF SpendStep
<1> QED BY <1>2, <1>5, <1>8 DEF QuoteInv

LEMMA EndPaymentInv == ASSUME QuoteInv, EndPayment PROVE QuoteInv'
<1>1. /\ at' = "idle" /\ pc' = "idle" /\ call' = NoCall
      /\ asked' = NoRequest /\ quote' = NoQuote /\ unseen' = unseen
      /\ coins' \in {Unused, coins}
  BY DEF EndPayment, ReturnSpend
<1>2. SelectInv'
  BY SelectResetInv DEF EndPayment, ReturnSpend
<1>3. CountChecked' /\ EmptyRefused' /\ OneCall'
  BY <1>1 DEF CountChecked, EmptyRefused, OneCall, NoCall
<1>4. /\ coins \in Seq(CoinMeta) /\ Distinct(coins) /\ Range(coins) \cap unseen = {}
      /\ unseen \subseteq CoinPool
  BY DEF QuoteInv, WalletKept
<1>5. coins' \in Seq(CoinMeta) /\ Distinct(coins') /\ Range(coins') \subseteq Range(coins)
  <2>1. Unused \in Seq(CoinMeta) /\ Distinct(Unused) /\ Range(Unused) \subseteq Range(coins)
    BY <1>4, UnusedFacts
  <2> QED BY <1>1, <1>4, <2>1, Zenon
<1>6. quote'.coins = <<>> /\ quote'.answer = "none"
  BY <1>1 DEF NoQuote
<1>7. <<>> \in Seq(CoinMeta) /\ Distinct(<<>>)
  BY DEF Distinct
<1>8. WalletKept'
  <2>1. Distinct(coins)' /\ Distinct(quote.coins)'
    BY <1>5, <1>6, <1>7 DEF Distinct
  <2> QED BY <1>1, <1>4, <1>5, <1>6, <1>7, <2>1, NoRequestType DEF WalletKept
<1>9. QuoteIsLeast'
  BY <1>6 DEF QuoteIsLeast
<1> QED BY <1>2, <1>3, <1>8, <1>9 DEF QuoteInv

LEMMA QuoteStutterInv == ASSUME QuoteInv, UNCHANGED allVars PROVE QuoteInv'
<1>1. UNCHANGED selectVars /\ UNCHANGED <<pc, coins, unseen, asked, quote>>
      /\ UNCHANGED <<at, call, fee, picked>>
  BY DEF allVars, vars, selectVars, spendVars, quoteVars
<1>2. SelectInv'
  BY <1>1, SelectStutterInv DEF QuoteInv
<1>3. QuoteCall(asked)' = QuoteCall(asked)
  BY <1>1, Zenon DEF QuoteCall
<1>4. QuotedCall' = QuotedCall
  BY <1>1, <1>3 DEF QuotedCall
<1>5. CountChecked' /\ EmptyRefused' /\ OneCall' /\ WalletKept'
  BY <1>1, <1>3
  DEF QuoteInv, CountChecked, EmptyRefused, OneCall, InputCountOK, WalletKept, Distinct
<1>6. QuoteIsLeast'
  BY <1>1, <1>4, Zenon DEF QuoteInv, QuoteIsLeast, CheapestCount, CallPays, EstimatedSize
<1> QED BY <1>2, <1>5, <1>6 DEF QuoteInv

\* The quote and the spend meet in LeastFee and FailureIsReal.
LEMMA QuoteInvImplies == QuoteInv => QuoteHolds
<1> SUFFICES ASSUME QuoteInv, quote.answer = "ok" PROVE QuoteHolds
  BY DEF QuoteHolds
<1>1. PICK n \in Nat : CheapestCount(QuotedCall, n) /\ quote.fee = EstimatedSize(QuotedCall, n)
  BY DEF QuoteInv, QuoteIsLeast
<1> DEFINE c == QuoteCall(asked)
           q == QuotedCall
<1>2. /\ c \in SelectCall /\ q \in SelectCall /\ q.coins = quote.coins /\ c.coins = coins
      /\ SameButCoins(q, c) /\ SameButCoins(c, q)
      /\ Distinct(q.coins) /\ Distinct(c.coins)
  BY QuotedCallFacts DEF QuoteInv, WalletKept
<1>3. Selected => at = "ok" /\ call = c
  BY DEF Selected, QuoteInv, OneCall
<1>4. pc = "select" => call = c
  BY DEF QuoteInv, OneCall
<1> HIDE DEF c, q
<1>5. at = "ok" => /\ Cardinality(picked) \in Nat /\ CheapestCount(call, Cardinality(picked))
                   /\ fee = EstimatedSize(call, Cardinality(picked))
  BY SelectedCheapest DEF QuoteInv
<1>6. ASSUME Range(quote.coins) \subseteq Range(coins), Selected PROVE fee <= quote.fee
  BY <1>1, <1>2, <1>3, <1>5, <1>6, CountsCompare DEF q
<1>7. ASSUME Range(coins) \subseteq Range(quote.coins), Selected PROVE fee >= quote.fee
  <2>1. quote.fee <= fee
    BY <1>1, <1>2, <1>3, <1>5, <1>7, CountsCompare DEF q
  <2>2. quote.fee \in Nat /\ fee \in Nat
    BY <1>1, <1>2, <1>3, <1>5, <1>7, SizeMonotone DEF q
  <2> QED BY <2>1, <2>2
<1>8. ASSUME Range(quote.coins) \subseteq Range(coins), pc = "select",
             Balance(coins) <= MaxMoney
      PROVE  at # "error"
  <2>1. /\ SelectInv /\ q \in SelectCall /\ SameButCoins(q, call) /\ Distinct(q.coins)
        /\ Distinct(call.coins) /\ Range(q.coins) \subseteq Range(call.coins)
        /\ CheapestCount(q, n) /\ Balance(call.coins) <= MaxMoney
    BY <1>1, <1>2, <1>4, <1>8 DEF QuoteInv, q
  <2> QED BY <2>1, NoFailure
<1> QED BY <1>6, <1>7, <1>8, Zenon DEF QuoteHolds

\* What estimateSparkFee promises is kept by createSparkSpendTransaction, for
\* every wallet, request and limit, however coins come and go in between.
THEOREM QuotesHold == QuoteSpec => []QuoteHolds
<1>1. QuoteInit => QuoteInv
  BY QuoteInitInv
<1>2. QuoteInv /\ [QuoteNext]_allVars => QuoteInv'
  BY ReceiveInv, LoseInv, EstimateFeeInv, TakeQuoteInv, PayInv, RunningInv,
     EndPaymentInv, QuoteStutterInv, Zenon DEF QuoteNext
<1> QED BY <1>1, <1>2, QuoteInvImplies, PTL DEF QuoteSpec

=============================================================================
