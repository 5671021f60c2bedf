----------------------------- MODULE WireProofs -----------------------------
(***************************************************************************)
(* Proofs about SpendWire, for every limit, every size of the proofs'      *)
(* parameters and every wire.                                              *)
(***************************************************************************)
EXTENDS SpendWire, AmountsProofs, SequenceTheorems

-----------------------------------------------------------------------------
(***************************************************************************)
(* The rounds of the range proof.                                          *)
(***************************************************************************)

IsHalved(n, c) == c = [k \in 0 .. n |-> IF k <= 1 THEN 0 ELSE c[k \div 2] + 1]

LEMMA HalfLess ==
  ASSUME NEW k \in Nat, k >= 2
  PROVE  /\ k \div 2 \in Nat /\ k \div 2 >= 1 /\ k \div 2 < k
         /\ 2 * (k \div 2) <= k /\ k < 2 * (k \div 2) + 2
OBVIOUS

LEMMA HalvedExists == \A n \in Nat : \E c : IsHalved(n, c)
<1> DEFINE S == {n \in Nat : \E c : IsHalved(n, c)}
<1>1. 0 \in S
  <2>1. IsHalved(0, [k \in 0 .. 0 |-> 0])
    BY DEF IsHalved
  <2> QED BY <2>1
<1>2. ASSUME NEW n \in Nat, n \in S PROVE n + 1 \in S
  <2>1. PICK c : IsHalved(n, c)
    BY <1>2
  <2> DEFINE next == IF n + 1 <= 1 THEN 0 ELSE c[(n + 1) \div 2] + 1
             d == [k \in 0 .. n + 1 |-> IF k = n + 1 THEN next ELSE c[k]]
  <2>2. \A k \in 0 .. n : d[k] = c[k]
    OBVIOUS
  <2>3. ASSUME NEW k \in 0 .. n + 1
        PROVE  d[k] = IF k <= 1 THEN 0 ELSE d[k \div 2] + 1
    <3>1. k >= 2 => k \div 2 \in 0 .. n
      BY HalfLess
    <3>2. CASE k = n + 1
      <4>1. d[k] = next
        BY <3>2
      <4> QED BY <4>1, <3>1, <3>2, <2>2
    <3>3. CASE k # n + 1
      <4>1. k \in 0 .. n
        BY <3>3
      <4>2. c[k] = IF k <= 1 THEN 0 ELSE c[k \div 2] + 1
        BY <2>1, <4>1 DEF IsHalved
      <4> QED BY <4>1, <4>2, <3>1, <2>2
    <3> QED BY <3>2, <3>3
  <2>4. IsHalved(n + 1, d)
    <3>1. d = [k \in 0 .. n + 1 |-> d[k]]
      OBVIOUS
    <3> HIDE DEF d
    <3> QED BY <2>3, <3>1 DEF IsHalved
  <2> QED BY <2>4
<1> HIDE DEF S
<1>3. Nat \subseteq S
  BY <1>1, <1>2, Induction
<1> QED BY <1>3 DEF S

LEMMA HalvingsIs ==
  ASSUME NEW n \in Nat
  PROVE  \E c : IsHalved(n, c) /\ Halvings(n) = c[n]
<1>1. \E c : c = [k \in 0 .. n |-> IF k <= 1 THEN 0 ELSE c[k \div 2] + 1]
  BY HalvedExists DEF IsHalved
<1> QED BY <1>1, Zenon DEF Halvings, IsHalved

\* Halvings is the logarithm, rounded down.
LEMMA Logarithm ==
  ASSUME NEW n \in Nat
  PROVE  /\ Halvings(n) \in Nat
         /\ n > 0 => Power(2, Halvings(n)) <= n /\ n < Power(2, Halvings(n) + 1)
<1>1. PICK c : IsHalved(n, c) /\ Halvings(n) = c[n]
  BY HalvingsIs
<1>2. \A k \in 0 .. n : c[k] = IF k <= 1 THEN 0 ELSE c[k \div 2] + 1
  BY <1>1 DEF IsHalved
<1> DEFINE fits(k) == c[k] \in Nat /\ Power(2, c[k]) <= k /\ k < Power(2, c[k] + 1)
           S == {m \in Nat : \A k \in 1 .. n : k <= m => fits(k)}
<1>3. 0 \in S
  OBVIOUS
<1>4. ASSUME NEW m \in Nat, m \in S PROVE m + 1 \in S
  <2>1. SUFFICES ASSUME m + 1 \in 1 .. n PROVE fits(m + 1)
    <3>1. \A k \in 1 .. n : k <= m => fits(k)
      BY <1>4
    <3>2. \A k \in 1 .. n : k <= m + 1 => k <= m \/ k = m + 1
      OBVIOUS
    <3>3. m + 1 \in Nat
      OBVIOUS
    <3> HIDE DEF fits
    <3> QED BY <2>1, <3>1, <3>2, <3>3, Zenon
  <2>2. CASE m = 0
    <3>1. c[1] = 0
      BY <1>2, <2>1, <2>2
    <3>2. Power(2, 0) = 1 /\ Power(2, 0 + 1) = 2
      BY PowerStep
    <3> QED BY <2>2, <3>1, <3>2
  <2>3. CASE m # 0
    <3> DEFINE k == m + 1
               h == k \div 2
    <3>1. k \in Nat /\ k >= 2 /\ k \in 1 .. n
      BY <2>1, <2>3
    <3> HIDE DEF k
    <3>2. h \in Nat /\ h >= 1 /\ h < k /\ 2 * h <= k /\ k < 2 * h + 2
      BY <3>1, HalfLess
    <3>3. c[k] = c[h] + 1
      BY <1>2, <3>1
    <3> HIDE DEF h
    <3>4. h \in 1 .. n /\ h <= m
      BY <3>1, <3>2 DEF k
    <3>5. fits(h)
      BY <1>4, <3>4
    <3>6. /\ Power(2, c[h]) \in Nat /\ Power(2, c[h] + 1) = 2 * Power(2, c[h])
          /\ Power(2, (c[h] + 1) + 1) = 2 * Power(2, c[h] + 1) /\ Power(2, c[h] + 1) \in Nat
      BY <3>5, PowersOfTwo
    <3>7. fits(k)
      BY <3>1, <3>2, <3>3, <3>5, <3>6
    <3> QED BY <3>7 DEF k
  <2> QED BY <2>2, <2>3
<1> HIDE DEF S
<1>5. Nat \subseteq S
  BY <1>3, <1>4, Induction
<1>6. n > 0 => fits(n)
  BY <1>5 DEF S
<1>7. n = 0 => c[n] = 0
  BY <1>2
<1> QED BY <1>1, <1>6, <1>7

\* The first power of two that is no less than t.
Padding(t) ==
  LET powers == {Power(2, k) : k \in 0 .. t}
  IN  CHOOSE p \in powers : t <= p /\ \A q \in powers : t <= q => p <= q

LEMMA PaddingIs ==
  ASSUME NEW t \in Nat
  PROVE  /\ WireRounds(t) = Halvings(Bits * Padding(t))
         /\ Padding(t) \in Nat /\ t <= Padding(t)
         /\ \E k \in 0 .. t : Padding(t) = Power(2, k)
         /\ \A k \in 0 .. t : t <= Power(2, k) => Padding(t) <= Power(2, k)
<1> DEFINE powers == {Power(2, k) : k \in 0 .. t}
           T == {p \in powers : t <= p}
           least(p) == t <= p /\ \A q \in powers : t <= q => p <= q
<1>1. \A k \in 0 .. t : Power(2, k) \in Nat
  BY PowersOfTwo
<1>2. T \subseteq Nat
  BY <1>1
<1>3. T # {}
  <2>1. Power(2, t) \in powers /\ Power(2, t) >= t
    BY PowersOfTwo
  <2> QED BY <2>1
<1>4. PICK p \in T : \A q \in T : p <= q
  BY <1>2, <1>3, LeastNat, Zenon
<1>5. p \in powers /\ least(p)
  BY <1>4
<1>6. Padding(t) = CHOOSE q \in powers : least(q)
  BY DEF Padding
<1>7. Padding(t) \in powers /\ least(Padding(t))
  <2> HIDE DEF powers, least
  <2> QED BY <1>5, <1>6, Zenon
<1>8. WireRounds(t) = Halvings(Bits * Padding(t))
  BY Zenon DEF WireRounds, Padding
<1> QED BY <1>1, <1>7, <1>8

\* The prover pads the outputs as the wire format expects.
LEMMA SameRounds ==
  ASSUME NEW t \in Nat
  PROVE  /\ WireRounds(t) \in Nat
         /\ t > 0 => ProverRounds(t) = WireRounds(t)
<1> DEFINE P == Padding(t)
           h == Halvings(t)
<1>1. /\ WireRounds(t) = Halvings(Bits * P)
      /\ P \in Nat /\ t <= P
      /\ \E k \in 0 .. t : P = Power(2, k)
      /\ \A k \in 0 .. t : t <= Power(2, k) => P <= Power(2, k)
  BY PaddingIs
<1> HIDE DEF P
<1>2. Bits \in Nat
  BY WireAssumption
<1>3. Bits * P \in Nat
  BY <1>1, <1>2
<1>4. Halvings(Bits * P) \in Nat
  BY <1>3, Logarithm
<1>5. ASSUME t > 0 PROVE ProverRounds(t) = WireRounds(t)
  <2>1. h \in Nat /\ Power(2, h) <= t /\ t < Power(2, h + 1)
    BY <1>5, Logarithm
  <2> HIDE DEF h
  <2>2. /\ Power(2, h) \in Nat /\ h < Power(2, h) /\ Power(2, h + 1) \in Nat
    BY <2>1, PowersOfTwo
  <2>3. CASE t = Power(2, h)
    <3>1. h \in 0 .. t
      BY <2>1, <2>2, <2>3
    <3>2. P = t
      BY <3>1, <1>1, <2>2, <2>3
    <3>3. ProverRounds(t) = Halvings(Bits * t)
      BY <2>3, Zenon DEF ProverRounds, is_nonzero_power_of_2, h
    <3> QED BY <3>2, <3>3, <1>1
  <2>4. CASE t # Power(2, h)
    <3>1. h + 1 \in 0 .. t
      BY <2>1, <2>2, <2>4
    <3>2. P <= Power(2, h + 1)
      BY <3>1, <1>1, <2>1, <2>2
    <3>3. PICK k \in 0 .. t : P = Power(2, k)
      BY <1>1
    <3>4. h + 1 <= k
      <4>1. SUFFICES ASSUME k <= h PROVE FALSE
        BY <2>1, <3>3
      <4>2. Power(2, k) <= Power(2, h)
        BY <2>1, <4>1, PowersOfTwo
      <4> QED BY <4>2, <3>3, <1>1, <2>1, <2>2, <2>4
    <3>5. Power(2, h + 1) <= P
      <4>1. k \in Nat /\ h + 1 \in Nat
        BY <2>1
      <4> QED BY <4>1, <3>3, <3>4, PowersOfTwo
    <3>6. P = Power(2, h + 1)
      BY <3>2, <3>5, <1>1, <2>2
    <3>7. ProverRounds(t) = Halvings(Bits * Power(2, h + 1))
      BY <2>4, Zenon DEF ProverRounds, is_nonzero_power_of_2, h
    <3> QED BY <3>6, <3>7, <1>1
  <2> QED BY <2>3, <2>4
<1> QED BY <1>1, <1>4, <1>5

-----------------------------------------------------------------------------
(***************************************************************************)
(* The entries of set_id_blockHash, as a list sorted by id.                *)
(***************************************************************************)

Entry == Nat \X Nat

Sorted(es) ==
  es \in Seq(Entry) /\ \A i, j \in 1 .. Len(es) : i < j => es[i][1] < es[j][1]

\* A set enumerated without repetitions is as large as the list.
LEMMA Counting ==
  ASSUME NEW T, NEW n \in Nat, NEW f,
         \A i \in 1 .. n : f[i] \in T,
         \A i, j \in 1 .. n : f[i] = f[j] => i = j,
         \A y \in T : \E i \in 1 .. n : f[i] = y
  PROVE  IsFiniteSet(T) /\ Cardinality(T) = n
<1> DEFINE g == [i \in 1 .. n |-> f[i]]
<1>1. g \in Bijection(1 .. n, T)
  <2>1. g \in [1 .. n -> T] /\ \A i \in 1 .. n : g[i] = f[i]
    OBVIOUS
  <2> HIDE DEF g
  <2>2. \A i, j \in 1 .. n : g[i] = g[j] => i = j
    BY <2>1
  <2>3. \A y \in T : \E i \in 1 .. n : g[i] = y
    BY <2>1
  <2>4. g \in Injection(1 .. n, T)
    BY <2>1, <2>2 DEF Injection, IsInjective
  <2>5. g \in Surjection(1 .. n, T)
    BY <2>1, <2>3 DEF Surjection
  <2> QED BY <2>4, <2>5 DEF Bijection
<1>2. ExistsBijection(1 .. n, T)
  BY <1>1 DEF ExistsBijection
<1> QED BY <1>2, FS_NatBijection, FS_CountingElements

LEMMA SortedFacts ==
  ASSUME NEW es, Sorted(es)
  PROVE  /\ Len(es) \in Nat /\ es = [k \in 1 .. Len(es) |-> es[k]]
         /\ \A i \in 1 .. Len(es) : es[i] \in Entry /\ es[i][1] \in Nat /\ es[i][2] \in Nat
         /\ \A i, j \in 1 .. Len(es) : es[i][1] = es[j][1] => i = j
         /\ \A i, j \in 1 .. Len(es) : es[i] = es[j] => i = j
         /\ Range(es) = {es[i] : i \in 1 .. Len(es)}
<1> DEFINE n == Len(es)
<1>1. es \in Seq(Entry)
  BY DEF Sorted
<1>2. n \in Nat /\ es \in [1 .. n -> Entry] /\ DOMAIN es = 1 .. n
  BY <1>1, LenProperties
<1>3. \A i \in 1 .. n : es[i] \in Entry /\ es[i][1] \in Nat /\ es[i][2] \in Nat
  BY <1>2 DEF Entry
<1>4. \A i, j \in 1 .. n : i < j => es[i][1] < es[j][1]
  BY DEF Sorted
<1> HIDE DEF n
<1>5. \A i, j \in 1 .. n : es[i][1] = es[j][1] => i = j
  <2> SUFFICES ASSUME NEW i \in 1 .. n, NEW j \in 1 .. n, es[i][1] = es[j][1], i # j
               PROVE  FALSE
    OBVIOUS
  <2>1. i < j \/ j < i
    BY <1>2
  <2> QED BY <1>3, <1>4, <2>1
<1>6. \A i, j \in 1 .. n : es[i] = es[j] => i = j
  BY <1>5, Zenon
<1>7. Range(es) = {es[i] : i \in 1 .. n}
  BY <1>2 DEF Range
<1> QED BY <1>2, <1>3, <1>5, <1>6, <1>7 DEF n

\* A sorted list is what Ascending makes of its elements.
LEMMA SortedIsAscending ==
  ASSUME NEW es, Sorted(es), NEW S, S = Range(es)
  PROVE  /\ IsFiniteSet(S) /\ Cardinality(S) = Len(es) /\ Cardinality(Ids(S)) = Len(es)
         /\ Ascending(S) = es
<1> DEFINE n == Len(es)
           below(e) == {d \in S : d[1] < e[1]}
<1>1. /\ n \in Nat /\ es = [k \in 1 .. n |-> es[k]]
      /\ \A i \in 1 .. n : es[i] \in Entry /\ es[i][1] \in Nat /\ es[i][2] \in Nat
      /\ \A i, j \in 1 .. n : es[i][1] = es[j][1] => i = j
      /\ \A i, j \in 1 .. n : es[i] = es[j] => i = j
      /\ S = {es[i] : i \in 1 .. n}
      /\ \A i, j \in 1 .. n : i < j => es[i][1] < es[j][1]
  BY SortedFacts DEF Sorted
<1> HIDE DEF n
<1>2. IsFiniteSet(S) /\ Cardinality(S) = n
  <2>1. \A i \in 1 .. n : es[i] \in S
    BY <1>1
  <2>2. \A y \in S : \E i \in 1 .. n : es[i] = y
    BY <1>1
  <2>3. \A i, j \in 1 .. n : es[i] = es[j] => i = j
    BY <1>1
  <2>4. n \in Nat
    BY <1>1
  <2> QED BY <2>1, <2>2, <2>3, <2>4, Counting
<1>3. Cardinality(Ids(S)) = n
  <2> DEFINE f == [i \in 1 .. n |-> es[i][1]]
  <2>1. \A i \in 1 .. n : f[i] \in Ids(S)
    BY <1>1 DEF Ids
  <2>2. \A i, j \in 1 .. n : f[i] = f[j] => i = j
    BY <1>1
  <2>3. \A y \in Ids(S) : \E i \in 1 .. n : f[i] = y
    BY <1>1 DEF Ids
  <2>4. n \in Nat
    BY <1>1
  <2> HIDE DEF f
  <2> QED BY <2>1, <2>2, <2>3, <2>4, Counting
<1>4. ASSUME NEW k \in 1 .. n PROVE Cardinality(below(es[k])) = k - 1
  <2>1. \A i \in 1 .. k - 1 : i \in 1 .. n /\ es[i] \in below(es[k])
    BY <1>1
  <2>2. \A i, j \in 1 .. k - 1 : es[i] = es[j] => i = j
    BY <1>1, <2>1
  <2>3. \A y \in below(es[k]) : \E i \in 1 .. k - 1 : es[i] = y
    <3> SUFFICES ASSUME NEW y \in below(es[k]) PROVE \E i \in 1 .. k - 1 : es[i] = y
      OBVIOUS
    <3>1. PICK i \in 1 .. n : y = es[i]
      BY <1>1
    <3>2. es[i][1] < es[k][1]
      BY <3>1
    <3>3. i < k
      <4>1. SUFFICES ASSUME k <= i PROVE FALSE
        BY <1>1, <3>1
      <4>2. k = i \/ k < i
        BY <1>1, <4>1
      <4> QED BY <4>2, <3>2, <1>1
    <3> QED BY <3>1, <3>3, <1>1
  <2>4. k - 1 \in Nat
    BY <1>1
  <2> HIDE DEF below
  <2> QED BY <2>1, <2>2, <2>3, <2>4, Counting
<1>5. ASSUME NEW k \in 1 .. n
      PROVE  (CHOOSE e \in S : Cardinality({d \in S : d[1] < e[1]}) = k - 1) = es[k]
  <2> DEFINE right(e) == Cardinality(below(e)) = k - 1
             c == CHOOSE e \in S : right(e)
  <2>1. es[k] \in S /\ right(es[k])
    BY <1>1, <1>4
  <2>2. c \in S /\ right(c)
    <3> HIDE DEF right
    <3> QED BY <2>1, Zenon
  <2> HIDE DEF c
  <2>3. PICK j \in 1 .. n : c = es[j]
    BY <1>1, <2>2
  <2>4. Cardinality(below(es[j])) = j - 1
    BY <1>4
  <2>5. j = k
    BY <1>1, <2>2, <2>3, <2>4
  <2> QED BY <2>3, <2>5 DEF c
<1>6. Ascending(S) = [k \in 1 .. n |-> CHOOSE e \in S : Cardinality({d \in S : d[1] < e[1]}) = k - 1]
  BY <1>2, Zenon DEF Ascending
<1>7. Ascending(S) = [k \in 1 .. n |-> es[k]]
  BY <1>5, <1>6, Zenon
<1> QED BY <1>1, <1>2, <1>3, <1>7 DEF n

\* A larger id goes to the end.
Extends(next, es, id, hash) ==
  next = Append(es, <<id, hash>>) /\ \A e \in Range(es) : e[1] < id

LEMMA SortedAppend ==
  ASSUME NEW es, Sorted(es), NEW id \in Nat, NEW hash \in Nat,
         NEW next, Extends(next, es, id, hash)
  PROVE  /\ Sorted(next) /\ Len(next) = Len(es) + 1
         /\ Range(next) = Range(es) \cup {<<id, hash>>}
         /\ \A i \in 1 .. Len(es) : next[i] = es[i]
         /\ next[Len(es) + 1] = <<id, hash>>
<1> DEFINE x == <<id, hash>>
           n == Len(es)
<1>1. x \in Entry /\ x[1] = id /\ es \in Seq(Entry)
  BY DEF Entry, Sorted
<1>2. next = Append(es, x) /\ \A e \in Range(es) : e[1] < id
  BY DEF Extends
<1> HIDE DEF x
<1>3. /\ next \in Seq(Entry) /\ Len(next) = n + 1
      /\ \A i \in 1 .. n : next[i] = es[i]
      /\ next[n + 1] = x
  BY <1>1, <1>2, AppendProperties
<1>4. n \in Nat /\ DOMAIN next = 1 .. n + 1
  BY <1>1, <1>3, LenProperties
<1>5. Range(es) = {es[i] : i \in 1 .. n}
  BY SortedFacts
<1>6. \A i, j \in 1 .. n : i < j => es[i][1] < es[j][1]
  BY DEF Sorted
<1> HIDE DEF n
<1>7. Range(next) = Range(es) \cup {x}
  <2>1. Range(next) = {next[i] : i \in 1 .. n + 1}
    BY <1>4 DEF Range
  <2>2. \A i \in 1 .. n + 1 : i \in 1 .. n \/ i = n + 1
    BY <1>4
  <2>3. \A i \in 1 .. n : i \in 1 .. n + 1
    BY <1>4
  <2>4. n + 1 \in 1 .. n + 1
    BY <1>4
  <2> QED BY <2>1, <2>2, <2>3, <2>4, <1>3, <1>5
<1>8. ASSUME NEW i \in 1 .. n + 1, NEW j \in 1 .. n + 1, i < j
      PROVE  next[i][1] < next[j][1]
  <2>1. CASE j = n + 1
    <3>1. i \in 1 .. n
      BY <1>4, <1>8, <2>1
    <3> QED BY <1>1, <1>2, <1>3, <1>5, <2>1, <3>1
  <2>2. CASE j # n + 1
    <3>1. i \in 1 .. n /\ j \in 1 .. n
      BY <1>4, <1>8, <2>2
    <3> QED BY <1>3, <1>6, <1>8, <3>1
  <2> QED BY <2>1, <2>2
<1>9. Sorted(next)
  BY <1>3, <1>8 DEF Sorted
<1> QED BY <1>3, <1>7, <1>9 DEF x, n

\* Its words.
Flat(es) ==
  [k \in 1 .. 2 * Len(es) |-> es[((k - 1) \div 2) + 1][((k - 1) % 2) + 1]]

LEMMA FlatFacts ==
  ASSUME NEW es, Sorted(es)
  PROVE  /\ Flat(es) \in Seq(Nat) /\ Len(Flat(es)) = 2 * Len(es)
         /\ \A i \in 1 .. Len(es) :
              Flat(es)[2 * i - 1] = es[i][1] /\ Flat(es)[2 * i] = es[i][2]
<1> DEFINE n == Len(es)
           F2 == Flat(es)
<1>1. n \in Nat /\ \A i \in 1 .. n : es[i][1] \in Nat /\ es[i][2] \in Nat
  BY SortedFacts
<1>2. F2 = [k \in 1 .. 2 * n |-> es[((k - 1) \div 2) + 1][((k - 1) % 2) + 1]]
  BY DEF Flat
<1> HIDE DEF n, F2
<1>3. ASSUME NEW i \in 1 .. n PROVE F2[2 * i - 1] = es[i][1] /\ F2[2 * i] = es[i][2]
  <2>1. /\ 2 * i - 1 \in 1 .. 2 * n /\ 2 * i \in 1 .. 2 * n
        /\ (((2 * i - 1) - 1) \div 2) + 1 = i /\ (((2 * i - 1) - 1) % 2) + 1 = 1
        /\ ((2 * i - 1) \div 2) + 1 = i /\ ((2 * i - 1) % 2) + 1 = 2
    BY <1>1
  <2> QED BY <1>2, <2>1
<1>4. \A k \in 1 .. 2 * n : F2[k] \in Nat
  <2> SUFFICES ASSUME NEW k \in 1 .. 2 * n PROVE F2[k] \in Nat
    OBVIOUS
  <2>1. \E i \in 1 .. n : k = 2 * i - 1 \/ k = 2 * i
    <3>1. ((k - 1) \div 2) + 1 \in 1 .. n
      BY <1>1
    <3>2. k = 2 * (((k - 1) \div 2) + 1) - 1 \/ k = 2 * (((k - 1) \div 2) + 1)
      BY <1>1
    <3> QED BY <3>1, <3>2
  <2> QED BY <1>1, <1>3, <2>1
<1>5. F2 \in Seq(Nat) /\ Len(F2) = 2 * n
  BY <1>1, <1>2, <1>4
<1> QED BY <1>3, <1>5 DEF F2, n

\* The words of one more entry.
LEMMA FlatAppend ==
  ASSUME NEW es, Sorted(es), NEW id \in Nat, NEW hash \in Nat,
         NEW next, Extends(next, es, id, hash)
  PROVE  Flat(next) = Flat(es) \o <<id, hash>>
<1> DEFINE n == Len(es)
           A == Flat(es)
           B == Flat(next)
           p == <<id, hash>>
           C == A \o p
<1>1. /\ Sorted(next) /\ Len(next) = n + 1
      /\ \A i \in 1 .. n : next[i] = es[i]
      /\ next[n + 1][1] = id /\ next[n + 1][2] = hash
  BY SortedAppend
<1>2. n \in Nat
  BY SortedFacts
<1>3. /\ A \in Seq(Nat) /\ Len(A) = 2 * n
      /\ \A i \in 1 .. n : A[2 * i - 1] = es[i][1] /\ A[2 * i] = es[i][2]
  BY FlatFacts
<1>4. /\ B \in Seq(Nat) /\ Len(B) = 2 * (n + 1)
      /\ \A i \in 1 .. n + 1 : B[2 * i - 1] = next[i][1] /\ B[2 * i] = next[i][2]
  BY <1>1, FlatFacts
<1>5. p \in Seq(Nat) /\ Len(p) = 2 /\ p[1] = id /\ p[2] = hash
  OBVIOUS
<1> HIDE DEF A, B, p, n
<1>6. /\ C \in Seq(Nat) /\ Len(C) = 2 * n + 2
      /\ \A i \in 1 .. 2 * n + 2 : C[i] = IF i <= 2 * n THEN A[i] ELSE p[i - 2 * n]
  <2>1. /\ C \in Seq(Nat) /\ Len(C) = Len(A) + Len(p)
        /\ \A i \in 1 .. Len(A) + Len(p) : C[i] = IF i <= Len(A) THEN A[i] ELSE p[i - Len(A)]
    BY <1>3, <1>5, ConcatProperties
  <2> HIDE DEF C
  <2> QED BY <2>1, <1>3, <1>5
<1> HIDE DEF C
<1>7. ASSUME NEW k \in 1 .. 2 * n + 2 PROVE B[k] = C[k]
  <2>1. PICK i \in 1 .. n + 1 : k = 2 * i - 1 \/ k = 2 * i
    <3>1. ((k - 1) \div 2) + 1 \in 1 .. n + 1
      BY <1>2
    <3>2. k = 2 * (((k - 1) \div 2) + 1) - 1 \/ k = 2 * (((k - 1) \div 2) + 1)
      BY <1>2
    <3> QED BY <3>1, <3>2
  <2>2. CASE i = n + 1
    <3>1. CASE k = 2 * i - 1
      <4>1. k = 2 * n + 1 /\ ~(k <= 2 * n) /\ k - 2 * n = 1
        BY <1>2, <2>2, <3>1
      <4>2. B[k] = next[i][1]
        BY <1>4, <3>1
      <4>3. C[k] = p[1]
        BY <1>6, <4>1
      <4> QED BY <4>2, <4>3, <1>1, <1>5, <2>2
    <3>2. CASE k = 2 * i
      <4>1. k = 2 * n + 2 /\ ~(k <= 2 * n) /\ k - 2 * n = 2
        BY <1>2, <2>2, <3>2
      <4>2. B[k] = next[i][2]
        BY <1>4, <3>2
      <4>3. C[k] = p[2]
        BY <1>6, <4>1
      <4> QED BY <4>2, <4>3, <1>1, <1>5, <2>2
    <3> QED BY <2>1, <3>1, <3>2
  <2>3. CASE i # n + 1
    <3>1. i \in 1 .. n /\ k <= 2 * n
      BY <1>2, <2>1, <2>3
    <3>2. C[k] = A[k]
      BY <1>6, <3>1
    <3>3. next[i] = es[i]
      BY <1>1, <3>1
    <3>4. CASE k = 2 * i - 1
      BY <1>3, <1>4, <3>1, <3>2, <3>3, <3>4
    <3>5. CASE k = 2 * i
      BY <1>3, <1>4, <3>1, <3>2, <3>3, <3>5
    <3> QED BY <2>1, <3>4, <3>5
  <2> QED BY <2>2, <2>3
<1>8. Len(B) = Len(C) /\ Len(B) = 2 * n + 2
  BY <1>2, <1>4, <1>6
<1>9. B = C
  BY <1>4, <1>6, <1>7, <1>8, SeqEqual
<1> QED BY <1>9 DEF B, C, A, p

\* A set with one entry for each of its ids has a sorted list.
LEMMA SortedExists ==
  ASSUME NEW S \in SUBSET Entry, NEW M \in Nat, \A e \in S : e[1] < M,
         \A d, e \in S : d[1] = e[1] => d = e
  PROVE  \E es : Sorted(es) /\ Range(es) = S
<1> DEFINE T(m) == {e \in S : e[1] < m}
           H == {m \in Nat : \E es : Sorted(es) /\ Range(es) = T(m)}
<1>0. \A e \in S : e \in Entry /\ e[1] \in Nat /\ e[2] \in Nat /\ e = <<e[1], e[2]>>
  BY DEF Entry
<1>1. 0 \in H
  <2> DEFINE es == <<>>
  <2>1. Sorted(es) /\ Range(es) = {}
    BY DEF Sorted, Range
  <2>2. T(0) = {}
    BY <1>0
  <2> QED BY <2>1, <2>2
<1>2. ASSUME NEW m \in Nat, m \in H PROVE m + 1 \in H
  <2>1. PICK es : Sorted(es) /\ Range(es) = T(m)
    BY <1>2
  <2>2. CASE \E e \in S : e[1] = m
    <3>1. PICK e \in S : e[1] = m
      BY <2>2
    <3>2. T(m + 1) = T(m) \cup {e}
      BY <1>0, <3>1
    <3> DEFINE id == e[1]
               hash == e[2]
               next == Append(es, <<id, hash>>)
    <3>3. id \in Nat /\ hash \in Nat /\ <<id, hash>> = e
      BY <1>0
    <3>4. \A d \in Range(es) : d[1] < id
      BY <2>1, <3>1
    <3>5. Extends(next, es, id, hash)
      BY <3>4 DEF Extends
    <3> HIDE DEF id, hash, next
    <3>6. Sorted(next) /\ Range(next) = Range(es) \cup {<<id, hash>>}
      BY <2>1, <3>3, <3>5, SortedAppend
    <3>7. Range(next) = T(m + 1)
      BY <3>2, <3>3, <3>6, <2>1
    <3> HIDE DEF T
    <3> QED BY <3>6, <3>7
  <2>3. CASE ~\E e \in S : e[1] = m
    <3>1. T(m + 1) = T(m)
      BY <1>0, <2>3
    <3> QED BY <2>1, <3>1
  <2> QED BY <2>2, <2>3
<1>3. T(M) = S
  BY <1>0
<1> HIDE DEF H, T
<1>4. Nat \subseteq H
  BY <1>1, <1>2, Induction
<1> QED BY <1>3, <1>4 DEF H

-----------------------------------------------------------------------------
(***************************************************************************)
(* The words of a transaction, part after part.                            *)
(***************************************************************************)

Part2(i) == <<2>> \o CompactSize(i)
Part3(i, o) == Part2(i) \o CompactSize(o)
Part4(i, o, ids) == Part3(i, o) \o ids
Part5(i, o, ids, n) == Part4(i, o, ids) \o CompactSize(n)
Part6(i, o, ids, n, es) == Part5(i, o, ids, n) \o Flat(es)

\* A count of which the first word may have been read.
Escaped(s, lg) == IF lg THEN Append(s, Escape) ELSE s

LEMMA EscapeFacts ==
  /\ Escape \in Nat /\ MaxChaumV2Inputs \in Nat /\ MaxV2Outputs \in Nat /\ MaxSetId \in Nat
  /\ Escape > MaxChaumV2Inputs /\ Escape > MaxV2Outputs
  /\ GrootleM \in Nat /\ GrootleN \in Nat \ {0} /\ Words \subseteq Nat
BY WireAssumption

LEMMA CompactFacts ==
  ASSUME NEW n \in Nat
  PROVE  /\ CompactSize(n) \in Seq(Nat)
         /\ n < Escape => CompactSize(n) = <<n>>
         /\ ~(n < Escape) => CompactSize(n) = <<Escape, n>>
BY EscapeFacts DEF CompactSize

LEMMA CompactEnds ==
  ASSUME NEW s \in Seq(Nat), NEW w \in Nat, NEW lg \in BOOLEAN,
         IF lg THEN ~(w < Escape) ELSE w < Escape
  PROVE  Append(Escaped(s, lg), w) = s \o CompactSize(w)
<1>1. CASE lg = TRUE
  <2> DEFINE p == <<Escape, w>>
             a == Append(s, Escape)
             u == Append(a, w)
             v == s \o p
  <2>1. p \in Seq(Nat) /\ Len(p) = 2 /\ p[1] = Escape /\ p[2] = w /\ Escape \in Nat
    BY EscapeFacts
  <2>2. CompactSize(w) = p
    BY <1>1, CompactFacts
  <2> HIDE DEF p
  <2>3. Len(s) \in Nat
    BY LenProperties
  <2>4. /\ a \in Seq(Nat) /\ Len(a) = Len(s) + 1
        /\ \A i \in 1 .. Len(s) : a[i] = s[i]
        /\ a[Len(s) + 1] = Escape
    BY <2>1, AppendProperties
  <2> HIDE DEF a
  <2>5. /\ u \in Seq(Nat) /\ Len(u) = Len(a) + 1
        /\ \A i \in 1 .. Len(a) : u[i] = a[i]
        /\ u[Len(a) + 1] = w
    BY <2>4, AppendProperties
  <2>6. /\ v \in Seq(Nat) /\ Len(v) = Len(s) + Len(p)
        /\ \A i \in 1 .. Len(s) + Len(p) : v[i] = IF i <= Len(s) THEN s[i] ELSE p[i - Len(s)]
    BY <2>1, ConcatProperties
  <2> HIDE DEF u, v
  <2>7. Len(u) = Len(v) /\ Len(u) = Len(s) + 2
    BY <2>1, <2>3, <2>4, <2>5, <2>6
  <2>8. ASSUME NEW i \in 1 .. Len(u) PROVE u[i] = v[i]
    <3>1. CASE i <= Len(s)
      <4>1. i \in 1 .. Len(s) /\ i \in 1 .. Len(a) /\ i \in 1 .. Len(s) + Len(p)
        BY <3>1, <2>1, <2>3, <2>4, <2>7
      <4>2. u[i] = a[i] /\ a[i] = s[i]
        BY <4>1, <2>4, <2>5
      <4>3. v[i] = s[i]
        BY <4>1, <3>1, <2>6
      <4> QED BY <4>2, <4>3
    <3>2. CASE i = Len(s) + 1
      <4>1. i - Len(s) = 1 /\ ~(i <= Len(s)) /\ i \in 1 .. Len(s) + Len(p) /\ i \in 1 .. Len(a)
        BY <3>2, <2>1, <2>3, <2>4
      <4>2. v[i] = p[1] /\ u[i] = a[i]
        BY <4>1, <2>5, <2>6
      <4> QED BY <4>2, <3>2, <2>1, <2>4
    <3>3. CASE i = Len(s) + 2
      <4>1. i - Len(s) = 2 /\ ~(i <= Len(s)) /\ i \in 1 .. Len(s) + Len(p) /\ i = Len(a) + 1
        BY <3>3, <2>1, <2>3, <2>4
      <4>2. v[i] = p[2] /\ u[i] = w
        BY <4>1, <2>5, <2>6
      <4> QED BY <4>2, <2>1
    <3> QED BY <3>1, <3>2, <3>3, <2>3, <2>7
  <2>9. u = v
    BY <2>5, <2>6, <2>7, <2>8, SeqEqual
  <2>10. Escaped(s, lg) = a
    BY <1>1 DEF Escaped, a
  <2> QED BY <2>2, <2>9, <2>10 DEF u, v
<1>2. CASE lg = FALSE
  <2>1. CompactSize(w) = <<w>> /\ Escaped(s, lg) = s
    BY <1>2, CompactFacts DEF Escaped
  <2>2. Append(s, w) = s \o <<w>>
    BY AppendIsConcat
  <2> QED BY <2>1, <2>2
<1> QED BY <1>1, <1>2

LEMMA ConcatThree ==
  ASSUME NEW r \in Seq(Nat), NEW s \in Seq(Nat), NEW u \in Seq(Nat)
  PROVE  (r \o s) \o u = r \o (s \o u)
BY ConcatAssociative

LEMMA ConcatSeq ==
  ASSUME NEW s \in Seq(Nat), NEW u \in Seq(Nat)
  PROVE  s \o u \in Seq(Nat) /\ Len(s \o u) = Len(s) + Len(u)
BY ConcatProperties

LEMMA PartTypes ==
  ASSUME NEW i \in Nat, NEW o \in Nat, NEW ids \in Seq(Nat), NEW n \in Nat,
         NEW es, Sorted(es)
  PROVE  /\ <<2>> \in Seq(Nat) /\ Part2(i) \in Seq(Nat) /\ Part3(i, o) \in Seq(Nat)
         /\ Part4(i, o, ids) \in Seq(Nat) /\ Part5(i, o, ids, n) \in Seq(Nat)
         /\ Part6(i, o, ids, n, es) \in Seq(Nat)
<1>1. CompactSize(i) \in Seq(Nat) /\ CompactSize(o) \in Seq(Nat) /\ CompactSize(n) \in Seq(Nat)
  BY CompactFacts
<1>2. Flat(es) \in Seq(Nat)
  BY FlatFacts
<1>3. <<2>> \in Seq(Nat)
  OBVIOUS
<1>4. Part2(i) \in Seq(Nat)
  BY <1>1, <1>3, ConcatSeq DEF Part2
<1>5. Part3(i, o) \in Seq(Nat)
  BY <1>1, <1>4, ConcatSeq DEF Part3
<1>6. Part4(i, o, ids) \in Seq(Nat)
  BY <1>5, ConcatSeq DEF Part4
<1>7. Part5(i, o, ids, n) \in Seq(Nat)
  BY <1>1, <1>6, ConcatSeq DEF Part5
<1>8. Part6(i, o, ids, n, es) \in Seq(Nat)
  BY <1>2, <1>7, ConcatSeq DEF Part6
<1> QED BY <1>3, <1>4, <1>5, <1>6, <1>7, <1>8

\* Another id, no entry yet, and another entry.
LEMMA IdsGrow ==
  ASSUME NEW i \in Nat, NEW o \in Nat, NEW ids \in Seq(Nat), NEW id \in Nat
  PROVE  /\ Append(Part4(i, o, ids), id) = Part4(i, o, Append(ids, id))
         /\ Part4(i, o, <<>>) = Part3(i, o)
<1> DEFINE a == Part3(i, o)
           es == <<>>
           n == 0
<1>1. a \in Seq(Nat)
  <2>1. Sorted(es) /\ n \in Nat
    BY DEF Sorted
  <2> HIDE DEF es, n
  <2> QED BY <2>1, PartTypes
<1>2. /\ Part4(i, o, ids) = a \o ids /\ Part4(i, o, Append(ids, id)) = a \o Append(ids, id)
      /\ Part4(i, o, <<>>) = a \o <<>>
  BY Zenon DEF Part4
<1> HIDE DEF a
<1>4. a \o <<>> = a
  BY <1>1, ConcatEmptySeq
<1>5. Append(a \o ids, id) = a \o Append(ids, id)
  <2> DEFINE d == a \o ids
             x == <<id>>
  <2>1. d \in Seq(Nat) /\ x \in Seq(Nat)
    BY <1>1, ConcatSeq
  <2>2. Append(d, id) = d \o x
    BY <2>1, AppendIsConcat
  <2>3. Append(ids, id) = ids \o x
    BY AppendIsConcat
  <2> HIDE DEF x
  <2>4. (a \o ids) \o x = a \o (ids \o x)
    BY <1>1, <2>1, ConcatThree
  <2> QED BY <2>2, <2>3, <2>4, Zenon
<1>7. Append(Part4(i, o, ids), id) = Part4(i, o, Append(ids, id))
  BY <1>2, <1>5, Zenon
<1>8. Part4(i, o, <<>>) = Part3(i, o)
  BY <1>2, <1>4, Zenon DEF a
<1> QED BY <1>7, <1>8, Zenon

LEMMA NoneYet ==
  ASSUME NEW i \in Nat, NEW o \in Nat, NEW ids \in Seq(Nat), NEW n \in Nat
  PROVE  Part6(i, o, ids, n, <<>>) = Part5(i, o, ids, n)
<1> DEFINE b == Part5(i, o, ids, n)
           es == <<>>
<1>1. b \in Seq(Nat)
  <2>1. Sorted(es)
    BY DEF Sorted
  <2> HIDE DEF es
  <2> QED BY <2>1, PartTypes
<1>2. Part6(i, o, ids, n, <<>>) = b \o Flat(<<>>)
  BY Zenon DEF Part6
<1>3. Flat(<<>>) = <<>>
  BY DEF Flat
<1> HIDE DEF b
<1>4. b \o <<>> = b
  BY <1>1, ConcatEmptySeq
<1> QED BY <1>2, <1>3, <1>4, Zenon DEF b

Grown(i, o, ids, n, es, id, hash, next) ==
  Part6(i, o, ids, n, es) \o <<id, hash>> = Part6(i, o, ids, n, next)

LEMMA EntriesGrow ==
  ASSUME NEW i \in Nat, NEW o \in Nat, NEW ids \in Seq(Nat), NEW n \in Nat,
         NEW es, Sorted(es), NEW id \in Nat, NEW hash \in Nat,
         NEW next, Extends(next, es, id, hash)
  PROVE  Grown(i, o, ids, n, es, id, hash, next)
<1> DEFINE b == Part5(i, o, ids, n)
           p == <<id, hash>>
           g == Flat(es)
<1>1. b \in Seq(Nat)
  BY PartTypes
<1>2. Flat(next) = g \o p
  BY FlatAppend
<1>3. p \in Seq(Nat) /\ g \in Seq(Nat)
  BY FlatFacts
<1>4. Part6(i, o, ids, n, next) = b \o Flat(next) /\ Part6(i, o, ids, n, es) = b \o g
  BY Zenon DEF Part6
<1> HIDE DEF p, g, b
<1>5. (b \o g) \o p = b \o (g \o p)
  BY <1>1, <1>3, ConcatThree
<1>6. Part6(i, o, ids, n, es) \o p = Part6(i, o, ids, n, next)
  BY <1>2, <1>4, <1>5, Zenon
<1> QED BY <1>6 DEF p, Grown

-----------------------------------------------------------------------------
(***************************************************************************)
(* The invariant of reading: what has been read are the words of what is   *)
(* in tx, and every check made on the way still holds of it.               *)
(***************************************************************************)

\* What a tx with the vectors of the wire's counts has for its proofs.
ProofLayout(r) == Layout(Len(r.cover_set_ids), WireRounds(r.outputs))

Header(r) ==
  Append(Append(Part6(Len(r.cover_set_ids), r.outputs, r.cover_set_ids,
                      Cardinality(r.hashes), Ascending(r.hashes)), r.f),
         r.extension_commitment)

\* The words v are those of r, its points in whatever spelling.
Spells(v, r) ==
  \E words \in Seq(Nat) :
    /\ Accepted(ProofLayout(r), words) /\ r.proof = Deserialized(ProofLayout(r), words)
    /\ v = Header(r) \o words

Whole ==
  Part6(inputs, tx.outputs, tx.cover_set_ids, count, Ascending(tx.hashes))

ReadSoFar ==
  /\ at \in {"start", "version"} => read = <<>> /\ ~long
  /\ at = "inputs" => read = Escaped(<<2>>, long)
  /\ at = "outputs" => read = Escaped(Part2(inputs), long)
  /\ at = "ids" => /\ ~long /\ Len(tx.cover_set_ids) < inputs
                   /\ read = Part4(inputs, tx.outputs, tx.cover_set_ids)
  /\ at = "hash_count" =>
       read = Escaped(Part4(inputs, tx.outputs, tx.cover_set_ids), long)
  /\ at \in {"ids", "hash_count", "entries", "fee", "extension", "proofs"} =>
       DimensionsOK(inputs, tx.outputs)
  /\ at \in {"hash_count", "entries", "fee", "extension", "proofs"} =>
       /\ Len(tx.cover_set_ids) = inputs
       /\ \A id \in Range(tx.cover_set_ids) : IdOK(id)
  /\ at \in {"entries", "fee", "extension", "proofs"} => count <= inputs /\ ~long
  /\ at = "entries" => Cardinality(tx.hashes) < count /\ read = Whole
  /\ at \in {"fee", "extension", "proofs"} =>
       Cardinality(tx.hashes) = count /\ HashesOK(tx.cover_set_ids, tx.hashes)
  /\ at = "fee" => read = Whole
  /\ at = "extension" => read = Append(Whole, tx.f)
  /\ at = "proofs" => read = Append(Append(Whole, tx.f), tx.extension_commitment)
  /\ at = "done" => Writable(tx) /\ Len(tx.cover_set_ids) = inputs /\ Spells(read, tx)

HashesSorted == \E es : Sorted(es) /\ tx.hashes = Range(es)

WireInv ==
  /\ WireTypeOK
  /\ long \in BOOLEAN /\ inputs \in Nat /\ count \in Nat /\ expected \in Nat
  /\ HashesSorted
  /\ ReadSoFar

LEMMA HashesFacts ==
  ASSUME HashesSorted
  PROVE  /\ Sorted(Ascending(tx.hashes)) /\ Range(Ascending(tx.hashes)) = tx.hashes
         /\ Len(Ascending(tx.hashes)) = Cardinality(tx.hashes)
         /\ IsFiniteSet(tx.hashes) /\ Cardinality(tx.hashes) \in Nat
         /\ Cardinality(Ids(tx.hashes)) = Cardinality(tx.hashes)
<1>1. PICK es : Sorted(es) /\ tx.hashes = Range(es)
  BY DEF HashesSorted
<1> DEFINE S == tx.hashes
<1>2. S = Range(es)
  BY <1>1
<1> HIDE DEF S
<1>3. /\ IsFiniteSet(S) /\ Cardinality(S) = Len(es) /\ Cardinality(Ids(S)) = Len(es)
      /\ Ascending(S) = es
  BY <1>1, <1>2, SortedIsAscending
<1>4. Len(es) \in Nat
  BY <1>1, SortedFacts
<1> QED BY <1>1, <1>2, <1>3, <1>4 DEF S

\* Types follow from the parts.
LEMMA TypesFrom ==
  ASSUME HashesSorted,
         at \in {"start", "version", "inputs", "outputs", "ids", "hash_count",
                 "entries", "fee", "extension", "proofs", "done", "threw"},
         tx \in SpendTransaction, sent \in SpendTransaction,
         wire \in Seq(Nat), read \in Seq(Nat)
  PROVE  WireTypeOK
BY HashesFacts, Zenon DEF WireTypeOK

LEMMA TxFields ==
  ASSUME NEW r \in SpendTransaction
  PROVE  /\ r.cover_set_ids \in Seq(Nat) /\ r.hashes \in SUBSET (Nat \X Nat)
         /\ r.f \in Nat /\ r.extension_commitment \in Nat /\ r.outputs \in Nat
         /\ r.perInput \in Nat /\ r.X \in Nat /\ r.X1 \in Nat /\ r.fs \in Nat
         /\ r.L \in Nat /\ r.R \in Nat /\ r.proof \in Seq(Nat)
BY DEF SpendTransaction

LEMMA WordNat ==
  ASSUME WireInv, NEW w \in Words \cup Range(wire)
  PROVE  w \in Nat
<1>1. wire \in Seq(Nat) /\ Words \subseteq Nat
  BY EscapeFacts DEF WireInv, WireTypeOK
<1>2. Range(wire) \subseteq Nat
  BY <1>1, RangeOfSeq
<1> QED BY <1>1, <1>2

LEMMA AppendRead ==
  ASSUME WireInv, NEW w \in Nat, Word(w)
  PROVE  read' = Append(read, w) /\ read' \in Seq(Nat)
<1>1. read \in Seq(Nat) /\ read' = Append(read, w)
  BY DEF WireInv, WireTypeOK, Word
<1> QED BY <1>1, AppendProperties

\* What the actions that leave tx, sent and wire alone keep.
LEMMA KeepTypes ==
  ASSUME WireInv, tx' = tx, sent' = sent, wire' = wire, read' \in Seq(Nat),
         at' \in {"start", "version", "inputs", "outputs", "ids", "hash_count",
                  "entries", "fee", "extension", "proofs", "done", "threw"}
  PROVE  WireTypeOK' /\ HashesSorted'
<1>1. /\ tx \in SpendTransaction /\ sent \in SpendTransaction /\ wire \in Seq(Nat)
      /\ Cardinality(Ids(tx.hashes)) = Cardinality(tx.hashes) /\ HashesSorted
  BY DEF WireInv, WireTypeOK
<1> QED BY <1>1, Zenon DEF WireTypeOK, HashesSorted

\* Objects with sorted hashes; the words of one, up to its last two fields.
HasSorted(r) == r \in SpendTransaction /\ \E es : Sorted(es) /\ r.hashes = Range(es)

Fields(r) ==
  Part6(Len(r.cover_set_ids), r.outputs, r.cover_set_ids, Cardinality(r.hashes),
        Ascending(r.hashes))

LEMMA ObjectFacts ==
  ASSUME NEW r, HasSorted(r)
  PROVE  /\ Sorted(Ascending(r.hashes)) /\ Range(Ascending(r.hashes)) = r.hashes
         /\ Len(Ascending(r.hashes)) = Cardinality(r.hashes)
         /\ IsFiniteSet(r.hashes) /\ Cardinality(r.hashes) \in Nat
         /\ Cardinality(Ids(r.hashes)) = Cardinality(r.hashes)
<1>1. PICK es : Sorted(es) /\ r.hashes = Range(es)
  BY DEF HasSorted
<1> DEFINE S == r.hashes
<1>2. S = Range(es)
  BY <1>1
<1> HIDE DEF S
<1>3. /\ IsFiniteSet(S) /\ Cardinality(S) = Len(es) /\ Cardinality(Ids(S)) = Len(es)
      /\ Ascending(S) = es
  BY <1>1, <1>2, SortedIsAscending
<1>4. Len(es) \in Nat
  BY <1>1, SortedFacts
<1> QED BY <1>1, <1>2, <1>3, <1>4 DEF S

LEMMA AppendPair ==
  ASSUME NEW f \in Nat, NEW x \in Nat
  PROVE  Append(<<f>>, x) = <<f, x>>
<1> DEFINE p == <<f>>
           u == Append(p, x)
           v == <<f, x>>
<1>1. p \in Seq(Nat) /\ Len(p) = 1 /\ p[1] = f
  OBVIOUS
<1>2. v \in Seq(Nat) /\ Len(v) = 2 /\ v[1] = f /\ v[2] = x
  OBVIOUS
<1> HIDE DEF p, v
<1>3. /\ u \in Seq(Nat) /\ Len(u) = Len(p) + 1
      /\ \A i \in 1 .. Len(p) : u[i] = p[i]
      /\ u[Len(p) + 1] = x
  <2>1. p \in Seq(Nat)
    BY <1>1
  <2> QED BY <2>1, AppendProperties
<1> HIDE DEF u
<1>4. Len(u) = 2 /\ u[1] = f /\ u[2] = x
  BY <1>1, <1>3
<1>5. \A i \in 1 .. Len(u) : u[i] = v[i]
  BY <1>2, <1>4
<1>6. u = v
  BY <1>2, <1>3, <1>4, <1>5, SeqEqual
<1> QED BY <1>6 DEF u, v, p

-----------------------------------------------------------------------------
(***************************************************************************)
(* The proofs of a transaction.                                            *)
(***************************************************************************)

Kind == {"point", "scalar"}

LEMMA ConcatKinds ==
  ASSUME NEW s \in Seq(Kind), NEW t \in Seq(Kind)
  PROVE  s \o t \in Seq(Kind)
BY ConcatProperties

LEMMA RunSeq ==
  ASSUME NEW n \in Nat
  PROVE  /\ Points(n) \in Seq(Kind) /\ Len(Points(n)) = n
         /\ Scalars(n) \in Seq(Kind) /\ Len(Scalars(n)) = n
BY DEF Points, Scalars, Kind

LEMMA RepeatSeq ==
  ASSUME NEW s \in Seq(Kind), Len(s) \in Nat \ {0}, NEW n \in Nat
  PROVE  Repeat(s, n) \in Seq(Kind)
<1> DEFINE l == Len(s)
<1>1. l \in Nat \ {0} /\ \A j \in 1 .. l : s[j] \in Kind
  BY ElementOfSeq
<1>2. n * l \in Nat
  BY <1>1
<1>3. Repeat(s, n) = [k \in 1 .. n * l |-> s[((k - 1) % l) + 1]]
  BY DEF Repeat
<1> HIDE DEF l
<1>4. ASSUME NEW k \in 1 .. n * l PROVE s[((k - 1) % l) + 1] \in Kind
  <2>1. k - 1 \in Int
    BY <1>2
  <2>2. (k - 1) % l \in 0 .. l - 1
    BY <1>1, <2>1
  <2>3. ((k - 1) % l) + 1 \in 1 .. l
    BY <1>1, <2>2
  <2> QED BY <1>1, <2>3
<1>5. Repeat(s, n) \in [1 .. n * l -> Kind]
  BY <1>3, <1>4
<1> QED BY <1>2, <1>5, IsASeq

LEMMA LayoutSeq ==
  ASSUME NEW i \in Nat, NEW rounds \in Nat
  PROVE  Layout(i, rounds) \in Seq(Kind) /\ Len(Layout(i, rounds)) \in Nat
<1> DEFINE g == GrootleLayout
           a == 2 + 2 * GrootleM
           b == GrootleM * (GrootleN - 1) + 3
<1>1. a \in Nat \ {0} /\ b \in Nat
  <2>1. GrootleM \in Nat /\ GrootleN - 1 \in Nat
    BY EscapeFacts
  <2>2. GrootleM * (GrootleN - 1) \in Nat
    BY <2>1
  <2> QED BY <2>1, <2>2
<1>2. g = Points(a) \o Scalars(b)
  BY DEF GrootleLayout
<1> HIDE DEF a, b, g
<1>3. /\ Points(a) \in Seq(Kind) /\ Len(Points(a)) = a
      /\ Scalars(b) \in Seq(Kind) /\ Len(Scalars(b)) = b
  BY <1>1, RunSeq
<1>4. g \in Seq(Kind) /\ Len(g) = a + b
  BY <1>2, <1>3, ConcatProperties
<1>5. Len(g) \in Nat \ {0}
  BY <1>1, <1>4
<1> DEFINE p1 == Points(3 * i)
           p2 == Repeat(g, i)
           p3 == Points(2 * i)
           p4 == Scalars(3 * i)
           p5 == Points(1)
           p6 == Scalars(1)
           p7 == Points(3)
           p8 == Scalars(3)
           p9 == Points(2 * rounds)
<1>6. 3 * i \in Nat /\ 2 * i \in Nat /\ 2 * rounds \in Nat /\ 1 \in Nat /\ 3 \in Nat
  OBVIOUS
<1>7. /\ p1 \in Seq(Kind) /\ p2 \in Seq(Kind) /\ p3 \in Seq(Kind) /\ p4 \in Seq(Kind)
      /\ p5 \in Seq(Kind) /\ p6 \in Seq(Kind) /\ p7 \in Seq(Kind) /\ p8 \in Seq(Kind)
      /\ p9 \in Seq(Kind)
  BY <1>4, <1>5, <1>6, RunSeq, RepeatSeq
<1>8. Layout(i, rounds) = p1 \o p2 \o p3 \o p4 \o p5 \o p6 \o p7 \o p8 \o p9
  BY Zenon DEF Layout, g
<1> HIDE DEF p1, p2, p3, p4, p5, p6, p7, p8, p9
<1>9. p1 \o p2 \o p3 \in Seq(Kind)
  BY <1>7, ConcatKinds
<1>10. p1 \o p2 \o p3 \o p4 \o p5 \in Seq(Kind)
  BY <1>7, <1>9, ConcatKinds
<1>11. p1 \o p2 \o p3 \o p4 \o p5 \o p6 \o p7 \in Seq(Kind)
  BY <1>7, <1>10, ConcatKinds
<1>12. Layout(i, rounds) \in Seq(Kind)
  BY <1>7, <1>8, <1>11, ConcatKinds
<1> QED BY <1>12, LenProperties

LEMMA PointFacts ==
  /\ \A w \in DOMAIN Respelt : w \in Nat /\ Respelt[w] \in DOMAIN Respelt
                              /\ Respelt[Respelt[w]] = Respelt[w]
  /\ ScalarWords \subseteq Nat /\ Tails \subseteq Seq(Nat)
BY PointAssumption

\* What was read is written in serialize's own form, and read again as it is.
LEMMA ReadIsSerialized ==
  ASSUME NEW layout \in Seq(Kind), NEW words, Accepted(layout, words),
         NEW p, p = Deserialized(layout, words)
  PROVE  p \in Seq(Nat) /\ Len(p) = Len(layout) /\ Serialized(layout, p)
<1> DEFINE n == Len(layout)
<1>1. n \in Nat
  BY LenProperties
<1>2. \A k \in 1 .. n :
        words[k] \in IF layout[k] = "point" THEN DOMAIN Respelt ELSE ScalarWords
  BY DEF Accepted
<1>3. p = [k \in 1 .. n |-> IF layout[k] = "point" THEN Respelt[words[k]] ELSE words[k]]
  BY DEF Deserialized
<1>4. Deserialized(layout, p) =
        [k \in 1 .. n |-> IF layout[k] = "point" THEN Respelt[p[k]] ELSE p[k]]
  BY DEF Deserialized
<1> HIDE DEF n
<1>5. ASSUME NEW k \in 1 .. n
      PROVE  /\ p[k] \in Nat
             /\ p[k] \in IF layout[k] = "point" THEN DOMAIN Respelt ELSE ScalarWords
             /\ (IF layout[k] = "point" THEN Respelt[p[k]] ELSE p[k]) = p[k]
  <2>1. CASE layout[k] = "point"
    <3>1. words[k] \in DOMAIN Respelt /\ p[k] = Respelt[words[k]]
      BY <1>2, <1>3, <2>1
    <3> QED BY <2>1, <3>1, PointFacts
  <2>2. CASE layout[k] # "point"
    <3>1. words[k] \in ScalarWords /\ p[k] = words[k]
      BY <1>2, <1>3, <2>2
    <3> QED BY <2>2, <3>1, PointFacts
  <2> QED BY <2>1, <2>2
<1>6. p \in [1 .. n -> Nat]
  BY <1>3, <1>5
<1>7. p \in Seq(Nat) /\ Len(p) = n
  BY <1>1, <1>6, IsASeq
<1>8. Accepted(layout, p)
  BY <1>5, <1>7 DEF Accepted, n
<1>9. Deserialized(layout, p) = p
  BY <1>3, <1>4, <1>5
<1> QED BY <1>7, <1>8, <1>9 DEF Serialized, n

\* The proofs of r have the sizes of the wire and serialize's own form.
Made(r) == Serialized(ProofLayout(r), r.proof)

LEMMA ProofLayoutSeq ==
  ASSUME NEW r \in SpendTransaction
  PROVE  ProofLayout(r) \in Seq(Kind) /\ Len(ProofLayout(r)) \in Nat
<1>1. r.cover_set_ids \in Seq(Nat) /\ r.outputs \in Nat
  BY TxFields
<1>2. Len(r.cover_set_ids) \in Nat /\ WireRounds(r.outputs) \in Nat
  BY <1>1, LenProperties, SameRounds
<1> QED BY <1>2, LayoutSeq DEF ProofLayout

LEMMA SpelledIsMade ==
  ASSUME NEW r \in SpendTransaction, NEW v, Spells(v, r)
  PROVE  Made(r)
<1>1. PICK words \in Seq(Nat) :
          Accepted(ProofLayout(r), words) /\ r.proof = Deserialized(ProofLayout(r), words)
  BY Zenon DEF Spells
<1> QED BY <1>1, ProofLayoutSeq, ReadIsSerialized DEF Made

\* The words of a transaction, in the order of the parts.
LEMMA WrittenIs ==
  ASSUME NEW r, HasSorted(r)
  PROVE  /\ Fields(r) \in Seq(Nat) /\ Header(r) \in Seq(Nat)
         /\ Header(r) = Append(Append(Fields(r), r.f), r.extension_commitment)
         /\ Written(r) = Header(r) \o r.proof
         /\ Written(r) \in Seq(Nat) /\ Written(r) # <<>>
<1> DEFINE es == Ascending(r.hashes)
           i == Len(r.cover_set_ids)
           o == r.outputs
           ids == r.cover_set_ids
           n == Cardinality(r.hashes)
           a == Fields(r)
           f == r.f
           x == r.extension_commitment
           q == r.proof
<1>1. /\ Sorted(es) /\ Len(es) = n /\ n \in Nat
  BY ObjectFacts
<1>2. ids \in Seq(Nat) /\ o \in Nat /\ f \in Nat /\ x \in Nat /\ r.proof \in Seq(Nat)
  BY TxFields DEF HasSorted
<1>3. i \in Nat
  BY <1>2, LenProperties
<1>4. a = Part6(i, o, ids, n, es)
  BY DEF Fields
<1>5. Written(r) = (Part6(i, o, ids, n, es) \o <<f, x>>) \o q
  <2>1. Flat(es) = [k \in 1 .. 2 * n |-> es[((k - 1) \div 2) + 1][((k - 1) % 2) + 1]]
    BY <1>1, Zenon DEF Flat
  <2>2. Written(r) = <<2>> \o CompactSize(i) \o CompactSize(o) \o ids \o CompactSize(n)
                       \o [k \in 1 .. 2 * n |-> es[((k - 1) \div 2) + 1][((k - 1) % 2) + 1]]
                       \o <<f, x>> \o q
    BY Zenon DEF Written
  <2> HIDE DEF es, n, i, o, ids, f, x, q
  <2>3. Written(r) = <<2>> \o CompactSize(i) \o CompactSize(o) \o ids \o CompactSize(n)
                       \o Flat(es) \o <<f, x>> \o q
    BY <2>1, <2>2, Zenon
  <2> QED BY <2>3, Zenon DEF Part6, Part5, Part4, Part3, Part2
<1>6. q \in Seq(Nat)
  BY <1>2
<1>7. Part6(i, o, ids, n, es) \in Seq(Nat)
  BY <1>1, <1>2, <1>3, PartTypes
<1>8. a \in Seq(Nat) /\ Written(r) = (a \o <<f, x>>) \o q
  BY <1>4, <1>5, <1>7
<1> HIDE DEF a, f, x, q
<1>9. Append(Append(a, f), x) = a \o <<f, x>>
  <2> DEFINE b == Append(a, f)
             p == <<f>>
             y == <<x>>
  <2>1. b = a \o p /\ p \in Seq(Nat) /\ y \in Seq(Nat) /\ b \in Seq(Nat)
    BY <1>2, <1>8, AppendIsConcat, AppendProperties
  <2>2. p \o y = <<f, x>>
    <3>1. Append(p, x) = p \o y
      BY <1>2, <2>1, AppendIsConcat
    <3>2. Append(p, x) = <<f, x>>
      BY <1>2, AppendPair
    <3> QED BY <3>1, <3>2
  <2> HIDE DEF b, p
  <2>3. Append(b, x) = b \o y
    BY <1>2, <2>1, AppendIsConcat
  <2> HIDE DEF y
  <2>4. (a \o p) \o y = a \o (p \o y)
    BY <1>8, <2>1, ConcatThree
  <2>5. Append(b, x) = a \o <<f, x>>
    BY <2>1, <2>2, <2>3, <2>4, Zenon
  <2> QED BY <2>5 DEF b
<1> DEFINE c == Append(Append(a, f), x)
<1>10. Append(a, f) \in Seq(Nat) /\ Len(Append(a, f)) = Len(a) + 1 /\ Len(a) \in Nat
  BY <1>2, <1>8, AppendProperties, LenProperties
<1>11. c \in Seq(Nat) /\ Len(c) = Len(Append(a, f)) + 1
  BY <1>2, <1>10, AppendProperties
<1>12. Written(r) = c \o q
  BY <1>8, <1>9, Zenon
<1> HIDE DEF c
<1>13. Written(r) \in Seq(Nat) /\ Len(Written(r)) = Len(c) + Len(q)
  BY <1>6, <1>11, <1>12, ConcatSeq
<1>14. Len(Written(r)) > 0
  BY <1>6, <1>10, <1>11, <1>13, LenProperties
<1>15. Written(r) # <<>>
  BY <1>14
<1>16. Header(r) = Append(Append(Fields(r), r.f), r.extension_commitment)
  BY Zenon DEF Header, Fields
<1> QED BY <1>8, <1>11, <1>12, <1>13, <1>15, <1>16, Zenon DEF a, f, x, q, c

\* The objects a transaction is read into.
LEMMA TargetFacts ==
  ASSUME NEW r \in Targets
  PROVE  HasSorted(r)
<1>1. Empty \in SpendTransaction /\ Empty.hashes = {}
  <2>1. <<>> \in Seq(Nat)
    OBVIOUS
  <2> QED BY <2>1, Zenon, 0 \in Nat DEF Empty, SpendTransaction
<1>2. CASE r = Empty
  <2>1. Sorted(<<>>) /\ Range(<<>>) = {}
    BY DEF Sorted, Range
  <2> QED BY <1>1, <1>2, <2>1, Zenon DEF HasSorted
<1>3. CASE r = [Empty EXCEPT !.hashes = {<<1, 0>>}]
  <2> DEFINE es == <<<<1, 0>>>>
  <2>1. <<1, 0>> \in Entry
    BY DEF Entry
  <2>2. Sorted(es) /\ Range(es) = {<<1, 0>>}
    BY <2>1 DEF Sorted, Range
  <2>3. r \in SpendTransaction /\ r.hashes = {<<1, 0>>}
    BY <1>1, <1>3, <2>1 DEF SpendTransaction, Empty, Entry
  <2> HIDE DEF es
  <2> QED BY <2>2, <2>3, Zenon DEF HasSorted
<1> QED BY <1>2, <1>3 DEF Targets

LEMMA StartingInv ==
  ASSUME at = "start", sent = Empty, wire = <<>>, read = <<>>, long = FALSE,
         inputs = 0, count = 0, expected = 0, tx \in Targets
  PROVE  WireInv
<1>1. HasSorted(tx) /\ HasSorted(Empty)
  BY TargetFacts DEF Targets
<1>2. HashesSorted /\ tx \in SpendTransaction /\ sent \in SpendTransaction
  BY <1>1, Zenon DEF HasSorted, HashesSorted
<1>3. wire \in Seq(Nat) /\ read \in Seq(Nat)
  OBVIOUS
<1>4. WireTypeOK
  BY <1>2, <1>3, TypesFrom
<1>5. ReadSoFar
  BY DEF ReadSoFar
<1> QED BY <1>2, <1>4, <1>5 DEF WireInv

LEMMA Distinct ==
  ASSUME NEW ids \in Seq(Nat)
  PROVE  IsFiniteSet(Range(ids)) /\ Cardinality(Range(ids)) <= Len(ids)
           /\ Cardinality(Range(ids)) \in Nat
<1>1. Len(ids) \in Nat /\ DOMAIN ids = 1 .. Len(ids) /\ ids \in [1 .. Len(ids) -> Nat]
  BY LenProperties
<1> DEFINE n == Len(ids)
           R == Range(ids)
<1>2. ids \in [1 .. n -> R] /\ \A y \in R : \E i \in 1 .. n : ids[i] = y
  BY <1>1 DEF Range
<1> HIDE DEF R, n
<1>3. ids \in Surjection(1 .. n, R)
  BY <1>2 DEF Surjection
<1>4. IsFiniteSet(1 .. n) /\ Cardinality(1 .. n) = n
  <2>1. n \in Nat /\ n \in Int /\ 1 \in Int
    BY <1>1 DEF n
  <2>2. IsFiniteSet(1 .. n) /\ Cardinality(1 .. n) = IF 1 > n THEN 0 ELSE n - 1 + 1
    BY <2>1, FS_Interval
  <2> QED BY <2>1, <2>2
<1>5. IsFiniteSet(R) /\ Cardinality(R) <= n
  BY <1>3, <1>4, FS_Surjection
<1> QED BY <1>5, FS_CardinalityType DEF R, n

\* What the constructor is given.
BuildIds == UNION {[1 .. n -> 0 .. MaxSetId + 1] : n \in 0 .. MaxChaumV2Inputs + 1}
BuildHashes ==
  {{<<g, h[g]>> : g \in G} : G \in SUBSET (0 .. MaxSetId + 1),
                             h \in [0 .. MaxSetId + 1 -> {0, 1}]}

LEMMA BuildParts ==
  ASSUME NEW b \in Builds
  PROVE  /\ b.ids \in BuildIds /\ b.hashes \in BuildHashes
         /\ b.outputs \in 0 .. MaxV2Outputs + 1 /\ b.f = 1 /\ b.extension \in {0, 3}
<1> DEFINE O == 0 .. MaxV2Outputs + 1
<1>1. Builds = [ids : BuildIds, hashes : BuildHashes, outputs : O, f : {1}, extension : {0, 3}]
  BY DEF Builds, BuildIds, BuildHashes
<1>2. b \in [ids : BuildIds, hashes : BuildHashes, outputs : O, f : {1}, extension : {0, 3}]
  BY <1>1, Zenon
<1> HIDE DEF O
<1>3. /\ b.ids \in BuildIds /\ b.hashes \in BuildHashes /\ b.outputs \in O
      /\ b.f \in {1} /\ b.extension \in {0, 3}
  BY <1>2
<1> QED BY <1>3 DEF O

LEMMA HashesOfBuild ==
  ASSUME NEW b \in Builds
  PROVE  \E G \in SUBSET (0 .. MaxSetId + 1), h \in [0 .. MaxSetId + 1 -> {0, 1}] :
           b.hashes = {<<g, h[g]>> : g \in G}
<1> DEFINE H == b.hashes
<1>1. H \in BuildHashes
  BY BuildParts
<1> HIDE DEF H
<1>2. \E G \in SUBSET (0 .. MaxSetId + 1), h \in [0 .. MaxSetId + 1 -> {0, 1}] :
        H = {<<g, h[g]>> : g \in G}
  BY <1>1 DEF BuildHashes
<1> QED BY <1>2 DEF H

LEMMA BuildFacts ==
  ASSUME NEW b \in Builds
  PROVE  /\ b.ids \in Seq(Nat) /\ b.outputs \in Nat /\ b.f \in Nat /\ b.extension \in Nat
         /\ \E es : Sorted(es) /\ b.hashes = Range(es)
<1> DEFINE I == 0 .. MaxSetId + 1
<1>0. MaxSetId \in Nat /\ MaxChaumV2Inputs \in Nat /\ MaxV2Outputs \in Nat /\ I \subseteq Nat
  BY EscapeFacts
<1>1. /\ b.ids \in BuildIds /\ b.hashes \in BuildHashes
      /\ b.outputs \in 0 .. MaxV2Outputs + 1 /\ b.f = 1 /\ b.extension \in {0, 3}
  BY BuildParts
<1>2. \E n \in 0 .. MaxChaumV2Inputs + 1 : b.ids \in [1 .. n -> I]
  BY <1>1 DEF BuildIds
<1>3. PICK n \in Nat : b.ids \in [1 .. n -> Nat]
  BY <1>0, <1>2
<1>4. b.ids \in Seq(Nat)
  BY <1>3, IsASeq
<1>a. \E G \in SUBSET (0 .. MaxSetId + 1), h \in [0 .. MaxSetId + 1 -> {0, 1}] :
        b.hashes = {<<g, h[g]>> : g \in G}
  BY HashesOfBuild, Zenon
<1>b. I = 0 .. MaxSetId + 1
  OBVIOUS
<1> HIDE DEF I
<1>5. PICK G \in SUBSET I, h \in [I -> {0, 1}] : b.hashes = {<<g, h[g]>> : g \in G}
  BY <1>a, <1>b, Zenon
<1> DEFINE S == b.hashes
<1>6. \A e \in S : \E g \in G : g \in Nat /\ h[g] \in Nat /\ e = <<g, h[g]>>
  BY <1>0, <1>5
<1>7. \A e \in S : e \in Entry /\ e[1] \in I /\ e[2] = h[e[1]] /\ e = <<e[1], e[2]>>
  BY <1>0, <1>5, <1>6 DEF Entry
<1> DEFINE M == MaxSetId + 2
<1>8. S \in SUBSET Entry /\ M \in Nat /\ \A e \in S : e[1] < M
  <2>1. M \in Nat /\ \A x \in I : x < M
    BY <1>0 DEF I
  <2> HIDE DEF M, S
  <2> QED BY <1>7, <2>1
<1>9. \A d, e \in S : d[1] = e[1] => d = e
  <2> HIDE DEF S
  <2> QED BY <1>7, Zenon
<1> HIDE DEF M, S
<1>10. \E es : Sorted(es) /\ Range(es) = S
  BY <1>8, <1>9, SortedExists
<1> QED BY <1>0, <1>1, <1>4, <1>10 DEF S

\* A transaction that was constructed has the sizes the wire format requires.
LEMMA ConstructedWritable ==
  ASSUME NEW b \in Builds, ~ConstructorError(b), NEW p \in Seq(Nat), ProversReturn(b, p),
         NEW r, r = Constructed(b, p)
  PROVE  HasSorted(r) /\ Writable(r) /\ Made(r) /\ r.outputs \in 1 .. MaxV2Outputs
<1>1. /\ b.ids \in Seq(Nat) /\ b.outputs \in Nat /\ b.f \in Nat /\ b.extension \in Nat
      /\ \E es : Sorted(es) /\ b.hashes = Range(es)
  BY BuildFacts
<1>2. /\ \A id \in Range(b.ids) : ~(id = 0 \/ id > MaxSetId)
      /\ Cardinality(Ids(b.hashes)) = Cardinality(Range(b.ids))
      /\ Range(b.ids) \subseteq Ids(b.hashes)
      /\ Len(b.ids) \in 1 .. MaxChaumV2Inputs /\ b.outputs \in 1 .. MaxV2Outputs
  BY Zenon DEF ConstructorError
<1>3. /\ r.cover_set_ids = b.ids /\ r.hashes = b.hashes /\ r.f = b.f
      /\ r.extension_commitment = b.extension /\ r.outputs = b.outputs
      /\ r.perInput = Len(b.ids) /\ r.X = GrootleM /\ r.X1 = GrootleM
      /\ r.fs = GrootleM * (GrootleN - 1)
      /\ r.L = ProverRounds(b.outputs) /\ r.R = ProverRounds(b.outputs) /\ r.proof = p
  BY DEF Constructed
<1>4. WireRounds(b.outputs) \in Nat /\ ProverRounds(b.outputs) = WireRounds(b.outputs)
  <2> DEFINE o == b.outputs
  <2>1. o \in Nat /\ o \in 1 .. MaxV2Outputs
    BY <1>1, <1>2
  <2> HIDE DEF o
  <2>2. o > 0
    BY <2>1
  <2>3. WireRounds(o) \in Nat /\ ProverRounds(o) = WireRounds(o)
    BY <2>1, <2>2, SameRounds
  <2> QED BY <2>3 DEF o
<1>5. GrootleM \in Nat /\ GrootleM * (GrootleN - 1) \in Nat /\ Len(b.ids) \in Nat
  <2>1. GrootleM \in Nat /\ GrootleN - 1 \in Nat
    BY EscapeFacts
  <2> QED BY <1>1, <2>1, LenProperties
<1>6. b.hashes \in SUBSET (Nat \X Nat)
  <2>1. PICK es : Sorted(es) /\ b.hashes = Range(es)
    BY <1>1
  <2>2. es \in Seq(Entry)
    BY <2>1 DEF Sorted
  <2>3. Range(es) \subseteq Entry
    BY <2>2, RangeOfSeq
  <2> QED BY <2>1, <2>3 DEF Entry
<1>7. r \in SpendTransaction
  <2> DEFINE c == ProverRounds(b.outputs)
             q == GrootleM * (GrootleN - 1)
             l == Len(b.ids)
  <2>1. r = [cover_set_ids |-> b.ids, hashes |-> b.hashes, f |-> b.f,
             extension_commitment |-> b.extension, outputs |-> b.outputs,
             perInput |-> l, X |-> GrootleM, X1 |-> GrootleM,
             fs |-> q, L |-> c, R |-> c, proof |-> p]
    BY DEF Constructed
  <2>2. c \in Nat /\ q \in Nat /\ l \in Nat
    BY <1>4, <1>5
  <2> HIDE DEF c, q, l
  <2> QED BY <1>1, <1>5, <1>6, <2>1, <2>2 DEF SpendTransaction
<1>8. HasSorted(r)
  BY <1>1, <1>3, <1>7, Zenon DEF HasSorted
<1>9. Cardinality(r.hashes) <= Len(r.cover_set_ids) /\ HashesOK(r.cover_set_ids, r.hashes)
  <2> DEFINE R == Range(b.ids)
             D == Ids(b.hashes)
  <2>1. IsFiniteSet(R) /\ Cardinality(R) <= Len(b.ids)
    BY <1>1, Distinct
  <2>2. IsFiniteSet(r.hashes) /\ Cardinality(D) = Cardinality(r.hashes)
        /\ Cardinality(r.hashes) \in Nat
    BY <1>3, <1>8, ObjectFacts
  <2>3. IsFiniteSet(D)
    <3>1. D = {e[1] : e \in r.hashes}
      BY <1>3 DEF Ids
    <3>2. D \subseteq 0 .. MaxSetId + 1
      <4>2. PICK G \in SUBSET (0 .. MaxSetId + 1), h \in [0 .. MaxSetId + 1 -> {0, 1}] :
                   b.hashes = {<<g, h[g]>> : g \in G}
        BY HashesOfBuild, Zenon
      <4>3. \A e \in b.hashes : \E g \in G : e = <<g, h[g]>>
        BY <4>2
      <4>4. \A e \in b.hashes : e[1] \in G
        BY <4>3
      <4> QED BY <4>4 DEF Ids
    <3>3. IsFiniteSet(0 .. MaxSetId + 1)
      BY EscapeFacts, FS_Interval
    <3> QED BY <3>2, <3>3, FS_Subset
  <2>4. R \in SUBSET D /\ Cardinality(D) = Cardinality(R)
    BY <1>2
  <2> HIDE DEF D, R
  <2>5. D = R
    BY <2>3, <2>4, FS_Subset
  <2>6. Cardinality(r.hashes) <= Len(b.ids)
    BY <2>1, <2>2, <2>4
  <2> QED BY <1>3, <2>5, <2>6 DEF HashesOK, D, R
<1>10. \A id \in Range(r.cover_set_ids) : IdOK(id)
  <2>1. \A id \in Range(b.ids) : id \in Nat
    BY <1>1, RangeOfSeq
  <2> QED BY <1>2, <1>3, <2>1, EscapeFacts DEF IdOK
<1>11. SizesOK(r)
  BY <1>3, <1>4, Zenon DEF SizesOK
<1>12. DimensionsOK(Len(r.cover_set_ids), r.outputs)
  BY <1>2, <1>3 DEF DimensionsOK
<1>13. Made(r)
  BY <1>3, <1>4, Zenon DEF Made, ProofLayout, ProversReturn
<1> QED BY <1>2, <1>3, <1>8, <1>9, <1>10, <1>11, <1>12, <1>13, Zenon DEF Writable

-----------------------------------------------------------------------------
(***************************************************************************)
(* The actions keep the invariant.                                         *)
(***************************************************************************)

WireStages ==
  {"start", "version", "inputs", "outputs", "ids", "hash_count", "entries", "fee",
   "extension", "proofs", "done", "threw"}

\* An action that keeps sent and wire, and fills tx with sorted hashes.
LEMMA Together ==
  ASSUME WireInv, sent' = sent, wire' = wire, read' \in Seq(Nat), at' \in WireStages,
         HasSorted(tx'), long' \in BOOLEAN, inputs' \in Nat, count' \in Nat,
         expected' \in Nat, ReadSoFar'
  PROVE  WireInv'
<1>1. HashesSorted' /\ tx' \in SpendTransaction
  BY Zenon DEF HasSorted, HashesSorted
<1>2. sent' \in SpendTransaction /\ wire' \in Seq(Nat)
  BY Zenon DEF WireInv, WireTypeOK
<1>3. Cardinality(Ids(tx'.hashes)) = Cardinality(tx'.hashes)
  BY ObjectFacts
<1>4. WireTypeOK'
  BY <1>1, <1>2, <1>3, Zenon DEF WireTypeOK, WireStages
<1> QED BY <1>1, <1>4, Zenon DEF WireInv

LEMMA Now ==
  ASSUME WireInv
  PROVE  /\ HasSorted(tx) /\ HashesSorted /\ tx \in SpendTransaction /\ sent \in SpendTransaction
         /\ wire \in Seq(Nat) /\ read \in Seq(Nat) /\ long \in BOOLEAN
         /\ inputs \in Nat /\ count \in Nat /\ expected \in Nat /\ at \in WireStages
         /\ ReadSoFar
BY Zenon DEF WireInv, WireTypeOK, HasSorted, HashesSorted, WireStages

\* Nothing is claimed of what was refused.
LEMMA Refused ==
  ASSUME at' = "threw"
  PROVE  ReadSoFar'
BY DEF ReadSoFar

LEMMA StepSend ==
  ASSUME WireInv, NEW r, HasSorted(r), Writable(r), Send(r), HasSorted(tx'),
         read' = <<>>, long' = FALSE, inputs' \in Nat, count' \in Nat
  PROVE  WireInv'
<1>1. /\ sent' = r /\ expected' = r.outputs /\ wire' = Written(r) /\ at' = "version"
  BY Zenon DEF Send
<1>2. Written(r) \in Seq(Nat) /\ r \in SpendTransaction /\ r.outputs \in Nat
  BY WrittenIs, TxFields DEF HasSorted
<1>3. HashesSorted' /\ tx' \in SpendTransaction
  BY Zenon DEF HasSorted, HashesSorted
<1>4. Cardinality(Ids(tx'.hashes)) = Cardinality(tx'.hashes)
  BY ObjectFacts
<1>5. read' \in Seq(Nat) /\ ~long'
  OBVIOUS
<1>6. ReadSoFar'
  BY <1>1, <1>5 DEF ReadSoFar
<1>7. WireTypeOK'
  BY <1>1, <1>2, <1>3, <1>4, <1>5, Zenon DEF WireTypeOK
<1> QED BY <1>1, <1>2, <1>3, <1>6, <1>7, Zenon DEF WireInv

LEMMA StepWrite ==
  ASSUME WireInv, at = "start", NEW b \in Builds, NEW p \in Tails, Write(b, p)
  PROVE  WireInv'
<1> DEFINE r == Constructed(b, p)
<1>1. p \in Seq(Nat)
  BY PointFacts
<1>2. HasSorted(r) /\ Writable(r)
  BY <1>1, ConstructedWritable DEF Write
<1>3. Send(r) /\ UNCHANGED <<read, long, inputs, count, tx>>
  BY Zenon DEF Write
<1>4. HasSorted(tx) /\ long \in BOOLEAN /\ inputs \in Nat /\ count \in Nat /\ ReadSoFar
  BY Now
<1>5. read = <<>> /\ long = FALSE
  BY <1>4 DEF ReadSoFar
<1> HIDE DEF r
<1> QED BY <1>2, <1>3, <1>4, <1>5, StepSend, Zenon

LEMMA StepReceive ==
  ASSUME WireInv, NEW t \in 0 .. MaxV2Outputs, Receive(t)
  PROVE  WireInv'
<1>1. /\ at = "start" /\ expected' = t /\ at' = "version" /\ read' = read /\ long' = long
      /\ sent' = sent /\ wire' = wire /\ inputs' = inputs /\ count' = count /\ tx' = tx
  BY DEF Receive
<1>2. t \in Nat
  BY EscapeFacts
<1>3. ReadSoFar'
  BY <1>1, Now DEF ReadSoFar
<1> QED BY <1>1, <1>2, <1>3, Now, Together, Zenon DEF WireStages

LEMMA StepVersion ==
  ASSUME WireInv, NEW w \in Nat, ReadVersion(w)
  PROVE  WireInv'
<1>1. /\ at = "version" /\ Word(w) /\ at' = (IF w = 2 THEN "inputs" ELSE "threw")
      /\ sent' = sent /\ wire' = wire /\ long' = long /\ inputs' = inputs /\ count' = count
      /\ expected' = expected /\ tx' = tx
  BY DEF ReadVersion, Go
<1>2. read' = Append(read, w) /\ read' \in Seq(Nat)
  BY <1>1, AppendRead
<1>3. read = <<>> /\ ~long
  BY <1>1, Now DEF ReadSoFar
<1>4. at' \in WireStages
  BY <1>1 DEF WireStages
<1>5. ReadSoFar'
  <2>1. CASE w = 2
    <3>1. Append(<<>>, 2) = <<2>>
      OBVIOUS
    <3>2. at' = "inputs" /\ read' = <<2>>
      BY <1>1, <1>2, <1>3, <2>1, <3>1
    <3>3. read' = Escaped(<<2>>, long')
      BY <1>1, <1>3, <3>2 DEF Escaped
    <3> QED BY <3>2, <3>3 DEF ReadSoFar
  <2>2. CASE w # 2
    BY <1>1, <2>2, Refused
  <2> QED BY <2>1, <2>2
<1> QED BY <1>1, <1>2, <1>4, <1>5, Now, Together, Zenon

LEMMA EscapedTwice ==
  ASSUME NEW s
  PROVE  Append(Escaped(s, FALSE), Escape) = Escaped(s, TRUE)
BY DEF Escaped

LEMMA StepEscape ==
  ASSUME WireInv, NEW w \in Nat, ReadEscape(w)
  PROVE  WireInv'
<1>1. /\ at \in Counts /\ long = FALSE /\ w = Escape /\ Word(w) /\ long' = TRUE
      /\ at' = at /\ sent' = sent /\ wire' = wire /\ inputs' = inputs /\ count' = count
      /\ expected' = expected /\ tx' = tx
  <2>1. long \in BOOLEAN
    BY Now
  <2> QED BY <2>1, Zenon DEF ReadEscape
<1>2. read' = Append(read, Escape) /\ read' \in Seq(Nat)
  BY <1>1, AppendRead
<1>3. ReadSoFar'
  <2> DEFINE s2 == <<2>>
             s3 == Part2(inputs)
             s5 == Part4(inputs, tx.outputs, tx.cover_set_ids)
  <2>1. /\ at = "inputs" => read = Escaped(s2, FALSE)
        /\ at = "outputs" => read = Escaped(s3, FALSE)
        /\ at = "hash_count" => read = Escaped(s5, FALSE)
    BY <1>1, Now DEF ReadSoFar
  <2> HIDE DEF s2, s3, s5
  <2>2. /\ at = "inputs" => read' = Escaped(s2, TRUE)
        /\ at = "outputs" => read' = Escaped(s3, TRUE)
        /\ at = "hash_count" => read' = Escaped(s5, TRUE)
    BY <1>2, <2>1, EscapedTwice, Zenon
  <2>3. /\ at' = "inputs" => read' = Escaped(<<2>>, long')
        /\ at' = "outputs" => read' = Escaped(Part2(inputs'), long')
        /\ at' = "hash_count" =>
             read' = Escaped(Part4(inputs', tx'.outputs, tx'.cover_set_ids), long')
    BY <1>1, <2>2, Zenon DEF s2, s3, s5
  <2>4. /\ at = "hash_count" =>
             /\ DimensionsOK(inputs, tx.outputs) /\ Len(tx.cover_set_ids) = inputs
             /\ \A id \in Range(tx.cover_set_ids) : IdOK(id)
    BY Now DEF ReadSoFar
  <2>5. /\ at' = "hash_count" =>
             /\ DimensionsOK(inputs', tx'.outputs) /\ Len(tx'.cover_set_ids) = inputs'
             /\ \A id \in Range(tx'.cover_set_ids) : IdOK(id)
    BY <1>1, <2>4, Zenon
  <2>6. at' = "inputs" \/ at' = "outputs" \/ at' = "hash_count"
    BY <1>1 DEF Counts
  <2> QED BY <2>3, <2>5, <2>6 DEF ReadSoFar
<1> QED BY <1>1, <1>2, <1>3, Now, Together, Zenon

LEMMA StepRefuseCount ==
  ASSUME WireInv, NEW w \in Nat, RefuseCount(w)
  PROVE  WireInv'
<1>1. /\ Word(w) /\ at' = "threw" /\ long' = FALSE
      /\ sent' = sent /\ wire' = wire /\ inputs' = inputs /\ count' = count
      /\ expected' = expected /\ tx' = tx
  BY DEF RefuseCount
<1>2. read' \in Seq(Nat)
  BY <1>1, AppendRead
<1>3. at' \in WireStages
  BY <1>1 DEF WireStages
<1> QED BY <1>1, <1>2, <1>3, Now, Together, Refused, Zenon

\* The words of a count, when its last one is read.
LEMMA CountRead ==
  ASSUME WireInv, NEW w \in Nat, Word(w), CountOK(w), NEW s \in Seq(Nat),
         read = Escaped(s, long)
  PROVE  read' = s \o CompactSize(w) /\ read' \in Seq(Nat)
<1>1. long \in BOOLEAN /\ (IF long THEN ~(w < Escape) ELSE w < Escape)
  BY Now, Zenon DEF CountOK, NonCanonical
<1>2. read' = Append(read, w) /\ read' \in Seq(Nat)
  BY AppendRead
<1>3. Append(Escaped(s, long), w) = s \o CompactSize(w)
  BY <1>1, CompactEnds
<1> QED BY <1>2, <1>3

LEMMA StepInputCount ==
  ASSUME WireInv, NEW w \in Nat, ReadInputCount(w)
  PROVE  WireInv'
<1>1. /\ at = "inputs" /\ CountOK(w) /\ Word(w) /\ inputs' = w /\ long' = FALSE
      /\ at' = "outputs" /\ sent' = sent /\ wire' = wire /\ count' = count
      /\ expected' = expected /\ tx' = tx
  BY DEF ReadInputCount
<1> DEFINE s == <<2>>
<1>2. s \in Seq(Nat) /\ read = Escaped(s, long)
  BY <1>1, Now DEF ReadSoFar
<1> HIDE DEF s
<1>3. read' = s \o CompactSize(w) /\ read' \in Seq(Nat)
  BY <1>1, <1>2, CountRead
<1>4. read' = Escaped(Part2(inputs'), long')
  BY <1>1, <1>3, Zenon DEF Escaped, Part2, s
<1>5. ReadSoFar'
  BY <1>1, <1>4 DEF ReadSoFar
<1>6. at' \in WireStages
  BY <1>1 DEF WireStages
<1> QED BY <1>1, <1>3, <1>5, <1>6, Now, Together, Zenon

LEMMA StepOutputCount ==
  ASSUME WireInv, NEW w \in Nat, ReadOutputCount(w)
  PROVE  WireInv'
<1>1. /\ at = "outputs" /\ CountOK(w) /\ Word(w) /\ inputs' = inputs /\ long' = FALSE
      /\ at' = (IF DimensionsOK(inputs, w) /\ w = expected THEN "ids" ELSE "threw")
      /\ sent' = sent /\ wire' = wire /\ count' = count /\ expected' = expected
      /\ tx' = [tx EXCEPT !.cover_set_ids = <<>>, !.outputs = w]
  BY DEF ReadOutputCount, Go
<1> DEFINE s == Part2(inputs)
<1>2. read = Escaped(s, long)
  BY <1>1, Now DEF ReadSoFar
<1>3. s \in Seq(Nat)
  <2>1. CompactSize(inputs) \in Seq(Nat) /\ <<2>> \in Seq(Nat)
    BY Now, CompactFacts
  <2> QED BY <2>1, ConcatSeq DEF Part2
<1> HIDE DEF s
<1>4. read' = s \o CompactSize(w) /\ read' \in Seq(Nat)
  BY <1>1, <1>2, <1>3, CountRead
<1>5. tx \in SpendTransaction /\ HasSorted(tx) /\ inputs \in Nat
  BY Now
<1>6. /\ tx' \in SpendTransaction /\ tx'.hashes = tx.hashes /\ tx'.outputs = w
      /\ tx'.cover_set_ids = <<>>
  <2>1. <<>> \in Seq(Nat)
    OBVIOUS
  <2> QED BY <1>1, <1>5, <2>1 DEF SpendTransaction
<1>7. HasSorted(tx')
  BY <1>5, <1>6, Zenon DEF HasSorted
<1>8. ReadSoFar'
  <2>1. CASE DimensionsOK(inputs, w) /\ w = expected
    <3>1. Part4(inputs, w, <<>>) = Part3(inputs, w)
      <4>1. tx.cover_set_ids \in Seq(Nat)
        BY <1>5, TxFields
      <4> QED BY <1>5, <4>1, IdsGrow
    <3>2. read' = Part4(inputs', tx'.outputs, tx'.cover_set_ids)
      BY <1>1, <1>4, <1>6, <3>1, Zenon DEF Part3, s
    <3>3. Len(tx'.cover_set_ids) = 0 /\ 0 < inputs'
      BY <1>1, <1>5, <1>6, <2>1 DEF DimensionsOK
    <3>4. Len(tx'.cover_set_ids) < inputs' /\ at' = "ids" /\ ~long'
      BY <1>1, <2>1, <3>3
    <3>5. DimensionsOK(inputs', tx'.outputs)
      BY <1>1, <1>6, <2>1, Zenon
    <3> QED BY <3>2, <3>4, <3>5 DEF ReadSoFar
  <2>2. CASE ~(DimensionsOK(inputs, w) /\ w = expected)
    BY <1>1, <2>2, Refused
  <2> QED BY <2>1, <2>2
<1>9. at' \in WireStages
  BY <1>1 DEF WireStages
<1> QED BY <1>1, <1>4, <1>7, <1>8, <1>9, Now, Together, Zenon

LEMMA StepId ==
  ASSUME WireInv, NEW w \in Nat, ReadId(w)
  PROVE  WireInv'
<1> DEFINE ids == tx.cover_set_ids
           more == Append(ids, w)
           o == tx.outputs
           ok == \A id \in Range(more) : IdOK(id)
<1>1. /\ at = "ids" /\ Word(w) /\ inputs' = inputs /\ long' = long
      /\ sent' = sent /\ wire' = wire /\ count' = count /\ expected' = expected
      /\ tx' = [tx EXCEPT !.cover_set_ids = more]
  BY DEF ReadId
<1>2. tx \in SpendTransaction /\ HasSorted(tx) /\ inputs \in Nat /\ o \in Nat /\ ids \in Seq(Nat)
  BY Now, TxFields
<1>3. more \in Seq(Nat) /\ Len(more) = Len(ids) + 1 /\ Len(ids) \in Nat
  BY <1>2, AppendProperties, LenProperties
<1>4. /\ ~long /\ Len(ids) < inputs /\ read = Part4(inputs, o, ids) /\ DimensionsOK(inputs, o)
  BY <1>1, Now DEF ReadSoFar
<1>5. /\ tx' \in SpendTransaction /\ tx'.hashes = tx.hashes /\ tx'.outputs = o
      /\ tx'.cover_set_ids = more
  BY <1>1, <1>2, <1>3 DEF SpendTransaction
<1>6. HasSorted(tx')
  BY <1>2, <1>5, Zenon DEF HasSorted
<1>7. read' = Part4(inputs, o, more) /\ read' \in Seq(Nat)
  <2>1. read' = Append(read, w) /\ read' \in Seq(Nat)
    BY <1>1, AppendRead
  <2>2. Append(Part4(inputs, o, ids), w) = Part4(inputs, o, more)
    <3> HIDE DEF ids, o
    <3> QED BY <1>2, IdsGrow
  <2> QED BY <1>4, <2>1, <2>2
<1>8. IF Len(ids) + 1 < inputs THEN at' = at ELSE at' = (IF ok THEN "hash_count" ELSE "threw")
  BY <1>5, Zenon DEF ReadId, Go
<1> HIDE DEF ids, more, o, ok
<1>9. /\ read' = Part4(inputs', tx'.outputs, tx'.cover_set_ids) /\ ~long'
      /\ DimensionsOK(inputs', tx'.outputs)
  BY <1>1, <1>4, <1>5, <1>7, Zenon
<1>10. CASE Len(ids) + 1 < inputs
  <2>1. at' = "ids" /\ Len(tx'.cover_set_ids) < inputs'
    BY <1>1, <1>3, <1>5, <1>8, <1>10
  <2>2. ReadSoFar'
    BY <1>9, <2>1 DEF ReadSoFar
  <2>3. at' \in WireStages
    BY <2>1 DEF WireStages
  <2> QED BY <1>1, <1>6, <1>7, <2>2, <2>3, Now, Together, Zenon
<1>11. CASE ~(Len(ids) + 1 < inputs) /\ ok
  <2>1. at' = "hash_count"
    BY <1>8, <1>11, Zenon
  <2>2. Len(more) = inputs
    BY <1>2, <1>3, <1>4, <1>11
  <2>3. Len(tx'.cover_set_ids) = inputs' /\ \A id \in Range(tx'.cover_set_ids) : IdOK(id)
    BY <1>1, <1>5, <1>11, <2>2, Zenon DEF ok
  <2>4. read' = Escaped(Part4(inputs', tx'.outputs, tx'.cover_set_ids), long')
    BY <1>9, Zenon DEF Escaped
  <2>5. ReadSoFar'
    BY <1>9, <2>1, <2>3, <2>4 DEF ReadSoFar
  <2>6. at' \in WireStages
    BY <2>1 DEF WireStages
  <2> QED BY <1>1, <1>6, <1>7, <2>5, <2>6, Now, Together, Zenon
<1>12. CASE ~(Len(ids) + 1 < inputs) /\ ~ok
  <2>1. at' = "threw"
    BY <1>8, <1>12, Zenon
  <2>2. at' \in WireStages
    BY <2>1 DEF WireStages
  <2> QED BY <1>1, <1>6, <1>7, <2>1, <2>2, Now, Together, Refused, Zenon
<1> QED BY <1>10, <1>11, <1>12

LEMMA NoEntries ==
  /\ Sorted(<<>>) /\ Range(<<>>) = {} /\ Ascending({}) = <<>> /\ Cardinality({}) = 0
<1>1. Sorted(<<>>) /\ Range(<<>>) = {} /\ Len(<<>>) = 0
  BY DEF Sorted, Range
<1> DEFINE es == <<>>
           S == {}
<1>2. Sorted(es) /\ S = Range(es) /\ Len(es) = 0
  BY <1>1
<1> HIDE DEF es, S
<1>3. Cardinality(S) = Len(es) /\ Ascending(S) = es
  BY <1>2, SortedIsAscending
<1> QED BY <1>1, <1>2, <1>3 DEF es, S

LEMMA StepHashCount ==
  ASSUME WireInv, NEW w \in Nat, ReadHashCount(w)
  PROVE  WireInv'
<1> DEFINE ids == tx.cover_set_ids
           o == tx.outputs
           ok == w <= inputs /\ (w = 0 => HashesOK(ids, {}))
           next == IF w = 0 THEN "fee" ELSE "entries"
           s == Part4(inputs, o, ids)
<1>1. /\ at = "hash_count" /\ CountOK(w) /\ Word(w) /\ inputs' = inputs /\ long' = FALSE
      /\ at' = (IF ok THEN next ELSE "threw") /\ count' = w
      /\ sent' = sent /\ wire' = wire /\ expected' = expected
      /\ tx' = [tx EXCEPT !.hashes = {}]
  BY DEF ReadHashCount, Go
<1>2. tx \in SpendTransaction /\ inputs \in Nat /\ o \in Nat /\ ids \in Seq(Nat)
  BY Now, TxFields
<1>3. /\ read = Escaped(s, long) /\ DimensionsOK(inputs, o) /\ Len(ids) = inputs
      /\ \A id \in Range(ids) : IdOK(id)
  BY <1>1, Now DEF ReadSoFar
<1>4. /\ tx' \in SpendTransaction /\ tx'.hashes = {} /\ tx'.outputs = o
      /\ tx'.cover_set_ids = ids
  BY <1>1, <1>2 DEF SpendTransaction
<1>5. HasSorted(tx')
  BY <1>4, NoEntries, Zenon DEF HasSorted
<1> HIDE DEF ids, o, next, ok
<1>6. s \in Seq(Nat)
  BY <1>2, NoEntries, PartTypes
<1> HIDE DEF s
<1>7. read' = s \o CompactSize(w) /\ read' \in Seq(Nat)
  BY <1>1, <1>3, <1>6, CountRead
<1>8. read' = Part6(inputs, o, ids, w, <<>>)
  <2>1. Part6(inputs, o, ids, w, <<>>) = Part5(inputs, o, ids, w)
    BY <1>2, NoneYet
  <2> QED BY <1>7, <2>1, Zenon DEF Part5, s
<1>9. read' = Whole'
  BY <1>1, <1>4, <1>8, NoEntries, Zenon DEF Whole
<1>10. at' \in WireStages
  BY <1>1 DEF WireStages, next
<1>11. ReadSoFar'
  <2>1. CASE ok
    <3>1. at' = next /\ ~long'
      BY <1>1, <2>1, Zenon
    <3>2. /\ DimensionsOK(inputs', tx'.outputs) /\ Len(tx'.cover_set_ids) = inputs'
          /\ \A id \in Range(tx'.cover_set_ids) : IdOK(id)
      BY <1>1, <1>3, <1>4, Zenon
    <3>3. count' <= inputs'
      BY <1>1, <2>1, Zenon DEF ok
    <3>4. Cardinality(tx'.hashes) = 0
      BY <1>4, NoEntries, Zenon
    <3>5. CASE w = 0
      <4>1. HashesOK(tx'.cover_set_ids, tx'.hashes) /\ Cardinality(tx'.hashes) = count'
        BY <1>1, <1>4, <2>1, <3>4, <3>5, Zenon DEF ok
      <4>2. at' = "fee"
        BY <3>1, <3>5 DEF next
      <4> QED BY <1>9, <3>1, <3>2, <3>3, <4>1, <4>2 DEF ReadSoFar
    <3>6. CASE w # 0
      <4>1. Cardinality(tx'.hashes) < count'
        BY <1>1, <3>4, <3>6
      <4>2. at' = "entries"
        BY <3>1, <3>6 DEF next
      <4> QED BY <1>9, <3>1, <3>2, <3>3, <4>1, <4>2 DEF ReadSoFar
    <3> QED BY <3>5, <3>6
  <2>2. CASE ~ok
    BY <1>1, <2>2, Refused
  <2> QED BY <2>1, <2>2
<1> QED BY <1>1, <1>5, <1>7, <1>10, <1>11, Now, Together, Zenon

\* The facts of the stages after the hash count that only the hashes disturb.
LEMMA StepEntry ==
  ASSUME WireInv, NEW id \in Nat, NEW hash \in Nat, ReadEntry(id, hash)
  PROVE  WireInv'
<1> DEFINE ids == tx.cover_set_ids
           o == tx.outputs
           es == Ascending(tx.hashes)
           p == <<id, hash>>
           more == Append(es, p)
           H == tx.hashes \cup {p}
<1>1. /\ at = "entries" /\ inputs' = inputs /\ long' = long /\ count' = count
      /\ sent' = sent /\ wire' = wire /\ expected' = expected /\ read' = read \o p
  BY DEF ReadEntry
<1>2. tx \in SpendTransaction /\ HasSorted(tx) /\ inputs \in Nat /\ count \in Nat
      /\ read \in Seq(Nat) /\ o \in Nat /\ ids \in Seq(Nat)
  BY Now, TxFields
<1>3. /\ ~long /\ DimensionsOK(inputs, o) /\ Len(ids) = inputs /\ count <= inputs
      /\ \A d \in Range(ids) : IdOK(d)
      /\ Cardinality(tx.hashes) < count /\ read = Whole
  BY <1>1, Now DEF ReadSoFar
<1>4. /\ Sorted(es) /\ Range(es) = tx.hashes /\ Len(es) = Cardinality(tx.hashes)
      /\ Cardinality(tx.hashes) \in Nat
  BY <1>2, ObjectFacts
<1>5. read' \in Seq(Nat)
  BY <1>1, <1>2, ConcatSeq
<1>6. CASE ~EntryOK(id)
  <2>1. at' = "threw" /\ tx' = tx
    BY <1>6, Zenon DEF ReadEntry
  <2>2. at' \in WireStages
    BY <2>1 DEF WireStages
  <2> QED BY <1>1, <1>5, <2>1, <2>2, Now, Together, Refused, Zenon
<1>7. CASE EntryOK(id)
  <2>1. tx' = [tx EXCEPT !.hashes = H]
    BY <1>7, Zenon DEF ReadEntry
  <2>2. /\ tx' \in SpendTransaction /\ tx'.hashes = H /\ tx'.outputs = o
        /\ tx'.cover_set_ids = ids
    <3>1. p \in Nat \X Nat /\ tx.hashes \in SUBSET (Nat \X Nat)
      BY <1>2, TxFields
    <3>2. H \in SUBSET (Nat \X Nat)
      BY <3>1
    <3> HIDE DEF H
    <3> QED BY <1>2, <2>1, <3>2 DEF SpendTransaction
  <2>3. IF Cardinality(H) < count THEN at' = at
        ELSE at' = (IF HashesOK(ids, H) THEN "fee" ELSE "threw")
    BY <1>7, <2>2, Zenon DEF ReadEntry, Go
  <2>4. Extends(more, es, id, hash)
    BY <1>4, <1>7, Zenon DEF Extends, EntryOK
  <2>5. Whole = Part6(inputs, o, ids, count, es)
    BY DEF Whole
  <2> HIDE DEF more, es
  <2>6. Sorted(more) /\ Len(more) = Len(es) + 1 /\ Range(more) = Range(es) \cup {p}
    BY <1>4, <2>4, SortedAppend
  <2>7. Part6(inputs, o, ids, count, es) \o p = Part6(inputs, o, ids, count, more)
    <3> HIDE DEF ids, o
    <3>1. inputs \in Nat /\ o \in Nat /\ ids \in Seq(Nat) /\ count \in Nat /\ Sorted(es)
      BY <1>2, <1>4
    <3>2. Grown(inputs, o, ids, count, es, id, hash, more)
      BY <2>4, <3>1, EntriesGrow
    <3> QED BY <3>2, Zenon DEF Grown
  <2>8. H = Range(more)
    BY <1>4, <2>6
  <2> HIDE DEF H, ids, o, p
  <2>9. Cardinality(H) = Len(more) /\ Ascending(H) = more
    BY <2>6, <2>8, SortedIsAscending
  <2>10. HasSorted(tx')
    BY <2>2, <2>6, <2>8, Zenon DEF HasSorted
  <2>11. read' = Whole'
    <3>1. read' = Part6(inputs, o, ids, count, more)
      BY <1>1, <1>3, <2>5, <2>7, Zenon
    <3> QED BY <1>1, <2>2, <2>9, <3>1, Zenon DEF Whole
  <2>12. /\ ~long' /\ DimensionsOK(inputs', tx'.outputs) /\ Len(tx'.cover_set_ids) = inputs'
         /\ count' <= inputs' /\ \A d \in Range(tx'.cover_set_ids) : IdOK(d)
    BY <1>1, <1>3, <2>2, Zenon
  <2>13. Cardinality(H) <= count /\ Cardinality(H) \in Nat
    BY <1>2, <1>3, <1>4, <2>6, <2>9
  <2>14. CASE Cardinality(H) < count
    <3>1. at' = "entries" /\ Cardinality(tx'.hashes) < count'
      BY <1>1, <2>2, <2>3, <2>14, Zenon
    <3>2. ReadSoFar'
      BY <2>11, <2>12, <3>1 DEF ReadSoFar
    <3>3. at' \in WireStages
      BY <3>1 DEF WireStages
    <3> QED BY <1>1, <1>5, <2>10, <3>2, <3>3, Now, Together, Zenon
  <2>15. CASE ~(Cardinality(H) < count) /\ HashesOK(ids, H)
    <3>1. Cardinality(H) = count
      BY <1>2, <2>13, <2>15
    <3>2. at' = "fee" /\ Cardinality(tx'.hashes) = count' /\ HashesOK(tx'.cover_set_ids, tx'.hashes)
      BY <1>1, <2>2, <2>3, <2>15, <3>1, Zenon
    <3>3. ReadSoFar'
      BY <2>11, <2>12, <3>2 DEF ReadSoFar
    <3>4. at' \in WireStages
      BY <3>2 DEF WireStages
    <3> QED BY <1>1, <1>5, <2>10, <3>3, <3>4, Now, Together, Zenon
  <2>16. CASE ~(Cardinality(H) < count) /\ ~HashesOK(ids, H)
    <3>1. at' = "threw"
      BY <2>3, <2>16, Zenon
    <3>2. at' \in WireStages
      BY <3>1 DEF WireStages
    <3> QED BY <1>1, <1>5, <2>10, <3>1, <3>2, Now, Together, Refused, Zenon
  <2> QED BY <2>14, <2>15, <2>16
<1> QED BY <1>6, <1>7

\* What is known once the hashes have been read.
HashesRead ==
  /\ DimensionsOK(inputs, tx.outputs) /\ Len(tx.cover_set_ids) = inputs
  /\ \A id \in Range(tx.cover_set_ids) : IdOK(id)
  /\ count <= inputs /\ ~long /\ Cardinality(tx.hashes) = count
  /\ HashesOK(tx.cover_set_ids, tx.hashes)

LEMMA StepFee ==
  ASSUME WireInv, NEW w \in Nat, ReadFee(w)
  PROVE  WireInv'
<1>1. /\ at = "fee" /\ Word(w) /\ inputs' = inputs /\ long' = long /\ count' = count
      /\ sent' = sent /\ wire' = wire /\ expected' = expected /\ at' = "extension"
      /\ tx' = [tx EXCEPT !.f = w]
  BY DEF ReadFee
<1>2. tx \in SpendTransaction /\ HasSorted(tx)
  BY Now
<1>3. read = Whole /\ HashesRead
  BY <1>1, Now DEF ReadSoFar, HashesRead
<1>4. read' = Append(read, w) /\ read' \in Seq(Nat)
  BY <1>1, AppendRead
<1>5. /\ tx' \in SpendTransaction /\ tx'.hashes = tx.hashes /\ tx'.outputs = tx.outputs
      /\ tx'.cover_set_ids = tx.cover_set_ids /\ tx'.f = w
  BY <1>1, <1>2 DEF SpendTransaction
<1>6. HasSorted(tx')
  BY <1>2, <1>5, Zenon DEF HasSorted
<1>7. HashesRead' /\ Whole' = Whole
  BY <1>1, <1>3, <1>5, Zenon DEF HashesRead, Whole
<1>8. read' = Append(Whole', tx'.f)
  BY <1>3, <1>4, <1>5, <1>7, Zenon
<1>9. ReadSoFar'
  BY <1>1, <1>7, <1>8 DEF ReadSoFar, HashesRead
<1>10. at' \in WireStages
  BY <1>1 DEF WireStages
<1> QED BY <1>1, <1>4, <1>6, <1>9, <1>10, Now, Together, Zenon

LEMMA StepExtension ==
  ASSUME WireInv, NEW w \in Nat, ReadExtension(w)
  PROVE  WireInv'
<1>1. /\ at = "extension" /\ Word(w) /\ inputs' = inputs /\ long' = long /\ count' = count
      /\ sent' = sent /\ wire' = wire /\ expected' = expected /\ at' = "proofs"
      /\ tx' = [tx EXCEPT !.extension_commitment = w]
  BY DEF ReadExtension
<1>2. tx \in SpendTransaction /\ HasSorted(tx)
  BY Now
<1>3. read = Append(Whole, tx.f) /\ HashesRead
  BY <1>1, Now DEF ReadSoFar, HashesRead
<1>4. read' = Append(read, w) /\ read' \in Seq(Nat)
  BY <1>1, AppendRead
<1>5. /\ tx' \in SpendTransaction /\ tx'.hashes = tx.hashes /\ tx'.outputs = tx.outputs
      /\ tx'.cover_set_ids = tx.cover_set_ids /\ tx'.f = tx.f /\ tx'.extension_commitment = w
  BY <1>1, <1>2 DEF SpendTransaction
<1>6. HasSorted(tx')
  BY <1>2, <1>5, Zenon DEF HasSorted
<1>7. HashesRead' /\ Whole' = Whole
  BY <1>1, <1>3, <1>5, Zenon DEF HashesRead, Whole
<1>8. read' = Append(Append(Whole', tx'.f), tx'.extension_commitment)
  BY <1>3, <1>4, <1>5, <1>7, Zenon
<1>9. ReadSoFar'
  BY <1>1, <1>7, <1>8 DEF ReadSoFar, HashesRead
<1>10. at' \in WireStages
  BY <1>1 DEF WireStages
<1> QED BY <1>1, <1>4, <1>6, <1>9, <1>10, Now, Together, Zenon

LEMMA StepProofs ==
  ASSUME WireInv, ReadProofs
  PROVE  WireInv'
<1> DEFINE k == GrootleM * (GrootleN - 1)
           c == WireRounds(tx.outputs)
           n == Len(Rest)
           next == [j \in 1 .. n |-> wire[Len(read) + j]]
<1>1. /\ at = "proofs" /\ inputs' = inputs /\ long' = long /\ count' = count
      /\ sent' = sent /\ wire' = wire /\ expected' = expected
      /\ wire # <<>> => Len(read) + n <= Len(wire)
  BY Zenon DEF ReadProofs
<1>2. PICK words \in IF wire = <<>> THEN {t \in Tails : Len(t) = n} ELSE {next} :
        /\ read' = read \o words
        /\ IF Accepted(Rest, words)
           THEN /\ tx' = [tx EXCEPT !.perInput = inputs,
                           !.X = GrootleM, !.X1 = GrootleM,
                           !.fs = k, !.L = c, !.R = c,
                           !.proof = Deserialized(Rest, words)]
                /\ at' = "done"
           ELSE UNCHANGED tx /\ at' = "threw"
  BY Zenon DEF ReadProofs
<1>3. tx \in SpendTransaction /\ HasSorted(tx) /\ read \in Seq(Nat) /\ inputs \in Nat
      /\ tx.outputs \in Nat /\ wire \in Seq(Nat)
  BY Now, TxFields
<1>4. read = Append(Append(Whole, tx.f), tx.extension_commitment) /\ HashesRead
  BY <1>1, Now DEF ReadSoFar, HashesRead
<1>5. c \in Nat /\ GrootleM \in Nat /\ k \in Nat
  <2>1. GrootleM \in Nat /\ GrootleN - 1 \in Nat
    BY EscapeFacts
  <2>2. GrootleM * (GrootleN - 1) \in Nat
    BY <2>1
  <2>3. WireRounds(tx.outputs) \in Nat
    BY <1>3, SameRounds
  <2> QED BY <2>1, <2>2, <2>3
<1>6. Rest \in Seq(Kind) /\ n \in Nat
  BY <1>3, <1>5, LayoutSeq DEF Rest
<1>7. words \in Seq(Nat)
  <2>1. CASE wire = <<>>
    BY <1>2, <2>1, PointFacts
  <2>2. CASE wire # <<>>
    <3>1. words = next /\ Len(read) + n <= Len(wire)
      BY <1>1, <1>2, <2>2
    <3>2. Len(read) \in Nat /\ Len(wire) \in Nat
      BY <1>3, LenProperties
    <3> HIDE DEF n
    <3>3. ASSUME NEW j \in 1 .. n PROVE wire[Len(read) + j] \in Nat
      <4>1. Len(read) + j \in 1 .. Len(wire)
        BY <1>6, <3>1, <3>2
      <4> QED BY <1>3, <4>1, ElementOfSeq
    <3>4. next \in [1 .. n -> Nat]
      BY <3>3
    <3> HIDE DEF next
    <3>5. next \in Seq(Nat)
      BY <1>6, <3>4, IsASeq
    <3> QED BY <3>1, <3>5
  <2> QED BY <2>1, <2>2
<1>8. read' \in Seq(Nat)
  BY <1>2, <1>3, <1>7, ConcatSeq
<1> HIDE DEF n, next
<1>9. CASE ~Accepted(Rest, words)
  <2>1. tx' = tx /\ at' = "threw"
    BY <1>2, <1>9
  <2>2. ReadSoFar' /\ at' \in WireStages
    BY <2>1, Refused DEF WireStages
  <2> QED BY <1>1, <1>3, <1>8, <2>1, <2>2, Now, Together, Zenon
<1>10. CASE Accepted(Rest, words)
  <2> DEFINE p == Deserialized(Rest, words)
  <2>1. /\ tx' = [tx EXCEPT !.perInput = inputs, !.X = GrootleM, !.X1 = GrootleM,
                             !.fs = k, !.L = c, !.R = c, !.proof = p]
        /\ at' = "done"
    BY <1>2, <1>10
  <2>2. p \in Seq(Nat)
    BY <1>6, <1>10, ReadIsSerialized
  <2> HIDE DEF k, c, p
  <2>3. /\ tx' \in SpendTransaction /\ tx'.hashes = tx.hashes /\ tx'.outputs = tx.outputs
        /\ tx'.cover_set_ids = tx.cover_set_ids /\ tx'.f = tx.f
        /\ tx'.extension_commitment = tx.extension_commitment
        /\ tx'.perInput = inputs /\ tx'.X = GrootleM /\ tx'.X1 = GrootleM
        /\ tx'.fs = k /\ tx'.L = c /\ tx'.R = c /\ tx'.proof = p
    BY <1>3, <1>5, <2>1, <2>2 DEF SpendTransaction
  <2>4. HasSorted(tx')
    BY <1>3, <2>3, Zenon DEF HasSorted
  <2>5. SizesOK(tx')
    BY <1>4, <2>3, Zenon DEF SizesOK, HashesRead, k, c
  <2>6. Writable(tx')
    BY <1>4, <2>3, <2>5, Zenon DEF Writable, HashesRead
  <2>7. ProofLayout(tx') = Rest
    BY <1>4, <2>3, Zenon DEF ProofLayout, Rest, HashesRead
  <2>8. Header(tx') = read
    BY <1>4, <2>3, Zenon DEF Header, Whole, HashesRead
  <2>9. Spells(read', tx')
    BY <1>2, <1>7, <1>10, <2>3, <2>7, <2>8, Zenon DEF Spells, p
  <2>10. Len(tx'.cover_set_ids) = inputs'
    BY <1>1, <1>4, <2>3 DEF HashesRead
  <2>11. ReadSoFar'
    BY <2>1, <2>6, <2>9, <2>10 DEF ReadSoFar
  <2>12. at' \in WireStages
    BY <2>1 DEF WireStages
  <2> QED BY <1>1, <1>3, <1>8, <2>4, <2>11, <2>12, Now, Together, Zenon
<1> QED BY <1>9, <1>10

LEMMA StepEnd ==
  ASSUME WireInv, EndOfData
  PROVE  WireInv'
<1>1. /\ at' = "threw" /\ UNCHANGED <<sent, wire, read, long, inputs, count, expected, tx>>
  BY DEF EndOfData
<1>2. at' \in WireStages
  BY <1>1 DEF WireStages
<1> QED BY <1>1, <1>2, Now, Together, Refused, Zenon

LEMMA StepRelay ==
  ASSUME WireInv, Relay
  PROVE  WireInv'
<1>1. /\ at = "done" /\ Send(tx) /\ read' = <<>> /\ long' = FALSE
      /\ inputs' = 0 /\ count' = 0 /\ tx' \in Targets
  BY Zenon DEF Relay
<1>2. HasSorted(tx) /\ HasSorted(tx')
  BY <1>1, Now, TargetFacts
<1>3. Writable(tx)
  BY <1>1, Now DEF ReadSoFar
<1> QED BY <1>1, <1>2, <1>3, StepSend

LEMMA StepAgain ==
  ASSUME Again
  PROVE  WireInv'
<1>1. HasSorted(tx') /\ HasSorted(Empty)
  BY TargetFacts DEF Again, Targets
<1>2. /\ at' = "start" /\ sent' = Empty /\ wire' = <<>> /\ read' = <<>>
      /\ long' = FALSE /\ inputs' = 0 /\ count' = 0 /\ expected' = 0
  BY DEF Again
<1>3. HashesSorted' /\ tx' \in SpendTransaction /\ sent' \in SpendTransaction
  BY <1>1, <1>2, Zenon DEF HasSorted, HashesSorted
<1>4. wire' \in Seq(Nat) /\ read' \in Seq(Nat)
  BY <1>2
<1>5. Cardinality(Ids(tx'.hashes)) = Cardinality(tx'.hashes)
  BY <1>1, ObjectFacts
<1>6. WireTypeOK'
  BY <1>2, <1>3, <1>4, <1>5, Zenon DEF WireTypeOK
<1>7. ReadSoFar'
  BY <1>2 DEF ReadSoFar
<1> QED BY <1>2, <1>3, <1>6, <1>7 DEF WireInv

LEMMA WireStep ==
  ASSUME WireInv, [WireNext]_wireVars
  PROVE  WireInv'
<1>1. CASE at = "start" /\ \E b \in Builds, p \in Tails : Write(b, p)
  BY <1>1, StepWrite
<1>2. CASE \E t \in 0 .. MaxV2Outputs : Receive(t)
  BY <1>2, StepReceive
<1>3. ASSUME NEW w \in Words \cup Range(wire),
             \/ ReadVersion(w) \/ ReadEscape(w) \/ RefuseCount(w) \/ ReadInputCount(w)
             \/ ReadOutputCount(w) \/ ReadId(w) \/ ReadHashCount(w)
             \/ ReadFee(w) \/ ReadExtension(w)
             \/ \E h \in Words \cup Range(wire) : ReadEntry(w, h)
      PROVE  WireInv'
  <2>1. \A v \in Words \cup Range(wire) : v \in Nat
    BY WordNat
  <2> QED BY <1>3, <2>1, StepVersion, StepEscape, StepRefuseCount, StepInputCount,
             StepOutputCount, StepId, StepHashCount, StepFee, StepExtension, StepEntry, Zenon
<1>4. CASE ReadProofs \/ EndOfData \/ Relay \/ Again
  BY <1>4, StepProofs, StepEnd, StepRelay, StepAgain
<1>5. CASE UNCHANGED wireVars
  <2>1. /\ at' = at /\ sent' = sent /\ wire' = wire /\ read' = read /\ long' = long
        /\ inputs' = inputs /\ count' = count /\ expected' = expected /\ tx' = tx
    BY <1>5 DEF wireVars
  <2>2. HashesSorted' /\ WireTypeOK'
    BY <2>1, Zenon DEF WireInv, HashesSorted, WireTypeOK
  <2>3. Whole' = Whole
    BY <2>1 DEF Whole
  <2>4. ReadSoFar'
    BY <2>1, <2>3, Zenon DEF WireInv, ReadSoFar
  <2> QED BY <2>1, <2>2, <2>4, Zenon DEF WireInv
<1> QED BY <1>1, <1>2, <1>3, <1>4, <1>5, Zenon DEF WireNext

\* WireTypeOK holds in every reachable state: an object of any kind is filled
\* field by field, and its block hashes have one entry for each set id.
THEOREM WireTypes == WireSpec => []WireTypeOK
<1>1. WireInit => WireInv
  BY StartingInv DEF WireInit
<1>2. WireInv /\ [WireNext]_wireVars => WireInv'
  BY WireStep
<1>3. WireInv => WireTypeOK
  BY DEF WireInv
<1> QED BY <1>1, <1>2, <1>3, PTL DEF WireSpec

\* Writing what was read changes nothing but the spelling of points.
LEMMA Rewritten ==
  ASSUME WireInv, at = "done"
  PROVE  OnlyPointsRespelt
<1>1. /\ HasSorted(tx) /\ tx \in SpendTransaction /\ Writable(tx)
      /\ Len(tx.cover_set_ids) = inputs /\ Spells(read, tx)
  BY Now DEF ReadSoFar
<1>2. ProofLayout(tx) = Rest /\ Rest \in Seq(Kind)
  <2>1. ProofLayout(tx) = Rest
    BY <1>1, Zenon DEF ProofLayout, Rest
  <2> QED BY <1>1, <2>1, ProofLayoutSeq
<1>3. PICK words \in Seq(Nat) :
        /\ Accepted(Rest, words) /\ tx.proof = Deserialized(Rest, words)
        /\ read = Header(tx) \o words
  BY <1>1, <1>2, Zenon DEF Spells
<1> DEFINE p == tx.proof
           again == Written(tx)
           a == Header(tx)
           head == Len(again) - Len(p)
<1>4. p \in Seq(Nat) /\ Len(p) = Len(Rest) /\ Len(words) = Len(Rest)
  BY <1>2, <1>3, ReadIsSerialized DEF Accepted
<1>5. a \in Seq(Nat) /\ again = a \o p
  BY <1>1, WrittenIs
<1>6. \A j \in 1 .. Len(Rest) :
        p[j] = IF Rest[j] = "point" THEN Respelt[words[j]] ELSE words[j]
  BY <1>3 DEF Deserialized
<1>7. Len(a) \in Nat /\ Len(p) \in Nat
  BY <1>4, <1>5, LenProperties
<1> HIDE DEF p, a, again
<1>8. /\ Len(again) = Len(a) + Len(p)
      /\ \A k \in 1 .. Len(a) + Len(p) : again[k] = IF k <= Len(a) THEN a[k] ELSE p[k - Len(a)]
  <2>1. p \in Seq(Nat)
    BY <1>4 DEF p
  <2>2. a \in Seq(Nat) /\ again = a \o p
    BY <1>5 DEF a, again, p
  <2> QED BY <2>1, <2>2, ConcatProperties
<1>9. /\ Len(read) = Len(a) + Len(p)
      /\ \A k \in 1 .. Len(a) + Len(p) : read[k] = IF k <= Len(a) THEN a[k] ELSE words[k - Len(a)]
  <2>1. read = a \o words
    BY <1>3 DEF a
  <2>2. /\ Len(read) = Len(a) + Len(words)
        /\ \A k \in 1 .. Len(a) + Len(words) :
             read[k] = IF k <= Len(a) THEN a[k] ELSE words[k - Len(a)]
    BY <1>5, <2>1, ConcatProperties
  <2> QED BY <1>4, <2>2
<1>10. head = Len(a)
  BY <1>7, <1>8
<1> HIDE DEF head
<1>11. ASSUME NEW k \in 1 .. Len(read)
       PROVE  again[k] = IF k > head /\ Rest[k - head] = "point" THEN Respelt[read[k]] ELSE read[k]
  <2>1. CASE k <= Len(a)
    <3>1. ~(k > head)
      BY <1>7, <1>10, <2>1
    <3>2. again[k] = read[k]
      BY <1>8, <1>9, <2>1
    <3> QED BY <3>1, <3>2
  <2>2. CASE ~(k <= Len(a))
    <3> DEFINE j == k - Len(a)
    <3>1. j \in 1 .. Len(Rest) /\ k > head /\ k - head = j
      BY <1>4, <1>7, <1>9, <1>10, <2>2
    <3>2. again[k] = p[j] /\ read[k] = words[j]
      BY <1>8, <1>9, <2>2
    <3> HIDE DEF j
    <3> QED BY <1>6, <3>1, <3>2
  <2> QED BY <2>1, <2>2
<1>12. Len(again) = Len(read)
  BY <1>8, <1>9
<1> QED BY <1>1, <1>11, <1>12, Zenon DEF OnlyPointsRespelt, again, head, p

\* OnlyPointsRespelt holds in every reachable state: whatever words
\* SerializationOpV2 accepts, from whatever source and into whatever object,
\* writing the resulting transaction gives them again, but for points, which
\* come out as serialize spells them.
THEOREM RewritingRespellsPoints == WireSpec => []OnlyPointsRespelt
<1>1. WireInit => WireInv
  BY StartingInv DEF WireInit
<1>2. WireInv /\ [WireNext]_wireVars => WireInv'
  BY WireStep
<1>3. WireInv => OnlyPointsRespelt
  BY Rewritten DEF OnlyPointsRespelt
<1> QED BY <1>1, <1>2, <1>3, PTL DEF WireSpec

-----------------------------------------------------------------------------
(***************************************************************************)
(* A wire of our own, word by word.                                        *)
(***************************************************************************)

\* s is how v begins; v is s and then u.
Begins(s, v) ==
  /\ s \in Seq(Nat) /\ v \in Seq(Nat) /\ Len(s) \in Nat /\ Len(v) \in Nat
  /\ Len(s) <= Len(v) /\ \A k \in 1 .. Len(s) : v[k] = s[k]

Joined(v, s, u) ==
  /\ Begins(s, v) /\ Len(v) = Len(s) + Len(u)
  /\ \A k \in 1 .. Len(u) : v[Len(s) + k] = u[k]

LEMMA Joining ==
  ASSUME NEW s \in Seq(Nat), NEW u \in Seq(Nat), NEW v, v = s \o u
  PROVE  Joined(v, s, u)
<1>1. /\ v \in Seq(Nat) /\ Len(v) = Len(s) + Len(u)
      /\ \A k \in 1 .. Len(s) + Len(u) : v[k] = IF k <= Len(s) THEN s[k] ELSE u[k - Len(s)]
  BY ConcatProperties
<1>2. Len(s) \in Nat /\ Len(u) \in Nat
  BY LenProperties
<1>3. ASSUME NEW k \in 1 .. Len(s) PROVE v[k] = s[k]
  BY <1>1, <1>2
<1>4. ASSUME NEW k \in 1 .. Len(u) PROVE v[Len(s) + k] = u[k]
  <2>1. Len(s) + k \in 1 .. Len(s) + Len(u) /\ ~(Len(s) + k <= Len(s)) /\ Len(s) + k - Len(s) = k
    BY <1>2
  <2> QED BY <1>1, <2>1
<1> QED BY <1>1, <1>2, <1>3, <1>4 DEF Joined, Begins

LEMMA BeginsTrans ==
  ASSUME NEW s, NEW u, NEW v, Begins(s, u), Begins(u, v)
  PROVE  Begins(s, v)
BY DEF Begins

LEMMA JoinedOne ==
  ASSUME NEW s \in Seq(Nat), NEW x \in Nat, NEW v, v = Append(s, x)
  PROVE  /\ Begins(s, v) /\ Len(v) = Len(s) + 1 /\ v[Len(s) + 1] = x
<1>1. Len(s) \in Nat
  BY LenProperties
<1>2. /\ v \in Seq(Nat) /\ Len(v) = Len(s) + 1
      /\ \A i \in 1 .. Len(s) : v[i] = s[i] /\ v[Len(s) + 1] = x
  BY AppendProperties
<1>3. v[Len(s) + 1] = x
  BY AppendProperties
<1> QED BY <1>1, <1>2, <1>3 DEF Begins

\* Where each field of a transaction is on its wire.
OnWire(r, v) ==
  LET i == Len(r.cover_set_ids)
      n == Cardinality(r.hashes)
      es == Ascending(r.hashes)
  IN  /\ i \in Nat /\ n \in Nat /\ v # <<>>
      /\ v[1] = 2 /\ v[2] = i /\ v[3] = r.outputs
      /\ \A k \in 1 .. i : v[3 + k] = r.cover_set_ids[k]
      /\ v[4 + i] = n
      /\ \A k \in 1 .. n : v[3 + i + 2 * k] = es[k][1] /\ v[4 + i + 2 * k] = es[k][2]
      /\ v[5 + i + 2 * n] = r.f /\ v[6 + i + 2 * n] = r.extension_commitment
      /\ Len(v) = 6 + i + 2 * n + Len(r.proof)
      /\ \A k \in 1 .. Len(r.proof) : v[6 + i + 2 * n + k] = r.proof[k]

LEMMA WiresFields ==
  ASSUME NEW r, HasSorted(r), Writable(r), NEW v, v = Written(r)
  PROVE  OnWire(r, v)
<1> DEFINE i == Len(r.cover_set_ids)
           o == r.outputs
           ids == r.cover_set_ids
           n == Cardinality(r.hashes)
           es == Ascending(r.hashes)
           f == r.f
           x == r.extension_commitment
           t == r.proof
           q == Len(t)
           p1 == <<2>>
           p2 == Part2(i)
           p3 == Part3(i, o)
           p4 == Part4(i, o, ids)
           p5 == Part5(i, o, ids, n)
           p6 == Part6(i, o, ids, n, es)
           p7 == Append(p6, f)
           p8 == Append(p7, x)
<1>1. ids \in Seq(Nat) /\ o \in Nat /\ f \in Nat /\ x \in Nat /\ t \in Seq(Nat)
  BY TxFields DEF HasSorted
<1>2. i \in Nat
  BY <1>1, LenProperties
<1>3. Sorted(es) /\ Len(es) = n /\ n \in Nat
  BY ObjectFacts
<1>4. i < Escape /\ o < Escape /\ n < Escape
  <2>1. i \in 1 .. MaxChaumV2Inputs /\ o \in 1 .. MaxV2Outputs /\ n <= i
    BY Zenon DEF Writable, DimensionsOK
  <2> QED BY <1>1, <1>2, <1>3, <2>1, EscapeFacts
<1>5. v = p8 \o t /\ v # <<>>
  BY WrittenIs, Zenon DEF Fields
<1>6. q \in Nat
  BY <1>1, LenProperties
<1>7. /\ p1 \in Seq(Nat) /\ p2 \in Seq(Nat) /\ p3 \in Seq(Nat) /\ p4 \in Seq(Nat)
      /\ p5 \in Seq(Nat) /\ p6 \in Seq(Nat)
  BY <1>1, <1>2, <1>3, PartTypes
<1>8. p1[1] = 2 /\ Len(p1) = 1
  OBVIOUS
<1>9. p2 = p1 \o <<i>> /\ p3 = p2 \o <<o>> /\ p4 = p3 \o ids /\ p5 = p4 \o <<n>> /\ p6 = p5 \o Flat(es)
  <2>1. CompactSize(i) = <<i>> /\ CompactSize(o) = <<o>> /\ CompactSize(n) = <<n>>
    BY <1>1, <1>2, <1>3, <1>4, CompactFacts
  <2> HIDE DEF i, o, n
  <2> QED BY <2>1, Zenon DEF Part2, Part3, Part4, Part5, Part6
<1> HIDE DEF i, o, ids, n, es, f, x, t, p1, p2, p3, p4, p5, p6
<1>10. p2 = Append(p1, i) /\ p3 = Append(p2, o) /\ p5 = Append(p4, n)
  BY <1>1, <1>2, <1>3, <1>7, <1>9, AppendIsConcat
<1>11. Begins(p1, p2) /\ Len(p2) = Len(p1) + 1 /\ p2[Len(p1) + 1] = i
  BY <1>2, <1>7, <1>10, JoinedOne
<1>12. Begins(p2, p3) /\ Len(p3) = Len(p2) + 1 /\ p3[Len(p2) + 1] = o
  BY <1>1, <1>7, <1>10, JoinedOne
<1>13. Joined(p4, p3, ids)
  BY <1>1, <1>7, <1>9, Joining
<1>14. Begins(p4, p5) /\ Len(p5) = Len(p4) + 1 /\ p5[Len(p4) + 1] = n
  BY <1>3, <1>7, <1>10, JoinedOne
<1>15. Joined(p6, p5, Flat(es))
  BY <1>3, <1>7, <1>9, Joining, FlatFacts
<1>16. p7 \in Seq(Nat) /\ Begins(p6, p7) /\ Len(p7) = Len(p6) + 1 /\ p7[Len(p6) + 1] = f
  BY <1>1, <1>7, JoinedOne, AppendProperties
<1> HIDE DEF p7
<1>17. p8 \in Seq(Nat) /\ Begins(p7, p8) /\ Len(p8) = Len(p7) + 1 /\ p8[Len(p7) + 1] = x
  BY <1>1, <1>16, JoinedOne, AppendProperties
<1> HIDE DEF p8
<1>18. Joined(v, p8, t) /\ Len(t) = q
  BY <1>1, <1>5, <1>17, Joining
<1> HIDE DEF q
<1>19. /\ Len(p2) = 2 /\ Len(p3) = 3 /\ Len(p4) = 3 + i /\ Len(p5) = 4 + i
       /\ Len(p6) = 4 + i + 2 * n /\ Len(p7) = 5 + i + 2 * n /\ Len(p8) = 6 + i + 2 * n
       /\ Len(v) = 6 + i + 2 * n + q
  <2>1. Len(ids) = i
    BY DEF i, ids
  <2>2. Len(Flat(es)) = 2 * n
    BY <1>3, FlatFacts
  <2>3. /\ Len(p4) = Len(p3) + Len(ids) /\ Len(p6) = Len(p5) + Len(Flat(es))
        /\ Len(v) = Len(p8) + Len(t)
    BY <1>13, <1>15, <1>18 DEF Joined
  <2>4. /\ Len(p1) = 1 /\ Len(p2) = Len(p1) + 1 /\ Len(p3) = Len(p2) + 1
        /\ Len(p4) = Len(p3) + i /\ Len(p5) = Len(p4) + 1 /\ Len(p6) = Len(p5) + 2 * n
        /\ Len(p7) = Len(p6) + 1 /\ Len(p8) = Len(p7) + 1 /\ Len(v) = Len(p8) + q
    BY <1>8, <1>11, <1>12, <1>14, <1>16, <1>17, <1>18, <2>1, <2>2, <2>3, Zenon
  <2>5. i \in Nat /\ n \in Nat /\ 2 * n \in Nat /\ q \in Nat
    BY <1>2, <1>3, <1>6
  <2>6. Len(p2) = 2 /\ Len(p3) = 3 /\ Len(p4) = 3 + i
    BY <2>4, <2>5
  <2>7. Len(p5) = 4 + i /\ Len(p6) = 4 + i + 2 * n
    BY <2>4, <2>5, <2>6
  <2>8. Len(p7) = 5 + i + 2 * n /\ Len(p8) = 6 + i + 2 * n
    BY <2>4, <2>5, <2>7
  <2> QED BY <2>4, <2>6, <2>7, <2>8
<1>20. /\ Begins(p8, v) /\ Begins(p7, v) /\ Begins(p6, v) /\ Begins(p5, v) /\ Begins(p4, v)
       /\ Begins(p3, v) /\ Begins(p2, v) /\ Begins(p1, v)
  <2>1. Begins(p8, v) /\ Begins(p5, p6) /\ Begins(p3, p4)
    BY <1>13, <1>15, <1>18 DEF Joined
  <2> QED BY <1>11, <1>12, <1>14, <1>16, <1>17, <2>1, BeginsTrans
<1>21. v[1] = 2 /\ v[2] = i /\ v[3] = o /\ v[4 + i] = n
  <2>1. v[1] = p1[1]
    BY <1>8, <1>20 DEF Begins
  <2>2. v[2] = p2[2]
    BY <1>19, <1>20 DEF Begins
  <2>3. v[3] = p3[3]
    BY <1>19, <1>20 DEF Begins
  <2>4. v[4 + i] = p5[4 + i]
    BY <1>2, <1>19, <1>20 DEF Begins
  <2>5. p2[2] = i /\ p3[3] = o /\ p5[4 + i] = n
    <3>1. Len(p1) + 1 = 2 /\ Len(p2) + 1 = 3 /\ Len(p4) + 1 = 4 + i
      BY <1>2, <1>8, <1>19
    <3> QED BY <1>11, <1>12, <1>14, <3>1
  <2> QED BY <1>8, <2>1, <2>2, <2>3, <2>4, <2>5
<1>22. ASSUME NEW k \in 1 .. i PROVE v[3 + k] = ids[k]
  <2>1. Len(ids) = i
    BY DEF i, ids
  <2>2. p4[3 + k] = ids[k]
    BY <1>13, <1>19, <2>1 DEF Joined
  <2>3. 3 + k \in 1 .. Len(p4)
    BY <1>2, <1>19
  <2>4. v[3 + k] = p4[3 + k]
    BY <1>20, <2>3 DEF Begins
  <2> QED BY <2>2, <2>4
<1>23. ASSUME NEW k \in 1 .. n PROVE v[3 + i + 2 * k] = es[k][1] /\ v[4 + i + 2 * k] = es[k][2]
  <2>1. k \in 1 .. Len(es)
    BY <1>3
  <2>2. Len(Flat(es)) = 2 * n /\ Flat(es)[2 * k - 1] = es[k][1] /\ Flat(es)[2 * k] = es[k][2]
    BY <1>3, <2>1, FlatFacts
  <2>3. /\ 2 * k - 1 \in 1 .. Len(Flat(es)) /\ 2 * k \in 1 .. Len(Flat(es))
        /\ Len(p5) + (2 * k - 1) = 3 + i + 2 * k /\ Len(p5) + 2 * k = 4 + i + 2 * k
        /\ 3 + i + 2 * k \in 1 .. Len(p6) /\ 4 + i + 2 * k \in 1 .. Len(p6)
    <3> DEFINE b == 2 * k
               m == 2 * n
    <3>1. b \in Nat /\ m \in Nat /\ 2 <= b /\ b <= m /\ i \in Nat
      BY <1>2, <1>3
    <3>2. Len(Flat(es)) = m /\ Len(p5) = 4 + i /\ Len(p6) = 4 + i + m
      BY <1>19, <2>2
    <3> HIDE DEF b, m
    <3>3. b - 1 \in 1 .. m /\ b \in 1 .. m
      BY <3>1
    <3>4. (4 + i) + (b - 1) = 3 + i + b /\ (4 + i) + b = 4 + i + b
      BY <3>1
    <3>5. 3 + i + b \in 1 .. 4 + i + m /\ 4 + i + b \in 1 .. 4 + i + m
      BY <3>1
    <3> QED BY <3>2, <3>3, <3>4, <3>5, Zenon DEF b
  <2>4. p6[Len(p5) + (2 * k - 1)] = Flat(es)[2 * k - 1] /\ p6[Len(p5) + 2 * k] = Flat(es)[2 * k]
    BY <1>15, <2>3 DEF Joined
  <2>5. v[3 + i + 2 * k] = p6[3 + i + 2 * k] /\ v[4 + i + 2 * k] = p6[4 + i + 2 * k]
    BY <1>20, <2>3 DEF Begins
  <2> QED BY <2>2, <2>3, <2>4, <2>5
<1>24. v[5 + i + 2 * n] = f /\ v[6 + i + 2 * n] = x
  <2>1. /\ 5 + i + 2 * n \in 1 .. Len(p7) /\ 6 + i + 2 * n \in 1 .. Len(p8)
        /\ Len(p6) + 1 = 5 + i + 2 * n /\ Len(p7) + 1 = 6 + i + 2 * n
    BY <1>2, <1>3, <1>19
  <2>2. v[5 + i + 2 * n] = p7[5 + i + 2 * n] /\ v[6 + i + 2 * n] = p8[6 + i + 2 * n]
    BY <1>20, <2>1 DEF Begins
  <2> QED BY <1>16, <1>17, <2>1, <2>2
<1>25. ASSUME NEW k \in 1 .. q PROVE v[6 + i + 2 * n + k] = t[k]
  BY <1>18, <1>19 DEF Joined
<1> QED BY <1>2, <1>3, <1>5, <1>19, <1>21, <1>22, <1>23, <1>24, <1>25, Zenon
        DEF OnWire, i, n, es, ids, o, f, x, q, t

-----------------------------------------------------------------------------
(***************************************************************************)
(* Reading our own wire: every field read so far is that of sent, and as   *)
(* many words have been read as these fields have.                         *)
(***************************************************************************)

InputsOf == Len(sent.cover_set_ids)
HashesOf == Cardinality(sent.hashes)

Place ==
  /\ at \in WireStages \ {"start", "threw"}
  /\ at = "version" => Len(read) = 0
  /\ at = "inputs" => Len(read) = 1
  /\ at = "outputs" => Len(read) = 2
  /\ at = "ids" => Len(read) = 3 + Len(tx.cover_set_ids)
  /\ at = "hash_count" => Len(read) = 3 + InputsOf
  /\ at = "entries" => Len(read) = 4 + InputsOf + 2 * Cardinality(tx.hashes)
  /\ at = "fee" => Len(read) = 4 + InputsOf + 2 * HashesOf
  /\ at = "extension" => Len(read) = 5 + InputsOf + 2 * HashesOf
  /\ at = "proofs" => Len(read) = 6 + InputsOf + 2 * HashesOf

Agree ==
  /\ at \in {"outputs", "ids", "hash_count", "entries", "fee", "extension", "proofs"} =>
       inputs = InputsOf
  /\ at \in {"ids", "hash_count", "entries", "fee", "extension", "proofs"} =>
       tx.outputs = sent.outputs
  /\ at = "ids" =>
       \A k \in 1 .. Len(tx.cover_set_ids) : tx.cover_set_ids[k] = sent.cover_set_ids[k]
  /\ at \in {"hash_count", "entries", "fee", "extension", "proofs"} =>
       tx.cover_set_ids = sent.cover_set_ids
  /\ at \in {"entries", "fee", "extension", "proofs"} => count = HashesOf
  /\ at = "entries" =>
       \A k \in 1 .. Cardinality(tx.hashes) :
         Ascending(tx.hashes)[k] = Ascending(sent.hashes)[k]
  /\ at \in {"fee", "extension", "proofs"} => tx.hashes = sent.hashes
  /\ at \in {"extension", "proofs"} => tx.f = sent.f
  /\ at = "proofs" => tx.extension_commitment = sent.extension_commitment
  /\ at = "done" => tx = sent /\ read = wire

OwnWire ==
  /\ HasSorted(sent) /\ Writable(sent) /\ Made(sent) /\ wire = Written(sent)
  /\ expected = sent.outputs /\ long = FALSE /\ Place /\ Agree

OwnInv == IF sent = Empty THEN wire = <<>> ELSE OwnWire

LEMMA OwnFields ==
  ASSUME OwnWire
  PROVE  /\ InputsOf \in Nat /\ HashesOf \in Nat /\ wire # <<>>
         /\ wire[1] = 2 /\ wire[2] = InputsOf /\ wire[3] = sent.outputs
         /\ \A k \in 1 .. InputsOf : wire[3 + k] = sent.cover_set_ids[k]
         /\ wire[4 + InputsOf] = HashesOf
         /\ \A k \in 1 .. HashesOf : /\ wire[3 + InputsOf + 2 * k] = Ascending(sent.hashes)[k][1]
                                     /\ wire[4 + InputsOf + 2 * k] = Ascending(sent.hashes)[k][2]
         /\ wire[5 + InputsOf + 2 * HashesOf] = sent.f
         /\ wire[6 + InputsOf + 2 * HashesOf] = sent.extension_commitment
         /\ Len(wire) = 6 + InputsOf + 2 * HashesOf + Len(sent.proof)
         /\ \A k \in 1 .. Len(sent.proof) :
              wire[6 + InputsOf + 2 * HashesOf + k] = sent.proof[k]
<1>1. OnWire(sent, wire)
  BY WiresFields, Zenon DEF OwnWire
<1> QED BY <1>1, Zenon DEF OnWire, InputsOf, HashesOf

LEMMA OwnLimits ==
  ASSUME OwnWire
  PROVE  /\ InputsOf \in 1 .. MaxChaumV2Inputs /\ sent.outputs \in 1 .. MaxV2Outputs
         /\ HashesOf <= InputsOf /\ HashesOf \in Nat
         /\ InputsOf < Escape /\ sent.outputs < Escape /\ HashesOf < Escape
         /\ sent.cover_set_ids \in Seq(Nat) /\ sent.proof \in Seq(Nat) /\ Len(sent.proof) \in Nat
<1>1. /\ InputsOf \in 1 .. MaxChaumV2Inputs /\ sent.outputs \in 1 .. MaxV2Outputs
      /\ HashesOf <= InputsOf
  BY Zenon DEF OwnWire, Writable, DimensionsOK, InputsOf, HashesOf
<1>2. sent.cover_set_ids \in Seq(Nat) /\ sent.outputs \in Nat /\ sent.proof \in Seq(Nat)
  BY TxFields DEF OwnWire, HasSorted
<1>3. InputsOf \in Nat /\ HashesOf \in Nat
  BY OwnFields
<1>4. InputsOf < Escape /\ sent.outputs < Escape /\ HashesOf < Escape
  BY <1>1, <1>3, EscapeFacts
<1>5. Len(sent.proof) \in Nat
  BY <1>2, LenProperties
<1> QED BY <1>1, <1>2, <1>3, <1>4, <1>5

\* The next word of our own wire is the one that comes after those read.
LEMMA OwnWord ==
  ASSUME WireInv, OwnWire, NEW w \in Nat, Word(w)
  PROVE  /\ w = wire[Len(read) + 1] /\ Len(read') = Len(read) + 1 /\ Len(read) \in Nat
<1>1. wire # <<>> /\ read \in Seq(Nat)
  BY OwnFields, Now
<1>2. w = wire[Len(read) + 1] /\ read' = Append(read, w)
  BY <1>1 DEF Word
<1> QED BY <1>1, <1>2, AppendProperties, LenProperties

LEMMA OwnTogether ==
  ASSUME OwnWire, sent' = sent, wire' = wire, expected' = expected, long' = FALSE,
         Place', Agree'
  PROVE  OwnWire'
BY Zenon DEF OwnWire

LEMMA OwnVersion ==
  ASSUME WireInv, OwnWire, NEW w \in Nat, ReadVersion(w)
  PROVE  OwnWire'
<1>1. /\ at = "version" /\ Word(w) /\ at' = (IF w = 2 THEN "inputs" ELSE "threw")
      /\ sent' = sent /\ wire' = wire /\ long' = long /\ expected' = expected /\ tx' = tx
  BY DEF ReadVersion, Go
<1>2. long = FALSE /\ Len(read) = 0
  BY <1>1 DEF OwnWire, Place
<1>3. w = 2 /\ Len(read') = 1
  BY <1>1, <1>2, OwnWord, OwnFields
<1>4. at' = "inputs"
  BY <1>1, <1>3
<1>5. Place' /\ Agree'
  BY <1>3, <1>4 DEF Place, Agree, WireStages
<1> QED BY <1>1, <1>2, <1>5, OwnTogether

\* The words of our counts are below the escape.
LEMMA OwnCounts ==
  ASSUME WireInv, OwnWire, NEW w \in Nat, Word(w), at \in Counts
  PROVE  w < Escape
<1>1. w = wire[Len(read) + 1]
  BY OwnWord
<1>2. at = "inputs" => w = InputsOf
  <2>1. at = "inputs" => Len(read) = 1
    BY DEF OwnWire, Place
  <2>2. wire[2] = InputsOf /\ 1 + 1 = 2
    BY OwnFields
  <2> QED BY <1>1, <2>1, <2>2, Zenon
<1>3. at = "outputs" => w = sent.outputs
  <2>1. at = "outputs" => Len(read) = 2
    BY DEF OwnWire, Place
  <2>2. wire[3] = sent.outputs /\ 2 + 1 = 3
    BY OwnFields
  <2> QED BY <1>1, <2>1, <2>2, Zenon
<1>4. at = "hash_count" => w = HashesOf
  <2>1. at = "hash_count" => Len(read) = 3 + InputsOf
    BY DEF OwnWire, Place
  <2>2. InputsOf \in Nat /\ wire[4 + InputsOf] = HashesOf
    BY OwnFields
  <2>3. 3 + InputsOf + 1 = 4 + InputsOf
    BY <2>2
  <2> QED BY <1>1, <2>1, <2>2, <2>3, Zenon
<1>5. at = "inputs" \/ at = "outputs" \/ at = "hash_count"
  BY DEF Counts
<1> QED BY <1>2, <1>3, <1>4, <1>5, OwnLimits

LEMMA OwnNotRefused ==
  ASSUME WireInv, OwnWire, NEW w \in Nat, ReadEscape(w) \/ RefuseCount(w)
  PROVE  FALSE
<1>1. at \in Counts /\ Word(w)
  BY DEF ReadEscape, RefuseCount
<1>2. w < Escape /\ Escape \in Nat
  BY <1>1, OwnCounts, EscapeFacts
<1>3. long = FALSE
  BY DEF OwnWire
<1>4. w # Escape
  BY <1>2
<1>5. CountOK(w)
  BY <1>2, <1>3, Zenon DEF CountOK
<1> QED BY <1>4, <1>5, Zenon DEF ReadEscape, RefuseCount

LEMMA OwnInputCount ==
  ASSUME WireInv, OwnWire, NEW w \in Nat, ReadInputCount(w)
  PROVE  OwnWire'
<1>1. /\ at = "inputs" /\ Word(w) /\ inputs' = w /\ long' = FALSE
      /\ at' = "outputs" /\ sent' = sent /\ wire' = wire /\ expected' = expected /\ tx' = tx
  BY DEF ReadInputCount
<1>2. Len(read) = 1
  BY <1>1 DEF OwnWire, Place
<1>3. w = InputsOf /\ Len(read') = 2
  BY <1>1, <1>2, OwnWord, OwnFields
<1>4. inputs' = InputsOf'
  BY <1>1, <1>3 DEF InputsOf
<1>5. Place' /\ Agree'
  BY <1>1, <1>3, <1>4 DEF Place, Agree, WireStages
<1> QED BY <1>1, <1>5, OwnTogether

LEMMA OwnOutputCount ==
  ASSUME WireInv, OwnWire, NEW w \in Nat, ReadOutputCount(w)
  PROVE  OwnWire'
<1>1. /\ at = "outputs" /\ Word(w) /\ inputs' = inputs /\ long' = FALSE
      /\ at' = (IF DimensionsOK(inputs, w) /\ w = expected THEN "ids" ELSE "threw")
      /\ sent' = sent /\ wire' = wire /\ expected' = expected
      /\ tx' = [tx EXCEPT !.cover_set_ids = <<>>, !.outputs = w]
  BY DEF ReadOutputCount, Go
<1>2. Len(read) = 2 /\ inputs = InputsOf /\ expected = sent.outputs
  BY <1>1 DEF OwnWire, Place, Agree
<1>3. w = sent.outputs /\ Len(read') = 3
  BY <1>1, <1>2, OwnWord, OwnFields
<1>4. DimensionsOK(inputs, w)
  BY <1>2, <1>3, OwnLimits DEF DimensionsOK
<1>5. tx'.cover_set_ids = <<>> /\ tx'.outputs = w
  BY <1>1, Now DEF SpendTransaction
<1>6. Len(tx'.cover_set_ids) = 0
  BY <1>5
<1>7. at' = "ids" /\ inputs' = InputsOf' /\ tx'.outputs = sent'.outputs
  BY <1>1, <1>2, <1>3, <1>4, <1>5, Zenon DEF InputsOf
<1>8. Place'
  BY <1>3, <1>6, <1>7 DEF Place, WireStages
<1>9. Agree'
  BY <1>6, <1>7 DEF Agree
<1> QED BY <1>1, <1>8, <1>9, OwnTogether

LEMMA OwnId ==
  ASSUME WireInv, OwnWire, NEW w \in Nat, ReadId(w)
  PROVE  OwnWire'
<1> DEFINE ids == tx.cover_set_ids
           all == sent.cover_set_ids
           more == Append(ids, w)
           m == Len(ids)
           ok == \A id \in Range(more) : IdOK(id)
<1>1. /\ at = "ids" /\ Word(w) /\ inputs' = inputs /\ long' = long
      /\ sent' = sent /\ wire' = wire /\ expected' = expected
      /\ tx' = [tx EXCEPT !.cover_set_ids = more]
  BY DEF ReadId
<1>2. /\ Len(read) = 3 + m /\ inputs = InputsOf /\ tx.outputs = sent.outputs /\ long = FALSE
      /\ \A k \in 1 .. m : ids[k] = all[k]
  BY <1>1 DEF OwnWire, Place, Agree
<1>3. m < inputs /\ tx \in SpendTransaction /\ ids \in Seq(Nat) /\ inputs \in Nat
  BY <1>1, Now, TxFields DEF ReadSoFar
<1>4. /\ more \in Seq(Nat) /\ Len(more) = m + 1 /\ m \in Nat
      /\ \A k \in 1 .. m : more[k] = ids[k]
      /\ more[m + 1] = w
  BY <1>3, AppendProperties, LenProperties
<1>5. tx'.cover_set_ids = more /\ tx'.outputs = tx.outputs
  BY <1>1, <1>3 DEF SpendTransaction
<1>6. IF m + 1 < inputs THEN at' = at ELSE at' = (IF ok THEN "hash_count" ELSE "threw")
  BY <1>5, Zenon DEF ReadId, Go
<1>7. all \in Seq(Nat) /\ Len(all) = InputsOf
  BY OwnLimits DEF InputsOf
<1> HIDE DEF ids, all, more, m, ok
<1>8. w = all[m + 1] /\ Len(read') = 4 + m
  <2>1. w = wire[Len(read) + 1] /\ Len(read') = Len(read) + 1
    BY <1>1, OwnWord
  <2>2. Len(read) + 1 = 3 + (m + 1) /\ m + 1 \in 1 .. InputsOf /\ Len(read') = 4 + m
    BY <1>2, <1>3, <1>4, <2>1
  <2>3. wire[3 + (m + 1)] = all[m + 1]
    BY <2>2, OwnFields DEF all
  <2> QED BY <2>1, <2>2, <2>3
<1>9. \A k \in 1 .. m + 1 : more[k] = all[k]
  BY <1>2, <1>4, <1>8
<1>10. CASE m + 1 < inputs
  <2>1. at' = "ids"
    BY <1>1, <1>6, <1>10
  <2>2. Len(read') = 3 + Len(tx'.cover_set_ids)
    BY <1>4, <1>5, <1>8
  <2>3. /\ inputs' = InputsOf' /\ tx'.outputs = sent'.outputs
        /\ \A k \in 1 .. Len(tx'.cover_set_ids) : tx'.cover_set_ids[k] = sent'.cover_set_ids[k]
    BY <1>1, <1>2, <1>4, <1>5, <1>9, Zenon DEF InputsOf, all
  <2>4. Place'
    BY <2>1, <2>2 DEF Place, WireStages
  <2>5. Agree'
    BY <2>1, <2>3 DEF Agree
  <2> QED BY <1>1, <1>2, <2>4, <2>5, OwnTogether
<1>11. CASE ~(m + 1 < inputs)
  <2>1. m + 1 = inputs
    BY <1>3, <1>4, <1>11
  <2>2. more = all
    <3>1. Len(more) = Len(all)
      BY <1>2, <1>4, <1>7, <2>1
    <3>2. \A k \in 1 .. Len(more) : more[k] = all[k]
      BY <1>4, <1>9
    <3> QED BY <1>4, <1>7, <3>1, <3>2, SeqEqual
  <2>3. ok
    BY <2>2, Zenon DEF OwnWire, Writable, ok, all
  <2>4. at' = "hash_count"
    BY <1>6, <1>11, <2>3, Zenon
  <2>5. Len(read') = 3 + InputsOf'
    <3>1. InputsOf' = InputsOf
      BY <1>1 DEF InputsOf
    <3> QED BY <1>2, <1>4, <1>8, <2>1, <3>1
  <2>6. /\ inputs' = InputsOf' /\ tx'.outputs = sent'.outputs
        /\ tx'.cover_set_ids = sent'.cover_set_ids
    BY <1>1, <1>2, <1>5, <2>2, Zenon DEF InputsOf, all
  <2>7. Place'
    BY <2>4, <2>5 DEF Place, WireStages
  <2>8. Agree'
    BY <2>4, <2>6 DEF Agree
  <2> QED BY <1>1, <1>2, <2>7, <2>8, OwnTogether
<1> QED BY <1>10, <1>11

LEMMA OwnHashCount ==
  ASSUME WireInv, OwnWire, NEW w \in Nat, ReadHashCount(w)
  PROVE  OwnWire'
<1> DEFINE ids == tx.cover_set_ids
           ok == w <= inputs /\ (w = 0 => HashesOK(ids, {}))
           next == IF w = 0 THEN "fee" ELSE "entries"
<1>1. /\ at = "hash_count" /\ Word(w) /\ inputs' = inputs /\ long' = FALSE
      /\ at' = (IF ok THEN next ELSE "threw") /\ count' = w
      /\ sent' = sent /\ wire' = wire /\ expected' = expected
      /\ tx' = [tx EXCEPT !.hashes = {}]
  BY DEF ReadHashCount, Go
<1>2. /\ Len(read) = 3 + InputsOf /\ inputs = InputsOf /\ tx.outputs = sent.outputs
      /\ ids = sent.cover_set_ids
  BY <1>1 DEF OwnWire, Place, Agree
<1>3. /\ InputsOf \in Nat /\ HashesOf \in Nat /\ wire[4 + InputsOf] = HashesOf
      /\ HashesOf <= InputsOf
  BY OwnFields, OwnLimits
<1>4. w = HashesOf /\ Len(read') = 4 + InputsOf
  <2>1. w = wire[Len(read) + 1] /\ Len(read') = Len(read) + 1
    BY <1>1, OwnWord
  <2>2. Len(read) + 1 = 4 + InputsOf
    BY <1>2, <1>3
  <2> QED BY <1>3, <2>1, <2>2
<1>5. w = 0 => sent.hashes = {}
  <2>1. IsFiniteSet(sent.hashes)
    BY ObjectFacts DEF OwnWire
  <2> QED BY <1>4, <2>1, FS_EmptySet DEF HashesOf
<1>6. HashesOK(ids, sent.hashes)
  BY <1>2, Zenon DEF OwnWire, Writable
<1>7. ok
  <2>1. w <= inputs
    BY <1>2, <1>3, <1>4
  <2> QED BY <1>5, <1>6, <2>1, Zenon
<1>8. tx'.hashes = {} /\ tx'.outputs = tx.outputs /\ tx'.cover_set_ids = ids
  BY <1>1, Now DEF SpendTransaction
<1>9. at' = next
  BY <1>1, <1>7, Zenon
<1> HIDE DEF ids, ok, next
<1>10. /\ inputs' = InputsOf' /\ tx'.outputs = sent'.outputs
       /\ tx'.cover_set_ids = sent'.cover_set_ids /\ count' = HashesOf'
       /\ InputsOf' = InputsOf /\ HashesOf' = HashesOf
  BY <1>1, <1>2, <1>4, <1>8, Zenon DEF InputsOf, HashesOf
<1>11. Cardinality(tx'.hashes) = 0
  BY <1>8, NoEntries, Zenon
<1>12. CASE w = 0
  <2>1. at' = "fee" /\ tx'.hashes = sent'.hashes
    BY <1>1, <1>5, <1>8, <1>9, <1>12 DEF next
  <2>2. Len(read') = 4 + InputsOf' + 2 * HashesOf'
    BY <1>3, <1>4, <1>10, <1>12
  <2>3. Place'
    BY <2>1, <2>2 DEF Place, WireStages
  <2>4. Agree'
    BY <1>10, <2>1 DEF Agree
  <2> QED BY <1>1, <2>3, <2>4, OwnTogether
<1>13. CASE w # 0
  <2>1. at' = "entries"
    BY <1>9, <1>13 DEF next
  <2>2. Len(read') = 4 + InputsOf' + 2 * Cardinality(tx'.hashes)
    BY <1>3, <1>4, <1>10, <1>11
  <2>3. Place'
    BY <2>1, <2>2 DEF Place, WireStages
  <2>4. 1 .. Cardinality(tx'.hashes) = {}
    BY <1>11
  <2>5. Agree'
    BY <1>10, <2>1, <2>4 DEF Agree
  <2> QED BY <1>1, <2>3, <2>5, OwnTogether
<1> QED BY <1>12, <1>13

LEMMA OwnEntry ==
  ASSUME WireInv, OwnWire, NEW id \in Nat, NEW hash \in Nat, ReadEntry(id, hash)
  PROVE  OwnWire'
<1> DEFINE es == Ascending(tx.hashes)
           all == Ascending(sent.hashes)
           p == <<id, hash>>
           more == Append(es, p)
           H == tx.hashes \cup {p}
           m == Cardinality(tx.hashes)
           ids == tx.cover_set_ids
<1>1. /\ at = "entries" /\ inputs' = inputs /\ long' = long /\ count' = count
      /\ sent' = sent /\ wire' = wire /\ expected' = expected /\ read' = read \o p
      /\ wire # <<>> => id = wire[Len(read) + 1] /\ hash = wire[Len(read) + 2]
  BY DEF ReadEntry
<1>2. tx \in SpendTransaction /\ HasSorted(tx) /\ HasSorted(sent) /\ read \in Seq(Nat)
      /\ wire # <<>>
  BY Now, OwnFields DEF OwnWire
<1>3. /\ Len(read) = 4 + InputsOf + 2 * m /\ inputs = InputsOf /\ tx.outputs = sent.outputs
      /\ ids = sent.cover_set_ids /\ count = HashesOf /\ long = FALSE
      /\ \A k \in 1 .. m : es[k] = all[k]
  BY <1>1 DEF OwnWire, Place, Agree
<1>4. m < count
  BY <1>1, Now DEF ReadSoFar
<1>5. Sorted(es) /\ Range(es) = tx.hashes /\ Len(es) = m /\ m \in Nat
  BY <1>2, ObjectFacts
<1>6. Sorted(all) /\ Range(all) = sent.hashes /\ Len(all) = HashesOf /\ HashesOf \in Nat
  BY <1>2, ObjectFacts DEF HashesOf
<1>7. InputsOf \in Nat
  BY OwnFields
<1>8. HashesOK(ids, sent.hashes)
  BY <1>3, Zenon DEF OwnWire, Writable
<1> HIDE DEF m, all, es
<1>9. m + 1 \in 1 .. HashesOf
  BY <1>3, <1>4, <1>5, <1>6
<1>10. all[m + 1] = p
  <2>1. /\ Len(read) + 1 = 3 + InputsOf + 2 * (m + 1)
        /\ Len(read) + 2 = 4 + InputsOf + 2 * (m + 1)
    BY <1>3, <1>5, <1>7
  <2>2. /\ wire[3 + InputsOf + 2 * (m + 1)] = all[m + 1][1]
        /\ wire[4 + InputsOf + 2 * (m + 1)] = all[m + 1][2]
    BY <1>9, OwnFields DEF all
  <2>3. id = all[m + 1][1] /\ hash = all[m + 1][2]
    BY <1>1, <1>2, <2>1, <2>2, Zenon
  <2>4. all[m + 1] \in Entry
    BY <1>6, <1>9, SortedFacts
  <2> QED BY <2>3, <2>4 DEF Entry
<1>11. EntryOK(id)
  <2> SUFFICES ASSUME NEW e \in tx.hashes PROVE e[1] < id
    BY DEF EntryOK
  <2>1. PICK k \in 1 .. m : e = es[k]
    BY <1>5, SortedFacts
  <2>2. k \in 1 .. Len(all) /\ m + 1 \in 1 .. Len(all) /\ k < m + 1
    BY <1>5, <1>6, <1>9
  <2>3. all[k][1] < all[m + 1][1]
    BY <1>6, <2>2 DEF Sorted
  <2>4. all[m + 1][1] = id /\ all[k] = e
    BY <1>3, <1>10, <2>1
  <2> QED BY <2>3, <2>4
<1>12. tx' = [tx EXCEPT !.hashes = H]
  BY <1>11, Zenon DEF ReadEntry
<1>13. tx'.hashes = H /\ tx'.outputs = tx.outputs /\ tx'.cover_set_ids = ids
  BY <1>2, <1>12 DEF SpendTransaction
<1>14. IF Cardinality(H) < count THEN at' = at
       ELSE at' = (IF HashesOK(ids, H) THEN "fee" ELSE "threw")
  BY <1>11, <1>13, Zenon DEF ReadEntry, Go
<1>15. Extends(more, es, id, hash)
  BY <1>5, <1>11, Zenon DEF Extends, EntryOK
<1> HIDE DEF more
<1>16. /\ Sorted(more) /\ Len(more) = Len(es) + 1 /\ Range(more) = Range(es) \cup {p}
       /\ \A k \in 1 .. Len(es) : more[k] = es[k]
       /\ more[Len(es) + 1] = p
  <2>1. Sorted(more) /\ Len(more) = Len(es) + 1 /\ Range(more) = Range(es) \cup {p}
    BY <1>5, <1>15, SortedAppend
  <2>2. \A k \in 1 .. Len(es) : more[k] = es[k]
    BY <1>5, <1>15, SortedAppend
  <2>3. more[Len(es) + 1] = <<id, hash>>
    BY <1>5, <1>15, SortedAppend
  <2> QED BY <2>1, <2>2, <2>3
<1>17. H = Range(more)
  BY <1>5, <1>16
<1>18. Len(read') = Len(read) + 2 /\ Len(read) \in Nat
  <2>1. p \in Seq(Nat) /\ Len(p) = 2
    OBVIOUS
  <2> HIDE DEF p
  <2> QED BY <1>1, <1>2, <2>1, ConcatSeq, LenProperties
<1> HIDE DEF H, ids, p
<1>19. Cardinality(H) = Len(more) /\ Ascending(H) = more
  BY <1>16, <1>17, SortedIsAscending
<1>20. Cardinality(H) = m + 1
  BY <1>5, <1>16, <1>19
<1>21. \A k \in 1 .. m + 1 : more[k] = all[k]
  <2> SUFFICES ASSUME NEW k \in 1 .. m + 1 PROVE more[k] = all[k]
    OBVIOUS
  <2>1. k \in 1 .. m \/ k = m + 1
    BY <1>5
  <2> QED BY <1>3, <1>5, <1>10, <1>16, <2>1
<1>22. /\ inputs' = InputsOf' /\ tx'.outputs = sent'.outputs
       /\ tx'.cover_set_ids = sent'.cover_set_ids /\ count' = HashesOf'
       /\ InputsOf' = InputsOf /\ HashesOf' = HashesOf
  BY <1>1, <1>3, <1>13, Zenon DEF InputsOf, HashesOf
<1>23. Len(read') = 4 + InputsOf' + 2 * Cardinality(tx'.hashes)
  BY <1>3, <1>5, <1>7, <1>13, <1>18, <1>20, <1>22
<1>24. CASE Cardinality(H) < count
  <2>1. at' = "entries"
    BY <1>1, <1>14, <1>24, Zenon
  <2>2. \A k \in 1 .. Cardinality(tx'.hashes) : Ascending(tx'.hashes)[k] = Ascending(sent'.hashes)[k]
    BY <1>1, <1>13, <1>19, <1>20, <1>21, Zenon DEF all
  <2>3. Place'
    BY <1>23, <2>1 DEF Place, WireStages
  <2>4. Agree'
    BY <1>22, <2>1, <2>2 DEF Agree
  <2> QED BY <1>1, <1>3, <2>3, <2>4, OwnTogether
<1>25. CASE ~(Cardinality(H) < count)
  <2>1. m + 1 = HashesOf
    BY <1>3, <1>5, <1>6, <1>9, <1>20, <1>25
  <2>2. more = all
    <3>1. more \in Seq(Entry) /\ all \in Seq(Entry)
      BY <1>6, <1>16 DEF Sorted
    <3>2. Len(more) = Len(all) /\ \A k \in 1 .. Len(more) : more[k] = all[k]
      BY <1>5, <1>6, <1>16, <1>21, <2>1
    <3> QED BY <3>1, <3>2, SeqEqual
  <2>3. H = sent.hashes
    BY <1>6, <1>17, <2>2
  <2>4. at' = "fee"
    BY <1>8, <1>14, <1>25, <2>3, Zenon
  <2>5. tx'.hashes = sent'.hashes
    BY <1>1, <1>13, <2>3, Zenon
  <2>6. Len(read') = 4 + InputsOf' + 2 * HashesOf'
    BY <1>23, <2>5 DEF HashesOf
  <2>7. Place'
    BY <2>4, <2>6 DEF Place, WireStages
  <2>8. Agree'
    BY <1>22, <2>4, <2>5 DEF Agree
  <2> QED BY <1>1, <1>3, <2>7, <2>8, OwnTogether
<1> QED BY <1>24, <1>25

\* What stays known after the hashes.
LEMMA OwnFee ==
  ASSUME WireInv, OwnWire, NEW w \in Nat, ReadFee(w)
  PROVE  OwnWire'
<1>1. /\ at = "fee" /\ Word(w) /\ inputs' = inputs /\ long' = long /\ count' = count
      /\ sent' = sent /\ wire' = wire /\ expected' = expected /\ at' = "extension"
      /\ tx' = [tx EXCEPT !.f = w]
  BY DEF ReadFee
<1>2. /\ Len(read) = 4 + InputsOf + 2 * HashesOf /\ inputs = InputsOf
      /\ tx.outputs = sent.outputs /\ tx.cover_set_ids = sent.cover_set_ids
      /\ count = HashesOf /\ tx.hashes = sent.hashes /\ long = FALSE
  BY <1>1 DEF OwnWire, Place, Agree
<1>3. InputsOf \in Nat /\ HashesOf \in Nat /\ wire[5 + InputsOf + 2 * HashesOf] = sent.f
  BY OwnFields
<1>4. w = sent.f /\ Len(read') = 5 + InputsOf + 2 * HashesOf
  <2>1. w = wire[Len(read) + 1] /\ Len(read') = Len(read) + 1
    BY <1>1, OwnWord
  <2>2. Len(read) + 1 = 5 + InputsOf + 2 * HashesOf
    BY <1>2, <1>3
  <2> QED BY <1>3, <2>1, <2>2
<1>5. /\ tx'.hashes = tx.hashes /\ tx'.outputs = tx.outputs
      /\ tx'.cover_set_ids = tx.cover_set_ids /\ tx'.f = w
  BY <1>1, Now DEF SpendTransaction
<1>6. /\ inputs' = InputsOf' /\ tx'.outputs = sent'.outputs
      /\ tx'.cover_set_ids = sent'.cover_set_ids /\ count' = HashesOf'
      /\ tx'.hashes = sent'.hashes /\ tx'.f = sent'.f
      /\ Len(read') = 5 + InputsOf' + 2 * HashesOf'
  BY <1>1, <1>2, <1>4, <1>5, Zenon DEF InputsOf, HashesOf
<1>7. Place'
  BY <1>1, <1>6 DEF Place, WireStages
<1>8. Agree'
  BY <1>1, <1>6 DEF Agree
<1> QED BY <1>1, <1>2, <1>7, <1>8, OwnTogether

LEMMA OwnExtension ==
  ASSUME WireInv, OwnWire, NEW w \in Nat, ReadExtension(w)
  PROVE  OwnWire'
<1>1. /\ at = "extension" /\ Word(w) /\ inputs' = inputs /\ long' = long /\ count' = count
      /\ sent' = sent /\ wire' = wire /\ expected' = expected /\ at' = "proofs"
      /\ tx' = [tx EXCEPT !.extension_commitment = w]
  BY DEF ReadExtension
<1>2. /\ Len(read) = 5 + InputsOf + 2 * HashesOf /\ inputs = InputsOf
      /\ tx.outputs = sent.outputs /\ tx.cover_set_ids = sent.cover_set_ids
      /\ count = HashesOf /\ tx.hashes = sent.hashes /\ tx.f = sent.f /\ long = FALSE
  BY <1>1 DEF OwnWire, Place, Agree
<1>3. /\ InputsOf \in Nat /\ HashesOf \in Nat
      /\ wire[6 + InputsOf + 2 * HashesOf] = sent.extension_commitment
  BY OwnFields
<1>4. w = sent.extension_commitment /\ Len(read') = 6 + InputsOf + 2 * HashesOf
  <2>1. w = wire[Len(read) + 1] /\ Len(read') = Len(read) + 1
    BY <1>1, OwnWord
  <2>2. Len(read) + 1 = 6 + InputsOf + 2 * HashesOf
    BY <1>2, <1>3
  <2> QED BY <1>3, <2>1, <2>2
<1>5. /\ tx'.hashes = tx.hashes /\ tx'.outputs = tx.outputs /\ tx'.f = tx.f
      /\ tx'.cover_set_ids = tx.cover_set_ids /\ tx'.extension_commitment = w
  BY <1>1, Now DEF SpendTransaction
<1>6. /\ inputs' = InputsOf' /\ tx'.outputs = sent'.outputs
      /\ tx'.cover_set_ids = sent'.cover_set_ids /\ count' = HashesOf'
      /\ tx'.hashes = sent'.hashes /\ tx'.f = sent'.f
      /\ tx'.extension_commitment = sent'.extension_commitment
      /\ Len(read') = 6 + InputsOf' + 2 * HashesOf'
  BY <1>1, <1>2, <1>4, <1>5, Zenon DEF InputsOf, HashesOf
<1>7. Place'
  BY <1>1, <1>6 DEF Place, WireStages
<1>8. Agree'
  BY <1>1, <1>6 DEF Agree
<1> QED BY <1>1, <1>2, <1>7, <1>8, OwnTogether

LEMMA SameObject ==
  ASSUME NEW r \in SpendTransaction, NEW s \in SpendTransaction,
         r.cover_set_ids = s.cover_set_ids, r.hashes = s.hashes, r.f = s.f,
         r.extension_commitment = s.extension_commitment, r.outputs = s.outputs,
         r.perInput = s.perInput, r.X = s.X, r.X1 = s.X1, r.fs = s.fs, r.L = s.L, r.R = s.R,
         r.proof = s.proof
  PROVE  r = s
<1> DEFINE Record(t) ==
      [cover_set_ids |-> t.cover_set_ids, hashes |-> t.hashes, f |-> t.f,
       extension_commitment |-> t.extension_commitment, outputs |-> t.outputs,
       perInput |-> t.perInput, X |-> t.X, X1 |-> t.X1, fs |-> t.fs,
       L |-> t.L, R |-> t.R, proof |-> t.proof]
<1>1. r = Record(r)
  BY DEF SpendTransaction
<1>2. s = Record(s)
  BY DEF SpendTransaction
<1>3. Record(r) = Record(s)
  BY Zenon
<1> HIDE DEF Record
<1> QED BY <1>1, <1>2, <1>3

\* The words left are the proofs of sent, which are accepted as they are.
LEMMA OwnRest ==
  ASSUME WireInv, OwnWire, at = "proofs"
  PROVE  /\ Rest = ProofLayout(sent) /\ Len(Rest) \in Nat /\ sent.proof \in Seq(Nat)
         /\ Len(sent.proof) = Len(Rest) /\ Len(read) + Len(Rest) = Len(wire)
         /\ [j \in 1 .. Len(Rest) |-> wire[Len(read) + j]] = sent.proof
         /\ Accepted(Rest, sent.proof) /\ Deserialized(Rest, sent.proof) = sent.proof
<1>1. inputs = InputsOf /\ tx.outputs = sent.outputs /\ Len(read) = 6 + InputsOf + 2 * HashesOf
  BY DEF OwnWire, Place, Agree
<1>2. Rest = ProofLayout(sent)
  BY <1>1, Zenon DEF Rest, ProofLayout, InputsOf
<1>3. Accepted(Rest, sent.proof) /\ Deserialized(Rest, sent.proof) = sent.proof
  BY <1>2, Zenon DEF OwnWire, Made, Serialized
<1>4. Len(sent.proof) = Len(Rest)
  BY <1>3 DEF Accepted
<1>5. /\ sent.proof \in Seq(Nat) /\ Len(sent.proof) \in Nat
      /\ Len(wire) = Len(read) + Len(sent.proof)
      /\ \A j \in 1 .. Len(sent.proof) : wire[Len(read) + j] = sent.proof[j]
  BY <1>1, OwnFields, OwnLimits
<1>6. [j \in 1 .. Len(Rest) |-> wire[Len(read) + j]] = sent.proof
  <2> DEFINE m == Len(sent.proof)
             q == sent.proof
  <2>1. q = [j \in 1 .. m |-> q[j]]
    BY <1>5
  <2>2. [j \in 1 .. m |-> wire[Len(read) + j]] = [j \in 1 .. m |-> q[j]]
    BY <1>5
  <2> QED BY <1>4, <2>1, <2>2
<1> QED BY <1>2, <1>3, <1>4, <1>5, <1>6

LEMMA OwnProofs ==
  ASSUME WireInv, OwnWire, ReadProofs, WireInv'
  PROVE  OwnWire'
<1> DEFINE k == GrootleM * (GrootleN - 1)
           c == WireRounds(tx.outputs)
           n == Len(Rest)
           next == [j \in 1 .. n |-> wire[Len(read) + j]]
<1>1. /\ at = "proofs" /\ long' = long /\ sent' = sent /\ wire' = wire
      /\ expected' = expected
  BY Zenon DEF ReadProofs
<1>2. wire # <<>> /\ next = sent.proof /\ Accepted(Rest, sent.proof)
      /\ Deserialized(Rest, sent.proof) = sent.proof
  BY <1>1, OwnFields, OwnRest
<1>3. PICK words \in IF wire = <<>> THEN {t \in Tails : Len(t) = n} ELSE {next} :
        /\ read' = read \o words
        /\ IF Accepted(Rest, words)
           THEN /\ tx' = [tx EXCEPT !.perInput = inputs,
                           !.X = GrootleM, !.X1 = GrootleM,
                           !.fs = k, !.L = c, !.R = c,
                           !.proof = Deserialized(Rest, words)]
                /\ at' = "done"
           ELSE UNCHANGED tx /\ at' = "threw"
  BY Zenon DEF ReadProofs
<1> HIDE DEF next, n
<1>4. words = sent.proof
  BY <1>2, <1>3
<1>5. /\ at' = "done" /\ read' = read \o sent.proof
      /\ tx' = [tx EXCEPT !.perInput = inputs, !.X = GrootleM, !.X1 = GrootleM,
                           !.fs = k, !.L = c, !.R = c, !.proof = sent.proof]
  BY <1>2, <1>3, <1>4
<1>6. /\ inputs = InputsOf /\ tx.outputs = sent.outputs /\ long = FALSE
      /\ tx.cover_set_ids = sent.cover_set_ids /\ tx.hashes = sent.hashes /\ tx.f = sent.f
      /\ tx.extension_commitment = sent.extension_commitment
  BY <1>1 DEF OwnWire, Place, Agree
<1>7. tx \in SpendTransaction /\ sent \in SpendTransaction
  BY Now
<1>8. tx' \in SpendTransaction
  BY DEF WireInv, WireTypeOK
<1>9. SizesOK(sent)
  BY DEF OwnWire, Writable
<1>10. /\ sent.perInput = inputs /\ sent.X = GrootleM /\ sent.X1 = GrootleM
       /\ sent.fs = k /\ sent.L = c /\ sent.R = c
  BY <1>6, <1>9, Zenon DEF SizesOK, InputsOf
<1> HIDE DEF k, c
<1>11. /\ tx'.hashes = tx.hashes /\ tx'.outputs = tx.outputs
       /\ tx'.cover_set_ids = tx.cover_set_ids /\ tx'.f = tx.f
       /\ tx'.extension_commitment = tx.extension_commitment
       /\ tx'.perInput = inputs /\ tx'.X = GrootleM /\ tx'.X1 = GrootleM
       /\ tx'.fs = k /\ tx'.L = c /\ tx'.R = c /\ tx'.proof = sent.proof
  BY <1>5, <1>7 DEF SpendTransaction
<1>12. tx' = sent
  BY <1>6, <1>7, <1>8, <1>10, <1>11, SameObject
<1>13. read' = wire
  <2>1. read = Append(Append(Whole, tx.f), tx.extension_commitment) /\ HashesRead
    BY <1>1, Now DEF ReadSoFar, HashesRead
  <2>2. Header(sent) = read
    BY <1>6, <2>1, Zenon DEF Header, Whole, HashesRead
  <2>3. wire = Header(sent) \o sent.proof
    BY WrittenIs, Zenon DEF OwnWire
  <2> QED BY <1>5, <2>2, <2>3
<1>14. Place' /\ Agree'
  BY <1>1, <1>5, <1>12, <1>13 DEF Place, Agree, WireStages
<1> QED BY <1>1, <1>6, <1>14, OwnTogether

\* Our own wire does not end before its last field.
LEMMA OwnEnd ==
  ASSUME WireInv, OwnWire, EndOfData
  PROVE  FALSE
<1> DEFINE q == Len(sent.proof)
<1>1. /\ at \notin {"start", "done", "threw"}
      /\ Len(wire) < Len(read) + CASE at = "entries" -> 2
                                   [] at = "proofs" -> Len(Rest)
                                   [] OTHER -> 1
  BY OwnFields DEF EndOfData
<1>2. /\ InputsOf \in Nat /\ HashesOf \in Nat /\ q \in Nat
      /\ Len(wire) = 6 + InputsOf + 2 * HashesOf + q
  BY OwnFields, OwnLimits
<1>3. Place /\ Agree
  BY DEF OwnWire
<1> HIDE DEF q
<1>4. CASE at = "entries"
  <2>1. Cardinality(tx.hashes) < count /\ count = HashesOf
    BY <1>3, <1>4, Now DEF ReadSoFar, Agree
  <2>2. Cardinality(tx.hashes) \in Nat
    BY Now, ObjectFacts
  <2>3. Len(read) = 4 + InputsOf + 2 * Cardinality(tx.hashes)
    BY <1>3, <1>4 DEF Place
  <2>4. Len(wire) < Len(read) + 2
    BY <1>1, <1>4
  <2> QED BY <1>2, <2>1, <2>2, <2>3, <2>4
<1>5. CASE at = "proofs"
  <2>1. Len(Rest) = q
    BY <1>5, OwnRest DEF q
  <2>2. Len(read) = 6 + InputsOf + 2 * HashesOf
    BY <1>3, <1>5 DEF Place
  <2>3. Len(wire) < Len(read) + q
    BY <1>1, <1>5, <2>1
  <2> QED BY <1>2, <2>2, <2>3
<1>6. CASE at # "entries" /\ at # "proofs"
  <2>1. Len(wire) < Len(read) + 1
    BY <1>1, <1>6
  <2>2. at = "ids" => Len(tx.cover_set_ids) < InputsOf
    BY <1>3, Now DEF ReadSoFar, Agree
  <2>3. tx.cover_set_ids \in Seq(Nat)
    BY Now, TxFields
  <2>4. Len(tx.cover_set_ids) \in Nat
    BY <2>3, LenProperties
  <2>5. \/ Len(read) = 0 \/ Len(read) = 1 \/ Len(read) = 2
        \/ at = "ids" /\ Len(read) = 3 + Len(tx.cover_set_ids)
        \/ Len(read) = 3 + InputsOf \/ Len(read) = 4 + InputsOf + 2 * HashesOf
        \/ Len(read) = 5 + InputsOf + 2 * HashesOf
    BY <1>1, <1>3, <1>6 DEF Place, WireStages
  <2> DEFINE a == InputsOf
             h == 2 * HashesOf
             d == Len(tx.cover_set_ids)
  <2>6. /\ a \in Nat /\ h \in Nat /\ d \in Nat /\ Len(wire) = 6 + a + h + q
        /\ at = "ids" => d < a
    BY <1>2, <2>2, <2>4
  <2>7. \/ Len(read) = 0 \/ Len(read) = 1 \/ Len(read) = 2
        \/ at = "ids" /\ Len(read) = 3 + d
        \/ Len(read) = 3 + a \/ Len(read) = 4 + a + h \/ Len(read) = 5 + a + h
    BY <2>5
  <2> HIDE DEF a, h, d
  <2>8. Len(read) \in Nat /\ Len(read) <= 5 + a + h
    <3>1. CASE at = "ids" /\ Len(read) = 3 + d
      BY <2>6, <3>1
    <3>2. CASE Len(read) = 3 + a \/ Len(read) = 4 + a + h \/ Len(read) = 5 + a + h
      BY <2>6, <3>2
    <3>3. CASE Len(read) = 0 \/ Len(read) = 1 \/ Len(read) = 2
      <4>1. a \in Nat /\ h \in Nat
        BY <2>6
      <4>2. 0 <= 5 + a + h /\ 1 <= 5 + a + h /\ 2 <= 5 + a + h
        BY <4>1
      <4>3. 0 \in Nat /\ 1 \in Nat /\ 2 \in Nat
        OBVIOUS
      <4> QED BY <3>3, <4>2, <4>3, Zenon
    <3> QED BY <2>7, <3>1, <3>2, <3>3
  <2> QED BY <1>2, <2>1, <2>6, <2>8
<1> QED BY <1>4, <1>5, <1>6

LEMMA OwnSend ==
  ASSUME NEW r, HasSorted(r), Writable(r), Made(r), Send(r), read' = <<>>, long' = FALSE
  PROVE  OwnInv'
<1>1. /\ sent' = r /\ expected' = r.outputs /\ wire' = Written(r) /\ at' = "version"
  BY Zenon DEF Send
<1>2. r # Empty
  <2>1. Empty.outputs = 0
    BY DEF Empty
  <2>2. r.outputs \in 1 .. MaxV2Outputs
    BY Zenon DEF Writable, DimensionsOK
  <2> QED BY <2>1, <2>2, EscapeFacts
<1>3. Len(read') = 0
  OBVIOUS
<1>4. Place' /\ Agree'
  BY <1>1, <1>3 DEF Place, Agree, WireStages
<1>5. OwnWire'
  BY <1>1, <1>4, Zenon DEF OwnWire
<1> QED BY <1>1, <1>2, <1>5, Zenon DEF OwnInv

LEMMA OwnWrite ==
  ASSUME WireInv, at = "start", NEW b \in Builds, NEW p \in Tails, Write(b, p)
  PROVE  OwnInv'
<1> DEFINE r == Constructed(b, p)
<1>1. p \in Seq(Nat)
  BY PointFacts
<1>2. HasSorted(r) /\ Writable(r) /\ Made(r)
  BY <1>1, ConstructedWritable DEF Write
<1>3. Send(r) /\ read' = read /\ long' = long
  BY Zenon DEF Write
<1>4. read = <<>> /\ ~long /\ long \in BOOLEAN
  BY Now DEF ReadSoFar
<1> HIDE DEF r
<1> QED BY <1>2, <1>3, <1>4, OwnSend

LEMMA OwnRelay ==
  ASSUME WireInv, Relay
  PROVE  OwnInv'
<1>1. at = "done" /\ Send(tx) /\ read' = <<>> /\ long' = FALSE
  BY Zenon DEF Relay
<1>2. HasSorted(tx) /\ tx \in SpendTransaction /\ Writable(tx) /\ Spells(read, tx)
  BY <1>1, Now DEF ReadSoFar
<1>3. Made(tx)
  BY <1>2, SpelledIsMade
<1> QED BY <1>1, <1>2, <1>3, OwnSend

LEMMA OwnStep ==
  ASSUME WireInv, OwnInv, WireInv', [WireNext]_wireVars
  PROVE  OwnInv'
<1>1. CASE at = "start" /\ \E b \in Builds, p \in Tails : Write(b, p)
  BY <1>1, OwnWrite
<1>5. CASE Relay
  BY <1>5, OwnRelay
<1>2. CASE Again
  BY <1>2, Zenon DEF Again, OwnInv
<1>3. CASE UNCHANGED wireVars
  <2>1. /\ at' = at /\ sent' = sent /\ wire' = wire /\ read' = read /\ long' = long
        /\ inputs' = inputs /\ count' = count /\ expected' = expected /\ tx' = tx
    BY <1>3 DEF wireVars
  <2>2. InputsOf' = InputsOf /\ HashesOf' = HashesOf
    BY <2>1 DEF InputsOf, HashesOf
  <2>3. Place <=> Place'
    BY <2>1, <2>2, Zenon DEF Place
  <2>4. Agree <=> Agree'
    BY <2>1, <2>2, Zenon DEF Agree
  <2> QED BY <2>1, <2>3, <2>4, Zenon DEF OwnInv, OwnWire
<1>4. ASSUME \/ \E t \in 0 .. MaxV2Outputs : Receive(t)
             \/ \E w \in Words \cup Range(wire) :
                  \/ ReadVersion(w) \/ ReadEscape(w) \/ RefuseCount(w) \/ ReadInputCount(w)
                  \/ ReadOutputCount(w) \/ ReadId(w) \/ ReadHashCount(w)
                  \/ ReadFee(w) \/ ReadExtension(w)
                  \/ \E h \in Words \cup Range(wire) : ReadEntry(w, h)
             \/ ReadProofs
             \/ EndOfData
      PROVE  OwnInv'
  <2>1. sent' = sent /\ wire' = wire
    BY <1>4, Zenon DEF Receive, ReadVersion, ReadEscape, RefuseCount, ReadInputCount,
       ReadOutputCount, ReadId, ReadHashCount, ReadFee, ReadExtension, ReadEntry,
       ReadProofs, EndOfData
  <2>2. CASE sent = Empty
    BY <2>1, <2>2, Zenon DEF OwnInv
  <2>3. CASE sent # Empty
    <3>1. OwnWire
      BY <2>3 DEF OwnInv
    <3>2. ASSUME NEW t, Receive(t) PROVE FALSE
      BY <3>1, <3>2 DEF OwnWire, Place, Receive
    <3>3. \A v \in Words \cup Range(wire) : v \in Nat
      BY WordNat
    <3>4. OwnWire'
      BY <1>4, <3>1, <3>2, <3>3, OwnVersion, OwnNotRefused, OwnInputCount, OwnOutputCount,
         OwnId, OwnHashCount, OwnFee, OwnExtension, OwnEntry, OwnProofs, OwnEnd, Zenon
    <3> QED BY <2>1, <2>3, <3>4, Zenon DEF OwnInv
  <2> QED BY <2>2, <2>3
<1> QED BY <1>1, <1>2, <1>3, <1>4, <1>5, Zenon DEF WireNext

\* ReadsBack holds in every reachable state: every transaction the constructor
\* builds, and every one that was read, can be written by SerializationOpV2,
\* reading it is never refused, uses every word and gives the same
\* transaction, whatever the object held.
THEOREM OwnWireReadsBack == WireSpec => []ReadsBack
<1>1. WireInit => WireInv /\ OwnInv
  <2>1. WireInit => WireInv
    BY StartingInv DEF WireInit
  <2>2. WireInit => OwnInv
    BY Zenon DEF WireInit, OwnInv
  <2> QED BY <2>1, <2>2
<1>2. (WireInv /\ OwnInv) /\ [WireNext]_wireVars => (WireInv /\ OwnInv)'
  BY WireStep, OwnStep
<1>3. WireInv /\ OwnInv => ReadsBack
  <2> SUFFICES ASSUME WireInv, OwnInv, sent # Empty
               PROVE  at # "threw" /\ (at = "done" => tx = sent /\ read = wire)
    BY Zenon DEF ReadsBack
  <2>1. OwnWire
    BY DEF OwnInv
  <2> QED BY <2>1 DEF OwnWire, Place, Agree
<1> QED BY <1>1, <1>2, <1>3, PTL DEF WireSpec
=============================================================================
