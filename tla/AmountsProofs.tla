--------------------------- MODULE AmountsProofs ----------------------------
(***************************************************************************)
(* What Total and Value compute, for lists of every length, and the        *)
(* arithmetic the other proofs share: quotients and remainders, powers, and*)
(* numbers as lists of digits.  The facts about what a recursive function  *)
(* computes need an induction on its argument; it is made by looking at the*)
(* least argument for which the fact would fail.                           *)
(***************************************************************************)
EXTENDS Amounts, Powers, FiniteSetTheorems, TLAPS

\* A nonempty set of naturals has a least element.
LEMMA LeastNat ==
  ASSUME NEW T, T \subseteq Nat, T # {}
  PROVE  \E x \in T : \A y \in T : x <= y
<1> DEFINE R == {ss \in Nat \X Nat : ss[1] < ss[2]}
<1>1. OpToRel(<, Nat) = R
  BY DEF OpToRel
<1>2. IsWellFoundedOn(R, Nat)
  BY <1>1, NatLessThanWellFounded, Zenon
<1>3. \A a, b \in Nat : a < b => <<a, b>> \in R
  OBVIOUS
<1> HIDE DEF R
<1>4. PICK x \in T : \A y \in T : ~(<<y, x>> \in R)
  BY <1>2, WFMin, Zenon
<1>5. ASSUME NEW y \in T PROVE x <= y
  <2>1. x \in Nat /\ y \in Nat
    OBVIOUS
  <2>2. ~(y < x)
    BY <2>1, <1>3, <1>4, Zenon
  <2> QED BY <2>1, <2>2
<1> QED BY <1>5

\* A set of naturals that holds 0 and the successor of each of its members
\* holds every natural: the induction the lemmas below are made with.
LEMMA Induction ==
  ASSUME NEW G, 0 \in G, \A n \in Nat : n \in G => n + 1 \in G
  PROVE  Nat \subseteq G
<1> DEFINE T == Nat \ G
<1>1. SUFFICES ASSUME T # {} PROVE FALSE
  OBVIOUS
<1>2. PICK m \in T : \A y \in T : m <= y
  BY <1>1, LeastNat, Zenon
<1>3. m # 0 /\ m - 1 \in Nat /\ (m - 1) + 1 = m
  OBVIOUS
<1>4. m - 1 \in G
  BY <1>2, <1>3
<1> QED BY <1>3, <1>4

\* The accumulator of Total.
IsAcc(f, n, a) == a = [i \in 0 .. n |-> IF i = 0 THEN 0 ELSE a[i - 1] + f[i]]

\* The accumulator of Total, as a function on 0 .. n, exists.
LEMMA AccExists ==
  ASSUME NEW f
  PROVE  \A n \in Nat : \E a : IsAcc(f, n, a)
<1> DEFINE G == {n \in Nat : \E a : IsAcc(f, n, a)}
<1>1. 0 \in G
  <2>1. IsAcc(f, 0, [i \in 0 .. 0 |-> 0])
    BY DEF IsAcc
  <2> QED BY <2>1
<1>2. ASSUME NEW n \in Nat, n \in G PROVE n + 1 \in G
  <2>1. PICK a : IsAcc(f, n, a)
    BY <1>2
  <2> DEFINE b == [i \in 0 .. n + 1 |-> IF i = n + 1 THEN a[n] + f[n + 1] ELSE a[i]]
  <2>2. IsAcc(f, n + 1, b)
    BY <2>1 DEF IsAcc
  <2> QED BY <2>2
<1> HIDE DEF G
<1>3. Nat \subseteq G
  BY <1>1, <1>2, Induction
<1> QED BY <1>3 DEF G

\* ... and is determined by its two equations.
LEMMA AccUnique ==
  ASSUME NEW f, NEW m \in Nat, NEW n \in Nat, m <= n,
         NEW a, NEW b, IsAcc(f, m, a), IsAcc(f, n, b)
  PROVE  \A i \in 0 .. m : a[i] = b[i]
<1> DEFINE G == {i \in Nat : i <= m => a[i] = b[i]}
<1>1. 0 \in G
  BY DEF IsAcc
<1>2. ASSUME NEW i \in Nat, i \in G PROVE i + 1 \in G
  BY <1>2 DEF IsAcc
<1> HIDE DEF G
<1>3. Nat \subseteq G
  BY <1>1, <1>2, Induction
<1> QED BY <1>3 DEF G

\* Total is the last value of any function that satisfies them.
LEMMA TotalIsAcc ==
  ASSUME NEW f, NEW n \in Nat
  PROVE  \E a : IsAcc(f, n, a) /\ Total(f, n) = a[n]
<1>1. \E a : a = [i \in 0 .. n |-> IF i = 0 THEN 0 ELSE a[i - 1] + f[i]]
  BY AccExists DEF IsAcc
<1> QED BY <1>1, Zenon DEF Total, IsAcc

\* Total adds one element at a time.
LEMMA TotalStep ==
  ASSUME NEW f
  PROVE  /\ Total(f, 0) = 0
         /\ \A n \in Nat : Total(f, n + 1) = Total(f, n) + f[n + 1]
<1>1. Total(f, 0) = 0
  <2>1. PICK a : IsAcc(f, 0, a) /\ Total(f, 0) = a[0]
    BY TotalIsAcc
  <2> QED BY <2>1 DEF IsAcc
<1>2. ASSUME NEW n \in Nat PROVE Total(f, n + 1) = Total(f, n) + f[n + 1]
  <2>1. PICK a : IsAcc(f, n, a) /\ Total(f, n) = a[n]
    BY TotalIsAcc
  <2>2. PICK b : IsAcc(f, n + 1, b) /\ Total(f, n + 1) = b[n + 1]
    BY TotalIsAcc
  <2>3. a[n] = b[n]
    BY <2>1, <2>2, AccUnique
  <2>4. b[n + 1] = b[n] + f[n + 1]
    BY <2>2 DEF IsAcc
  <2> QED BY <2>1, <2>2, <2>3, <2>4
<1> QED BY <1>1, <1>2

\* A total of integers is an integer: the sum a loop leaves behind has a type.
LEMMA TotalInt ==
  ASSUME NEW f, NEW N \in Nat, \A i \in 1 .. N : f[i] \in Int
  PROVE  \A n \in 0 .. N : Total(f, n) \in Int
<1> DEFINE G == {n \in Nat : n <= N => Total(f, n) \in Int}
<1>1. 0 \in G
  BY TotalStep
<1>2. ASSUME NEW n \in Nat, n \in G PROVE n + 1 \in G
  BY <1>2, TotalStep
<1> HIDE DEF G
<1>3. Nat \subseteq G
  BY <1>1, <1>2, Induction
<1> QED BY <1>3 DEF G

\* A list that is nowhere bigger has no bigger total.
LEMMA TotalMonotone ==
  ASSUME NEW f, NEW g, NEW N \in Nat,
         \A i \in 1 .. N : f[i] \in Int /\ g[i] \in Int /\ f[i] <= g[i]
  PROVE  Total(f, N) <= Total(g, N)
<1>1. \A n \in 0 .. N : Total(f, n) \in Int /\ Total(g, n) \in Int
  BY TotalInt
<1> DEFINE G == {n \in Nat : n <= N => Total(f, n) <= Total(g, n)}
<1>2. 0 \in G
  BY TotalStep
<1>3. ASSUME NEW n \in Nat, n \in G PROVE n + 1 \in G
  <2>1. CASE n + 1 <= N
    BY <1>1, <1>3, <2>1, TotalStep
  <2>2. CASE ~(n + 1 <= N)
    BY <2>2
  <2> QED BY <2>1, <2>2
<1> HIDE DEF G
<1>4. Nat \subseteq G
  BY <1>2, <1>3, Induction
<1> QED BY <1>4 DEF G

\* Totals of lists added element by element add.
LEMMA TotalAdd ==
  ASSUME NEW f, NEW g, NEW h, NEW N \in Nat,
         \A i \in 1 .. N : f[i] \in Int /\ g[i] \in Int /\ h[i] = f[i] + g[i]
  PROVE  Total(h, N) = Total(f, N) + Total(g, N)
<1>1. \A n \in 0 .. N : Total(f, n) \in Int /\ Total(g, n) \in Int
  BY TotalInt
<1> DEFINE G == {n \in Nat : n <= N => Total(h, n) = Total(f, n) + Total(g, n)}
<1>2. 0 \in G
  BY TotalStep
<1>3. ASSUME NEW n \in Nat, n \in G PROVE n + 1 \in G
  <2>1. CASE n + 1 <= N
    BY <1>1, <1>3, <2>1, TotalStep
  <2>2. CASE ~(n + 1 <= N)
    BY <2>2
  <2> QED BY <2>1, <2>2
<1> HIDE DEF G
<1>4. Nat \subseteq G
  BY <1>2, <1>3, Induction
<1> QED BY <1>4 DEF G

\* A list with at most one nonzero element.
LEMMA TotalSingle ==
  ASSUME NEW f, NEW N \in Nat, NEW k \in 1 .. N, f[k] \in Int,
         \A i \in 1 .. N : i # k => f[i] = 0
  PROVE  Total(f, N) = f[k]
<1> DEFINE G == {n \in Nat : n <= N => Total(f, n) = IF n < k THEN 0 ELSE f[k]}
<1>1. 0 \in G
  BY TotalStep
<1>2. ASSUME NEW n \in Nat, n \in G PROVE n + 1 \in G
  <2>1. CASE n + 1 <= N
    <3>1. Total(f, n + 1) = Total(f, n) + f[n + 1]
      BY TotalStep
    <3>2. CASE n + 1 = k
      BY <1>2, <2>1, <3>1, <3>2
    <3>3. CASE n + 1 # k
      BY <1>2, <2>1, <3>1, <3>3
    <3> QED BY <3>2, <3>3
  <2>2. CASE ~(n + 1 <= N)
    BY <2>2
  <2> QED BY <2>1, <2>2
<1> HIDE DEF G
<1>3. Nat \subseteq G
  BY <1>1, <1>2, Induction
<1> QED BY <1>3 DEF G

\* A list of zeros from k + 1 on.
LEMMA TotalPrefix ==
  ASSUME NEW f, NEW g, NEW N \in Nat, NEW k \in 0 .. N,
         \A i \in 1 .. N : f[i] \in Int /\ g[i] = IF i <= k THEN f[i] ELSE 0
  PROVE  Total(g, N) = Total(f, k)
<1>1. \A n \in 0 .. N : Total(f, n) \in Int
  BY TotalInt
<1> DEFINE G == {n \in Nat : n <= N =>
                  Total(g, n) = IF n <= k THEN Total(f, n) ELSE Total(f, k)}
<1>2. 0 \in G
  BY TotalStep
<1>3. ASSUME NEW n \in Nat, n \in G PROVE n + 1 \in G
  <2>1. CASE n + 1 <= N
    <3>1. /\ Total(g, n + 1) = Total(g, n) + g[n + 1]
          /\ Total(f, n + 1) = Total(f, n) + f[n + 1]
      BY TotalStep
    <3>2. CASE n + 1 <= k
      BY <1>1, <1>3, <2>1, <3>1, <3>2
    <3>3. CASE ~(n + 1 <= k)
      <4>1. g[n + 1] = 0 /\ Total(g, n) = Total(f, k)
        BY <1>3, <2>1, <3>3
      <4> QED BY <1>1, <2>1, <3>1, <3>3, <4>1
    <3> QED BY <3>2, <3>3
  <2>2. CASE ~(n + 1 <= N)
    BY <2>2
  <2> QED BY <2>1, <2>2
<1> HIDE DEF G
<1>4. Nat \subseteq G
  BY <1>2, <1>3, Induction
<1> QED BY <1>4 DEF G

-----------------------------------------------------------------------------
(***************************************************************************)
(* The value of a choice of coins.                                         *)
(***************************************************************************)

IsCoinList(coins) == /\ Len(coins) \in Nat
                     /\ \A i \in 1 .. Len(coins) : coins[i].v \in Nat

\* Value is a natural number, and only grows with the choice.
LEMMA ValueMonotone ==
  ASSUME NEW coins, IsCoinList(coins), NEW S, NEW T, S \subseteq T
  PROVE  /\ Value(coins, S) \in Nat
         /\ Value(coins, S) <= Value(coins, T)
<1> DEFINE n == Len(coins)
           pay(A) == [i \in 1 .. n |-> IF i \in A THEN coins[i].v ELSE 0]
           zero == [i \in 1 .. n |-> 0]
<1>1. n \in Nat /\ \A A : \A i \in 1 .. n : pay(A)[i] \in Int /\ zero[i] \in Int
  BY DEF IsCoinList
<1>2. \A i \in 1 .. n : pay(S)[i] <= pay(T)[i] /\ zero[i] <= pay(S)[i]
  BY DEF IsCoinList
<1> HIDE DEF pay, zero
<1>3. Total(pay(S), n) <= Total(pay(T), n)
  BY <1>1, <1>2, TotalMonotone
<1>4. Total(zero, n) <= Total(pay(S), n)
  BY <1>1, <1>2, TotalMonotone
<1>5. Total(pay(S), n) \in Int
  <2>1. \A m \in 0 .. n : Total(pay(S), m) \in Int
    BY <1>1, TotalInt
  <2> QED BY <1>1, <2>1
<1>6. Total(zero, n) = 0
  <2>1. CASE n = 0
    BY <2>1, TotalStep
  <2>2. CASE n # 0
    <3>1. 1 \in 1 .. n
      BY <1>1, <2>2
    <3> QED BY <1>1, <3>1, TotalSingle DEF zero
  <2> QED BY <2>1, <2>2
<1>7. Value(coins, S) = Total(pay(S), n) /\ Value(coins, T) = Total(pay(T), n)
  BY DEF Value, pay
<1> QED BY <1>3, <1>4, <1>5, <1>6, <1>7

\* No coins are worth nothing.
LEMMA ValueEmpty ==
  ASSUME NEW coins, IsCoinList(coins)
  PROVE  Value(coins, {}) = 0
<1> DEFINE n == Len(coins)
           f == [i \in 1 .. n |-> IF i \in {} THEN coins[i].v ELSE 0]
<1>1. n \in Nat /\ \A i \in 1 .. n : f[i] = 0
  BY DEF IsCoinList
<1>2. Value(coins, {}) = Total(f, n)
  BY DEF Value
<1> HIDE DEF f, n
<1>3. CASE n = 0
  BY <1>2, <1>3, TotalStep
<1>4. CASE n # 0
  <2>1. 1 \in 1 .. n
    BY <1>1, <1>4
  <2> QED BY <1>1, <1>2, <2>1, TotalSingle
<1> QED BY <1>3, <1>4

\* One more coin adds its amount.
LEMMA ValueAdd ==
  ASSUME NEW coins, IsCoinList(coins), NEW S,
         NEW k \in 1 .. Len(coins), k \notin S
  PROVE  Value(coins, S \cup {k}) = Value(coins, S) + coins[k].v
<1> DEFINE n == Len(coins)
           pay(A) == [i \in 1 .. n |-> IF i \in A THEN coins[i].v ELSE 0]
           one == [i \in 1 .. n |-> IF i = k THEN coins[k].v ELSE 0]
<1>1. n \in Nat /\ k \in 1 .. n
  BY DEF IsCoinList
<1>2. \A i \in 1 .. n :
        /\ pay(S)[i] \in Int /\ one[i] \in Int
        /\ pay(S \cup {k})[i] = pay(S)[i] + one[i]
  BY DEF IsCoinList
<1>3. /\ one[k] = coins[k].v /\ one[k] \in Int
      /\ \A i \in 1 .. n : i # k => one[i] = 0
  BY <1>1, <1>2
<1>4. /\ Value(coins, S) = Total(pay(S), n)
      /\ Value(coins, S \cup {k}) = Total(pay(S \cup {k}), n)
  BY DEF Value
<1> HIDE DEF pay, one, n
<1>5. Total(pay(S \cup {k}), n) = Total(pay(S), n) + Total(one, n)
  BY <1>1, <1>2, TotalAdd
<1>6. Total(one, n) = one[k]
  BY <1>1, <1>3, TotalSingle
<1> QED BY <1>3, <1>4, <1>5, <1>6

-----------------------------------------------------------------------------
(***************************************************************************)
(* Folds of finite sets.                                                   *)
(***************************************************************************)

\* A fold takes an element out of the set, folds the rest, and combines the two;
\* next[x][v] is what it makes of x and v.
IsFold(S, base, pick, next, g) ==
  \A s \in SUBSET S :
    g[s] = IF s = {} THEN base ELSE next[pick[s]][g[s \ {pick[s]}]]

\* There is such a function, by induction on the size of the sets.
LEMMA FoldExists ==
  ASSUME NEW S, IsFiniteSet(S), NEW V, NEW base \in V, NEW next \in [S -> [V -> V]],
         NEW pick, \A s \in SUBSET S : s # {} => pick[s] \in s
  PROVE  \E g \in [SUBSET S -> V] : IsFold(S, base, pick, next, g)
<1> DEFINE D(n) == {s \in SUBSET S : Cardinality(s) <= n}
           Eq(g, s) == g[s] = IF s = {} THEN base ELSE next[pick[s]][g[s \ {pick[s]}]]
           G == {n \in Nat : \E g \in [D(n) -> V] : \A s \in D(n) : Eq(g, s)}
<1>1. \A s \in SUBSET S :
        /\ IsFiniteSet(s) /\ Cardinality(s) \in Nat /\ Cardinality(s) <= Cardinality(S)
        /\ Cardinality(s) = 0 <=> s = {}
  BY FS_Subset, FS_CardinalityType, FS_EmptySet
<1>2. \A s \in SUBSET S : s # {} =>
        /\ pick[s] \in S /\ s \ {pick[s]} \in SUBSET S
        /\ Cardinality(s \ {pick[s]}) = Cardinality(s) - 1
  BY <1>1, FS_RemoveElement
<1>3. 0 \in G
  <2>1. D(0) = {{}}
    BY <1>1
  <2>2. /\ [s \in {{}} |-> base] \in [D(0) -> V]
        /\ \A s \in D(0) : Eq([t \in {{}} |-> base], s)
    BY <2>1
  <2> QED BY <2>2
<1>4. ASSUME NEW n \in Nat, n \in G PROVE n + 1 \in G
  <2>1. PICK g \in [D(n) -> V] : \A s \in D(n) : Eq(g, s)
    BY <1>4
  <2> DEFINE h == [s \in D(n + 1) |->
                     IF s = {} THEN base ELSE next[pick[s]][g[s \ {pick[s]}]]]
  <2>2. \A s \in D(n + 1) : s # {} => s \ {pick[s]} \in D(n) /\ pick[s] \in S
    BY <1>1, <1>2
  <2>3. h \in [D(n + 1) -> V]
    <3> SUFFICES ASSUME NEW s \in D(n + 1), s # {}
                 PROVE  next[pick[s]][g[s \ {pick[s]}]] \in V
      OBVIOUS
    <3>1. g[s \ {pick[s]}] \in V /\ next[pick[s]] \in [V -> V]
      BY <2>2
    <3> QED BY <3>1
  <2>4. \A s \in D(n) : s \in D(n + 1) /\ h[s] = g[s]
    <3> SUFFICES ASSUME NEW s \in D(n) PROVE s \in D(n + 1) /\ h[s] = g[s]
      OBVIOUS
    <3>1. s \in D(n + 1)
      BY <1>1
    <3>2. h[s] = IF s = {} THEN base ELSE next[pick[s]][g[s \ {pick[s]}]]
      BY <3>1
    <3> QED BY <2>1, <3>1, <3>2
  <2>5. \A s \in D(n + 1) : Eq(h, s)
    BY <2>2, <2>4
  <2>6. \E f \in [D(n + 1) -> V] : \A s \in D(n + 1) : Eq(f, s)
    <3> HIDE DEF D, h
    <3> QED BY <2>3, <2>5
  <2>7. n + 1 \in Nat
    OBVIOUS
  <2> HIDE DEF D, Eq
  <2> QED BY <2>6, <2>7, Zenon
<1> HIDE DEF G
<1>5. Cardinality(S) \in G
  <2>1. Nat \subseteq G
    BY <1>3, <1>4, Induction
  <2> QED BY <1>1, <2>1
<1>6. D(Cardinality(S)) = SUBSET S
  BY <1>1
<1> QED BY <1>5, <1>6 DEF G, IsFold

\* H holds the empty set, and a set when it holds what is left after an
\* element is taken out ...
FoldClosed(S, pick, H) ==
  /\ {} \in H
  /\ \A s \in SUBSET S : s # {} => pick[s] \in s
  /\ \A s \in SUBSET S : s # {} /\ s \ {pick[s]} \in H => s \in H

\* ... and so every subset.
LEMMA FoldInduction ==
  ASSUME NEW S, IsFiniteSet(S), NEW pick, NEW H, FoldClosed(S, pick, H)
  PROVE  SUBSET S \subseteq H
<1> DEFINE G == {n \in Nat : \A s \in SUBSET S : Cardinality(s) = n => s \in H}
<1>1. \A s \in SUBSET S :
        IsFiniteSet(s) /\ Cardinality(s) \in Nat /\ (Cardinality(s) = 0 <=> s = {})
  BY FS_Subset, FS_CardinalityType, FS_EmptySet
<1>2. 0 \in G
  BY <1>1 DEF FoldClosed
<1>3. ASSUME NEW n \in Nat, n \in G PROVE n + 1 \in G
  <2> SUFFICES ASSUME NEW s \in SUBSET S, Cardinality(s) = n + 1 PROVE s \in H
    OBVIOUS
  <2>1. s # {} /\ pick[s] \in s
    BY <1>1 DEF FoldClosed
  <2>2. s \ {pick[s]} \in SUBSET S /\ Cardinality(s \ {pick[s]}) = n
    <3>1. Cardinality(s \ {pick[s]}) = Cardinality(s) - 1
      BY <1>1, <2>1, FS_RemoveElement
    <3> QED BY <3>1
  <2>3. s \ {pick[s]} \in H
    BY <1>3, <2>2
  <2> QED BY <2>1, <2>3 DEF FoldClosed
<1> HIDE DEF G
<1>4. Nat \subseteq G
  BY <1>2, <1>3, Induction
<1> QED BY <1>1, <1>4 DEF G

-----------------------------------------------------------------------------
(***************************************************************************)
(* Quotients, remainders and powers.                                       *)
(***************************************************************************)

\* A product with a factor of at least one is no less than the other factor.
LEMMA ProductGrows ==
  ASSUME NEW a \in Nat, NEW w \in Int, w >= 1
  PROVE  a * w >= a
<1>1. a * (w - 1) >= 0
  OBVIOUS
<1>2. a * (w - 1) = a * w - a
  OBVIOUS
<1> QED BY <1>1, <1>2

\* Quotient and remainder.
LEMMA Divided ==
  ASSUME NEW a \in Int, NEW n \in Nat \ {0}
  PROVE  /\ a \div n \in Int /\ a % n \in 0 .. n - 1
         /\ n * (a \div n) + (a % n) = a
OBVIOUS

\* ... are determined by their equation.
LEMMA DividedOnly ==
  ASSUME NEW n \in Nat \ {0}, NEW q \in Int, NEW r \in 0 .. n - 1
  PROVE  (n * q + r) % n = r /\ (n * q + r) \div n = q
OBVIOUS

\* Numbers that differ by a multiple have the same remainder ...
LEMMA MultipleApart ==
  ASSUME NEW n \in Nat \ {0}, NEW a \in Int, NEW b \in Int, NEW q \in Int,
         a = b + n * q
  PROVE  a % n = b % n
<1> DEFINE w == b \div n
           u == b % n
           v == w + q
<1>1. w \in Int /\ u \in 0 .. n - 1 /\ n * w + u = b
  BY Divided
<1> HIDE DEF w, u
<1>2. v \in Int /\ a = n * v + u
  BY <1>1
<1> HIDE DEF v
<1>3. (n * v + u) % n = u
  BY <1>1, <1>2, DividedOnly
<1> QED BY <1>2, <1>3 DEF u

\* ... and only they.
LEMMA SameRemainder ==
  ASSUME NEW n \in Nat \ {0}, NEW a \in Int, NEW b \in Int, a % n = b % n
  PROVE  \E q \in Int : a = b + n * q
<1> DEFINE w == b \div n
           v == a \div n
           u == a % n
           q == v - w
<1>1. v \in Int /\ u \in 0 .. n - 1 /\ n * v + u = a
  BY Divided
<1>2. w \in Int /\ n * w + u = b
  BY Divided
<1> HIDE DEF w, v, u
<1>3. q \in Int /\ a = b + n * q
  BY <1>1, <1>2
<1> HIDE DEF q
<1> QED BY <1>3

LEMMA SmallRemainder ==
  ASSUME NEW n \in Nat \ {0}, NEW r \in 0 .. n - 1 PROVE r % n = r
OBVIOUS

\* Remainders may be taken of the terms of a sum ...
LEMMA RemainderOfSum ==
  ASSUME NEW n \in Nat \ {0}, NEW a \in Int, NEW b \in Int
  PROVE  ((a % n) + b) % n = (a + b) % n
<1> DEFINE u == a % n
           w == a \div n
           s == u + b
           t == a + b
<1>1. u \in Int /\ w \in Int /\ a = n * w + u
  BY Divided
<1> HIDE DEF u, w
<1>2. s \in Int /\ t \in Int /\ t = s + n * w
  BY <1>1
<1> HIDE DEF s, t
<1>3. t % n = s % n
  BY <1>1, <1>2, MultipleApart
<1> QED BY <1>3 DEF s, t, u

LEMMA SumRemainders ==
  ASSUME NEW n \in Nat \ {0}, NEW a \in Int, NEW b \in Int
  PROVE  /\ ((a % n) + b) % n = (a + b) % n
         /\ (a + (b % n)) % n = (a + b) % n
<1>1. ((a % n) + b) % n = (a + b) % n /\ ((b % n) + a) % n = (b + a) % n
  BY RemainderOfSum, Zenon
<1> DEFINE u == b % n
<1>2. u \in Int
  BY Divided
<1> HIDE DEF u
<1>3. u + a = a + u /\ a + b = b + a
  BY <1>2
<1>4. (u + a) % n = (a + u) % n /\ (b + a) % n = (a + b) % n
  BY <1>3, Zenon
<1> QED BY <1>1, <1>4, Zenon DEF u

\* ... and of the factors of a product.
LEMMA RemainderOfProduct ==
  ASSUME NEW n \in Nat \ {0}, NEW a \in Int, NEW b \in Int
  PROVE  ((a % n) * b) % n = (a * b) % n
<1>1. /\ a \div n \in Int /\ a % n \in Int /\ n * (a \div n) + (a % n) = a
  BY Divided
<1> DEFINE u == a % n
           w == a \div n
<1>2. u \in Int /\ w \in Int /\ a = n * w + u
  BY <1>1
<1> HIDE DEF u, w
<1> DEFINE s == a * b
           v == u * b
           q == w * b
<1>3. s \in Int /\ v \in Int /\ q \in Int /\ s = v + n * q
  BY <1>2
<1> HIDE DEF s, v, q
<1>4. s % n = v % n
  BY <1>3, MultipleApart
<1> QED BY <1>4 DEF s, v, u

\* A multiple that is smaller than what it is a multiple of is zero.
LEMMA SmallMultiple ==
  ASSUME NEW n \in Nat \ {0}, NEW w \in Int, n * w < n, n * w > -n
  PROVE  w = 0
<1>1. CASE w >= 1
  <2>1. n * w >= n
    BY <1>1, ProductGrows
  <2> QED BY <2>1
<1>2. CASE -w >= 1
  <2>1. n * (-w) >= n
    BY <1>2, ProductGrows
  <2>2. n * (-w) = -(n * w)
    OBVIOUS
  <2> QED BY <2>1, <2>2
<1> QED BY <1>1, <1>2

-----------------------------------------------------------------------------
(***************************************************************************)
(* Powers.                                                                 *)
(***************************************************************************)

IsPower(b, k, a) == a = [n \in 0 .. k |-> IF n = 0 THEN 1 ELSE b * a[n - 1]]

LEMMA PowersExist ==
  ASSUME NEW b \in Int
  PROVE  \A k \in Nat : \E a : IsPower(b, k, a)
<1> DEFINE S == {k \in Nat : \E a : IsPower(b, k, a)}
<1>1. 0 \in S
  <2>1. IsPower(b, 0, [n \in 0 .. 0 |-> 1])
    BY DEF IsPower
  <2> QED BY <2>1
<1>2. ASSUME NEW k \in Nat, k \in S PROVE k + 1 \in S
  <2>1. PICK a : IsPower(b, k, a)
    BY <1>2
  <2> DEFINE c == [n \in 0 .. k + 1 |-> IF n = k + 1 THEN b * a[k] ELSE a[n]]
  <2>2. IsPower(b, k + 1, c)
    BY <2>1 DEF IsPower
  <2> QED BY <2>2
<1> HIDE DEF S
<1>3. Nat \subseteq S
  BY <1>1, <1>2, Induction
<1> QED BY <1>3 DEF S

LEMMA PowerUnique ==
  ASSUME NEW b \in Int, NEW j \in Nat, NEW k \in Nat, j <= k,
         NEW a, NEW c, IsPower(b, j, a), IsPower(b, k, c)
  PROVE  \A n \in 0 .. j : a[n] = c[n]
<1> DEFINE S == {n \in Nat : n <= j => a[n] = c[n]}
<1>1. 0 \in S
  BY DEF IsPower
<1>2. ASSUME NEW n \in Nat, n \in S PROVE n + 1 \in S
  BY <1>2 DEF IsPower
<1> HIDE DEF S
<1>3. Nat \subseteq S
  BY <1>1, <1>2, Induction
<1> QED BY <1>3 DEF S

LEMMA PowerIs ==
  ASSUME NEW b \in Int, NEW k \in Nat
  PROVE  \E a : IsPower(b, k, a) /\ Power(b, k) = a[k]
<1>1. \E a : a = [n \in 0 .. k |-> IF n = 0 THEN 1 ELSE b * a[n - 1]]
  BY PowersExist DEF IsPower
<1> QED BY <1>1, Zenon DEF Power, IsPower

\* A power has a factor more than the one before.
LEMMA PowerStep ==
  ASSUME NEW b \in Int
  PROVE  /\ Power(b, 0) = 1
         /\ \A k \in Nat : Power(b, k + 1) = b * Power(b, k)
<1>1. Power(b, 0) = 1
  <2>1. PICK a : IsPower(b, 0, a) /\ Power(b, 0) = a[0]
    BY PowerIs
  <2> QED BY <2>1 DEF IsPower
<1>2. ASSUME NEW k \in Nat PROVE Power(b, k + 1) = b * Power(b, k)
  <2>1. PICK a : IsPower(b, k, a) /\ Power(b, k) = a[k]
    BY PowerIs
  <2>2. PICK c : IsPower(b, k + 1, c) /\ Power(b, k + 1) = c[k + 1]
    BY PowerIs
  <2>3. a[k] = c[k]
    BY <2>1, <2>2, PowerUnique
  <2>4. c[k + 1] = b * c[k]
    BY <2>2 DEF IsPower
  <2> QED BY <2>1, <2>2, <2>3, <2>4
<1> QED BY <1>1, <1>2

LEMMA PowerNat ==
  ASSUME NEW b \in Nat \ {0}
  PROVE  \A k \in Nat : Power(b, k) \in Nat \ {0}
<1> DEFINE S == {k \in Nat : Power(b, k) \in Nat \ {0}}
<1>1. 0 \in S
  BY PowerStep
<1>2. ASSUME NEW k \in Nat, k \in S PROVE k + 1 \in S
  <2> DEFINE p == Power(b, k)
             q == Power(b, k + 1)
  <2>1. p \in Nat \ {0} /\ q = b * p
    BY <1>2, PowerStep
  <2> HIDE DEF p, q
  <2>2. b * p >= b
    BY <2>1, ProductGrows
  <2>3. q \in Nat \ {0}
    BY <2>1, <2>2
  <2> QED BY <2>3 DEF q
<1> HIDE DEF S
<1>3. Nat \subseteq S
  BY <1>1, <1>2, Induction
<1> QED BY <1>3 DEF S

\* The powers of two grow, faster than their exponents.
LEMMA PowersOfTwo ==
  /\ \A k \in Nat : Power(2, k) \in Nat /\ k < Power(2, k) /\ Power(2, k + 1) = 2 * Power(2, k)
  /\ \A j, k \in Nat : j <= k => Power(2, j) <= Power(2, k)
<1>0. \A k \in Nat : Power(2, k) \in Nat \ {0} /\ Power(2, k + 1) = 2 * Power(2, k)
  BY PowerNat, PowerStep
<1> DEFINE S == {k \in Nat : k < Power(2, k)}
<1>1. 0 \in S
  BY <1>0
<1>2. ASSUME NEW k \in Nat, k \in S PROVE k + 1 \in S
  BY <1>0, <1>2
<1> HIDE DEF S
<1>3. Nat \subseteq S
  BY <1>1, <1>2, Induction
<1>4. ASSUME NEW j \in Nat PROVE \A k \in Nat : j <= k => Power(2, j) <= Power(2, k)
  <2> DEFINE T == {k \in Nat : j <= k => Power(2, j) <= Power(2, k)}
  <2>1. 0 \in T
    BY <1>0
  <2>2. ASSUME NEW k \in Nat, k \in T PROVE k + 1 \in T
    <3>1. CASE j <= k
      BY <1>0, <2>2, <3>1
    <3>2. CASE j = k + 1
      BY <1>0, <3>2
    <3>3. CASE j > k + 1
      BY <3>3
    <3> QED BY <3>1, <3>2, <3>3
  <2> HIDE DEF T
  <2>3. Nat \subseteq T
    BY <2>1, <2>2, Induction
  <2> QED BY <2>3 DEF T
<1> QED BY <1>0, <1>3, <1>4 DEF S

-----------------------------------------------------------------------------
(***************************************************************************)
(* Division by a product, and powers of sums and products.                 *)
(***************************************************************************)

LEMMA NatProduct ==
  ASSUME NEW a \in Nat, NEW b \in Nat
  PROVE  a * b \in Nat
OBVIOUS

LEMMA PositiveProduct ==
  ASSUME NEW a \in Nat \ {0}, NEW b \in Nat \ {0}
  PROVE  a * b \in Nat \ {0}
<1>1. a * b >= a
  BY ProductGrows
<1> QED BY <1>1

LEMMA DividedNat ==
  ASSUME NEW a \in Nat, NEW n \in Nat \ {0}
  PROVE  /\ a \div n \in Nat /\ a % n \in 0 .. n - 1
         /\ n * (a \div n) + (a % n) = a
<1>1. a \div n \in Int /\ a % n \in 0 .. n - 1 /\ n * (a \div n) + (a % n) = a
  BY Divided
<1> DEFINE q == a \div n
           r == a % n
<1> HIDE DEF q, r
<1>2. q \in Int /\ r \in 0 .. n - 1 /\ n * q + r = a
  BY <1>1 DEF q, r
<1>3. q >= 0
  <2>1. SUFFICES ASSUME -q >= 1 PROVE FALSE
    BY <1>2
  <2>2. n * (-q) >= n
    BY <1>2, <2>1, ProductGrows
  <2>3. n * (-q) = -(n * q)
    BY <1>2
  <2> DEFINE z == n * q
  <2>4. z \in Int /\ -z >= n /\ z + r = a
    BY <1>2, <2>2, <2>3
  <2> HIDE DEF z
  <2> QED BY <1>2, <2>4
<1> QED BY <1>2, <1>3 DEF q, r

\* Dividing by b and then by q is dividing by b * q.
LEMMA TwiceDivided ==
  ASSUME NEW n \in Nat, NEW b \in Nat \ {0}, NEW q \in Nat \ {0}
  PROVE  /\ n \div (b * q) = (n \div b) \div q
         /\ n % (b * q) = b * ((n \div b) % q) + (n % b)
<1> DEFINE a == n \div b
           r == n % b
           c == a \div q
           d == a % q
           p == b * q
           e == b * d
<1>1. a \in Nat /\ r \in 0 .. b - 1 /\ b * a + r = n
  BY DividedNat
<1> HIDE DEF a, r
<1>2. c \in Nat /\ d \in 0 .. q - 1 /\ q * c + d = a
  BY <1>1, DividedNat
<1> HIDE DEF c, d
<1>3. p \in Nat \ {0} /\ e \in Nat
  BY <1>2, PositiveProduct, NatProduct
<1>4. n = p * c + (e + r)
  <2>1. b * a = b * (q * c + d)
    BY <1>2
  <2>2. b * (q * c + d) = b * (q * c) + b * d
    BY <1>2, NatProduct
  <2>3. b * (q * c) = (b * q) * c
    BY <1>2
  <2> DEFINE u == b * a
             v == p * c
  <2>4. u = v + e /\ v \in Nat /\ u \in Nat
    BY <1>1, <1>2, <1>3, <2>1, <2>2, <2>3, NatProduct
  <2>5. u + r = n
    BY <1>1
  <2> HIDE DEF u, v, e
  <2>6. n = v + (e + r)
    BY <1>1, <1>3, <2>4, <2>5
  <2> QED BY <2>6 DEF v
<1>5. e + r \in 0 .. p - 1
  <2>1. q - 1 - d \in Nat
    BY <1>2
  <2>2. b * (q - 1 - d) \in Nat
    BY <2>1, NatProduct
  <2>3. b * (q - 1 - d) = b * q - b - b * d
    BY <1>2
  <2> HIDE DEF p, e
  <2>4. b * (q - 1 - d) = p - b - e
    BY <2>3 DEF p, e
  <2>5. p - b - e \in Nat
    BY <2>2, <2>4
  <2> QED BY <1>1, <1>3, <2>5
<1>6. (p * c + (e + r)) % p = e + r /\ (p * c + (e + r)) \div p = c
  <2> DEFINE x == e + r
  <2> HIDE DEF p, e
  <2>1. x \in 0 .. p - 1 /\ c \in Int
    BY <1>2, <1>5
  <2> HIDE DEF x
  <2>2. (p * c + x) % p = x /\ (p * c + x) \div p = c
    BY <1>3, <2>1, DividedOnly
  <2> QED BY <2>2 DEF x
<1> QED BY <1>4, <1>6 DEF a, r, c, d

LEMMA PowerSum ==
  ASSUME NEW b \in Nat \ {0}, NEW m \in Nat
  PROVE  \A n \in Nat : Power(b, m + n) = Power(b, m) * Power(b, n)
<1> DEFINE S == {n \in Nat : Power(b, m + n) = Power(b, m) * Power(b, n)}
<1>0. Power(b, m) \in Nat
  BY PowerNat
<1>1. 0 \in S
  BY <1>0, PowerStep
<1>2. ASSUME NEW n \in Nat, n \in S PROVE n + 1 \in S
  <2> DEFINE p == Power(b, m)
             q == Power(b, n)
             s == Power(b, m + n)
  <2>1. s = p * q /\ p \in Nat /\ q \in Nat
    BY <1>2, PowerNat
  <2>2. m + n \in Nat /\ (m + n) + 1 = m + (n + 1)
    OBVIOUS
  <2>3. Power(b, (m + n) + 1) = b * s /\ Power(b, n + 1) = b * q
    BY <2>2, PowerStep
  <2> HIDE DEF p, q, s
  <2>4. b * (p * q) = p * (b * q)
    BY <2>1
  <2>5. Power(b, m + (n + 1)) = p * Power(b, n + 1)
    BY <2>1, <2>2, <2>3, <2>4
  <2> QED BY <2>5 DEF p
<1> HIDE DEF S
<1>3. Nat \subseteq S
  BY <1>1, <1>2, Induction
<1> QED BY <1>3 DEF S

LEMMA PowerProduct ==
  ASSUME NEW b \in Nat \ {0}, NEW m \in Nat
  PROVE  \A n \in Nat : Power(Power(b, m), n) = Power(b, m * n)
<1> DEFINE c == Power(b, m)
           S == {n \in Nat : Power(c, n) = Power(b, m * n)}
<1>0. c \in Nat \ {0}
  BY PowerNat
<1>1. 0 \in S
  <2>1. m * 0 = 0
    OBVIOUS
  <2> HIDE DEF c
  <2> QED BY <1>0, <2>1, PowerStep
<1>2. ASSUME NEW n \in Nat, n \in S PROVE n + 1 \in S
  <2>1. Power(c, n + 1) = c * Power(c, n) /\ Power(c, n) = Power(b, m * n)
    <3> HIDE DEF c
    <3> QED BY <1>0, <1>2, PowerStep
  <2> DEFINE k == m * n
  <2>2. k \in Nat /\ m * (n + 1) = m + k
    BY NatProduct
  <2> HIDE DEF k
  <2>3. Power(b, m + k) = c * Power(b, k)
    BY <2>2, PowerSum
  <2>4. Power(c, n + 1) = Power(b, m * (n + 1))
    BY <2>1, <2>2, <2>3 DEF k
  <2> HIDE DEF c
  <2> QED BY <2>4
<1> HIDE DEF S
<1>3. Nat \subseteq S
  BY <1>1, <1>2, Induction
<1> QED BY <1>3 DEF S

-----------------------------------------------------------------------------
(***************************************************************************)
(* The number of a list of digits.                                         *)
(***************************************************************************)

IsHorner(b, s, m, v) == v = [n \in 0 .. m |-> IF n = 0 THEN 0 ELSE b * v[n - 1] + s[n]]

LEMMA HornerExists ==
  ASSUME NEW b, NEW s
  PROVE  \A m \in Nat : \E v : IsHorner(b, s, m, v)
<1> DEFINE S == {m \in Nat : \E v : IsHorner(b, s, m, v)}
<1>1. 0 \in S
  <2>1. IsHorner(b, s, 0, [n \in 0 .. 0 |-> 0])
    BY DEF IsHorner
  <2> QED BY <2>1
<1>2. ASSUME NEW m \in Nat, m \in S PROVE m + 1 \in S
  <2>1. PICK v : IsHorner(b, s, m, v)
    BY <1>2
  <2> DEFINE c == [n \in 0 .. m + 1 |-> IF n = m + 1 THEN b * v[m] + s[m + 1] ELSE v[n]]
  <2>2. IsHorner(b, s, m + 1, c)
    BY <2>1 DEF IsHorner
  <2> QED BY <2>2
<1> HIDE DEF S
<1>3. Nat \subseteq S
  BY <1>1, <1>2, Induction
<1> QED BY <1>3 DEF S

LEMMA HornerUnique ==
  ASSUME NEW b, NEW s, NEW j \in Nat, NEW m \in Nat, j <= m,
         NEW v, NEW w, IsHorner(b, s, j, v), IsHorner(b, s, m, w)
  PROVE  \A n \in 0 .. j : v[n] = w[n]
<1> DEFINE S == {n \in Nat : n <= j => v[n] = w[n]}
<1>1. 0 \in S
  BY DEF IsHorner
<1>2. ASSUME NEW n \in Nat, n \in S PROVE n + 1 \in S
  BY <1>2 DEF IsHorner
<1> HIDE DEF S
<1>3. Nat \subseteq S
  BY <1>1, <1>2, Induction
<1> QED BY <1>3 DEF S

LEMMA HornerIs ==
  ASSUME NEW b, NEW s, NEW m \in Nat
  PROVE  \E v : IsHorner(b, s, m, v) /\ Horner(b, s, m) = v[m]
<1>1. \E v : v = [n \in 0 .. m |-> IF n = 0 THEN 0 ELSE b * v[n - 1] + s[n]]
  <2>1. PICK v : IsHorner(b, s, m, v)
    BY HornerExists
  <2> QED BY <2>1, Zenon DEF IsHorner
<1> QED BY <1>1, Zenon DEF Horner, IsHorner

\* A digit more.
LEMMA HornerStep ==
  ASSUME NEW b, NEW s
  PROVE  /\ Horner(b, s, 0) = 0
         /\ \A n \in Nat : Horner(b, s, n + 1) = b * Horner(b, s, n) + s[n + 1]
<1>1. Horner(b, s, 0) = 0
  <2>1. PICK v : IsHorner(b, s, 0, v) /\ Horner(b, s, 0) = v[0]
    BY HornerIs
  <2> QED BY <2>1 DEF IsHorner
<1>2. ASSUME NEW n \in Nat PROVE Horner(b, s, n + 1) = b * Horner(b, s, n) + s[n + 1]
  <2>1. PICK v : IsHorner(b, s, n, v) /\ Horner(b, s, n) = v[n]
    BY HornerIs
  <2>2. PICK w : IsHorner(b, s, n + 1, w) /\ Horner(b, s, n + 1) = w[n + 1]
    BY HornerIs
  <2>3. v[n] = w[n]
    BY <2>1, <2>2, HornerUnique
  <2>4. w[n + 1] = b * w[n] + s[n + 1]
    BY <2>2 DEF IsHorner
  <2> QED BY <2>1, <2>2, <2>3, <2>4
<1> QED BY <1>1, <1>2

DigitList(b, s, m) == \A i \in 1 .. m : s[i] \in 0 .. b - 1

\* A number of n digits is below the n-th power of the base.
LEMMA HornerRange ==
  ASSUME NEW b \in Nat \ {0}, NEW s, NEW m \in Nat, DigitList(b, s, m)
  PROVE  \A n \in 0 .. m : Horner(b, s, n) \in Nat /\ Horner(b, s, n) < Power(b, n)
<1> DEFINE S == {n \in Nat : n <= m => Horner(b, s, n) \in Nat /\ Horner(b, s, n) < Power(b, n)}
<1>1. 0 \in S
  BY HornerStep, PowerStep
<1>2. ASSUME NEW n \in Nat, n \in S PROVE n + 1 \in S
  <2> SUFFICES ASSUME n + 1 <= m
               PROVE  Horner(b, s, n + 1) \in Nat /\ Horner(b, s, n + 1) < Power(b, n + 1)
    OBVIOUS
  <2> DEFINE h == Horner(b, s, n)
             p == Power(b, n)
             d == s[n + 1]
  <2>1. h \in Nat /\ h < p /\ p \in Nat
    BY <1>2, PowerNat
  <2>2. Horner(b, s, n + 1) = b * h + d /\ Power(b, n + 1) = b * p
    <3>1. Horner(b, s, n + 1) = b * h + d
      BY HornerStep
    <3>2. Power(b, n + 1) = b * p
      BY PowerStep
    <3> QED BY <3>1, <3>2
  <2>3. d \in 0 .. b - 1
    BY DEF DigitList
  <2> HIDE DEF h, p, d
  <2>4. p - 1 - h \in Nat
    BY <2>1
  <2>5. b * (p - 1 - h) \in Nat /\ b * h \in Nat
    BY <2>1, <2>4, NatProduct
  <2>6. b * (p - 1 - h) = b * p - b - b * h
    BY <2>1
  <2> DEFINE u == b * h
             v == b * p
  <2>7. v - b - u \in Nat /\ u \in Nat /\ v \in Nat
    BY <2>1, <2>5, <2>6, NatProduct
  <2> HIDE DEF u, v
  <2>8. u + d \in Nat /\ u + d < v
    BY <2>3, <2>7
  <2> QED BY <2>2, <2>8 DEF u, v
<1> HIDE DEF S
<1>3. Nat \subseteq S
  BY <1>1, <1>2, Induction
<1> QED BY <1>3 DEF S

\* Its last digit and the digits before.
LEMMA HornerLast ==
  ASSUME NEW b \in Nat \ {0}, NEW s, NEW m \in Nat, DigitList(b, s, m), NEW n \in Nat, n < m
  PROVE  /\ Horner(b, s, n + 1) \div b = Horner(b, s, n)
         /\ Horner(b, s, n + 1) % b = s[n + 1]
<1> DEFINE h == Horner(b, s, n)
           d == s[n + 1]
<1>1. h \in Nat /\ h \in Int
  BY HornerRange
<1>2. d \in 0 .. b - 1
  BY DEF DigitList
<1>3. Horner(b, s, n + 1) = b * h + d
  BY HornerStep
<1> HIDE DEF h, d
<1>4. (b * h + d) % b = d /\ (b * h + d) \div b = h
  BY <1>1, <1>2, DividedOnly
<1> QED BY <1>3, <1>4 DEF h, d

\* Its first m - k digits.
LEMMA HornerPrefix ==
  ASSUME NEW b \in Nat \ {0}, NEW s, NEW m \in Nat, DigitList(b, s, m)
  PROVE  \A k \in 0 .. m : Horner(b, s, m) \div Power(b, k) = Horner(b, s, m - k)
<1> DEFINE N == Horner(b, s, m)
           S == {k \in Nat : k <= m => N \div Power(b, k) = Horner(b, s, m - k)}
<1>0. N \in Nat
  BY HornerRange
<1>1. 0 \in S
  <2>1. N \div 1 = N
    BY <1>0
  <2>2. Power(b, 0) = 1 /\ m - 0 = m
    BY PowerStep
  <2>3. N \div Power(b, 0) = Horner(b, s, m - 0)
    BY <2>1, <2>2
  <2> QED BY <2>3
<1>2. ASSUME NEW k \in Nat, k \in S PROVE k + 1 \in S
  <2> SUFFICES ASSUME k + 1 <= m PROVE N \div Power(b, k + 1) = Horner(b, s, m - (k + 1))
    OBVIOUS
  <2> DEFINE p == Power(b, k)
             n == m - (k + 1)
  <2>1. N \div p = Horner(b, s, m - k)
    BY <1>2
  <2>2. n \in Nat /\ n < m /\ n + 1 = m - k
    OBVIOUS
  <2>3. p \in Nat \ {0} /\ Power(b, k + 1) = b * p
    <3>1. p \in Nat \ {0}
      BY PowerNat
    <3>2. Power(b, k + 1) = b * p
      BY PowerStep
    <3> QED BY <3>1, <3>2
  <2> HIDE DEF N, p, n
  <2>4. b * p = p * b
    BY <2>3
  <2>5. N \div (p * b) = (N \div p) \div b
    BY <1>0, <2>3, TwiceDivided
  <2>6. Horner(b, s, n + 1) \div b = Horner(b, s, n)
    BY <2>2, HornerLast
  <2> QED BY <2>1, <2>2, <2>3, <2>4, <2>5, <2>6, Zenon DEF n
<1> HIDE DEF S
<1>3. Nat \subseteq S
  BY <1>1, <1>2, Induction
<1> QED BY <1>3 DEF S

\* Each of its digits.
LEMMA HornerDigit ==
  ASSUME NEW b \in Nat \ {0}, NEW s, NEW m \in Nat, DigitList(b, s, m), NEW i \in 1 .. m
  PROVE  (Horner(b, s, m) \div Power(b, m - i)) % b = s[i]
<1> DEFINE n == i - 1
           k == m - i
<1>1. n \in Nat /\ n < m /\ n + 1 = i /\ k \in 0 .. m /\ m - k = i
  OBVIOUS
<1> HIDE DEF n, k
<1>2. Horner(b, s, m) \div Power(b, k) = Horner(b, s, m - k)
  BY <1>1, HornerPrefix
<1>3. Horner(b, s, n + 1) % b = s[n + 1]
  BY <1>1, HornerLast
<1> QED BY <1>1, <1>2, <1>3 DEF k

\* A number and a length determine the digits.
LEMMA HornerInjective ==
  ASSUME NEW b \in Nat \ {0}, NEW s, NEW t, NEW m \in Nat, DigitList(b, s, m), DigitList(b, t, m),
         Horner(b, s, m) = Horner(b, t, m)
  PROVE  \A i \in 1 .. m : s[i] = t[i]
<1> SUFFICES ASSUME NEW i \in 1 .. m PROVE s[i] = t[i]
  OBVIOUS
<1>1. (Horner(b, s, m) \div Power(b, m - i)) % b = s[i]
  BY HornerDigit
<1>2. (Horner(b, t, m) \div Power(b, m - i)) % b = t[i]
  BY HornerDigit
<1> QED BY <1>1, <1>2

LEMMA HornerSame ==
  ASSUME NEW b, NEW s, NEW t, NEW m \in Nat, \A i \in 1 .. m : s[i] = t[i]
  PROVE  Horner(b, s, m) = Horner(b, t, m)
<1> DEFINE S == {n \in Nat : n <= m => Horner(b, s, n) = Horner(b, t, n)}
<1>1. 0 \in S
  BY HornerStep
<1>2. ASSUME NEW n \in Nat, n \in S PROVE n + 1 \in S
  <2>1. /\ Horner(b, s, n + 1) = b * Horner(b, s, n) + s[n + 1]
        /\ Horner(b, t, n + 1) = b * Horner(b, t, n) + t[n + 1]
    BY HornerStep
  <2> QED BY <1>2, <2>1
<1> HIDE DEF S
<1>3. Nat \subseteq S
  BY <1>1, <1>2, Induction
<1> QED BY <1>3 DEF S

\* The digits of a number make its remainder.
DigitsFrom(b, s, w, N) == \A i \in 1 .. w : s[i] = (N \div Power(b, w - i)) % b

LEMMA DigitsMake ==
  ASSUME NEW b \in Nat \ {0}, NEW s, NEW w \in Nat, NEW N \in Nat, DigitsFrom(b, s, w, N)
  PROVE  /\ DigitList(b, s, w)
         /\ Horner(b, s, w) = N % Power(b, w)
<1> DEFINE part(n) == (N \div Power(b, w - n)) % Power(b, n)
           S == {n \in Nat : n <= w => Horner(b, s, n) = part(n)}
<1>1. 0 \in S
  <2>1. Power(b, 0) = 1 /\ Horner(b, s, 0) = 0 /\ w - 0 = w
    BY HornerStep, PowerStep
  <2>2. Power(b, w) \in Nat \ {0}
    BY PowerNat
  <2> DEFINE p == Power(b, w)
  <2> HIDE DEF p
  <2>3. N \div p \in Nat
    BY <2>2, DividedNat DEF p
  <2>4. (N \div p) % 1 = 0
    BY <2>3
  <2>5. part(0) = 0
    BY <2>1, <2>4 DEF p
  <2> QED BY <2>1, <2>5
<1>2. ASSUME NEW n \in Nat, n \in S PROVE n + 1 \in S
  <2> SUFFICES ASSUME n + 1 <= w PROVE Horner(b, s, n + 1) = part(n + 1)
    OBVIOUS
  <2> DEFINE k == w - (n + 1)
             p == Power(b, k)
             q == Power(b, n)
             M == N \div p
  <2>1. k \in Nat /\ w - n = k + 1
    OBVIOUS
  <2>2. Horner(b, s, n) = part(n)
    BY <1>2
  <2>3. p \in Nat \ {0} /\ q \in Nat \ {0} /\ Power(b, k + 1) = b * p /\ Power(b, n + 1) = b * q
    <3>1. p \in Nat \ {0} /\ q \in Nat \ {0}
      BY <2>1, PowerNat
    <3>2. Power(b, k + 1) = b * p
      BY <2>1, PowerStep
    <3>3. Power(b, n + 1) = b * q
      BY PowerStep
    <3> QED BY <3>1, <3>2, <3>3
  <2>4. s[n + 1] = (N \div Power(b, w - (n + 1))) % b
    BY DEF DigitsFrom
  <2>5. s[n + 1] = M % b
    BY <2>4
  <2>6. Horner(b, s, n + 1) = b * Horner(b, s, n) + s[n + 1]
    BY HornerStep
  <2>7. part(n + 1) = M % (b * q)
    BY <2>3
  <2>8. part(n) = (N \div (b * p)) % q
    BY <2>1, <2>3
  <2> HIDE DEF part, k, p, q
  <2>9. b * p = p * b /\ N \div (p * b) = (N \div p) \div b
    <3>1. N \div (p * b) = (N \div p) \div b
      BY <2>3, TwiceDivided
    <3>2. b * p = p * b
      BY <2>3
    <3> QED BY <3>1, <3>2
  <2>10. part(n) = (M \div b) % q
    BY <2>8, <2>9, Zenon
  <2>11. M \in Nat
    BY <2>3, DividedNat
  <2> HIDE DEF M
  <2>12. M % (b * q) = b * ((M \div b) % q) + (M % b)
    BY <2>3, <2>11, TwiceDivided
  <2> QED BY <2>2, <2>5, <2>6, <2>7, <2>10, <2>12, Zenon
<1> HIDE DEF S
<1>3. Nat \subseteq S
  BY <1>1, <1>2, Induction
<1>4. Horner(b, s, w) = part(w)
  BY <1>3 DEF S
<1>5. Power(b, 0) = 1 /\ w - w = 0 /\ N \div 1 = N
  BY PowerStep
<1>6. part(w) = N % Power(b, w)
  BY <1>5
<1>7. ASSUME NEW i \in 1 .. w PROVE s[i] \in 0 .. b - 1
  <2> DEFINE p == Power(b, w - i)
  <2>1. p \in Nat \ {0}
    BY PowerNat
  <2>2. s[i] = (N \div p) % b
    BY DEF DigitsFrom
  <2> HIDE DEF p
  <2>3. N \div p \in Nat
    BY <2>1, DividedNat
  <2> DEFINE M == N \div p
  <2> HIDE DEF M
  <2>4. M % b \in 0 .. b - 1
    BY <2>3, DividedNat DEF M
  <2> QED BY <2>2, <2>4 DEF M
<1> QED BY <1>4, <1>6, <1>7 DEF DigitList

\* The first digit in which two numbers differ decides which is smaller.
FirstBelow(s, t, i) == s[i] < t[i] /\ \A j \in 1 .. i - 1 : s[j] = t[j]

LEMMA HornerLess ==
  ASSUME NEW b \in Nat \ {0}, NEW s, NEW t, NEW m \in Nat, DigitList(b, s, m), DigitList(b, t, m),
         NEW i \in 1 .. m, FirstBelow(s, t, i)
  PROVE  Horner(b, s, m) < Horner(b, t, m)
<1> DEFINE S == {n \in Nat : n >= i /\ n <= m => Horner(b, s, n) < Horner(b, t, n)}
<1>0. ASSUME NEW n \in Nat, n + 1 <= m
      PROVE  /\ Horner(b, s, n) \in Nat /\ Horner(b, t, n) \in Nat
             /\ s[n + 1] \in 0 .. b - 1 /\ t[n + 1] \in 0 .. b - 1
             /\ Horner(b, s, n + 1) = b * Horner(b, s, n) + s[n + 1]
             /\ Horner(b, t, n + 1) = b * Horner(b, t, n) + t[n + 1]
  <2>1. n \in 0 .. m /\ n + 1 \in 1 .. m
    BY <1>0
  <2>2. Horner(b, s, n) \in Nat /\ Horner(b, t, n) \in Nat
    BY <2>1, HornerRange
  <2>3. s[n + 1] \in 0 .. b - 1 /\ t[n + 1] \in 0 .. b - 1
    BY <2>1 DEF DigitList
  <2> QED BY <2>2, <2>3, HornerStep
<1>1. 0 \in S
  OBVIOUS
<1>2. ASSUME NEW n \in Nat, n \in S PROVE n + 1 \in S
  <2> SUFFICES ASSUME n + 1 >= i, n + 1 <= m PROVE Horner(b, s, n + 1) < Horner(b, t, n + 1)
    OBVIOUS
  <2> DEFINE h == Horner(b, s, n)
             g == Horner(b, t, n)
             d == s[n + 1]
             e == t[n + 1]
             u == b * h
             v == b * g
  <2>1. /\ h \in Nat /\ g \in Nat /\ d \in 0 .. b - 1 /\ e \in 0 .. b - 1
        /\ Horner(b, s, n + 1) = u + d /\ Horner(b, t, n + 1) = v + e
    BY <1>0
  <2>2. CASE n + 1 = i
    <3>1. \A j \in 1 .. n : s[j] = t[j]
      BY <2>2 DEF FirstBelow
    <3>2. h = g
      BY <3>1, HornerSame
    <3>3. d < e
      BY <2>2 DEF FirstBelow
    <3>4. u = v /\ u \in Nat
      BY <2>1, <3>2, NatProduct
    <3> HIDE DEF u, v, d, e
    <3> QED BY <2>1, <3>3, <3>4
  <2>3. CASE n >= i
    <3>1. h < g
      BY <1>2, <2>3
    <3> HIDE DEF h, g, d, e
    <3>2. g - h - 1 \in Nat
      BY <2>1, <3>1
    <3>3. b * (g - h - 1) \in Nat /\ b * (g - h - 1) = v - u - b
      BY <2>1, <3>2, NatProduct
    <3>4. v - u - b \in Nat /\ u \in Nat /\ v \in Nat
      BY <2>1, <3>3, NatProduct
    <3> HIDE DEF u, v
    <3> QED BY <2>1, <3>4
  <2> QED BY <2>2, <2>3
<1> HIDE DEF S
<1>3. Nat \subseteq S
  BY <1>1, <1>2, Induction
<1>4. m >= i /\ m <= m
  OBVIOUS
<1> QED BY <1>3, <1>4 DEF S

\* Digits in two parts.
LastPart(s, m, k, t) == \A i \in 1 .. k : t[i] = s[m + i]

LEMMA HornerParts ==
  ASSUME NEW b \in Nat \ {0}, NEW s, NEW m \in Nat, NEW k \in Nat, DigitList(b, s, m + k),
         NEW t, LastPart(s, m, k, t)
  PROVE  /\ DigitList(b, t, k)
         /\ Horner(b, s, m + k) = Horner(b, s, m) * Power(b, k) + Horner(b, t, k)
<1> DEFINE H == Horner(b, s, m)
           S == {n \in Nat : n <= k =>
                   Horner(b, s, m + n) = H * Power(b, n) + Horner(b, t, n)}
<1>0. H \in Nat
  BY HornerRange
<1>5. \A i \in 1 .. k : t[i] = s[m + i]
  BY DEF LastPart
<1>1. DigitList(b, t, k)
  BY <1>5 DEF DigitList
<1>2. 0 \in S
  <2>1. m + 0 = m /\ Power(b, 0) = 1 /\ Horner(b, t, 0) = 0
    BY PowerStep, HornerStep
  <2>2. H * 1 + 0 = H
    BY <1>0
  <2>3. Horner(b, s, m + 0) = H * Power(b, 0) + Horner(b, t, 0)
    BY <2>1, <2>2
  <2> QED BY <2>3
<1>3. ASSUME NEW n \in Nat, n \in S PROVE n + 1 \in S
  <2> SUFFICES ASSUME n + 1 <= k
               PROVE  Horner(b, s, m + (n + 1)) = H * Power(b, n + 1) + Horner(b, t, n + 1)
    OBVIOUS
  <2> DEFINE g == Horner(b, s, m + n)
             p == Power(b, n)
             h == Horner(b, t, n)
             d == t[n + 1]
  <2>1. g = H * p + h
    BY <1>3
  <2>2. p \in Nat /\ Power(b, n + 1) = b * p
    <3>1. p \in Nat
      BY PowerNat
    <3>2. Power(b, n + 1) = b * p
      BY PowerStep
    <3> QED BY <3>1, <3>2
  <2>3. h \in Nat
    BY <1>1, HornerRange
  <2>4. m + (n + 1) = (m + n) + 1 /\ m + n \in Nat
    OBVIOUS
  <2>5. Horner(b, s, (m + n) + 1) = b * g + s[(m + n) + 1]
    <3> DEFINE j == m + n
    <3>1. j \in Nat
      OBVIOUS
    <3> HIDE DEF j
    <3>2. Horner(b, s, j + 1) = b * Horner(b, s, j) + s[j + 1]
      BY <3>1, HornerStep
    <3> QED BY <3>2 DEF j
  <2>6. s[(m + n) + 1] = d
    BY <1>5, <2>4
  <2>7. Horner(b, t, n + 1) = b * h + d
    BY HornerStep
  <2>8. d \in Nat
    BY <1>1 DEF DigitList
  <2> HIDE DEF g, p, h, d, H
  <2>9. b * (H * p + h) = H * (b * p) + b * h
    BY <1>0, <2>2, <2>3
  <2> DEFINE u == H * (b * p)
             v == b * h
  <2>10. u \in Nat /\ v \in Nat
    BY <1>0, <2>2, <2>3, NatProduct
  <2>11. (u + v) + d = u + (v + d)
    <3> HIDE DEF u, v
    <3> QED BY <2>8, <2>10
  <2> QED BY <2>1, <2>2, <2>4, <2>5, <2>6, <2>7, <2>9, <2>11, Zenon
<1> HIDE DEF S
<1>4. Nat \subseteq S
  BY <1>2, <1>3, Induction
<1> QED BY <1>1, <1>4 DEF S

=============================================================================
