--------------------------- MODULE EncodingProofs ---------------------------
(***************************************************************************)
(* Proofs about TagHashing, over every field and radix, and about          *)
(* AddressEncoding, for every size of bytes and symbols, digest and set of *)
(* group elements.                                                         *)
(***************************************************************************)
EXTENDS TagHashing, AddressEncoding, AmountsProofs, SequenceTheorems

-----------------------------------------------------------------------------
(***************************************************************************)
(* LINKING TAGS.                                                           *)
(***************************************************************************)

-----------------------------------------------------------------------------
(***************************************************************************)
(* The digits of a coordinate, and the field.                              *)
(***************************************************************************)

LEMMA FieldFacts ==
  /\ Radix \in 2 .. 16 /\ Radix \in Nat \ {0} /\ Width \in Nat \ {0} /\ Letters \in 1 .. Radix
  /\ Prime \in Nat \ {0} /\ Prime >= 3 /\ Prime % 2 = 1 /\ MaxBatch \in Nat
  /\ Power(Radix, Width) \in Nat \ {0} /\ Power(Radix, Width - 1) \in Nat \ {0}
  /\ Power(Radix, Width - 1) <= Prime /\ Prime < Power(Radix, Width)
  /\ \A x \in Field : (x * x * x + 7) % Prime # 0
<1>1. /\ Radix \in 2 .. 16 /\ Width \in Nat \ {0} /\ Letters \in 1 .. Radix /\ MaxBatch \in Nat
      /\ Prime \in Power(Radix, Width - 1) .. Power(Radix, Width) - 1
      /\ Prime >= 3 /\ Prime % 2 = 1
  BY FieldAssumption
<1>2. Radix \in Nat \ {0} /\ Width - 1 \in Nat /\ Width \in Nat
  BY <1>1
<1>3. Power(Radix, Width) \in Nat \ {0} /\ Power(Radix, Width - 1) \in Nat \ {0}
  BY <1>2, PowerNat
<1>4. Prime \in Nat \ {0} /\ Power(Radix, Width - 1) <= Prime /\ Prime < Power(Radix, Width)
  BY <1>1, <1>3
<1>5. \A x \in Field : (x * x * x + 7) % Prime # 0
  BY FieldAssumption, Zenon DEF Field
<1> QED BY <1>1, <1>2, <1>3, <1>4, <1>5

LEMMA DigitsOfFacts ==
  ASSUME NEW n \in Nat
  PROVE  /\ DigitsOf(n) \in Seq(Nat) /\ Len(DigitsOf(n)) = Width
         /\ DigitList(Radix, DigitsOf(n), Width)
         /\ \A i \in 1 .. Width : DigitsOf(n)[i] \in Digits
         /\ n < Power(Radix, Width) => Horner(Radix, DigitsOf(n), Width) = n
<1> DEFINE s == DigitsOf(n)
<1>1. Radix \in Nat \ {0} /\ Width \in Nat /\ Power(Radix, Width) \in Nat \ {0}
  BY FieldFacts
<1>2. s = [i \in 1 .. Width |-> (n \div Power(Radix, Width - i)) % Radix]
  BY DEF DigitsOf
<1> HIDE DEF s
<1>3. DigitsFrom(Radix, s, Width, n)
  BY <1>2 DEF DigitsFrom
<1>4. DigitList(Radix, s, Width) /\ Horner(Radix, s, Width) = n % Power(Radix, Width)
  BY <1>1, <1>3, DigitsMake
<1>5. \A i \in 1 .. Width : s[i] \in 0 .. Radix - 1
  BY <1>4 DEF DigitList
<1>6. \A i \in 1 .. Width : s[i] \in Nat
  BY <1>1, <1>5
<1>7. s \in [1 .. Width -> Nat]
  BY <1>2, <1>6
<1>8. s \in Seq(Nat) /\ Len(s) = Width
  BY <1>1, <1>7, LenProperties, IsASeq
<1>9. n < Power(Radix, Width) => n % Power(Radix, Width) = n
  <2> DEFINE p == Power(Radix, Width)
  <2> HIDE DEF p
  <2>1. p \in Nat \ {0}
    BY <1>1 DEF p
  <2>2. ASSUME n < p PROVE n % p = n
    <3>1. n \in 0 .. p - 1
      BY <2>1, <2>2
    <3> QED BY <2>1, <3>1, SmallRemainder
  <2> QED BY <2>2 DEF p
<1> QED BY <1>4, <1>5, <1>8, <1>9 DEF s, Digits

\* Comparing bytes is comparing the numbers.
LEMMA LessIsLess ==
  ASSUME NEW s, NEW t, DigitList(Radix, s, Width), DigitList(Radix, t, Width), Len(t) = Width
  PROVE  Less(s, t) <=> Horner(Radix, s, Width) < Horner(Radix, t, Width)
<1>1. Radix \in Nat \ {0} /\ Width \in Nat
  BY FieldFacts
<1> DEFINE g == Horner(Radix, s, Width)
           h == Horner(Radix, t, Width)
<1>2. g \in Nat /\ h \in Nat
  BY <1>1, HornerRange
<1>3. ASSUME Less(s, t) PROVE g < h
  <2>1. PICK i \in 1 .. Width : FirstBelow(s, t, i)
    BY <1>3 DEF Less, FirstBelow
  <2> QED BY <1>1, <2>1, HornerLess
<1>4. ASSUME ~Less(s, t) PROVE ~(g < h)
  <2>1. CASE \A i \in 1 .. Width : s[i] = t[i]
    <3>1. g = h
      BY <1>1, <2>1, HornerSame
    <3> QED BY <1>2, <3>1
  <2>2. CASE \E i \in 1 .. Width : s[i] # t[i]
    <3> DEFINE T == {i \in 1 .. Width : s[i] # t[i]}
    <3>1. T \subseteq Nat /\ T # {}
      BY <1>1, <2>2
    <3>2. PICK i \in T : \A j \in T : i <= j
      BY <3>1, LeastNat, Zenon
    <3>3. i \in 1 .. Width /\ s[i] # t[i] /\ \A j \in 1 .. i - 1 : s[j] = t[j]
      BY <1>1, <3>2
    <3>4. s[i] \in Nat /\ t[i] \in Nat
      BY <1>1, <3>3 DEF DigitList
    <3>5. ~(s[i] < t[i])
      BY <1>4, <3>3 DEF Less
    <3>6. t[i] < s[i]
      BY <3>3, <3>4, <3>5
    <3>7. FirstBelow(t, s, i)
      BY <3>3, <3>6 DEF FirstBelow
    <3>8. h < g
      BY <1>1, <3>3, <3>7, HornerLess
    <3> QED BY <1>2, <3>8
  <2> QED BY <2>1, <2>2
<1> QED BY <1>3, <1>4

\* A root and its negation: the same square, the other oddness.
LEMMA Negated ==
  ASSUME NEW r \in Field, r # 0
  PROVE  /\ (Prime - r) % Prime = Prime - r /\ Prime - r \in Field
         /\ ((Prime - r) * (Prime - r)) % Prime = (r * r) % Prime
         /\ (Prime - r) % 2 # r % 2
<1>1. Prime \in Nat \ {0} /\ Prime % 2 = 1
  BY FieldFacts
<1>2. r \in 1 .. Prime - 1
  BY <1>1 DEF Field
<1> DEFINE m == Prime - r
<1>3. m \in 1 .. Prime - 1 /\ m \in 0 .. Prime - 1
  BY <1>1, <1>2
<1>4. m % Prime = m
  BY <1>1, <1>3, SmallRemainder
<1>5. (m * m) % Prime = (r * r) % Prime
  <2> DEFINE a == m * m
             b == r * r
             q == Prime - 2 * r
  <2>1. a \in Int /\ b \in Int /\ q \in Int
    BY <1>1, <1>2
  <2>2. a = b + Prime * q
    BY <1>1, <1>2
  <2> HIDE DEF a, b, q
  <2>3. a % Prime = b % Prime
    BY <1>1, <2>1, <2>2, MultipleApart
  <2> QED BY <2>3 DEF a, b
<1>6. m % 2 # r % 2
  BY <1>1, <1>2
<1> QED BY <1>3, <1>4, <1>5, <1>6 DEF Field

LEMMA RootsAreNonzero ==
  ASSUME NEW x \in Field, NEW y \in Field, OnCurve(x, y)
  PROVE  y # 0
<1>1. (x * x * x + 7) % Prime # 0
  BY FieldFacts
<1>2. (0 * 0) % Prime = 0
  BY FieldFacts
<1> QED BY <1>1, <1>2 DEF OnCurve

-----------------------------------------------------------------------------
(***************************************************************************)
(* A batch.                                                                *)
(***************************************************************************)

Coordinate(tag) == Horner(Radix, tag, Width)

LEMMA TagFacts ==
  ASSUME NEW tag \in Tags
  PROVE  /\ tag \in Seq(Nat) /\ Len(tag) = Width + 2 /\ DigitList(Radix, tag, Width)
         /\ tag[Width + 1] \in 0 .. 2 /\ tag[Width + 2] \in 0 .. 1
         /\ SubSeq(tag, 1, Width) = [i \in 1 .. Width |-> tag[i]]
         /\ DigitList(Radix, SubSeq(tag, 1, Width), Width)
         /\ Number(SubSeq(tag, 1, Width)) = Coordinate(tag)
         /\ Horner(Radix, SubSeq(tag, 1, Width), Width) = Coordinate(tag)
         /\ Coordinate(tag) \in Nat /\ Coordinate(tag) < Power(Radix, Width)
<1>1. Radix \in Nat \ {0} /\ Width \in Nat \ {0} /\ Width + 2 \in Nat
  BY FieldFacts
<1>2. /\ tag \in [1 .. Width + 2 -> 0 .. Radix] /\ \A i \in 1 .. Width : tag[i] \in Digits
      /\ tag[Width + 1] \in 0 .. 2 /\ tag[Width + 2] \in 0 .. 1
  BY DEF Tags
<1>3. tag \in [1 .. Width + 2 -> Nat]
  BY <1>1, <1>2
<1>4. tag \in Seq(Nat) /\ Len(tag) = Width + 2
  BY <1>1, <1>3, IsASeq, LenProperties
<1>5. DigitList(Radix, tag, Width)
  BY <1>2 DEF DigitList, Digits
<1> DEFINE s == SubSeq(tag, 1, Width)
           t == [i \in 1 .. Width |-> tag[i]]
<1>6. s = t
  <2>1. t \in [1 .. Width -> Nat]
    BY <1>1, <1>3
  <2>2. t \in Seq(Nat) /\ Len(t) = Width
    BY <1>1, <2>1, IsASeq, LenProperties
  <2>3. Width \in Int /\ 1 \in Int /\ 1 <= Width /\ \A i \in 1 .. Width : tag[i] \in Nat
    BY <1>1, <1>3
  <2>4. /\ s \in Seq(Nat) /\ Len(s) = (IF 1 <= Width THEN Width - 1 + 1 ELSE 0)
        /\ \A i \in 1 .. Width - 1 + 1 : s[i] = tag[1 + i - 1]
    BY <2>3, SubSeqProperties
  <2> HIDE DEF s
  <2>5. Len(s) = Width
    BY <1>1, <2>3, <2>4
  <2>6. \A i \in 1 .. Width : s[i] = tag[i]
    <3> SUFFICES ASSUME NEW i \in 1 .. Width PROVE s[i] = tag[i]
      OBVIOUS
    <3>1. i \in 1 .. Width - 1 + 1
      BY <1>1
    <3>2. 1 + i - 1 = i
      BY <1>1
    <3>3. s[i] = tag[1 + i - 1]
      BY <2>4, <3>1
    <3> QED BY <3>2, <3>3
  <2>7. \A i \in 1 .. Width : t[i] = tag[i]
    OBVIOUS
  <2> HIDE DEF t
  <2> QED BY <2>2, <2>4, <2>5, <2>6, <2>7, SeqEqual
<1>7. Len(t) = Width /\ \A i \in 1 .. Width : t[i] = tag[i]
  BY <1>1
<1> HIDE DEF s, t
<1>8. Len(s) = Width /\ \A i \in 1 .. Width : s[i] = tag[i]
  BY <1>6, <1>7
<1>9. Horner(Radix, s, Width) = Horner(Radix, tag, Width)
  BY <1>1, <1>8, HornerSame
<1>10. DigitList(Radix, s, Width)
  BY <1>5, <1>8 DEF DigitList
<1>11. Number(s) = Coordinate(tag)
  BY <1>8, <1>9 DEF Number, Coordinate
<1>12. Coordinate(tag) \in Nat /\ Coordinate(tag) < Power(Radix, Width)
  <2>1. Width \in 0 .. Width
    BY <1>1
  <2> QED BY <1>1, <1>5, <2>1, HornerRange DEF Coordinate
<1> QED BY <1>2, <1>4, <1>5, <1>6, <1>9, <1>10, <1>11, <1>12 DEF s, t, Coordinate

LEMMA CanonicalFacts ==
  ASSUME NEW tag \in Tags
  PROVE  isCanonicalTag(tag) <=>
           Coordinate(tag) < Prime /\ tag[Width + 1] <= 1 /\ tag[Width + 2] = 0
<1> DEFINE s == SubSeq(tag, 1, Width)
           t == DigitsOf(Prime)
<1>1. DigitList(Radix, s, Width) /\ Horner(Radix, s, Width) = Coordinate(tag)
  BY TagFacts
<1>2. Prime \in Nat /\ Prime < Power(Radix, Width)
  BY FieldFacts
<1>3. DigitList(Radix, t, Width) /\ Len(t) = Width /\ Horner(Radix, t, Width) = Prime
  BY <1>2, DigitsOfFacts
<1> HIDE DEF s, t
<1>4. Less(s, t) <=> Horner(Radix, s, Width) < Horner(Radix, t, Width)
  BY <1>1, <1>3, LessIsLess
<1>5. Less(s, t) <=> Coordinate(tag) < Prime
  BY <1>1, <1>3, <1>4
<1> QED BY <1>5, Zenon DEF isCanonicalTag, s, t

\* What a tag is read as, when it is read.
ReadAs(tag, P) ==
  /\ P \in Points /\ P[1] = Coordinate(tag) % Prime /\ P[2] % 2 = tag[Width + 1]
  /\ P = <<P[1], P[2]>>

LEMMA DeserializeFacts ==
  ASSUME NEW tag \in Tags, tag[Width + 1] <= 1
  PROVE  \/ /\ Deserialize(tag) = {}
            /\ ~\E y \in Field : OnCurve(Coordinate(tag) % Prime, y)
         \/ \E P : Deserialize(tag) = {P} /\ ReadAs(tag, P)
<1> DEFINE x == Coordinate(tag) % Prime
           b == tag[Width + 1]
           roots == {y \in Field : OnCurve(x, y)}
           root == CHOOSE y \in roots : TRUE
           y == IF root % 2 # b THEN (Prime - root) % Prime ELSE root
<1>1. /\ Number(SubSeq(tag, 1, Width)) = Coordinate(tag) /\ Coordinate(tag) \in Nat
      /\ b \in 0 .. 2
  BY TagFacts
<1>2. Prime \in Nat \ {0}
  BY FieldFacts
<1>3. x \in Field
  BY <1>1, <1>2, DividedNat DEF Field
<1>4. Deserialize(tag) = IF roots = {} THEN {} ELSE {<<x, y>>}
  BY <1>1, Zenon DEF Deserialize
<1>5. CASE roots = {}
  BY <1>4, <1>5
<1>6. CASE roots # {}
  <2>1. root \in roots
    BY <1>6, Zenon
  <2> HIDE DEF root
  <2>2. root \in Field /\ OnCurve(x, root)
    BY <2>1
  <2> HIDE DEF roots, x
  <2>3. root # 0
    BY <1>3, <2>2, RootsAreNonzero
  <2>4. /\ (Prime - root) % Prime = Prime - root /\ Prime - root \in Field
        /\ ((Prime - root) * (Prime - root)) % Prime = (root * root) % Prime
        /\ (Prime - root) % 2 # root % 2
    BY <2>2, <2>3, Negated
  <2>5. \A n \in Field : n % 2 \in {0, 1}
    BY <1>2 DEF Field
  <2>6. b \in {0, 1}
    BY <1>1
  <2>7. y \in Field /\ OnCurve(x, y) /\ y % 2 = b
    <3>1. CASE root % 2 = b
      BY <2>2, <3>1
    <3>2. CASE root % 2 # b
      <4>1. y = Prime - root
        BY <2>4, <3>2
      <4>2. OnCurve(x, Prime - root)
        BY <2>2, <2>4 DEF OnCurve
      <4>3. (Prime - root) % 2 = b
        BY <2>2, <2>4, <2>5, <2>6, <3>2
      <4> QED BY <2>4, <4>1, <4>2, <4>3
    <3> QED BY <3>1, <3>2
  <2> HIDE DEF y
  <2> DEFINE P == <<x, y>>
  <2>8. P \in Field \X Field /\ P[1] = x /\ P[2] = y
    BY <1>3, <2>7
  <2>9. P \in Points
    BY <2>7, <2>8 DEF Points
  <2>10. ReadAs(tag, P)
    BY <2>7, <2>8, <2>9 DEF ReadAs, x
  <2> QED BY <1>4, <1>6, <2>10
<1> QED BY <1>5, <1>6

LEMMA SerializedFacts ==
  ASSUME NEW P \in Points
  PROVE  /\ Serialized(P) \in Tags /\ Coordinate(Serialized(P)) = P[1]
         /\ Serialized(P)[Width + 1] = P[2] % 2 /\ Serialized(P)[Width + 2] = 0
         /\ \A i \in 1 .. Width : Serialized(P)[i] = DigitsOf(P[1])[i]
<1>1. P[1] \in Field /\ P[2] \in Field
  BY DEF Points
<1>2. Prime \in Nat \ {0} /\ Width \in Nat \ {0} /\ Radix \in Nat \ {0} /\ Radix >= 2
      /\ Prime < Power(Radix, Width) /\ Power(Radix, Width) \in Nat
  BY FieldFacts
<1>3. P[1] \in Nat /\ P[1] < Power(Radix, Width) /\ P[2] % 2 \in {0, 1}
  BY <1>1, <1>2 DEF Field
<1> DEFINE s == DigitsOf(P[1])
           u == <<P[2] % 2, 0>>
           v == s \o u
<1>4. /\ s \in Seq(Nat) /\ Len(s) = Width /\ \A i \in 1 .. Width : s[i] \in Digits
      /\ Horner(Radix, s, Width) = P[1]
  BY <1>3, DigitsOfFacts
<1>5. u \in Seq(Nat) /\ Len(u) = 2 /\ u[1] = P[2] % 2 /\ u[2] = 0
  BY <1>3
<1>6. Serialized(P) = v
  BY DEF Serialized
<1> HIDE DEF s, u
<1>7. /\ v \in Seq(Nat) /\ Len(v) = Len(s) + Len(u)
      /\ \A i \in 1 .. Len(s) + Len(u) : v[i] = IF i <= Len(s) THEN s[i] ELSE u[i - Len(s)]
  BY <1>4, <1>5, ConcatProperties
<1> HIDE DEF v
<1>8. Len(v) = Width + 2
  BY <1>4, <1>5, <1>7
<1>9. \A i \in 1 .. Width : v[i] = s[i]
  BY <1>2, <1>4, <1>5, <1>7
<1>10. v[Width + 1] = P[2] % 2 /\ v[Width + 2] = 0
  <2>3. \A i \in 1 .. Width + 2 : v[i] = IF i <= Width THEN s[i] ELSE u[i - Width]
    BY <1>4, <1>5, <1>7
  <2>2. v[Width + 1] = u[1] /\ v[Width + 2] = u[2]
    <3>1. \A i \in 1 .. Width + 2 : ~(i <= Width) => v[i] = u[i - Width]
      BY <2>3
    <3>2. \A k \in {1, 2} : v[Width + k] = u[k]
      <4> SUFFICES ASSUME NEW k \in {1, 2} PROVE v[Width + k] = u[k]
        OBVIOUS
      <4> DEFINE j == Width + k
      <4>1. j \in 1 .. Width + 2 /\ ~(j <= Width) /\ j - Width = k
        BY <1>2
      <4> HIDE DEF j
      <4>2. v[j] = u[j - Width]
        BY <3>1, <4>1
      <4>3. v[j] = u[k]
        BY <4>1, <4>2
      <4> QED BY <4>3 DEF j
    <3> QED BY <3>2
  <2> QED BY <1>5, <2>2
<1>11. v \in Tags
  <2>1. DOMAIN v = 1 .. Width + 2 /\ v \in [1 .. Width + 2 -> Nat]
    BY <1>7, <1>8, LenProperties
  <2>2. \A i \in 1 .. Width : v[i] \in Digits
    BY <1>4, <1>9
  <2>3. \A i \in 1 .. Width + 2 : v[i] \in 0 .. Radix
    <3> SUFFICES ASSUME NEW i \in 1 .. Width + 2 PROVE v[i] \in 0 .. Radix
      OBVIOUS
    <3>1. i \in 1 .. Width \/ i = Width + 1 \/ i = Width + 2
      BY <1>2
    <3>2. CASE i \in 1 .. Width
      BY <1>2, <2>2, <3>2 DEF Digits
    <3>3. CASE i = Width + 1
      BY <1>2, <1>3, <1>10, <3>3
    <3>4. CASE i = Width + 2
      BY <1>2, <1>10, <3>4
    <3> QED BY <3>1, <3>2, <3>3, <3>4
  <2>4. v \in [1 .. Width + 2 -> 0 .. Radix]
    BY <2>1, <2>3
  <2>5. v[Width + 1] \in 0 .. 2 /\ v[Width + 2] \in 0 .. 1
    BY <1>3, <1>10
  <2> QED BY <2>2, <2>4, <2>5 DEF Tags
<1>12. Coordinate(v) = P[1]
  BY <1>2, <1>4, <1>9, HornerSame DEF Coordinate
<1> QED BY <1>6, <1>9, <1>10, <1>11, <1>12 DEF s

LEMMA SerializedIs ==
  ASSUME NEW tag \in Tags, NEW P \in Points, P[1] = Coordinate(tag),
         P[2] % 2 = tag[Width + 1], tag[Width + 2] = 0
  PROVE  Serialized(P) = tag
<1> DEFINE s == Serialized(P)
<1>1. s \in Tags /\ Coordinate(s) = P[1] /\ s[Width + 1] = P[2] % 2 /\ s[Width + 2] = 0
  BY SerializedFacts
<1> HIDE DEF s
<1>2. s \in Seq(Nat) /\ Len(s) = Width + 2 /\ DigitList(Radix, s, Width)
  BY <1>1, TagFacts
<1>3. tag \in Seq(Nat) /\ Len(tag) = Width + 2 /\ DigitList(Radix, tag, Width)
  BY TagFacts
<1>4. Radix \in Nat \ {0} /\ Width \in Nat
  BY FieldFacts
<1>5. Horner(Radix, s, Width) = Horner(Radix, tag, Width)
  BY <1>1 DEF Coordinate
<1>6. \A i \in 1 .. Width : s[i] = tag[i]
  <2>1. DigitList(Radix, s, Width) /\ DigitList(Radix, tag, Width)
    BY <1>2, <1>3
  <2>2. \A i \in 1 .. Width :
          (Horner(Radix, s, Width) \div Power(Radix, Width - i)) % Radix = s[i]
    BY <1>4, <2>1, HornerDigit
  <2>3. \A i \in 1 .. Width :
          (Horner(Radix, tag, Width) \div Power(Radix, Width - i)) % Radix = tag[i]
    BY <1>4, <2>1, HornerDigit
  <2> QED BY <1>5, <2>2, <2>3
<1>7. \A i \in 1 .. Width + 2 : s[i] = tag[i]
  <2> SUFFICES ASSUME NEW i \in 1 .. Width + 2 PROVE s[i] = tag[i]
    OBVIOUS
  <2>1. i \in 1 .. Width \/ i = Width + 1 \/ i = Width + 2
    BY <1>4
  <2> QED BY <1>1, <1>6, <2>1
<1>8. s = tag
  BY <1>2, <1>3, <1>7, SeqEqual
<1> QED BY <1>8 DEF s

LEMMA PointFacts ==
  ASSUME NEW P \in Points
  PROVE  P[1] \in Field /\ P[2] \in Field /\ P = <<P[1], P[2]>> /\ OnCurve(P[1], P[2])
BY DEF Points

\* What hashTags accepts, and what it answers.
LEMMA TagReads ==
  ASSUME NEW tag \in Tags
  PROVE  /\ tag \in PointTags <=> ~(~isCanonicalTag(tag) \/ Deserialize(tag) = {})
         /\ tag \in PointTags =>
              GetLTagHash(CHOOSE P \in Deserialize(tag) : TRUE) = <<"tag_hash", tag>>
<1>1. Prime \in Nat \ {0}
  BY FieldFacts
<1>2. Coordinate(tag) \in Nat /\ tag[Width + 1] \in 0 .. 2 /\ tag[Width + 2] \in 0 .. 1
  BY TagFacts
<1>3. Coordinate(tag) < Prime => Coordinate(tag) % Prime = Coordinate(tag)
  <2>1. Coordinate(tag) < Prime => Coordinate(tag) \in 0 .. Prime - 1
    BY <1>1, <1>2
  <2> QED BY <1>1, <2>1, SmallRemainder
<1>4. ASSUME tag \in PointTags PROVE isCanonicalTag(tag) /\ Deserialize(tag) # {}
  <2>1. PICK Q \in Points : tag = Serialized(Q)
    BY <1>4, Zenon DEF PointTags
  <2>2. Coordinate(tag) = Q[1] /\ tag[Width + 1] = Q[2] % 2 /\ tag[Width + 2] = 0
    BY <2>1, SerializedFacts
  <2>3. Q[1] \in Field /\ Q[2] \in Field /\ OnCurve(Q[1], Q[2])
    BY PointFacts
  <2>4. Coordinate(tag) < Prime /\ tag[Width + 1] <= 1
    BY <1>1, <2>2, <2>3 DEF Field
  <2>5. OnCurve(Coordinate(tag) % Prime, Q[2])
    BY <1>3, <2>2, <2>3, <2>4
  <2>6. isCanonicalTag(tag)
    BY <2>2, <2>4, CanonicalFacts
  <2>7. PICK R : Deserialize(tag) = {R}
    BY <2>3, <2>4, <2>5, DeserializeFacts
  <2> QED BY <2>6, <2>7
<1>5. ASSUME isCanonicalTag(tag), Deserialize(tag) # {}
      PROVE  /\ tag \in PointTags
             /\ GetLTagHash(CHOOSE P \in Deserialize(tag) : TRUE) = <<"tag_hash", tag>>
  <2>1. Coordinate(tag) < Prime /\ tag[Width + 1] <= 1 /\ tag[Width + 2] = 0
    BY <1>5, CanonicalFacts
  <2>2. PICK R : Deserialize(tag) = {R} /\ ReadAs(tag, R)
    BY <1>5, <2>1, DeserializeFacts
  <2>3. R \in Points /\ R[1] = Coordinate(tag) /\ R[2] % 2 = tag[Width + 1]
    BY <1>3, <2>1, <2>2 DEF ReadAs
  <2>4. Serialized(R) = tag
    BY <2>1, <2>3, SerializedIs
  <2>5. (CHOOSE P \in Deserialize(tag) : TRUE) = R
    <3>1. \E P \in Deserialize(tag) : TRUE
      BY <2>2
    <3>2. (CHOOSE P \in Deserialize(tag) : TRUE) \in Deserialize(tag)
      BY <3>1, Zenon
    <3> QED BY <2>2, <3>2
  <2> QED BY <2>3, <2>4, <2>5, Zenon DEF PointTags, GetLTagHash
<1> QED BY <1>4, <1>5

BatchAnswer(tags) ==
  IF \A i \in 1 .. Len(tags) : tags[i] \in PointTags
  THEN Answer([i \in 1 .. Len(tags) |-> <<"tag_hash", tags[i]>>])
  ELSE Error

LEMMA BatchFacts ==
  ASSUME NEW tags, \A i \in 1 .. Len(tags) : tags[i] \in Tags
  PROVE  hashTags(tags) = BatchAnswer(tags)
<1> DEFINE fails(tag) == ~isCanonicalTag(tag) \/ Deserialize(tag) = {}
<1>1. \A i \in 1 .. Len(tags) : tags[i] \in PointTags <=> ~fails(tags[i])
  BY TagReads
<1>2. CASE \A i \in 1 .. Len(tags) : tags[i] \in PointTags
  <2>1. ~\E i \in 1 .. Len(tags) : fails(tags[i])
    BY <1>1, <1>2
  <2> DEFINE g == [i \in 1 .. Len(tags) |-> GetLTagHash(CHOOSE P \in Deserialize(tags[i]) : TRUE)]
             h == [i \in 1 .. Len(tags) |-> <<"tag_hash", tags[i]>>]
  <2>2. \A i \in 1 .. Len(tags) :
          GetLTagHash(CHOOSE P \in Deserialize(tags[i]) : TRUE) = <<"tag_hash", tags[i]>>
    BY <1>2, TagReads
  <2>3. g = h
    BY <2>2, Zenon
  <2>4. hashTags(tags) = Answer(g)
    BY <2>1, Zenon DEF hashTags
  <2>5. BatchAnswer(tags) = Answer(h)
    BY <1>2, Zenon DEF BatchAnswer
  <2> QED BY <2>3, <2>4, <2>5, Zenon
<1>3. CASE ~\A i \in 1 .. Len(tags) : tags[i] \in PointTags
  <2>1. \E i \in 1 .. Len(tags) : fails(tags[i])
    BY <1>1, <1>3
  <2>2. hashTags(tags) = Error
    BY <2>1, Zenon DEF hashTags
  <2>3. BatchAnswer(tags) = Error
    BY <1>3, Zenon DEF BatchAnswer
  <2> QED BY <2>2, <2>3
<1> QED BY <1>2, <1>3

\* A batch of tags and nothing but: no other call has a batch for its asked.
BatchInv == asked[1] = "tags" => result = BatchAnswer(asked[2])

LEMMA BatchInvMeans ==
  BatchInv <=> BatchIsExact
<1>1. CASE asked[1] = "tags"
  <2> DEFINE all == \A i \in 1 .. Len(asked[2]) : asked[2][i] \in PointTags
  <2>1. CASE all
    BY <1>1, <2>1, Zenon DEF BatchInv, BatchIsExact, BatchAnswer
  <2>2. CASE ~all
    BY <1>1, <2>2, Zenon DEF BatchInv, BatchIsExact, BatchAnswer
  <2> QED BY <2>1, <2>2
<1>2. CASE asked[1] # "tags"
  BY <1>2, Zenon DEF BatchInv, BatchIsExact
<1> QED BY <1>1, <1>2

LEMMA BatchIn ==
  ASSUME NEW tags \in Batches
  PROVE  \A i \in 1 .. Len(tags) : tags[i] \in Tags
<1>1. PICK n \in 1 .. MaxBatch : tags \in [1 .. n -> Tags]
  BY DEF Batches
<1>2. n \in Nat
  BY <1>1, FieldFacts
<1>3. Len(tags) = n
  BY <1>1, <1>2, IsASeq, LenProperties
<1> QED BY <1>1, <1>3

LEMMA BatchStep ==
  ASSUME BatchInv, [HashNext]_hashVars
  PROVE  BatchInv'
<1>1. CASE UNCHANGED hashVars
  BY <1>1 DEF hashVars, BatchInv, BatchAnswer
<1>2. ASSUME NEW tags \in Batches, HashTags(tags) PROVE BatchInv'
  <2>1. hashTags(tags) = BatchAnswer(tags)
    BY BatchIn, BatchFacts
  <2>2. asked' = <<"tags", tags>> /\ result' = hashTags(tags)
    BY <1>2, Zenon DEF HashTags
  <2>3. asked'[2] = tags
    BY <2>2
  <2>4. result' = BatchAnswer(asked'[2])
    BY <2>1, <2>2, <2>3, Zenon
  <2> QED BY <2>4, Zenon DEF BatchInv, BatchAnswer
<1>3. ASSUME NEW x, NEW y, HashTag(x, y) PROVE BatchInv'
  <2>1. asked'[1] = "coordinates"
    BY <1>3 DEF HashTag
  <2> QED BY <2>1 DEF BatchInv
<1>4. CASE asked' = <<"none">>
  <2>1. asked'[1] = "none"
    BY <1>4
  <2> QED BY <2>1 DEF BatchInv
<1> QED BY <1>1, <1>2, <1>3, <1>4, Zenon DEF HashNext

\* A batch is hashed exactly when all of its tags are serialised points, and
\* then with their hashes: hashTags reads no tag that serialize does not write,
\* over every field and radix.
THEOREM BatchesAreExact == HashSpec => []BatchIsExact
<1>1. HashInit => BatchInv
  <2>1. HashInit => asked[1] = "none"
    BY DEF HashInit
  <2> QED BY <2>1 DEF BatchInv
<1>2. BatchInv /\ [HashNext]_hashVars => BatchInv'
  BY BatchStep
<1>3. BatchInv => BatchIsExact
  BY BatchInvMeans
<1> QED BY <1>1, <1>2, <1>3, PTL DEF HashSpec

-----------------------------------------------------------------------------
(***************************************************************************)
(* A pair of coordinates.                                                  *)
(***************************************************************************)

LEMMA CharFacts ==
  ASSUME NEW d \in Digits
  PROVE  /\ d \in Nat
         /\ Lower(d) \in Nat /\ Upper(d) \in Nat
         /\ Lower(d) \notin 65 .. 90 /\ Fold(Lower(d)) = Lower(d) /\ Fold(Upper(d)) = Lower(d)
         /\ Lower(d) = 48 <=> d = 0
         /\ Upper(d) = 48 <=> d = 0
<1>1. d \in Nat /\ d <= 15 /\ Letters \in Nat /\ Letters >= 1
  BY FieldFacts DEF Digits
<1>2. CASE d < Letters
  <2>1. Lower(d) = 48 + d /\ Upper(d) = 48 + d
    BY <1>2 DEF Lower, Upper
  <2>2. 48 + d \notin 65 .. 90
    BY <1>1
  <2> QED BY <1>1, <2>1, <2>2 DEF Fold
<1>3. CASE ~(d < Letters)
  <2>1. Lower(d) = 97 + d - Letters /\ Upper(d) = 65 + d - Letters
    BY <1>3 DEF Lower, Upper
  <2>2. 97 + d - Letters \notin 65 .. 90 /\ 65 + d - Letters \in 65 .. 90 /\ d # 0
    BY <1>1, <1>3
  <2>3. 65 + d - Letters + 32 = 97 + d - Letters /\ 65 + d - Letters \in Nat /\ 97 + d - Letters \in Nat
        /\ 65 + d - Letters # 48 /\ 97 + d - Letters # 48
    BY <1>1, <2>2
  <2>4. Fold(Upper(d)) = Upper(d) + 32
    BY <2>1, <2>2 DEF Fold
  <2>5. Fold(Lower(d)) = Lower(d)
    BY <2>1, <2>2 DEF Fold
  <2> QED BY <1>1, <2>1, <2>2, <2>3, <2>4, <2>5
<1> QED BY <1>2, <1>3

LEMMA LowerGrows ==
  ASSUME NEW d \in Digits, NEW e \in Digits
  PROVE  /\ Lower(d) < Lower(e) <=> d < e
         /\ Lower(d) = Lower(e) <=> d = e
<1>1. d \in Nat /\ e \in Nat /\ Letters \in Nat /\ d <= 15 /\ e <= 15
  BY FieldFacts DEF Digits
<1> QED BY <1>1 DEF Lower

LEMMA HexFacts ==
  ASSUME NEW c \in HexChars
  PROVE  DigitOf(c) \in Digits /\ Fold(c) = Lower(DigitOf(c)) /\ (c = 48 <=> DigitOf(c) = 0)
<1>1. \E d \in Digits : c \in {Lower(d), Upper(d)}
  BY Zenon DEF HexChars
<1>2. DigitOf(c) \in Digits /\ c \in {Lower(DigitOf(c)), Upper(DigitOf(c))}
  BY <1>1, Zenon DEF DigitOf
<1> DEFINE d == DigitOf(c)
<1>3. /\ Fold(Lower(d)) = Lower(d) /\ Fold(Upper(d)) = Lower(d)
      /\ Lower(d) = 48 <=> d = 0
      /\ Upper(d) = 48 <=> d = 0
  BY <1>2, CharFacts
<1> HIDE DEF d
<1>4. d \in Digits /\ c \in {Lower(d), Upper(d)}
  BY <1>2 DEF d
<1>5. Fold(c) = Lower(d) /\ (c = 48 <=> d = 0)
  BY <1>3, <1>4
<1> QED BY <1>4, <1>5 DEF d

LEMMA PowerGrows ==
  ASSUME NEW b \in Nat \ {0}, NEW m \in Nat, NEW n \in Nat, m <= n
  PROVE  Power(b, m) <= Power(b, n)
<1> DEFINE k == n - m
<1>1. k \in Nat /\ n = m + k
  OBVIOUS
<1> HIDE DEF k
<1>2. Power(b, m + k) = Power(b, m) * Power(b, k)
  BY <1>1, PowerSum
<1> DEFINE p == Power(b, m)
           q == Power(b, k)
<1>3. p \in Nat \ {0} /\ q \in Nat \ {0}
  BY <1>1, PowerNat
<1> HIDE DEF p, q
<1>4. p <= p * q
  BY <1>3, ProductGrows
<1> QED BY <1>1, <1>2, <1>4 DEF p, q

LEMMA LeadingZeros ==
  ASSUME NEW b \in Nat \ {0}, NEW s, NEW m \in Nat, \A i \in 1 .. m : s[i] = 0
  PROVE  Horner(b, s, m) = 0
<1> DEFINE S == {n \in Nat : n <= m => Horner(b, s, n) = 0}
<1>1. 0 \in S
  BY HornerStep
<1>2. ASSUME NEW n \in S PROVE n + 1 \in S
  <2>1. n \in Nat /\ n + 1 \in Nat
    BY <1>2
  <2>2. CASE n + 1 <= m
    <3>1. Horner(b, s, n) = 0 /\ n + 1 \in 1 .. m
      BY <1>2, <2>1, <2>2
    <3>2. s[n + 1] = 0
      BY <3>1
    <3>4. Horner(b, s, n + 1) = b * Horner(b, s, n) + s[n + 1]
      BY <2>1, HornerStep
    <3>3. Horner(b, s, n + 1) = b * 0 + 0
      BY <3>1, <3>2, <3>4
    <3> QED BY <2>1, <3>3
  <2>3. CASE ~(n + 1 <= m)
    BY <2>1, <2>3
  <2> QED BY <2>2, <2>3
<1>3. S \subseteq Nat
  OBVIOUS
<1>4. ASSUME \A n \in Nat : n \in S PROVE Horner(b, s, m) = 0
  BY <1>4
<1> HIDE DEF S
<1>5. \A n \in Nat : n \in S
  BY <1>1, <1>2, Induction
<1> QED BY <1>4, <1>5

\* A string of hexadecimal digits, and what it spells.
IsHex(s) == s # <<>> /\ \A i \in 1 .. Len(s) : s[i] \in HexChars
Values(s) == [i \in 1 .. Len(s) |-> DigitOf(s[i])]
Spelt(s) == Number(Values(s))

LEMMA ValuesFacts ==
  ASSUME NEW s, Len(s) \in Nat, IsHex(s)
  PROVE  /\ Len(Values(s)) = Len(s) /\ DigitList(Radix, Values(s), Len(s))
         /\ Spelt(s) = Horner(Radix, Values(s), Len(s)) /\ Spelt(s) \in Nat
         /\ \A i \in 1 .. Len(s) : /\ Values(s)[i] \in Digits /\ Fold(s[i]) = Lower(Values(s)[i])
                                   /\ s[i] = 48 <=> Values(s)[i] = 0
<1> DEFINE d == Values(s)
           n == Len(s)
<1>1. n \in Nat /\ \A i \in 1 .. n : s[i] \in HexChars
  BY DEF IsHex
<1>2. \A i \in 1 .. n : /\ DigitOf(s[i]) \in Digits /\ Fold(s[i]) = Lower(DigitOf(s[i]))
                        /\ s[i] = 48 <=> DigitOf(s[i]) = 0
  BY <1>1, HexFacts
<1>3. d = [i \in 1 .. n |-> DigitOf(s[i])]
  BY DEF Values
<1> HIDE DEF d
<1>4. \A i \in 1 .. n : d[i] = DigitOf(s[i])
  BY <1>3
<1>5. \A i \in 1 .. n : d[i] \in Digits
  BY <1>2, <1>4
<1>6. DigitList(Radix, d, n)
  BY <1>5 DEF DigitList, Digits
<1>7. d \in [1 .. n -> Digits]
  BY <1>3, <1>5
<1>8. Len(d) = n
  BY <1>1, <1>7, IsASeq, LenProperties
<1>9. Spelt(s) = Horner(Radix, d, n)
  BY <1>8, Zenon DEF Spelt, Number, d
<1>10. Horner(Radix, d, n) \in Nat
  <2>1. Radix \in Nat \ {0} /\ n \in 0 .. n
    BY <1>1, FieldFacts
  <2> QED BY <1>1, <1>6, <2>1, HornerRange
<1>11. \A i \in 1 .. n : /\ d[i] \in Digits /\ Fold(s[i]) = Lower(d[i])
                         /\ s[i] = 48 <=> d[i] = 0
  BY <1>2, <1>4, <1>5
<1> QED BY <1>6, <1>8, <1>9, <1>10, <1>11 DEF d

\* Where the significant digits start.
StartsAt(s, n) ==
  /\ n \in 0 .. Len(s) /\ \A i \in 1 .. n : s[i] = 48
  /\ n < Len(s) => s[n + 1] # 48

LEMMA SignificantFacts ==
  ASSUME NEW s, Len(s) \in Nat, IsHex(s)
  PROVE  \E n : /\ StartsAt(s, n) /\ Len(Significant(s)) = Len(s) - n
                /\ \A i \in 1 .. Len(s) - n : Significant(s)[i] = s[n + i]
<1> DEFINE N == Len(s)
           T == {n \in 0 .. N : n < N => s[n + 1] # 48}
           P(n) == (\A i \in 1 .. n : s[i] = 48) /\ (n < N => s[n + 1] # 48)
           start == CHOOSE n \in 0 .. N : P(n)
<1>1. T \subseteq Nat /\ N \in T
  OBVIOUS
<1>2. PICK m \in T : \A j \in T : m <= j
  BY <1>1, LeastNat
<1>3. m \in 0 .. N /\ (m < N => s[m + 1] # 48)
  BY <1>2
<1>4. \A i \in 1 .. m : s[i] = 48
  <2> SUFFICES ASSUME NEW i \in 1 .. m PROVE s[i] = 48
    OBVIOUS
  <2> DEFINE j == i - 1
  <2>1. j \in 0 .. N /\ j < N /\ ~(m <= j) /\ j + 1 = i
    BY <1>3
  <2>2. j \notin T
    BY <1>2, <2>1
  <2>3. s[j + 1] = 48
    BY <2>1, <2>2
  <2> QED BY <2>1, <2>3
<1>5. \E n \in 0 .. N : P(n)
  BY <1>3, <1>4
<1>6. start \in 0 .. N /\ P(start)
  BY <1>5, Zenon
<1>7. Significant(s) = SubSeq(s, start + 1, N)
  BY Zenon DEF Significant
<1>8. StartsAt(s, start)
  BY <1>6 DEF StartsAt
<1>9. start \in Nat /\ start <= N
  BY <1>6
<1> HIDE DEF start
<1>10. start + 1 \in Int /\ N \in Int /\ \A i \in start + 1 .. N : s[i] \in HexChars
  BY <1>9 DEF IsHex
<1> DEFINE t == SubSeq(s, start + 1, N)
<1>11. /\ Len(t) = IF start + 1 <= N THEN N - (start + 1) + 1 ELSE 0
       /\ \A i \in 1 .. N - (start + 1) + 1 : t[i] = s[start + 1 + i - 1]
  BY <1>10, SubSeqProperties
<1> HIDE DEF t
<1>12. Len(t) = N - start
  BY <1>9, <1>11
<1>13. \A i \in 1 .. N - start : t[i] = s[start + i]
  <2> SUFFICES ASSUME NEW i \in 1 .. N - start PROVE t[i] = s[start + i]
    OBVIOUS
  <2>1. i \in 1 .. N - (start + 1) + 1
    BY <1>9
  <2>2. start + 1 + i - 1 = start + i
    BY <1>9
  <2>3. t[i] = s[start + 1 + i - 1]
    BY <1>11, <2>1
  <2> QED BY <2>2, <2>3
<1>14. Significant(s) = t
  BY <1>7 DEF t
<1> QED BY <1>8, <1>12, <1>13, <1>14

\* The significant digits of a string spell what the string spells.
LEMMA SignificantValue ==
  ASSUME NEW s, Len(s) \in Nat, IsHex(s), NEW n, StartsAt(s, n),
         NEW t, \A i \in 1 .. Len(s) - n : t[i] = Values(s)[n + i]
  PROVE  /\ DigitList(Radix, t, Len(s) - n)
         /\ Horner(Radix, t, Len(s) - n) = Spelt(s)
<1> DEFINE d == Values(s)
           k == Len(s) - n
<1>1. /\ DigitList(Radix, d, Len(s)) /\ Spelt(s) = Horner(Radix, d, Len(s))
      /\ \A i \in 1 .. Len(s) : s[i] = 48 <=> d[i] = 0
  BY ValuesFacts
<1>2. n \in Nat /\ n <= Len(s) /\ \A i \in 1 .. n : s[i] = 48
  BY DEF StartsAt
<1>3. Radix \in Nat \ {0}
  BY FieldFacts
<1>4. \A i \in 1 .. n : d[i] = 0
  BY <1>1, <1>2
<1> HIDE DEF d
<1>5. Horner(Radix, d, n) = 0
  BY <1>2, <1>3, <1>4, LeadingZeros
<1>6. k \in Nat /\ Len(s) = n + k
  BY <1>2
<1>7. \A i \in 1 .. k : t[i] = d[n + i]
  BY DEF d
<1> HIDE DEF k
<1>8. DigitList(Radix, d, n + k)
  BY <1>1, <1>6
<1>9. /\ DigitList(Radix, t, k)
      /\ Horner(Radix, d, n + k) = Horner(Radix, d, n) * Power(Radix, k) + Horner(Radix, t, k)
  <2>1. n \in Nat /\ k \in Nat
    BY <1>2, <1>6
  <2>2. LastPart(d, n, k, t)
    BY <1>7 DEF LastPart
  <2> QED BY <1>3, <1>8, <2>1, <2>2, HornerParts
<1> DEFINE h == Horner(Radix, t, k)
           p == Power(Radix, k)
<1>10. h \in Nat /\ p \in Nat
  <2>1. k \in 0 .. k
    BY <1>6
  <2> QED BY <1>3, <1>6, <1>9, <2>1, HornerRange, PowerNat
<1> HIDE DEF h, p
<1>11. Horner(Radix, d, n + k) = 0 * p + h
  BY <1>5, <1>9 DEF h, p
<1>12. Horner(Radix, d, n + k) = h
  BY <1>10, <1>11
<1> QED BY <1>1, <1>6, <1>9, <1>12 DEF h, k

\* A number that starts with a digit other than zero is as long as it looks.
LEMMA LongNumbers ==
  ASSUME NEW b \in Nat \ {0}, NEW s, NEW k \in Nat \ {0}, DigitList(b, s, k), s[1] # 0
  PROVE  Power(b, k - 1) <= Horner(b, s, k)
<1> DEFINE m == k - 1
           t == [i \in 1 .. m |-> s[1 + i]]
<1>1. m \in Nat /\ k = 1 + m /\ 1 \in Nat
  OBVIOUS
<1>2. \A i \in 1 .. m : t[i] = s[1 + i]
  OBVIOUS
<1> HIDE DEF m, t
<1>3. DigitList(b, s, 1 + m)
  BY <1>1
<1>4. DigitList(b, t, m) /\ Horner(b, s, 1 + m) = Horner(b, s, 1) * Power(b, m) + Horner(b, t, m)
  <2>1. LastPart(s, 1, m, t)
    BY <1>2 DEF LastPart
  <2> QED BY <1>1, <1>3, <2>1, HornerParts
<1>5. Horner(b, s, 1) = s[1]
  <2>1. Horner(b, s, 0) = 0 /\ Horner(b, s, 0 + 1) = b * Horner(b, s, 0) + s[0 + 1]
    BY HornerStep
  <2>2. s[1] \in Nat
    BY <1>1, <1>3 DEF DigitList
  <2> QED BY <2>1, <2>2
<1> DEFINE h == Horner(b, t, m)
           p == Power(b, m)
           c == s[1]
<1>6. h \in Nat /\ p \in Nat \ {0}
  <2>1. m \in 0 .. m
    BY <1>1
  <2> QED BY <1>1, <1>4, <2>1, HornerRange, PowerNat
<1>7. c \in Nat /\ c >= 1
  BY <1>1, <1>3 DEF DigitList
<1> HIDE DEF h, p, c
<1>8. p * c >= p
  BY <1>6, <1>7, ProductGrows
<1>9. Horner(b, s, 1 + m) = c * p + h
  BY <1>4, <1>5 DEF c, p, h
<1>10. c * p = p * c
  BY <1>6, <1>7
<1>11. p <= Horner(b, s, 1 + m)
  <2> DEFINE e == p * c
  <2>1. e \in Nat /\ c * p = e
    BY <1>6, <1>7
  <2> HIDE DEF e
  <2>2. e >= p
    BY <1>8 DEF e
  <2> QED BY <1>6, <1>9, <2>1, <2>2
<1> QED BY <1>1, <1>11 DEF p, m

LEMMA HexCoordinates ==
  ASSUME NEW s, Len(s) \in Nat, IsHex(s)
  PROVE  isHexCoordinate(s) <=> Spelt(s) < Prime
<1>1. /\ Radix \in Nat \ {0} /\ Width \in Nat \ {0} /\ Prime \in Nat /\ Width - 1 \in Nat
      /\ Power(Radix, Width - 1) <= Prime /\ Prime < Power(Radix, Width)
      /\ Power(Radix, Width - 1) \in Nat /\ Power(Radix, Width) \in Nat
  BY FieldFacts
<1>2. PICK n : /\ StartsAt(s, n) /\ Len(Significant(s)) = Len(s) - n
               /\ \A i \in 1 .. Len(s) - n : Significant(s)[i] = s[n + i]
  BY SignificantFacts
<1> DEFINE k == Len(s) - n
           d == Values(s)
           u == Significant(s)
           t == [i \in 1 .. k |-> d[n + i]]
<1>3. n \in Nat /\ k \in Nat /\ n + k = Len(s)
  BY <1>2 DEF StartsAt
<1>4. \A i \in 1 .. k : t[i] = d[n + i]
  OBVIOUS
<1>5. DigitList(Radix, t, k) /\ Horner(Radix, t, k) = Spelt(s)
  BY <1>2, <1>4, SignificantValue
<1>6. \A i \in 1 .. k : n + i \in 1 .. Len(s)
  BY <1>3
<1>7. \A i \in 1 .. Len(s) : /\ d[i] \in Digits /\ Fold(s[i]) = Lower(d[i])
                             /\ s[i] = 48 <=> d[i] = 0
  BY ValuesFacts
<1> HIDE DEF d, t
<1>8. \A i \in 1 .. k : t[i] \in Digits /\ Fold(u[i]) = Lower(t[i])
  BY <1>2, <1>4, <1>6, <1>7
<1>9. Spelt(s) \in Nat /\ Spelt(s) < Power(Radix, k) /\ Power(Radix, k) \in Nat
  <2>1. k \in 0 .. k
    BY <1>3
  <2> QED BY <1>1, <1>3, <1>5, <2>1, HornerRange, PowerNat
<1> DEFINE p == DigitsOf(Prime)
           a == [i \in 1 .. Width |-> Fold(u[i])]
           c == [i \in 1 .. Width |-> Lower(p[i])]
<1>10. isHexCoordinate(s) <=> k < Width \/ (k = Width /\ Less(a, c))
  BY <1>2 DEF isHexCoordinate, IsHex
<1>14. Len(s) \in Nat /\ (k > Width => n < Len(s))
  BY <1>1, <1>3
<1> HIDE DEF k
<1>11. CASE k < Width
  <2>1. k <= Width - 1
    BY <1>1, <1>3, <1>11
  <2>2. Power(Radix, k) <= Power(Radix, Width - 1)
    BY <1>1, <1>3, <2>1, PowerGrows
  <2>3. Spelt(s) < Prime
    BY <1>1, <1>9, <2>2
  <2> QED BY <1>10, <1>11, <2>3
<1>12. CASE k > Width
  <2>8. n < Len(s)
    BY <1>12, <1>14
  <2>9. k \in Nat \ {0} /\ 1 \in 1 .. k /\ Width <= k - 1 /\ k - 1 \in Nat
    BY <1>1, <1>3, <1>12
  <2>1. n < Len(s) /\ k \in Nat \ {0} /\ 1 \in 1 .. k /\ Width <= k - 1 /\ k - 1 \in Nat
    BY <2>8, <2>9
  <2>2. s[n + 1] # 48
    BY <1>2, <2>1 DEF StartsAt
  <2>3. t[1] # 0
    <3>1. t[1] = d[n + 1]
      BY <1>4, <2>1
    <3>2. n + 1 \in 1 .. Len(s)
      BY <1>3, <1>14, <2>8
    <3>3. d[n + 1] # 0
      BY <1>7, <2>2, <3>2
    <3> QED BY <3>1, <3>3
  <2>4. Power(Radix, k - 1) <= Horner(Radix, t, k)
    BY <1>1, <1>5, <2>1, <2>3, LongNumbers
  <2>5. Power(Radix, Width) <= Power(Radix, k - 1) /\ Power(Radix, k - 1) \in Nat
    BY <1>1, <2>1, PowerGrows, PowerNat
  <2>6. ~(Spelt(s) < Prime)
    BY <1>1, <1>5, <1>9, <2>4, <2>5
  <2>7. ~(k < Width) /\ k # Width
    BY <1>1, <1>3, <1>12
  <2> QED BY <1>10, <2>6, <2>7
<1>13. CASE k = Width
  <2>1. /\ DigitList(Radix, p, Width) /\ Len(p) = Width /\ Horner(Radix, p, Width) = Prime
        /\ \A i \in 1 .. Width : p[i] \in Digits
    BY <1>1, DigitsOfFacts
  <2> HIDE DEF p
  <2>2. \A i \in 1 .. Width : c[i] = Lower(p[i]) /\ a[i] = Lower(t[i])
    BY <1>8, <1>13
  <2>3. Len(c) = Width
    <3>1. c \in [1 .. Width -> Nat]
      BY <2>1, CharFacts
    <3> HIDE DEF c
    <3> QED BY <1>1, <3>1, IsASeq, LenProperties
  <2> HIDE DEF c, a
  <2>4. \A i \in 1 .. Width : /\ a[i] < c[i] <=> t[i] < p[i]
                              /\ a[i] = c[i] <=> t[i] = p[i]
    <3> SUFFICES ASSUME NEW i \in 1 .. Width
                 PROVE  (a[i] < c[i] <=> t[i] < p[i]) /\ (a[i] = c[i] <=> t[i] = p[i])
      OBVIOUS
    <3>1. t[i] \in Digits /\ p[i] \in Digits /\ a[i] = Lower(t[i]) /\ c[i] = Lower(p[i])
      BY <1>8, <1>13, <2>1, <2>2
    <3> QED BY <3>1, LowerGrows
  <2>5. Less(a, c) <=> Less(t, p)
    <3>1. \A i \in 1 .. Width : \A j \in 1 .. i - 1 : j \in 1 .. Width
      BY <1>1
    <3> QED BY <2>1, <2>3, <2>4, <3>1 DEF Less
  <2>6. Less(t, p) <=> Horner(Radix, t, Width) < Horner(Radix, p, Width)
    BY <1>5, <1>13, <2>1, LessIsLess
  <2>7. Less(t, p) <=> Spelt(s) < Prime
    BY <1>5, <1>13, <2>1, <2>6
  <2>8. ~(k < Width)
    BY <1>1, <1>13
  <2> QED BY <1>10, <1>13, <2>5, <2>7, <2>8
<1> QED BY <1>1, <1>3, <1>11, <1>12, <1>13

CoordinateAnswer(x, y) ==
  IF IsHex(x) /\ IsHex(y) /\ <<Spelt(x), Spelt(y)>> \in Points
  THEN hashTags(<<Serialized(<<Spelt(x), Spelt(y)>>)>>)
  ELSE Error

\* One point, one tag: the batch of it has the hash of the point.
LEMMA OneTag ==
  ASSUME NEW P \in Points
  PROVE  hashTags(<<Serialized(P)>>) = Answer(<<GetLTagHash(P)>>)
<1> DEFINE u == Serialized(P)
           tags == <<u>>
<1>1. u \in Tags /\ u \in PointTags
  <2>1. u \in Tags
    BY SerializedFacts
  <2>2. u \in PointTags
    BY Zenon DEF PointTags
  <2> QED BY <2>1, <2>2
<1>2. GetLTagHash(P) = <<"tag_hash", u>>
  BY Zenon DEF GetLTagHash
<1> HIDE DEF u
<1>3. Len(tags) = 1 /\ tags[1] = u
  OBVIOUS
<1>4. \A i \in 1 .. Len(tags) : i = 1
  BY <1>3
<1>5. \A i \in 1 .. Len(tags) : tags[i] \in Tags /\ tags[i] \in PointTags
  BY <1>1, <1>3, <1>4
<1> DEFINE h == [i \in 1 .. Len(tags) |-> <<"tag_hash", tags[i]>>]
<1>6. h = <<<<"tag_hash", u>>>>
  BY <1>3, <1>4
<1> HIDE DEF tags
<1>7. hashTags(tags) = BatchAnswer(tags)
  BY <1>5, BatchFacts
<1>8. BatchAnswer(tags) = Answer(h)
  BY <1>5, Zenon DEF BatchAnswer
<1> HIDE DEF h
<1>9. hashTags(tags) = Answer(<<GetLTagHash(P)>>)
  BY <1>2, <1>6, <1>7, <1>8, Zenon
<1> QED BY <1>9, Zenon DEF tags, u

LEMMA CoordinateFacts ==
  ASSUME NEW x, NEW y, Len(x) \in Nat, Len(y) \in Nat
  PROVE  hashTag(x, y) = CoordinateAnswer(x, y)
<1> DEFINE P == <<FieldElement(x), FieldElement(y)>>
           Q == <<Spelt(x), Spelt(y)>>
           ok == isHexCoordinate(x) /\ isHexCoordinate(y) /\ isMember(P)
<1>1. hashTag(x, y) = IF ok THEN Answer(<<GetLTagHash(P)>>) ELSE Error
  BY Zenon DEF hashTag
<1>2. FieldElement(x) = Spelt(x) % Prime /\ FieldElement(y) = Spelt(y) % Prime
  BY Zenon DEF FieldElement, Spelt, Values
<1>3. Prime \in Nat \ {0}
  BY FieldFacts
<1>4. CASE IsHex(x) /\ IsHex(y) /\ Q \in Points
  <2>1. Spelt(x) \in Field /\ Spelt(y) \in Field /\ OnCurve(Spelt(x), Spelt(y))
    <3>1. Q[1] \in Field /\ Q[2] \in Field /\ OnCurve(Q[1], Q[2])
      BY <1>4, PointFacts
    <3>2. Q[1] = Spelt(x) /\ Q[2] = Spelt(y)
      OBVIOUS
    <3> HIDE DEF Q
    <3> QED BY <3>1, <3>2
  <2>2. Spelt(x) < Prime /\ Spelt(y) < Prime
    BY <1>3, <2>1 DEF Field
  <2>3. Spelt(x) % Prime = Spelt(x) /\ Spelt(y) % Prime = Spelt(y)
    BY <1>3, <2>1, SmallRemainder DEF Field
  <2>4. P = Q
    BY <1>2, <2>3
  <2>5. isHexCoordinate(x) /\ isHexCoordinate(y)
    BY <1>4, <2>2, HexCoordinates
  <2>6. isMember(P)
    BY <1>2, <2>1, <2>3 DEF isMember
  <2> HIDE DEF P, Q
  <2>7. hashTag(x, y) = Answer(<<GetLTagHash(Q)>>)
    BY <1>1, <2>4, <2>5, <2>6, Zenon
  <2>8. hashTags(<<Serialized(Q)>>) = Answer(<<GetLTagHash(Q)>>)
    BY <1>4, OneTag
  <2>9. CoordinateAnswer(x, y) = hashTags(<<Serialized(Q)>>)
    BY <1>4, Zenon DEF CoordinateAnswer, Q
  <2> QED BY <2>7, <2>8, <2>9, Zenon
<1>5. CASE ~(IsHex(x) /\ IsHex(y) /\ Q \in Points)
  <2>1. CoordinateAnswer(x, y) = Error
    BY <1>5, Zenon DEF CoordinateAnswer
  <2>2. ASSUME ok PROVE FALSE
    <3>1. IsHex(x) /\ IsHex(y)
      BY <2>2, Zenon DEF isHexCoordinate, IsHex
    <3>2. Spelt(x) < Prime /\ Spelt(y) < Prime /\ Spelt(x) \in Nat /\ Spelt(y) \in Nat
      BY <2>2, <3>1, HexCoordinates, ValuesFacts
    <3>3. Spelt(x) \in Field /\ Spelt(y) \in Field
      BY <1>3, <3>2 DEF Field
    <3>4. Spelt(x) % Prime = Spelt(x) /\ Spelt(y) % Prime = Spelt(y)
      BY <1>3, <3>3, SmallRemainder DEF Field
    <3>5. OnCurve(Spelt(x), Spelt(y))
      <4>1. isMember(P) /\ P[1] = Spelt(x) /\ P[2] = Spelt(y)
        BY <1>2, <2>2, <3>4
      <4> HIDE DEF P
      <4> QED BY <4>1 DEF isMember
    <3>6. Q \in Points
      <4>1. Q \in Field \X Field /\ Q[1] = Spelt(x) /\ Q[2] = Spelt(y)
        BY <3>3
      <4> HIDE DEF Q
      <4> QED BY <3>5, <4>1 DEF Points
    <3> QED BY <1>5, <3>1, <3>6
  <2> HIDE DEF ok
  <2> QED BY <1>1, <2>1, <2>2, Zenon
<1> QED BY <1>4, <1>5

CoordinateInv == asked[1] = "coordinates" => result = CoordinateAnswer(asked[2], asked[3])

LEMMA CoordinateInvMeans ==
  CoordinateInv <=> CoordinatesAreExact
<1>1. CASE asked[1] = "coordinates"
  <2> DEFINE all == /\ IsHex(asked[2]) /\ IsHex(asked[3])
                    /\ <<Spelt(asked[2]), Spelt(asked[3])>> \in Points
  <2>1. CASE all
    BY <1>1, <2>1, Zenon DEF CoordinateInv, CoordinatesAreExact, CoordinateAnswer, IsHex, Spelt, Values
  <2>2. CASE ~all
    BY <1>1, <2>2, Zenon DEF CoordinateInv, CoordinatesAreExact, CoordinateAnswer, IsHex, Spelt, Values
  <2> QED BY <2>1, <2>2
<1>2. CASE asked[1] # "coordinates"
  BY <1>2, Zenon DEF CoordinateInv, CoordinatesAreExact
<1> QED BY <1>1, <1>2

LEMMA StringIn ==
  ASSUME NEW s, s \in Strings \/ s \in Plain
  PROVE  Len(s) \in Nat
<1>1. Width \in Nat
  BY FieldFacts
<1>2. CASE s \in Strings
  <2>1. PICK n \in 0 .. Width + 1 : s \in [1 .. n -> HexChars \cup {Minus}]
    BY <1>2 DEF Strings
  <2>2. n \in Nat
    BY <1>1, <2>1
  <2> QED BY <2>1, <2>2, IsASeq, LenProperties
<1>3. CASE s \in Plain
  <2>1. s \in [1 .. Width -> {Lower(d) : d \in Digits}]
    BY <1>3, Zenon DEF Plain
  <2> QED BY <1>1, <2>1, IsASeq, LenProperties
<1> QED BY <1>2, <1>3

LEMMA CoordinateStep ==
  ASSUME CoordinateInv, [HashNext]_hashVars
  PROVE  CoordinateInv'
<1>1. CASE UNCHANGED hashVars
  <2>1. asked' = asked /\ result' = result
    BY <1>1 DEF hashVars
  <2> QED BY <2>1, Zenon DEF CoordinateInv
<1>2. ASSUME NEW tags, HashTags(tags) PROVE CoordinateInv'
  <2>1. asked'[1] = "tags"
    BY <1>2 DEF HashTags
  <2> QED BY <2>1 DEF CoordinateInv
<1>3. ASSUME NEW x, NEW y, x \in Strings \/ x \in Plain, y \in Strings \/ y \in Plain, HashTag(x, y)
      PROVE  CoordinateInv'
  <2>1. Len(x) \in Nat /\ Len(y) \in Nat
    BY <1>3, StringIn
  <2>2. hashTag(x, y) = CoordinateAnswer(x, y)
    BY <2>1, CoordinateFacts
  <2>3. asked' = <<"coordinates", x, y>> /\ result' = hashTag(x, y)
    BY <1>3, Zenon DEF HashTag
  <2>4. asked'[2] = x /\ asked'[3] = y
    BY <2>3
  <2> QED BY <2>2, <2>3, <2>4, Zenon DEF CoordinateInv
<1>4. CASE asked' = <<"none">>
  <2>1. asked'[1] = "none"
    BY <1>4
  <2> QED BY <2>1 DEF CoordinateInv
<1> QED BY <1>1, <1>2, <1>3, <1>4, Zenon DEF HashNext

\* A pair of strings is hashed exactly when it spells the coordinates of a
\* point, and then with the hash the point has in a batch: hashTag and hashTags
\* give a tag one hash, over every field and radix and however it is spelt.
THEOREM OneHashPerTag == HashSpec => []CoordinatesAreExact
<1>1. HashInit => CoordinateInv
  <2>1. HashInit => asked[1] = "none"
    BY DEF HashInit
  <2> QED BY <2>1 DEF CoordinateInv
<1>2. CoordinateInv /\ [HashNext]_hashVars => CoordinateInv'
  BY CoordinateStep
<1>3. CoordinateInv => CoordinatesAreExact
  BY CoordinateInvMeans
<1> QED BY <1>1, <1>2, <1>3, PTL DEF HashSpec

-----------------------------------------------------------------------------
(***************************************************************************)
(* ADDRESSES.                                                              *)
(***************************************************************************)

-----------------------------------------------------------------------------
(***************************************************************************)
(* Shifting and masking.                                                   *)
(***************************************************************************)

LEMMA RemainderOfRemainder ==
  ASSUME NEW y \in Nat, NEW T \in Nat \ {0}, NEW R \in Nat \ {0}
  PROVE  (y % (T * R)) % T = y % T
<1> DEFINE r == y % T
           q == (y \div T) % R
<1>1. y % (T * R) = T * q + r
  BY TwiceDivided
<1>2. r \in 0 .. T - 1
  BY DividedNat
<1>3. y \div T \in Nat
  BY DividedNat
<1>4. q \in Nat
  <2>1. q \in 0 .. R - 1
    BY <1>3, DividedNat
  <2> QED BY <2>1
<1> HIDE DEF r, q
<1>5. (T * q + r) % T = r
  BY <1>2, <1>4, DividedOnly
<1> QED BY <1>1, <1>5 DEF r

LEMMA TwoPower ==
  ASSUME NEW k \in Nat
  PROVE  Power(2, k) \in Nat \ {0} /\ Power(2, 0) = 1 /\ Power(2, k + 1) = 2 * Power(2, k)
BY PowerNat, PowerStep

LEMMA TwoPowerSum ==
  ASSUME NEW m \in Nat, NEW n \in Nat
  PROVE  Power(2, m + n) = Power(2, m) * Power(2, n)
BY PowerSum

\* (x & mask) >> k, masked again, is x >> k masked.
LEMMA MaskedShift ==
  ASSUME NEW x \in Nat, NEW k \in Nat, NEW t \in Nat, NEW M \in Nat, k + t <= M
  PROVE  ((x % Power(2, M)) \div Power(2, k)) % Power(2, t) = (x \div Power(2, k)) % Power(2, t)
<1> DEFINE j == M - k - t
           P == Power(2, k)
           T == Power(2, t)
           R == Power(2, j)
           Q == T * R
           y == x \div P
<1>1. j \in Nat /\ M = k + (t + j) /\ t + j \in Nat
  OBVIOUS
<1>2. P \in Nat \ {0} /\ T \in Nat \ {0} /\ R \in Nat \ {0}
  BY <1>1, TwoPower
<1>3. Power(2, t + j) = T * R /\ Power(2, k + (t + j)) = P * Power(2, t + j)
  BY <1>1, TwoPowerSum
<1>4. Power(2, M) = P * Q
  BY <1>1, <1>3
<1>5. Q \in Nat \ {0}
  BY <1>2, PositiveProduct
<1> HIDE DEF P, T, R, Q, j
<1>6. x % (P * Q) = P * (y % Q) + (x % P)
  BY <1>2, <1>5, TwiceDivided
<1>7. y \in Nat /\ x % P \in 0 .. P - 1
  BY <1>2, DividedNat
<1> HIDE DEF y
<1>8. y % Q \in Nat
  <2>1. y % Q \in 0 .. Q - 1
    BY <1>5, <1>7, DividedNat
  <2> QED BY <1>5, <2>1
<1> DEFINE z == y % Q
           r == x % P
<1>9. (P * z + r) \div P = z
  <2> HIDE DEF z, r
  <2>1. z \in Int /\ r \in 0 .. P - 1
    BY <1>7, <1>8 DEF z, r
  <2> QED BY <1>2, <2>1, DividedOnly
<1>10. (x % Power(2, M)) \div P = y % Q
  BY <1>4, <1>6, <1>9
<1>11. (y % (T * R)) % T = y % T
  BY <1>2, <1>7, RemainderOfRemainder
<1> QED BY <1>10, <1>11 DEF Q, P, T, y

LEMMA Masked ==
  ASSUME NEW x \in Nat, NEW t \in Nat, NEW M \in Nat, t <= M
  PROVE  (x % Power(2, M)) % Power(2, t) = x % Power(2, t)
<1> DEFINE j == M - t
           T == Power(2, t)
           R == Power(2, j)
<1>1. j \in Nat /\ M = t + j
  OBVIOUS
<1>2. T \in Nat \ {0} /\ R \in Nat \ {0} /\ Power(2, t + j) = T * R
  BY <1>1, TwoPower, TwoPowerSum
<1>3. Power(2, M) = T * R
  BY <1>1, <1>2
<1> HIDE DEF j, T, R
<1>4. (x % (T * R)) % T = x % T
  BY <1>2, RemainderOfRemainder
<1> QED BY <1>3, <1>4 DEF T

LEMMA ShiftedTwice ==
  ASSUME NEW x \in Nat, NEW m \in Nat, NEW n \in Nat
  PROVE  x \div Power(2, m + n) = (x \div Power(2, m)) \div Power(2, n)
<1> DEFINE P == Power(2, m)
           R == Power(2, n)
<1>1. P \in Nat \ {0} /\ R \in Nat \ {0} /\ Power(2, m + n) = P * R
  BY TwoPower, TwoPowerSum
<1> HIDE DEF P, R
<1>2. x \div (P * R) = (x \div P) \div R
  BY <1>1, TwiceDivided
<1> QED BY <1>1, <1>2 DEF P, R

LEMMA ScaledRemainder ==
  ASSUME NEW x \in Nat, NEW p \in Nat \ {0}, NEW q \in Nat \ {0}
  PROVE  (x * q) % (p * q) = (x % p) * q
<1> DEFINE a == x \div p
           r == x % p
           u == r * q
           w == p * q
<1>1. a \in Nat /\ r \in 0 .. p - 1 /\ p * a + r = x
  BY DividedNat
<1>2. w \in Nat \ {0}
  BY PositiveProduct
<1> HIDE DEF a, r
<1>3. u \in Nat /\ u <= w - q
  <2>1. r \in Nat /\ p - 1 - r \in Nat
    BY <1>1
  <2>2. (p - 1 - r) * q >= 0 /\ r * q >= 0 /\ r * q \in Int
    BY <2>1
  <2>3. (p - 1 - r) * q = p * q - q - r * q
    BY <2>1
  <2> QED BY <1>2, <2>2, <2>3
<1>4. x * q = w * a + u
  <2>1. x * q = (p * a + r) * q
    BY <1>1
  <2>2. (p * a + r) * q = (p * q) * a + r * q
    BY <1>1
  <2> QED BY <2>1, <2>2
<1> HIDE DEF u, w
<1>5. u \in 0 .. w - 1
  BY <1>2, <1>3
<1>6. (w * a + u) % w = u
  BY <1>1, <1>2, <1>5, DividedOnly
<1> QED BY <1>4, <1>6 DEF u, w, r

-----------------------------------------------------------------------------
(***************************************************************************)
(* convertbits.                                                            *)
(***************************************************************************)

NoGroups == [acc |-> 0, bits |-> 0, out |-> <<>>]

IsConverting(in, f, t, m, v) ==
  v = [n \in 0 .. m |-> IF n = 0 THEN NoGroups ELSE Accumulate(v[n - 1], in[n], f, t)]

LEMMA ConvertingExists ==
  ASSUME NEW in, NEW f, NEW t
  PROVE  \A m \in Nat : \E v : IsConverting(in, f, t, m, v)
<1> DEFINE S == {m \in Nat : \E v : IsConverting(in, f, t, m, v)}
<1>1. 0 \in S
  <2>1. IsConverting(in, f, t, 0, [n \in 0 .. 0 |-> NoGroups])
    BY DEF IsConverting
  <2> QED BY <2>1
<1>2. ASSUME NEW m \in Nat, m \in S PROVE m + 1 \in S
  <2>1. PICK v : IsConverting(in, f, t, m, v)
    BY <1>2
  <2> DEFINE c == [n \in 0 .. m + 1 |->
                     IF n = m + 1 THEN Accumulate(v[m], in[m + 1], f, t) ELSE v[n]]
  <2>2. IsConverting(in, f, t, m + 1, c)
    BY <2>1 DEF IsConverting
  <2> QED BY <2>2
<1> HIDE DEF S
<1>3. Nat \subseteq S
  BY <1>1, <1>2, Induction
<1> QED BY <1>3 DEF S

LEMMA ConvertingIs ==
  ASSUME NEW in, NEW f, NEW t, Len(in) \in Nat
  PROVE  \E v : IsConverting(in, f, t, Len(in), v) /\ Converted(in, f, t) = v[Len(in)]
<1>1. \E v : v = [n \in 0 .. Len(in) |->
                    IF n = 0 THEN [acc |-> 0, bits |-> 0, out |-> <<>>]
                    ELSE Accumulate(v[n - 1], in[n], f, t)]
  <2>1. PICK v : IsConverting(in, f, t, Len(in), v)
    BY ConvertingExists
  <2> QED BY <2>1, Zenon DEF IsConverting, NoGroups
<1> QED BY <1>1, Zenon DEF Converted, IsConverting, NoGroups

\* The accumulator keeps the low bits of the number read.
KeepsLowBits(N, M, F, d) == ((N % M) * F + d) % M = (N * F + d) % M

LEMMA AccumulatorStep ==
  ASSUME NEW N \in Nat, NEW M \in Nat \ {0}, NEW F \in Nat, NEW d \in Nat
  PROVE  KeepsLowBits(N, M, F, d)
<1> DEFINE r == N % M
           a == N \div M
           x == N * F + d
           y == r * F + d
           q == a * F
<1>1. a \in Nat /\ r \in 0 .. M - 1 /\ M * a + r = N
  BY DividedNat
<1> HIDE DEF a, r
<1>2. r \in Nat
  BY <1>1
<1>3. N * F = (M * a + r) * F
  BY <1>1
<1>4. (M * a + r) * F = M * (a * F) + r * F
  BY <1>1, <1>2
<1>5. x = y + M * q
  BY <1>1, <1>2, <1>3, <1>4
<1>6. x \in Int /\ y \in Int /\ q \in Int
  BY <1>1, <1>2
<1> HIDE DEF x, y, q
<1>7. x % M = y % M
  BY <1>5, <1>6, MultipleApart
<1> QED BY <1>7 DEF x, y, r, KeepsLowBits

\* The groups written for a value are digits of what is left of the number.
LEMMA GroupsStep ==
  ASSUME NEW N \in Nat, NEW f \in Nat \ {0}, NEW t \in Nat \ {0}, NEW bits \in Nat,
         bits <= f + t - 1, NEW g,
         \A j \in 1 .. bits \div t :
           g[j] = ((N % Power(2, f + t - 1)) \div Power(2, bits - j * t)) % Power(2, t)
  PROVE  DigitsFrom(Power(2, t), g, bits \div t, N \div Power(2, bits % t))
<1> DEFINE groups == bits \div t
           rem == bits % t
           T == Power(2, t)
<1>1. groups \in Nat /\ rem \in 0 .. t - 1 /\ t * groups + rem = bits
  BY DividedNat
<1>2. f + t - 1 \in Nat /\ rem \in Nat
  BY <1>1
<1> HIDE DEF groups, rem
<1>3. ASSUME NEW j \in 1 .. groups
      PROVE  g[j] = ((N \div Power(2, rem)) \div Power(T, groups - j)) % T
  <2> DEFINE i == groups - j
             u == t * i
             k == bits - j * t
  <2>1. i \in Nat /\ j \in Nat /\ j >= 1 /\ groups = i + j
    BY <1>1, <1>3
  <2>2. u \in Nat
    BY <2>1, NatProduct
  <2>3. t * groups = u + j * t /\ j * t >= t
    <3>1. t * groups = t * (i + j)
      BY <2>1
    <3>2. t * (i + j) = t * i + j * t
      BY <2>1
    <3>3. t * j >= t /\ t * j = j * t
      BY <2>1, ProductGrows
    <3> QED BY <3>1, <3>2, <3>3
  <2>4. k = rem + u /\ k + t <= f + t - 1 /\ k \in Nat
    <3> DEFINE w == j * t
               z == t * groups
    <3>1. w \in Int /\ z \in Int /\ z = u + w /\ w >= t /\ z + rem = bits /\ k = bits - w
      BY <1>1, <2>1, <2>3
    <3> HIDE DEF w, z, u, k
    <3> QED BY <1>2, <2>2, <3>1
  <2> HIDE DEF u, i
  <2>5. g[j] = ((N % Power(2, f + t - 1)) \div Power(2, k)) % Power(2, t)
    BY <1>3 DEF groups
  <2> HIDE DEF k
  <2>6. ((N % Power(2, f + t - 1)) \div Power(2, k)) % Power(2, t) = (N \div Power(2, k)) % Power(2, t)
    BY <1>2, <2>4, MaskedShift
  <2>7. N \div Power(2, rem + u) = (N \div Power(2, rem)) \div Power(2, u)
    BY <1>2, <2>2, ShiftedTwice
  <2>8. Power(T, i) = Power(2, t * i)
    BY <2>1, PowerProduct
  <2>9. Power(T, i) = Power(2, u)
    BY <2>8 DEF u
  <2>10. g[j] = ((N \div Power(2, rem)) \div Power(T, i)) % T
    BY <2>4, <2>5, <2>6, <2>7, <2>9
  <2> QED BY <2>10 DEF i
<1>4. DigitsFrom(T, g, groups, N \div Power(2, rem))
  BY <1>3 DEF DigitsFrom
<1> QED BY <1>4 DEF groups, rem, T

\* What convertbits knows after n values: the groups written are the number
\* read without its last bits, and the accumulator has those.
Converting(in, f, t, n, st) ==
  /\ st.bits \in 0 .. t - 1 /\ st.out \in Seq(Nat)
  /\ DigitList(Power(2, t), st.out, Len(st.out))
  /\ Len(st.out) * t + st.bits = n * f
  /\ st.acc = Horner(Power(2, f), in, n) % Power(2, f + t - 1)
  /\ Horner(Power(2, t), st.out, Len(st.out)) = Horner(Power(2, f), in, n) \div Power(2, st.bits)

LEMMA ConvertingStep ==
  ASSUME NEW f \in Nat \ {0}, NEW t \in Nat \ {0}, NEW in, NEW n \in Nat,
         DigitList(Power(2, f), in, n + 1), NEW st, Converting(in, f, t, n, st)
  PROVE  Converting(in, f, t, n + 1, Accumulate(st, in[n + 1], f, t))
<1> DEFINE F == Power(2, f)
           T == Power(2, t)
           M == Power(2, f + t - 1)
           N == Horner(F, in, n)
           N1 == Horner(F, in, n + 1)
           d == in[n + 1]
           bits == st.bits + f
           groups == bits \div t
           rem == bits % t
           acc == (st.acc * F + d) % M
           g == [j \in 1 .. groups |-> (acc \div Power(2, bits - j * t)) % T]
           out == st.out \o g
           L == Len(st.out)
           new == Accumulate(st, d, f, t)
<1>1. /\ F \in Nat \ {0} /\ T \in Nat \ {0} /\ M \in Nat \ {0}
  <2>1. f + t - 1 \in Nat
    OBVIOUS
  <2> QED BY <2>1, TwoPower
<1>2. N \in Nat /\ N1 \in Nat
  <2>1. n \in 0 .. n + 1 /\ n + 1 \in 0 .. n + 1 /\ n + 1 \in Nat
    OBVIOUS
  <2> QED BY <1>1, <2>1, HornerRange
<1>3. N1 = F * N + d
  BY HornerStep
<1>4. d \in 0 .. F - 1 /\ d \in Nat
  <2>1. n + 1 \in 1 .. n + 1
    OBVIOUS
  <2>2. d \in 0 .. F - 1
    BY <2>1 DEF DigitList
  <2> QED BY <1>1, <2>2
<1>5. /\ st.bits \in 0 .. t - 1 /\ st.out \in Seq(Nat) /\ DigitList(T, st.out, L)
      /\ L * t + st.bits = n * f /\ st.acc = N % M
      /\ Horner(T, st.out, L) = N \div Power(2, st.bits)
  BY DEF Converting
<1>6. L \in Nat /\ st.bits \in Nat /\ bits \in Nat /\ bits <= f + t - 1
  BY <1>5, LenProperties
<1>7. groups \in Nat /\ rem \in 0 .. t - 1 /\ t * groups + rem = bits
  <2> HIDE DEF bits
  <2> QED BY <1>6, DividedNat
<1>8. new = [acc |-> acc, bits |-> rem, out |-> out]
  BY Zenon DEF Accumulate
<1>9. acc = N1 % M
  <2> HIDE DEF N, M, F, d
  <2>1. ((N % M) * F + d) % M = (N * F + d) % M
    <3>1. N \in Nat /\ M \in Nat \ {0} /\ F \in Nat /\ d \in Nat
      BY <1>1, <1>2, <1>4
    <3>2. KeepsLowBits(N, M, F, d)
      BY <3>1, AccumulatorStep
    <3> QED BY <3>2 DEF KeepsLowBits
  <2>2. N * F = F * N
    BY <1>1, <1>2
  <2> QED BY <1>3, <1>5, <2>1, <2>2
<1> HIDE DEF acc, groups, rem, new, N, N1, F, T, M, d, L
<1>10. \A j \in 1 .. groups : g[j] = ((N1 % M) \div Power(2, bits - j * t)) % T
  BY <1>9
<1>11. DigitsFrom(T, g, groups, N1 \div Power(2, rem))
  <2> HIDE DEF g, bits
  <2> QED BY <1>2, <1>6, <1>10, GroupsStep DEF groups, rem, M, T
<1> DEFINE Q == N1 \div Power(2, rem)
           W == Power(T, groups)
<1>12. rem \in Nat /\ Power(2, rem) \in Nat \ {0} /\ W \in Nat \ {0}
  <2>1. rem \in Nat
    BY <1>7
  <2>2. Power(2, rem) \in Nat \ {0}
    BY <2>1, TwoPower
  <2>3. W \in Nat \ {0}
    BY <1>1, <1>7, PowerNat
  <2> QED BY <2>1, <2>2, <2>3
<1>13. Q \in Nat
  BY <1>2, <1>12, DividedNat
<1>14. DigitList(T, g, groups) /\ Horner(T, g, groups) = Q % W
  <2> HIDE DEF g, Q
  <2>1. DigitsFrom(T, g, groups, Q)
    BY <1>11 DEF Q
  <2> QED BY <1>1, <1>7, <1>13, <2>1, DigitsMake
<1>15. g \in Seq(Nat) /\ Len(g) = groups
  <2>1. \A j \in 1 .. groups : g[j] \in 0 .. T - 1
    BY <1>14 DEF DigitList
  <2>2. \A j \in 1 .. groups : g[j] \in Nat
    BY <1>1, <2>1
  <2>3. g \in [1 .. groups -> Nat]
    BY <2>2
  <2> HIDE DEF g
  <2> QED BY <1>7, <2>3, IsASeq, LenProperties
<1> HIDE DEF g, Q, W
<1>16. /\ out \in Seq(Nat) /\ Len(out) = L + groups
       /\ \A i \in 1 .. L + groups : out[i] = IF i <= L THEN st.out[i] ELSE g[i - L]
  BY <1>5, <1>15, ConcatProperties DEF L
<1> HIDE DEF out
<1>17. \A i \in 1 .. L : out[i] = st.out[i]
  <2>1. \A i \in 1 .. L : i \in 1 .. L + groups /\ i <= L
    BY <1>6, <1>7
  <2> QED BY <1>16, <2>1
<1>18. \A i \in 1 .. groups : g[i] = out[L + i]
  <2> SUFFICES ASSUME NEW i \in 1 .. groups PROVE g[i] = out[L + i]
    OBVIOUS
  <2> DEFINE k == L + i
  <2>1. k \in 1 .. L + groups /\ ~(k <= L) /\ k - L = i
    BY <1>6, <1>7
  <2> HIDE DEF k
  <2>2. out[k] = g[k - L]
    BY <1>16, <2>1
  <2> QED BY <2>1, <2>2 DEF k
<1>19. DigitList(T, out, L + groups)
  <2> SUFFICES ASSUME NEW i \in 1 .. L + groups PROVE out[i] \in 0 .. T - 1
    BY DEF DigitList
  <2>1. CASE i <= L
    <3>1. i \in 1 .. L
      BY <1>6, <1>7, <2>1
    <3> QED BY <1>5, <1>17, <3>1 DEF DigitList
  <2>2. CASE ~(i <= L)
    <3>1. i - L \in 1 .. groups
      BY <1>6, <1>7, <2>2
    <3>2. out[i] = g[i - L]
      BY <1>16, <2>2
    <3> QED BY <1>14, <3>1, <3>2 DEF DigitList
  <2> QED BY <2>1, <2>2
<1>20. Horner(T, out, L + groups) = Horner(T, out, L) * W + Horner(T, g, groups)
  <2>1. LastPart(out, L, groups, g)
    BY <1>18 DEF LastPart
  <2> QED BY <1>1, <1>6, <1>7, <1>19, <2>1, HornerParts DEF W
<1>21. Horner(T, out, L) = N \div Power(2, st.bits)
  <2>1. Horner(T, out, L) = Horner(T, st.out, L)
    BY <1>6, <1>17, HornerSame
  <2> QED BY <1>5, <2>1
<1>22. N \div Power(2, st.bits) = Q \div W
  <2> DEFINE u == t * groups
  <2>1. u \in Nat
    BY <1>7, NatProduct
  <2>2. W = Power(2, u)
    BY <1>7, PowerProduct DEF W, T
  <2>3. rem + u = f + st.bits
    BY <1>6, <1>7, <1>12, <2>1
  <2> HIDE DEF u
  <2>4. N1 \div Power(2, rem + u) = Q \div Power(2, u)
    BY <1>2, <1>12, <2>1, ShiftedTwice DEF Q
  <2>5. N1 \div Power(2, f + st.bits) = (N1 \div F) \div Power(2, st.bits)
    <3>1. f \in Nat /\ st.bits \in Nat
      BY <1>6
    <3>2. N1 \div Power(2, f + st.bits) = (N1 \div Power(2, f)) \div Power(2, st.bits)
      <4> DEFINE k == st.bits
      <4> HIDE DEF k
      <4>1. k \in Nat
        BY <3>1 DEF k
      <4>2. N1 \div Power(2, f + k) = (N1 \div Power(2, f)) \div Power(2, k)
        BY <1>2, <3>1, <4>1, ShiftedTwice
      <4> QED BY <4>2 DEF k
    <3> QED BY <3>2 DEF F
  <2>6. N1 \div F = N
    BY <1>1, <1>2, <1>3, <1>4, DividedOnly
  <2> QED BY <2>2, <2>3, <2>4, <2>5, <2>6
<1>23. Horner(T, out, L + groups) = Q
  <2>1. W * (Q \div W) + (Q % W) = Q /\ Q \div W \in Nat
    BY <1>12, <1>13, DividedNat
  <2> DEFINE a == Q \div W
             r == Q % W
  <2>2. Horner(T, out, L + groups) = a * W + r
    BY <1>14, <1>20, <1>21, <1>22
  <2>3. a * W = W * a
    <3> HIDE DEF a
    <3>1. a \in Nat
      BY <2>1 DEF a
    <3> QED BY <1>12, <3>1
  <2> QED BY <2>1, <2>2, <2>3
<1>24. (L + groups) * t + rem = (n + 1) * f
  <2>1. (L + groups) * t = L * t + t * groups
    BY <1>6, <1>7
  <2>2. (n + 1) * f = n * f + f
    OBVIOUS
  <2> DEFINE u == t * groups
             w == L * t
             z == n * f
  <2>3. u \in Int /\ w \in Int /\ z \in Int
    BY <1>6, <1>7
  <2>4. u + rem = st.bits + f /\ w + st.bits = z
    BY <1>5, <1>7
  <2> HIDE DEF u, w, z
  <2>5. (w + u) + rem = z + f
    BY <1>6, <1>12, <2>3, <2>4
  <2> QED BY <2>1, <2>2, <2>5 DEF u, w, z
<1>25. new.acc = acc /\ new.bits = rem /\ new.out = out
  BY <1>8
<1>26. Converting(in, f, t, n + 1, new)
  BY <1>7, <1>9, <1>16, <1>19, <1>23, <1>24, <1>25 DEF Converting, Q, N1, F, T, M
<1> QED BY <1>26 DEF new, d

LEMMA ConvertedFacts ==
  ASSUME NEW f \in Nat \ {0}, NEW t \in Nat \ {0}, NEW in, Len(in) \in Nat,
         DigitList(Power(2, f), in, Len(in))
  PROVE  Converting(in, f, t, Len(in), Converted(in, f, t))
<1>1. PICK v : IsConverting(in, f, t, Len(in), v) /\ Converted(in, f, t) = v[Len(in)]
  BY ConvertingIs
<1> DEFINE m == Len(in)
           S == {n \in Nat : n <= m => Converting(in, f, t, n, v[n])}
<1>2. 0 \in S
  <2> DEFINE M == Power(2, f + t - 1)
  <2>1. v[0] = NoGroups
    <3>1. 0 \in 0 .. m
      OBVIOUS
    <3> QED BY <1>1, <3>1, Zenon DEF IsConverting
  <2>2. v[0].acc = 0 /\ v[0].bits = 0 /\ v[0].out = <<>>
    BY <2>1 DEF NoGroups
  <2>3. Horner(Power(2, f), in, 0) = 0 /\ Horner(Power(2, t), <<>>, 0) = 0 /\ Len(<<>>) = 0
    BY HornerStep
  <2>4. Power(2, 0) = 1 /\ M \in Nat \ {0}
    <3>1. f + t - 1 \in Nat /\ 0 \in Nat
      OBVIOUS
    <3> QED BY <3>1, TwoPower
  <2>5. 0 % M = 0 /\ 0 \div Power(2, 0) = 0
    BY <2>4
  <2>6. <<>> \in Seq(Nat) /\ DigitList(Power(2, t), <<>>, 0)
    BY DEF DigitList
  <2>7. 0 * t + 0 = 0 * f /\ 0 \in 0 .. t - 1
    OBVIOUS
  <2> HIDE DEF M
  <2>8. Converting(in, f, t, 0, v[0])
    BY <2>2, <2>3, <2>5, <2>6, <2>7 DEF Converting, M
  <2> QED BY <2>8
<1>3. ASSUME NEW n \in Nat, n \in S PROVE n + 1 \in S
  <2>1. CASE n + 1 <= m
    <3>1. Converting(in, f, t, n, v[n])
      BY <1>3, <2>1
    <3>2. v[n + 1] = Accumulate(v[n], in[n + 1], f, t)
      <4> DEFINE k == n + 1
      <4>1. k \in 0 .. m /\ k # 0 /\ k - 1 = n
        BY <1>3, <2>1
      <4> HIDE DEF k
      <4>2. v[k] = Accumulate(v[k - 1], in[k], f, t)
        BY <1>1, <4>1, Zenon DEF IsConverting
      <4> QED BY <4>1, <4>2 DEF k
    <3>3. DigitList(Power(2, f), in, n + 1)
      BY <2>1 DEF DigitList
    <3>4. Converting(in, f, t, n + 1, Accumulate(v[n], in[n + 1], f, t))
      BY <3>1, <3>3, ConvertingStep
    <3> QED BY <3>2, <3>4
  <2>2. CASE ~(n + 1 <= m)
    BY <2>2
  <2> QED BY <2>1, <2>2
<1>4. ASSUME Nat \subseteq S PROVE Converting(in, f, t, m, v[m])
  BY <1>4
<1> HIDE DEF S
<1>5. Nat \subseteq S
  BY <1>2, <1>3, Induction
<1> QED BY <1>1, <1>4, <1>5

\* The bits left over, as a group.
LEMMA RestFacts ==
  ASSUME NEW f \in Nat \ {0}, NEW t \in Nat \ {0}, NEW in, NEW n \in Nat,
         DigitList(Power(2, f), in, n), NEW st, Converting(in, f, t, n, st)
  PROVE  Rest(st, t) = (Horner(Power(2, f), in, n) % Power(2, st.bits)) * Power(2, t - st.bits)
<1> DEFINE k == st.bits
           j == t - k
           N == Horner(Power(2, f), in, n)
           M == f + t - 1
           P == Power(2, k)
           R == Power(2, j)
<1>1. k \in 0 .. t - 1 /\ st.acc = N % Power(2, M)
  BY DEF Converting
<1> HIDE DEF k
<1>2. k \in Nat /\ j \in Nat /\ t = k + j /\ M \in Nat /\ k <= M
  BY <1>1
<1>3. P \in Nat \ {0} /\ R \in Nat \ {0} /\ Power(2, k + j) = P * R /\ Power(2, M) \in Nat \ {0}
  BY <1>2, TwoPower, TwoPowerSum
<1>4. Power(2, t) = P * R
  BY <1>2, <1>3
<1>5. N \in Nat
  <2>1. Power(2, f) \in Nat \ {0} /\ n \in 0 .. n
    BY TwoPower
  <2> QED BY <2>1, HornerRange
<1> HIDE DEF N
<1> DEFINE a == N % Power(2, M)
<1>6. a \in Nat
  <2>1. a \in 0 .. Power(2, M) - 1
    BY <1>3, <1>5, DividedNat
  <2> QED BY <1>3, <2>1
<1>7. a % P = N % P
  <2> HIDE DEF M
  <2> QED BY <1>2, <1>5, Masked
<1> HIDE DEF a, P, R, M, j
<1>8. (a * R) % (P * R) = (a % P) * R
  BY <1>3, <1>6, ScaledRemainder
<1>9. Rest(st, t) = (a * R) % (P * R)
  BY <1>1, <1>4 DEF Rest, a, R, j, k
<1>10. Rest(st, t) = (N % P) * R
  BY <1>7, <1>8, <1>9
<1> QED BY <1>10 DEF N, P, R, j, k

\* data are the values of in as groups of t bits, with pad zeros at the end.
IsPadding(in, f, t, pad, data) ==
  /\ pad \in 0 .. t - 1 /\ data \in Seq(Nat) /\ DigitList(Power(2, t), data, Len(data))
  /\ Len(data) * t = Len(in) * f + pad
  /\ Horner(Power(2, t), data, Len(data)) = Horner(Power(2, f), in, Len(in)) * Power(2, pad)

LEMMA NumberIn ==
  ASSUME NEW f \in Nat, NEW in, NEW n \in Nat, DigitList(Power(2, f), in, n)
  PROVE  Horner(Power(2, f), in, n) \in Nat
<1>1. Power(2, f) \in Nat \ {0} /\ n \in 0 .. n
  BY TwoPower
<1> QED BY <1>1, HornerRange

LEMMA PaddedFacts ==
  ASSUME NEW f \in Nat \ {0}, NEW t \in Nat \ {0}, NEW in, Len(in) \in Nat,
         DigitList(Power(2, f), in, Len(in))
  PROVE  \E pad : IsPadding(in, f, t, pad, Padded(Converted(in, f, t), t))
<1> DEFINE st == Converted(in, f, t)
           T == Power(2, t)
           n == Len(in)
           N == Horner(Power(2, f), in, n)
           k == st.bits
           L == Len(st.out)
<1>1. Converting(in, f, t, n, st)
  BY ConvertedFacts
<1>2. Rest(st, t) = (N % Power(2, k)) * Power(2, t - k)
  BY <1>1, RestFacts
<1> HIDE DEF st
<1>3. /\ k \in 0 .. t - 1 /\ st.out \in Seq(Nat) /\ DigitList(T, st.out, L)
      /\ L * t + k = n * f /\ Horner(T, st.out, L) = N \div Power(2, k)
  BY <1>1 DEF Converting
<1>4. N \in Nat
  BY NumberIn
<1>5. k \in Nat /\ L \in Nat /\ T \in Nat \ {0}
  <2>1. k \in Nat
    BY <1>3
  <2>2. L \in Nat
    BY <1>3, LenProperties
  <2>3. T \in Nat \ {0}
    BY TwoPower
  <2> QED BY <2>1, <2>2, <2>3
<1>6. CASE k = 0
  <2>1. Padded(st, t) = st.out
    BY <1>6, Zenon DEF Padded
  <2>2. Power(2, 0) = 1
    BY TwoPower
  <2>3. Horner(T, st.out, L) = N * Power(2, 0)
    BY <1>3, <1>4, <1>6, <2>2
  <2>4. L * t = n * f + 0
    <3>1. L * t \in Int /\ n * f \in Int
      BY <1>5
    <3> QED BY <1>3, <1>6, <3>1
  <2>5. IsPadding(in, f, t, 0, st.out)
    BY <1>3, <1>6, <2>3, <2>4 DEF IsPadding
  <2> QED BY <2>1, <2>5 DEF st
<1>7. CASE k # 0
  <2> DEFINE j == t - k
             P == Power(2, k)
             R == Power(2, j)
             r == N % P
             q == N \div P
             rest == Rest(st, t)
             data == Append(st.out, rest)
  <2> HIDE DEF k
  <2>1. j \in 0 .. t - 1 /\ j \in Nat /\ t = k + j
    BY <1>3, <1>5, <1>7
  <2>2. P \in Nat \ {0} /\ R \in Nat \ {0} /\ Power(2, k + j) = P * R
    BY <1>5, <2>1, TwoPower, TwoPowerSum
  <2>3. T = P * R
    BY <2>1, <2>2
  <2>4. q \in Nat /\ r \in 0 .. P - 1 /\ P * q + r = N
    BY <1>4, <2>2, DividedNat
  <2>5. rest = r * R
    BY <1>2
  <2> HIDE DEF rest, P, R, q, r, T
  <2>6. r \in Nat
    BY <2>2, <2>4
  <2>7. rest \in 0 .. T - 1 /\ rest \in Nat
    <3> DEFINE u == r * R
               w == P * R
    <3>1. u \in Nat /\ w \in Nat
      BY <2>2, <2>6, NatProduct
    <3>2. (P - 1 - r) * R >= 0
      <4>1. P - 1 - r \in Nat
        BY <2>2, <2>4
      <4>2. (P - 1 - r) * R \in Nat
        BY <2>2, <4>1, NatProduct
      <4> QED BY <4>2
    <3>3. (P - 1 - r) * R = w - R - u
      BY <2>2, <2>6
    <3> HIDE DEF u, w
    <3>4. u <= w - R
      BY <2>2, <3>1, <3>2, <3>3
    <3> QED BY <2>2, <2>3, <2>5, <3>1, <3>4 DEF u, w
  <2>8. /\ data \in Seq(Nat) /\ Len(data) = L + 1
        /\ \A i \in 1 .. L : data[i] = st.out[i]
        /\ data[L + 1] = rest
    BY <1>3, <2>7, AppendProperties
  <2> HIDE DEF data
  <2>9. DigitList(T, data, L + 1)
    <3> SUFFICES ASSUME NEW i \in 1 .. L + 1 PROVE data[i] \in 0 .. T - 1
      BY DEF DigitList
    <3>1. i \in 1 .. L \/ i = L + 1
      BY <1>5
    <3> QED BY <1>3, <2>7, <2>8, <3>1 DEF DigitList
  <2>10. Horner(T, data, L + 1) = T * Horner(T, data, L) + rest
    <3>1. Horner(T, data, L + 1) = T * Horner(T, data, L) + data[L + 1]
      <4> HIDE DEF L
      <4> QED BY <1>5, HornerStep
    <3> QED BY <2>8, <3>1
  <2>11. Horner(T, data, L) = q
    <3>1. Horner(T, data, L) = Horner(T, st.out, L)
      BY <1>5, <2>8, HornerSame
    <3> QED BY <1>3, <3>1 DEF q, P
  <2>12. Horner(T, data, L + 1) = N * R
    <3>1. Horner(T, data, L + 1) = (P * R) * q + r * R
      BY <2>3, <2>5, <2>10, <2>11
    <3>2. (P * R) * q + r * R = (P * q + r) * R
      BY <2>2, <2>4, <2>6
    <3> QED BY <2>4, <3>1, <3>2
  <2>13. (L + 1) * t = n * f + j
    <3> DEFINE u == L * t
               w == n * f
    <3>1. u \in Int /\ w \in Int /\ u + k = w
      BY <1>3, <1>5 DEF k
    <3>2. (L + 1) * t = u + t
      BY <1>5
    <3> HIDE DEF u, w
    <3>3. u + t = w + j
      BY <1>5, <2>1, <3>1
    <3> QED BY <3>2, <3>3 DEF w
  <2>14. IsPadding(in, f, t, j, data)
    BY <2>1, <2>8, <2>9, <2>12, <2>13 DEF IsPadding, R, T
  <2>15. Padded(st, t) = data
    BY <1>7, Zenon DEF Padded, data, rest, k
  <2> QED BY <2>14, <2>15 DEF st
<1> QED BY <1>6, <1>7

\* Equal multiples with small remainders.
LEMMA SameParts ==
  ASSUME NEW t \in Nat \ {0}, NEW a \in Nat, NEW b \in Nat, NEW r \in 0 .. t - 1, NEW q \in 0 .. t - 1,
         a * t + r = b * t + q
  PROVE  a = b /\ r = q
<1>1. (t * a + r) \div t = a /\ (t * a + r) % t = r
  BY DividedOnly
<1>2. (t * b + q) \div t = b /\ (t * b + q) % t = q
  BY DividedOnly
<1>3. t * a = a * t /\ t * b = b * t
  OBVIOUS
<1> QED BY <1>1, <1>2, <1>3

LEMMA PaddingUnique ==
  ASSUME NEW f \in Nat \ {0}, NEW t \in Nat \ {0}, NEW in, Len(in) \in Nat,
         NEW pad, NEW data, IsPadding(in, f, t, pad, data),
         NEW pad1, NEW data1, IsPadding(in, f, t, pad1, data1)
  PROVE  data = data1
<1> DEFINE T == Power(2, t)
           L == Len(data)
           L1 == Len(data1)
           u == Len(in) * f
<1>1. /\ pad \in 0 .. t - 1 /\ data \in Seq(Nat) /\ DigitList(T, data, L) /\ L * t = u + pad
      /\ Horner(T, data, L) = Horner(Power(2, f), in, Len(in)) * Power(2, pad)
  BY DEF IsPadding
<1>2. /\ pad1 \in 0 .. t - 1 /\ data1 \in Seq(Nat) /\ DigitList(T, data1, L1) /\ L1 * t = u + pad1
      /\ Horner(T, data1, L1) = Horner(Power(2, f), in, Len(in)) * Power(2, pad1)
  BY DEF IsPadding
<1>3. L \in Nat /\ L1 \in Nat /\ u \in Nat /\ T \in Nat \ {0}
  BY <1>1, <1>2, LenProperties, NatProduct, TwoPower
<1> HIDE DEF u, L, L1
<1>4. L = L1 /\ pad = pad1
  <2> DEFINE a == (t - 1 - pad)
             b == (t - 1 - pad1)
  <2>1. a \in 0 .. t - 1 /\ b \in 0 .. t - 1
    BY <1>1, <1>2
  <2> DEFINE w == L * t
             w1 == L1 * t
  <2>2. w \in Int /\ w1 \in Int /\ w = u + pad /\ w1 = u + pad1
    BY <1>1, <1>2, <1>3
  <2> HIDE DEF w, w1
  <2>3. w + a = w1 + b
    BY <1>1, <1>2, <1>3, <2>2
  <2> HIDE DEF a, b
  <2>4. L * t + a = L1 * t + b
    BY <2>3 DEF w, w1
  <2>5. L = L1 /\ a = b
    BY <1>3, <2>1, <2>4, SameParts
  <2> QED BY <1>1, <1>2, <2>5 DEF a, b
<1>5. DigitList(T, data, L) /\ DigitList(T, data1, L) /\ Horner(T, data, L) = Horner(T, data1, L)
  BY <1>1, <1>2, <1>4
<1> HIDE DEF T
<1>6. \A i \in 1 .. L : (Horner(T, data, L) \div Power(T, L - i)) % T = data[i]
  BY <1>3, <1>5, HornerDigit
<1>7. \A i \in 1 .. L : (Horner(T, data1, L) \div Power(T, L - i)) % T = data1[i]
  BY <1>3, <1>5, HornerDigit
<1>8. \A i \in 1 .. L : data[i] = data1[i]
  BY <1>5, <1>6, <1>7
<1> QED BY <1>1, <1>2, <1>4, <1>8, SeqEqual DEF L, L1

\* Reading groups back gives the values they were written for, and nothing is left.
LEMMA ReadingPadding ==
  ASSUME NEW f \in Nat \ {0}, NEW t \in Nat \ {0}, t <= f, NEW in \in Seq(Nat),
         DigitList(Power(2, f), in, Len(in)), NEW pad, NEW data, IsPadding(in, f, t, pad, data)
  PROVE  Converted(data, t, f).out = in /\ NothingLeft(Converted(data, t, f), t, f)
<1> DEFINE st == Converted(data, t, f)
           F == Power(2, f)
           n == Len(in)
           m == Len(data)
           N == Horner(F, in, n)
           D == Horner(Power(2, t), data, m)
           P == Power(2, pad)
           L == Len(st.out)
<1>1. /\ pad \in 0 .. t - 1 /\ data \in Seq(Nat) /\ DigitList(Power(2, t), data, m)
      /\ m * t = n * f + pad /\ D = N * P
  BY DEF IsPadding
<1>2. n \in Nat /\ m \in Nat
  BY <1>1, LenProperties
<1>3. Converting(data, t, f, m, st)
  BY <1>1, <1>2, ConvertedFacts
<1>4. Rest(st, f) = (D % Power(2, st.bits)) * Power(2, f - st.bits)
  BY <1>1, <1>2, <1>3, RestFacts
<1> HIDE DEF st
<1>5. /\ st.bits \in 0 .. f - 1 /\ st.out \in Seq(Nat) /\ DigitList(F, st.out, L)
      /\ L * f + st.bits = m * t /\ Horner(F, st.out, L) = D \div Power(2, st.bits)
  BY <1>3 DEF Converting
<1>6. L \in Nat
  BY <1>5, LenProperties
<1>7. L = n /\ st.bits = pad
  <2>1. pad \in 0 .. f - 1 /\ L * f + st.bits = n * f + pad
    BY <1>1, <1>5
  <2> DEFINE k == st.bits
  <2>2. k \in 0 .. f - 1 /\ L * f + k = n * f + pad
    BY <1>5, <2>1
  <2> HIDE DEF k, L, n
  <2>3. L = n /\ k = pad
    BY <1>2, <1>6, <2>1, <2>2, SameParts
  <2> QED BY <2>3 DEF k
<1>8. N \in Nat /\ pad \in Nat /\ P \in Nat \ {0} /\ F \in Nat \ {0}
  <2>1. N \in Nat
    BY <1>2, NumberIn
  <2>2. pad \in Nat
    BY <1>1
  <2>3. P \in Nat \ {0} /\ F \in Nat \ {0}
    BY <2>2, TwoPower
  <2> QED BY <2>1, <2>2, <2>3
<1>9. D \div P = N /\ D % P = 0
  <2> HIDE DEF N, P, D
  <2>1. (P * N + 0) % P = 0 /\ (P * N + 0) \div P = N
    <3>1. 0 \in 0 .. P - 1 /\ N \in Int
      BY <1>8
    <3> QED BY <1>8, <3>1, DividedOnly
  <2>2. D = P * N + 0
    BY <1>1, <1>8
  <2> QED BY <2>1, <2>2
<1>10. Horner(F, st.out, n) = Horner(F, in, n) /\ DigitList(F, st.out, n)
  BY <1>5, <1>7, <1>9
<1>11. \A i \in 1 .. n : st.out[i] = in[i]
  <2> HIDE DEF F, n
  <2>1. DigitList(F, in, n)
    BY DEF F, n
  <2>2. \A i \in 1 .. n : (Horner(F, st.out, n) \div Power(F, n - i)) % F = st.out[i]
    BY <1>2, <1>8, <1>10, HornerDigit
  <2>3. \A i \in 1 .. n : (Horner(F, in, n) \div Power(F, n - i)) % F = in[i]
    BY <1>2, <1>8, <2>1, HornerDigit
  <2> QED BY <1>10, <2>2, <2>3
<1>12. st.out = in
  BY <1>5, <1>7, <1>11, SeqEqual
<1>13. Rest(st, f) = 0
  <2>1. f - pad \in Nat
    BY <1>1
  <2>2. Power(2, f - pad) \in Nat
    BY <2>1, TwoPower
  <2>3. Rest(st, f) = 0 * Power(2, f - pad)
    BY <1>4, <1>7, <1>9
  <2> QED BY <2>2, <2>3
<1>14. st.bits < t
  BY <1>1, <1>7
<1> QED BY <1>12, <1>13, <1>14 DEF NothingLeft, st

\* Groups of which nothing is left when they are read are the groups that are
\* written for the values read.
LEMMA NothingLeftMeans ==
  ASSUME NEW f \in Nat \ {0}, NEW t \in Nat \ {0}, NEW data \in Seq(Nat),
         DigitList(Power(2, t), data, Len(data)), NothingLeft(Converted(data, t, f), t, f)
  PROVE  /\ Converted(data, t, f).out \in Seq(Nat)
         /\ DigitList(Power(2, f), Converted(data, t, f).out, Len(Converted(data, t, f).out))
         /\ IsPadding(Converted(data, t, f).out, f, t, Converted(data, t, f).bits, data)
<1> DEFINE st == Converted(data, t, f)
           F == Power(2, f)
           m == Len(data)
           D == Horner(Power(2, t), data, m)
           k == st.bits
           j == f - k
           L == Len(st.out)
<1>1. m \in Nat
  BY LenProperties
<1>2. Converting(data, t, f, m, st)
  BY <1>1, ConvertedFacts
<1>3. Rest(st, f) = (D % Power(2, k)) * Power(2, j)
  BY <1>1, <1>2, RestFacts
<1>4. k < t /\ Rest(st, f) = 0
  BY DEF NothingLeft
<1> HIDE DEF st
<1>5. /\ k \in 0 .. f - 1 /\ st.out \in Seq(Nat) /\ DigitList(F, st.out, L)
      /\ L * f + k = m * t /\ Horner(F, st.out, L) = D \div Power(2, k)
  BY <1>2 DEF Converting
<1>6. D \in Nat
  BY <1>1, NumberIn
<1> HIDE DEF k
<1>7. k \in Nat /\ j \in Nat
  BY <1>5
<1> DEFINE P == Power(2, k)
           R == Power(2, j)
           r == D % P
           q == D \div P
<1>8. P \in Nat \ {0} /\ R \in Nat \ {0}
  BY <1>7, TwoPower
<1>9. q \in Nat /\ r \in 0 .. P - 1 /\ P * q + r = D
  BY <1>6, <1>8, DividedNat
<1> HIDE DEF P, R, r, q, D
<1>10. r * R = 0
  BY <1>3, <1>4 DEF r, R, P
<1>11. r = 0
  <2>1. r \in Nat
    BY <1>8, <1>9
  <2>2. CASE r # 0
    <3>1. r * R \in Nat \ {0}
      BY <1>8, <2>1, <2>2, PositiveProduct
    <3> QED BY <1>10, <3>1
  <2> QED BY <2>2
<1>12. D = q * P
  BY <1>8, <1>9, <1>11
<1>13. Horner(F, st.out, L) = q
  BY <1>5 DEF q, P
<1>14. k \in 0 .. t - 1
  BY <1>4, <1>7
<1>15. m * t = L * f + k
  BY <1>5
<1>16. IsPadding(st.out, f, t, k, data)
  BY <1>12, <1>13, <1>14, <1>15 DEF IsPadding, D, P
<1> QED BY <1>5, <1>16 DEF st, k

-----------------------------------------------------------------------------
(***************************************************************************)
(* F4Grumble.                                                              *)
(***************************************************************************)

LEMMA EncodingFacts ==
  /\ ByteBits \in Nat \ {0} /\ SymbolBits \in Nat \ {0} /\ SymbolBits <= ByteBits
  /\ DOMAIN PointOf \subseteq Bytes /\ Infinity \in Elements
  /\ Power(2, ByteBits) \in Nat \ {0} /\ Power(2, SymbolBits) \in Nat \ {0}
  /\ Bytes \subseteq Nat /\ Symbols \subseteq Nat
<1>1. /\ ByteBits \in Nat \ {0} /\ SymbolBits \in Nat \ {0} /\ SymbolBits <= ByteBits
      /\ DOMAIN PointOf \subseteq Bytes /\ Infinity \in Elements
  BY EncodingAssumption
<1>2. Power(2, ByteBits) \in Nat \ {0}
  BY <1>1, TwoPower
<1>3. Power(2, SymbolBits) \in Nat \ {0}
  BY <1>1, TwoPower
<1>4. Bytes \subseteq Nat /\ Symbols \subseteq Nat
  BY <1>2, <1>3 DEF Bytes, Symbols
<1> QED BY <1>1, <1>2, <1>3, <1>4

LEMMA BitIs ==
  ASSUME NEW x \in Nat, NEW i
  PROVE  Bit(x, i) \in {0, 1} \/ i \notin 1 .. ByteBits
<1>1. CASE i \in 1 .. ByteBits
  <2>1. ByteBits - i \in Nat
    BY <1>1, EncodingFacts
  <2>2. Power(2, ByteBits - i) \in Nat \ {0}
    BY <2>1, TwoPower
  <2> DEFINE q == x \div Power(2, ByteBits - i)
  <2>3. q \in Nat
    BY <2>2, DividedNat
  <2> HIDE DEF q
  <2>4. q % 2 \in {0, 1}
    BY <2>3
  <2> QED BY <2>4 DEF Bit, q
<1> QED BY <1>1

\* What is added twice is gone.
LEMMA XorFacts ==
  ASSUME NEW x \in Bytes, NEW y \in Bytes
  PROVE  XorTable[<<x, y>>] \in Bytes /\ XorTable[<<XorTable[<<x, y>>], y>>] = x
<1> DEFINE n == ByteBits
           digits(a, b) == [i \in 1 .. n |-> (Bit(a, i) + Bit(b, i)) % 2]
           g == digits(x, y)
           z == Horner(2, g, n)
           h == digits(z, y)
<1>1. n \in Nat /\ 2 \in Nat \ {0} /\ x \in Nat /\ y \in Nat /\ x < Power(2, n)
      /\ Bytes = 0 .. Power(2, n) - 1 /\ Power(2, n) \in Nat
  BY EncodingFacts DEF Bytes
<1>2. \A a \in Bytes, b \in Bytes : XorTable[<<a, b>>] = Horner(2, digits(a, b), n)
  <2> SUFFICES ASSUME NEW a \in Bytes, NEW b \in Bytes
               PROVE  XorTable[<<a, b>>] = Horner(2, digits(a, b), n)
    OBVIOUS
  <2>1. <<a, b>> \in Bytes \X Bytes /\ <<a, b>>[1] = a /\ <<a, b>>[2] = b
    OBVIOUS
  <2>2. XorTable[<<a, b>>] =
          Horner(2, [i \in 1 .. ByteBits |-> (Bit(<<a, b>>[1], i) + Bit(<<a, b>>[2], i)) % 2], ByteBits)
    BY <2>1, Zenon DEF XorTable
  <2> QED BY <2>1, <2>2
<1>3. \A i \in 1 .. n : Bit(x, i) \in {0, 1} /\ Bit(y, i) \in {0, 1}
  BY <1>1, BitIs
<1>4. \A i \in 1 .. n : g[i] = (Bit(x, i) + Bit(y, i)) % 2 /\ g[i] \in {0, 1}
  BY <1>3
<1>5. DigitList(2, g, n)
  BY <1>4 DEF DigitList
<1> HIDE DEF g
<1>6. z \in Nat /\ z < Power(2, n)
  <2>1. n \in 0 .. n
    BY <1>1
  <2> QED BY <1>1, <1>5, <2>1, HornerRange
<1>7. z \in Bytes
  BY <1>1, <1>6
<1>8. \A i \in 1 .. n : Bit(z, i) = g[i]
  BY <1>1, <1>5, HornerDigit DEF Bit
<1>9. \A i \in 1 .. n : h[i] = Bit(x, i)
  <2> SUFFICES ASSUME NEW i \in 1 .. n PROVE h[i] = Bit(x, i)
    OBVIOUS
  <2>1. h[i] = (Bit(z, i) + Bit(y, i)) % 2
    OBVIOUS
  <2>2. Bit(z, i) = (Bit(x, i) + Bit(y, i)) % 2
    BY <1>4, <1>8
  <2>3. Bit(x, i) \in {0, 1} /\ Bit(y, i) \in {0, 1}
    BY <1>3
  <2> HIDE DEF h, z
  <2> QED BY <2>1, <2>2, <2>3
<1> HIDE DEF h, z
<1>10. DigitsFrom(2, h, n, x)
  BY <1>9 DEF DigitsFrom, Bit
<1>11. Horner(2, h, n) = x % Power(2, n)
  BY <1>1, <1>10, DigitsMake
<1>12. x % Power(2, n) = x
  <2> DEFINE p == Power(2, n)
  <2>1. p \in Nat \ {0} /\ x \in 0 .. p - 1
    BY <1>1
  <2> HIDE DEF p
  <2>2. x % p = x
    BY <2>1, SmallRemainder
  <2> QED BY <2>2 DEF p
<1>13. XorTable[<<x, y>>] = z
  BY <1>2 DEF z, g
<1>14. XorTable[<<z, y>>] = x
  BY <1>2, <1>7, <1>11, <1>12 DEF h
<1> QED BY <1>7, <1>13, <1>14

LEMMA VecXorFacts ==
  ASSUME NEW n \in Nat, NEW a \in [1 .. n -> Bytes], NEW k \in [1 .. n -> Bytes]
  PROVE  vec_xor(a, k) \in [1 .. n -> Bytes] /\ vec_xor(vec_xor(a, k), k) = a
<1> DEFINE v == vec_xor(a, k)
<1>1. Len(a) = n
  BY IsASeq, LenProperties
<1>2. v = [i \in 1 .. n |-> XorTable[<<a[i], k[i]>>]]
  BY <1>1 DEF vec_xor
<1>3. \A i \in 1 .. n : /\ XorTable[<<a[i], k[i]>>] \in Bytes
                        /\ XorTable[<<XorTable[<<a[i], k[i]>>], k[i]>>] = a[i]
  BY XorFacts
<1>4. v \in [1 .. n -> Bytes] /\ \A i \in 1 .. n : v[i] = XorTable[<<a[i], k[i]>>]
  BY <1>2, <1>3
<1> HIDE DEF v
<1>5. Len(v) = n
  BY <1>4, IsASeq, LenProperties
<1>6. vec_xor(v, k) = [i \in 1 .. n |-> XorTable[<<v[i], k[i]>>]]
  BY <1>5 DEF vec_xor
<1>7. \A i \in 1 .. n : XorTable[<<v[i], k[i]>>] = a[i]
  BY <1>3, <1>4
<1>8. vec_xor(v, k) = a
  BY <1>6, <1>7
<1> QED BY <1>4, <1>8 DEF v

Left == [1 .. 1 -> Bytes]
Right == [1 .. 2 -> Bytes]
Whole == [1 .. 3 -> Bytes]

LEMMA Halves ==
  AddressSize \div 2 = 1 /\ AddressSize - AddressSize \div 2 = 2 /\ AddressSize \div 2 + 1 = 2
  /\ AddressSize = 3
BY DEF AddressSize

\* A piece of a list of bytes.
LEMMA PieceFacts ==
  ASSUME NEW s, NEW m \in Nat \ {0}, NEW n \in Nat, m <= n, \A i \in m .. n : s[i] \in Bytes,
         NEW k \in Nat, k = n - m + 1
  PROVE  SubSeq(s, m, n) \in [1 .. k -> Bytes] /\ \A i \in 1 .. k : SubSeq(s, m, n)[i] = s[m + i - 1]
<1> DEFINE v == SubSeq(s, m, n)
<1>1. m \in Int /\ n \in Int
  OBVIOUS
<1>2. /\ v \in Seq(Bytes) /\ Len(v) = (IF m <= n THEN n - m + 1 ELSE 0)
      /\ \A i \in 1 .. n - m + 1 : v[i] = s[m + i - 1]
  BY <1>1, SubSeqProperties
<1> HIDE DEF v
<1>3. Len(v) = k
  BY <1>2
<1>4. v \in [1 .. k -> Bytes]
  BY <1>2, <1>3, LenProperties
<1> QED BY <1>2, <1>4 DEF v

LEMMA ListFacts ==
  ASSUME NEW S, NEW n \in Nat, NEW s \in [1 .. n -> S]
  PROVE  s \in Seq(S) /\ Len(s) = n
BY IsASeq, LenProperties

LEMMA RoundFacts ==
  ASSUME NEW network \in Networks, NEW i \in {0, 1}
  PROVE  /\ \A u \in Left : G(network, i, u) \in Right
         /\ \A u \in Right : H(network, i, u) \in Left
<1>1. ASSUME NEW u \in Left PROVE G(network, i, u) \in Right
  <2> DEFINE w == Digest("G", network, i, u)
  <2>1. w \in [1 .. DigestSize -> Bytes] /\ DigestSize \in Nat /\ DigestSize >= 2
    BY DigestAssumption, Zenon DEF Left
  <2> HIDE DEF w
  <2>2. \A j \in 1 .. 2 : w[j] \in Bytes
    BY <2>1
  <2>3. SubSeq(w, 1, 2) \in [1 .. 2 -> Bytes]
    BY <2>2, PieceFacts
  <2> QED BY <2>3, Halves DEF G, w, Right
<1>2. ASSUME NEW u \in Right PROVE H(network, i, u) \in Left
  <2> DEFINE w == Digest("H", network, i, u)
  <2>1. w \in [1 .. DigestSize -> Bytes] /\ DigestSize \in Nat /\ DigestSize >= 2
    BY DigestAssumption, Zenon DEF Right
  <2> HIDE DEF w
  <2>2. \A j \in 1 .. 1 : w[j] \in Bytes
    BY <2>1
  <2>3. SubSeq(w, 1, 1) \in [1 .. 1 -> Bytes]
    BY <2>2, PieceFacts
  <2> QED BY <2>3, Halves DEF H, w, Left
<1> QED BY <1>1, <1>2

LEMMA SplitFacts ==
  ASSUME NEW s \in Whole
  PROVE  /\ LeftHalf(s) \in Left /\ LeftHalf(s)[1] = s[1]
         /\ RightHalf(s) \in Right /\ RightHalf(s)[1] = s[2] /\ RightHalf(s)[2] = s[3]
<1>1. \A i \in 1 .. 3 : s[i] \in Bytes
  BY DEF Whole
<1>2. SubSeq(s, 1, 1) \in [1 .. 1 -> Bytes] /\ \A i \in 1 .. 1 : SubSeq(s, 1, 1)[i] = s[1 + i - 1]
  <2>1. \A i \in 1 .. 1 : s[i] \in Bytes
    BY <1>1
  <2> QED BY <2>1, PieceFacts
<1>3. SubSeq(s, 2, 3) \in [1 .. 2 -> Bytes] /\ \A i \in 1 .. 2 : SubSeq(s, 2, 3)[i] = s[2 + i - 1]
  <2>1. \A i \in 2 .. 3 : s[i] \in Bytes
    BY <1>1
  <2> QED BY <2>1, PieceFacts
<1> DEFINE a == SubSeq(s, 1, 1)
           b == SubSeq(s, 2, 3)
<1>4. LeftHalf(s) = a /\ RightHalf(s) = b
  BY Halves DEF LeftHalf, RightHalf
<1> HIDE DEF a, b
<1>5. 1 \in 1 .. 1 /\ 1 \in 1 .. 2 /\ 2 \in 1 .. 2 /\ 1 + 1 - 1 = 1 /\ 2 + 1 - 1 = 2 /\ 2 + 2 - 1 = 3
  OBVIOUS
<1>6. a[1] = s[1]
  BY <1>2, <1>5 DEF a
<1>7. b[1] = s[2] /\ b[2] = s[3]
  BY <1>3, <1>5 DEF b
<1> QED BY <1>2, <1>3, <1>4, <1>6, <1>7 DEF Left, Right, a, b

LEMMA JoinFacts ==
  ASSUME NEW a \in Left, NEW b \in Right
  PROVE  /\ a \o b \in Whole /\ (a \o b)[1] = a[1] /\ (a \o b)[2] = b[1] /\ (a \o b)[3] = b[2]
         /\ LeftHalf(a \o b) = a /\ RightHalf(a \o b) = b
<1> DEFINE v == a \o b
<1>1. a \in Seq(Bytes) /\ b \in Seq(Bytes) /\ Len(a) = 1 /\ Len(b) = 2
  <2>1. a \in [1 .. 1 -> Bytes] /\ b \in [1 .. 2 -> Bytes] /\ 1 \in Nat /\ 2 \in Nat
    BY DEF Left, Right
  <2>2. a \in Seq(Bytes) /\ b \in Seq(Bytes)
    BY <2>1, ListFacts, Zenon
  <2>3. Len(a) = 1
    BY <2>1, <2>2, LenProperties
  <2>4. Len(b) = 2
    BY <2>1, <2>2, LenProperties
  <2> QED BY <2>2, <2>3, <2>4
<1>2. /\ v \in Seq(Bytes) /\ Len(v) = Len(a) + Len(b)
      /\ \A i \in 1 .. Len(a) + Len(b) : v[i] = IF i <= Len(a) THEN a[i] ELSE b[i - Len(a)]
  BY <1>1, ConcatProperties
<1> HIDE DEF v
<1>3. Len(v) = 3 /\ \A i \in 1 .. 3 : v[i] = IF i <= 1 THEN a[i] ELSE b[i - 1]
  BY <1>1, <1>2
<1>4. v[1] = a[1] /\ v[2] = b[1] /\ v[3] = b[2]
  BY <1>3
<1>5. v \in Whole
  BY <1>2, <1>3, LenProperties DEF Whole
<1>6. /\ LeftHalf(v) \in Left /\ LeftHalf(v)[1] = v[1]
      /\ RightHalf(v) \in Right /\ RightHalf(v)[1] = v[2] /\ RightHalf(v)[2] = v[3]
  BY <1>5, SplitFacts
<1> DEFINE l == LeftHalf(v)
           r == RightHalf(v)
<1>7. l = a
  <2>1. l \in [1 .. 1 -> Bytes] /\ a \in [1 .. 1 -> Bytes] /\ l[1] = a[1]
    BY <1>4, <1>6 DEF Left
  <2> HIDE DEF l
  <2>2. \A i \in 1 .. 1 : l[i] = a[i]
    BY <2>1
  <2> QED BY <2>1, <2>2
<1>8. r = b
  <2>1. r \in [1 .. 2 -> Bytes] /\ b \in [1 .. 2 -> Bytes] /\ r[1] = b[1] /\ r[2] = b[2]
    BY <1>4, <1>6 DEF Right
  <2> HIDE DEF r
  <2>2. \A i \in 1 .. 2 : r[i] = b[i]
    BY <2>1
  <2> QED BY <2>1, <2>2
<1> QED BY <1>4, <1>5, <1>7, <1>8 DEF v

LEMMA SplitJoin ==
  ASSUME NEW s \in Whole
  PROVE  LeftHalf(s) \o RightHalf(s) = s
<1> DEFINE a == LeftHalf(s)
           b == RightHalf(s)
           v == a \o b
<1>1. a \in Left /\ a[1] = s[1] /\ b \in Right /\ b[1] = s[2] /\ b[2] = s[3]
  BY SplitFacts
<1> HIDE DEF a, b
<1>2. v \in Whole /\ v[1] = a[1] /\ v[2] = b[1] /\ v[3] = b[2]
  BY <1>1, JoinFacts
<1> HIDE DEF v
<1>3. v[1] = s[1] /\ v[2] = s[2] /\ v[3] = s[3]
  BY <1>1, <1>2
<1>4. \A i \in 1 .. 3 : v[i] = s[i]
  BY <1>3
<1>5. v = s
  BY <1>2, <1>4 DEF Whole
<1> QED BY <1>5 DEF v, a, b

LEMMA LeftXor ==
  ASSUME NEW a \in Left, NEW k \in Left
  PROVE  vec_xor(a, k) \in Left /\ vec_xor(vec_xor(a, k), k) = a
BY VecXorFacts DEF Left

LEMMA RightXor ==
  ASSUME NEW a \in Right, NEW k \in Right
  PROVE  vec_xor(a, k) \in Right /\ vec_xor(vec_xor(a, k), k) = a
BY VecXorFacts DEF Right

\* decode undoes encode ...
LEMMA UnscrambleScramble ==
  ASSUME NEW network \in Networks, NEW s \in Whole
  PROVE  Scramble(network, s) \in Whole /\ Unscramble(network, Scramble(network, s)) = s
<1> DEFINE a == LeftHalf(s)
           b == RightHalf(s)
           x == vec_xor(b, G(network, 0, a))
           y == vec_xor(a, H(network, 0, x))
           d == vec_xor(x, G(network, 1, y))
           c == vec_xor(y, H(network, 1, d))
<1>1. a \in Left /\ b \in Right /\ a \o b = s
  BY SplitFacts, SplitJoin
<1>2. Scramble(network, s) = c \o d
  BY Zenon DEF Scramble
<1> HIDE DEF a, b
<1>3. G(network, 0, a) \in Right
  BY <1>1, RoundFacts
<1>4. x \in Right /\ vec_xor(x, G(network, 0, a)) = b
  BY <1>1, <1>3, RightXor
<1> HIDE DEF x
<1>5. H(network, 0, x) \in Left
  BY <1>4, RoundFacts
<1>6. y \in Left /\ vec_xor(y, H(network, 0, x)) = a
  BY <1>1, <1>5, LeftXor
<1> HIDE DEF y
<1>7. G(network, 1, y) \in Right
  BY <1>6, RoundFacts
<1>8. d \in Right /\ vec_xor(d, G(network, 1, y)) = x
  BY <1>4, <1>7, RightXor
<1> HIDE DEF d
<1>9. H(network, 1, d) \in Left
  BY <1>8, RoundFacts
<1>10. c \in Left /\ vec_xor(c, H(network, 1, d)) = y
  BY <1>6, <1>9, LeftXor
<1> HIDE DEF c
<1> DEFINE v == c \o d
<1>11. v \in Whole /\ LeftHalf(v) = c /\ RightHalf(v) = d
  BY <1>8, <1>10, JoinFacts
<1> HIDE DEF v
<1>12. Unscramble(network, v) = a \o b
  BY <1>4, <1>6, <1>8, <1>10, <1>11, Zenon DEF Unscramble
<1> QED BY <1>1, <1>2, <1>11, <1>12 DEF v

\* ... and encode undoes decode.
LEMMA ScrambleUnscramble ==
  ASSUME NEW network \in Networks, NEW s \in Whole
  PROVE  Unscramble(network, s) \in Whole /\ Scramble(network, Unscramble(network, s)) = s
<1> DEFINE c == LeftHalf(s)
           d == RightHalf(s)
           y == vec_xor(c, H(network, 1, d))
           x == vec_xor(d, G(network, 1, y))
           a == vec_xor(y, H(network, 0, x))
           b == vec_xor(x, G(network, 0, a))
<1>1. c \in Left /\ d \in Right /\ c \o d = s
  BY SplitFacts, SplitJoin
<1>2. Unscramble(network, s) = a \o b
  BY Zenon DEF Unscramble
<1> HIDE DEF c, d
<1>3. H(network, 1, d) \in Left
  BY <1>1, RoundFacts
<1>4. y \in Left /\ vec_xor(y, H(network, 1, d)) = c
  BY <1>1, <1>3, LeftXor
<1> HIDE DEF y
<1>5. G(network, 1, y) \in Right
  BY <1>4, RoundFacts
<1>6. x \in Right /\ vec_xor(x, G(network, 1, y)) = d
  BY <1>1, <1>5, RightXor
<1> HIDE DEF x
<1>7. H(network, 0, x) \in Left
  BY <1>6, RoundFacts
<1>8. a \in Left /\ vec_xor(a, H(network, 0, x)) = y
  BY <1>4, <1>7, LeftXor
<1> HIDE DEF a
<1>9. G(network, 0, a) \in Right
  BY <1>8, RoundFacts
<1>10. b \in Right /\ vec_xor(b, G(network, 0, a)) = x
  BY <1>6, <1>9, RightXor
<1> HIDE DEF b
<1> DEFINE v == a \o b
<1>11. v \in Whole /\ LeftHalf(v) = a /\ RightHalf(v) = b
  BY <1>8, <1>10, JoinFacts
<1> HIDE DEF v
<1>12. Scramble(network, v) = c \o d
  BY <1>4, <1>6, <1>8, <1>10, <1>11, Zenon DEF Scramble
<1> QED BY <1>1, <1>2, <1>11, <1>12 DEF v

-----------------------------------------------------------------------------
(***************************************************************************)
(* Addresses.                                                              *)
(***************************************************************************)

LEMMA SerializeFacts ==
  ASSUME NEW P \in Elements
  PROVE  Serialize(P) \in DOMAIN PointOf /\ PointOf[Serialize(P)] = P
<1> DEFINE S == {b \in DOMAIN PointOf : PointOf[b] = P}
<1>1. S # {}
  BY DEF Elements
<1>2. S \subseteq Nat
  BY EncodingFacts
<1>3. PICK b \in S : \A c \in S : b <= c
  BY <1>1, <1>2, LeastNat, Zenon
<1>4. \E e \in DOMAIN PointOf :
        PointOf[e] = P /\ \A c \in DOMAIN PointOf : PointOf[c] = P => e <= c
  BY <1>3
<1> QED BY <1>4, Zenon DEF Serialize

Raw(address) == <<address.d, Serialize(address.Q1), Serialize(address.Q2)>>
Data(address, network) ==
  Padded(Converted(Scramble(network, Raw(address)), ByteBits, SymbolBits), SymbolBits)

LEMMA AddressFacts ==
  ASSUME NEW address \in Address
  PROVE  /\ address = [d |-> address.d, Q1 |-> address.Q1, Q2 |-> address.Q2]
         /\ address.d \in Bytes
         /\ address.Q1 \in Elements /\ address.Q1 # Infinity
         /\ address.Q2 \in Elements /\ address.Q2 # Infinity
BY DEF Address

LEMMA RawFacts ==
  ASSUME NEW address \in Address
  PROVE  /\ Raw(address) \in Whole
         /\ Raw(address)[1] = address.d
         /\ KeyOK(Raw(address)[2]) /\ PointOf[Raw(address)[2]] = address.Q1
         /\ KeyOK(Raw(address)[3]) /\ PointOf[Raw(address)[3]] = address.Q2
<1> DEFINE d == address.d
           p == Serialize(address.Q1)
           q == Serialize(address.Q2)
           r == Raw(address)
<1>1. /\ d \in Bytes /\ address.Q1 \in Elements /\ address.Q1 # Infinity
      /\ address.Q2 \in Elements /\ address.Q2 # Infinity
  BY AddressFacts
<1>2. p \in DOMAIN PointOf /\ PointOf[p] = address.Q1
  BY <1>1, SerializeFacts
<1>3. q \in DOMAIN PointOf /\ PointOf[q] = address.Q2
  BY <1>1, SerializeFacts
<1>4. KeyOK(p) /\ KeyOK(q)
  BY <1>1, <1>2, <1>3, Zenon DEF KeyOK
<1>5. p \in Bytes /\ q \in Bytes
  BY <1>2, <1>3, EncodingFacts
<1>6. r = <<d, p, q>>
  BY Zenon DEF Raw
<1> HIDE DEF d, p, q, r
<1>7. r[1] = d /\ r[2] = p /\ r[3] = q
  BY <1>6
<1>8. r \in Whole
  <2>1. r \in Seq(Bytes) /\ Len(r) = 3
    BY <1>1, <1>5, <1>6
  <2> QED BY <2>1, LenProperties DEF Whole
<1> QED BY <1>2, <1>3, <1>4, <1>7, <1>8 DEF d, p, q, r

LEMMA WholeFacts ==
  ASSUME NEW s \in Whole
  PROVE  s \in Seq(Nat) /\ Len(s) = 3 /\ DigitList(Power(2, ByteBits), s, Len(s))
<1>1. s \in [1 .. 3 -> Bytes] /\ 3 \in Nat
  BY DEF Whole
<1>2. \A i \in 1 .. 3 : s[i] \in Bytes
  BY <1>1
<1>3. s \in [1 .. 3 -> Nat]
  BY <1>1, EncodingFacts
<1>4. s \in Seq(Nat) /\ Len(s) = 3
  BY <1>1, <1>3, ListFacts, Zenon
<1>5. DigitList(Power(2, ByteBits), s, 3)
  BY <1>2 DEF DigitList, Bytes
<1> QED BY <1>4, <1>5

\* Three bytes and the symbols written for them.
LEMMA SymbolsFacts ==
  ASSUME NEW s \in Whole
  PROVE  \E pad : IsPadding(s, ByteBits, SymbolBits, pad,
                            Padded(Converted(s, ByteBits, SymbolBits), SymbolBits))
<1>1. Len(s) \in Nat /\ DigitList(Power(2, ByteBits), s, Len(s))
  BY WholeFacts
<1>2. ByteBits \in Nat \ {0} /\ SymbolBits \in Nat \ {0}
  BY EncodingFacts
<1> QED BY <1>1, <1>2, PaddedFacts

Decoded(address, network) == [ok |-> TRUE, network |-> network, address |-> address]

\* A text with the prefix and the symbols of an address, and a checksum that
\* fits, is decoded to the address.
Spells(t, address, network) ==
  /\ t.hrp = <<"s", network>> /\ t.data = Data(address, network) /\ Encoding(t) = "BECH32M"

LEMMA SpeltIsDecoded ==
  ASSUME NEW address \in Address, NEW network \in Networks, NEW t, Spells(t, address, network)
  PROVE  decode(t) = Decoded(address, network)
<1> DEFINE s == Scramble(network, Raw(address))
           converted == Converted(t.data, SymbolBits, ByteBits)
           raw == Unscramble(network, converted.out)
<1>1. /\ t.hrp = <<"s", network>> /\ Encoding(t) = "BECH32M"
      /\ t.data = Padded(Converted(s, ByteBits, SymbolBits), SymbolBits)
  BY DEF Spells, Data
<1>2. /\ Raw(address) \in Whole /\ Raw(address)[1] = address.d
      /\ KeyOK(Raw(address)[2]) /\ PointOf[Raw(address)[2]] = address.Q1
      /\ KeyOK(Raw(address)[3]) /\ PointOf[Raw(address)[3]] = address.Q2
  BY RawFacts
<1>3. s \in Whole /\ Unscramble(network, s) = Raw(address)
  BY <1>2, UnscrambleScramble
<1> HIDE DEF s
<1>4. PICK pad : IsPadding(s, ByteBits, SymbolBits, pad,
                           Padded(Converted(s, ByteBits, SymbolBits), SymbolBits))
  BY <1>3, SymbolsFacts
<1>5. IsPadding(s, ByteBits, SymbolBits, pad, t.data)
  BY <1>1, <1>4
<1>6. s \in Seq(Nat) /\ Len(s) = 3 /\ DigitList(Power(2, ByteBits), s, Len(s))
  BY <1>3, WholeFacts
<1>7. ByteBits \in Nat \ {0} /\ SymbolBits \in Nat \ {0} /\ SymbolBits <= ByteBits
  BY EncodingFacts
<1>8. converted.out = s /\ NothingLeft(converted, SymbolBits, ByteBits)
  BY <1>5, <1>6, <1>7, ReadingPadding
<1>9. raw = Raw(address)
  BY <1>3, <1>8
<1>10. t.hrp[2] = network /\ PrefixOK(t.hrp)
  BY <1>1 DEF PrefixOK
<1>11. Len(converted.out) = AddressSize
  BY <1>6, <1>8 DEF AddressSize
<1> DEFINE found == [d |-> raw[1], Q1 |-> PointOf[raw[2]], Q2 |-> PointOf[raw[3]]]
<1>12. found = address
  <2>1. found = [d |-> address.d, Q1 |-> address.Q1, Q2 |-> address.Q2]
    BY <1>2, <1>9
  <2> HIDE DEF found
  <2> QED BY <2>1, AddressFacts
<1>13. KeyOK(raw[2]) /\ KeyOK(raw[3])
  BY <1>2, <1>9
<1> HIDE DEF converted
<1>14. decode(t) = [ok |-> TRUE, network |-> network, address |-> found]
  BY <1>1, <1>8, <1>10, <1>11, <1>13, Zenon DEF decode, converted
<1> QED BY <1>12, <1>14, Zenon DEF Decoded

LEMMA DecodedIsSpelt ==
  ASSUME NEW t, t.hrp \in Prefixes, NEW n \in Nat, t.data \in [1 .. n -> Symbols], decode(t).ok
  PROVE  \E address \in Address, network \in Networks : Spells(t, address, network)
<1> DEFINE network == t.hrp[2]
           converted == Converted(t.data, SymbolBits, ByteBits)
           out == converted.out
           raw == Unscramble(network, out)
           address == [d |-> raw[1], Q1 |-> PointOf[raw[2]], Q2 |-> PointOf[raw[3]]]
           good == /\ Encoding(t) = "BECH32M" /\ PrefixOK(t.hrp)
                   /\ NothingLeft(converted, SymbolBits, ByteBits)
                   /\ Len(out) = AddressSize
                   /\ KeyOK(raw[2]) /\ KeyOK(raw[3])
<1>1. good
  <2>1. CASE ~good
    <3>1. decode(t) = Failed
      BY <2>1, Zenon DEF decode
    <3>2. Failed.ok = FALSE
      BY DEF Failed
    <3> QED BY <3>1, <3>2
  <2> QED BY <2>1
<1>2. network \in Networks
  BY <1>1, Zenon DEF Networks
<1>3. t.hrp = <<"s", network>>
  <2>1. t.hrp \in Seq(STRING) /\ Len(t.hrp) = 2 /\ t.hrp[1] = "s"
    BY <1>1, EncodingAssumption DEF PrefixOK
  <2> DEFINE h == t.hrp
  <2> HIDE DEF h
  <2>2. h \in Seq(STRING) /\ Len(h) = 2 /\ h[1] = "s"
    BY <2>1 DEF h
  <2>3. h = <<"s", h[2]>>
    BY <2>2
  <2> QED BY <2>3 DEF h
<1>4. ByteBits \in Nat \ {0} /\ SymbolBits \in Nat \ {0}
  BY EncodingFacts
<1>5. t.data \in Seq(Nat) /\ DigitList(Power(2, SymbolBits), t.data, Len(t.data))
  <2> DEFINE data == t.data
  <2> HIDE DEF data
  <2>1. data \in [1 .. n -> Symbols]
    BY DEF data
  <2>2. \A i \in 1 .. n : data[i] \in 0 .. Power(2, SymbolBits) - 1 /\ data[i] \in Nat
    BY <2>1, EncodingFacts DEF Symbols
  <2>3. data \in [1 .. n -> Nat]
    BY <2>1, <2>2
  <2>4. data \in Seq(Nat) /\ Len(data) = n
    BY <2>3, ListFacts
  <2>5. DigitList(Power(2, SymbolBits), data, Len(data))
    BY <2>2, <2>4 DEF DigitList
  <2> QED BY <2>4, <2>5 DEF data
<1>6. /\ out \in Seq(Nat) /\ DigitList(Power(2, ByteBits), out, Len(out))
      /\ IsPadding(out, ByteBits, SymbolBits, converted.bits, t.data)
  <2> DEFINE data == t.data
  <2> HIDE DEF data
  <2>1. /\ data \in Seq(Nat) /\ DigitList(Power(2, SymbolBits), data, Len(data))
        /\ NothingLeft(Converted(data, SymbolBits, ByteBits), SymbolBits, ByteBits)
    BY <1>1, <1>5 DEF data
  <2>2. /\ Converted(data, SymbolBits, ByteBits).out \in Seq(Nat)
        /\ DigitList(Power(2, ByteBits), Converted(data, SymbolBits, ByteBits).out,
                     Len(Converted(data, SymbolBits, ByteBits).out))
        /\ IsPadding(Converted(data, SymbolBits, ByteBits).out, ByteBits, SymbolBits,
                     Converted(data, SymbolBits, ByteBits).bits, data)
    BY <1>4, <2>1, NothingLeftMeans, Zenon
  <2> QED BY <2>2, Zenon DEF data
<1> HIDE DEF converted
<1>7. Len(out) = 3
  BY <1>1 DEF AddressSize
<1> HIDE DEF out
<1>8. out \in Whole
  <2>1. \A i \in 1 .. 3 : out[i] \in Bytes
    BY <1>6, <1>7 DEF DigitList, Bytes
  <2>2. out \in [1 .. 3 -> Nat]
    BY <1>6, <1>7, LenProperties
  <2> QED BY <2>1, <2>2 DEF Whole
<1>9. raw \in Whole /\ Scramble(network, raw) = out
  BY <1>2, <1>8, ScrambleUnscramble
<1> HIDE DEF raw
<1>10. KeyOK(raw[2]) /\ KeyOK(raw[3])
  BY <1>1
<1>11. /\ raw[2] \in DOMAIN PointOf /\ raw[2] = Serialize(PointOf[raw[2]]) /\ PointOf[raw[2]] # Infinity
       /\ raw[3] \in DOMAIN PointOf /\ raw[3] = Serialize(PointOf[raw[3]]) /\ PointOf[raw[3]] # Infinity
  BY <1>10, Zenon DEF KeyOK
<1>12. address \in Address
  <2>1. raw[1] \in Bytes
    BY <1>9 DEF Whole
  <2>2. PointOf[raw[2]] \in Elements \ {Infinity} /\ PointOf[raw[3]] \in Elements \ {Infinity}
    BY <1>11, Zenon DEF Elements
  <2> QED BY <2>1, <2>2 DEF Address
<1>13. Raw(address) = raw
  <2>1. Raw(address) = <<raw[1], raw[2], raw[3]>>
    BY <1>11 DEF Raw
  <2>2. raw \in Seq(Nat) /\ Len(raw) = 3
    BY <1>9, WholeFacts
  <2>3. raw = <<raw[1], raw[2], raw[3]>>
    BY <2>2
  <2> QED BY <2>1, <2>3
<1> HIDE DEF address, network
<1>14. Data(address, network) = t.data
  <2> DEFINE data == t.data
             data1 == Padded(Converted(out, ByteBits, SymbolBits), SymbolBits)
             pad == converted.bits
  <2> HIDE DEF data, data1, pad
  <2>1. IsPadding(out, ByteBits, SymbolBits, pad, data)
    BY <1>6 DEF data, pad
  <2>2. PICK pad1 : IsPadding(out, ByteBits, SymbolBits, pad1, data1)
    BY <1>8, SymbolsFacts DEF data1
  <2>3. Len(out) \in Nat
    BY <1>7
  <2>4. data = data1
    BY <1>4, <2>1, <2>2, <2>3, PaddingUnique
  <2>5. Data(address, network) = data1
    BY <1>9, <1>13 DEF Data, data1
  <2> QED BY <2>4, <2>5 DEF data
<1>15. Spells(t, address, network)
  BY <1>1, <1>3, <1>14, Zenon DEF Spells
<1> QED BY <1>2, <1>12, <1>15

AnswerTo(t) ==
  [decoded |-> decode(t),
   mainnet |-> isValidSparkAddress(t, FALSE),
   testnet |-> isValidSparkAddress(t, TRUE)]

Exact(t, a) ==
  /\ a.decoded.ok <=> \E w \in WrittenTexts : t \in {w, InUpperCase(w)}
  /\ a.decoded.ok =>
       LET network == a.decoded.network
           again   == encode(a.decoded.address, network)
       IN  /\ a.decoded.address \in Address
           /\ t \in {again, InUpperCase(again)}
           /\ a.mainnet = (network = "m")
           /\ a.testnet = (network = "t")

\* An encoded address, in either case, spells it; and in no other way does a
\* text of four fields.
LEMMA EncodedSpells ==
  ASSUME NEW address \in Address, NEW network \in Networks
  PROVE  /\ Spells(encode(address, network), address, network)
         /\ Spells(InUpperCase(encode(address, network)), address, network)
<1> DEFINE w == encode(address, network)
           data == Data(address, network)
<1>1. w = [hrp |-> <<"s", network>>, case |-> "lower", checksum |-> "BECH32M", data |-> data]
  BY Zenon DEF encode, Data, Raw
<1> HIDE DEF w, data
<1>2. w.hrp = <<"s", network>> /\ w.case = "lower" /\ w.checksum = "BECH32M" /\ w.data = data
  BY <1>1
<1>3. Spells(w, address, network)
  BY <1>2 DEF Spells, Encoding, data
<1> DEFINE u == InUpperCase(w)
<1>4. u.hrp = <<"s", network>> /\ u.case = "upper" /\ u.checksum = "BECH32M" /\ u.data = data
  BY <1>1 DEF InUpperCase
<1> HIDE DEF u
<1>5. Spells(u, address, network)
  BY <1>4 DEF Spells, Encoding, data
<1> QED BY <1>3, <1>5 DEF w, u

LEMMA SpellsOnly ==
  ASSUME NEW t \in Text, NEW address \in Address, NEW network \in Networks, Spells(t, address, network)
  PROVE  t \in {encode(address, network), InUpperCase(encode(address, network))}
<1> DEFINE w == encode(address, network)
           data == Data(address, network)
           h == <<"s", network>>
<1>1. w = [hrp |-> h, case |-> "lower", checksum |-> "BECH32M", data |-> data]
  BY Zenon DEF encode, Data, Raw
<1>2. t = [hrp |-> t.hrp, case |-> t.case, data |-> t.data, checksum |-> t.checksum]
      /\ t.case \in {"lower", "upper", "mixed"}
  BY DEF Text
<1>3. t.hrp = h /\ t.data = data /\ Encoding(t) = "BECH32M"
  BY DEF Spells
<1>4. t.case # "mixed" /\ t.checksum = "BECH32M"
  BY <1>3 DEF Encoding
<1> HIDE DEF w, data, h
<1>5. CASE t.case = "lower"
  BY <1>1, <1>2, <1>3, <1>4, <1>5 DEF w
<1>6. CASE t.case = "upper"
  <2>1. InUpperCase(w) = [hrp |-> h, case |-> "upper", checksum |-> "BECH32M", data |-> data]
    BY <1>1 DEF InUpperCase
  <2>2. t = InUpperCase(w)
    BY <1>2, <1>3, <1>4, <1>6, <2>1
  <2> QED BY <2>2 DEF w
<1> QED BY <1>2, <1>4, <1>5, <1>6

LEMMA SpeltIsExact ==
  ASSUME NEW address \in Address, NEW network \in Networks, NEW t,
         t \in {encode(address, network), InUpperCase(encode(address, network))}
  PROVE  Exact(t, AnswerTo(t))
<1>1. Spells(t, address, network)
  BY EncodedSpells
<1>2. decode(t) = Decoded(address, network)
  BY <1>1, SpeltIsDecoded
<1>3. decode(t).ok = TRUE /\ decode(t).network = network /\ decode(t).address = address
  BY <1>2 DEF Decoded
<1> DEFINE a == AnswerTo(t)
<1>4. /\ a.decoded = decode(t)
      /\ a.mainnet = isValidSparkAddress(t, FALSE) /\ a.testnet = isValidSparkAddress(t, TRUE)
  BY DEF AnswerTo
<1> HIDE DEF a
<1>5. a.mainnet = (network = "m") /\ a.testnet = (network = "t")
  <2>1. isValidSparkAddress(t, FALSE) = (network = "m")
    BY <1>3, Zenon DEF isValidSparkAddress
  <2>2. isValidSparkAddress(t, TRUE) = (network = "t")
    BY <1>3, Zenon DEF isValidSparkAddress
  <2> QED BY <1>4, <2>1, <2>2, Zenon
<1>6. encode(address, network) \in WrittenTexts
  BY DEF WrittenTexts
<1>7. \E w \in WrittenTexts : t \in {w, InUpperCase(w)}
  BY <1>6, Zenon
<1>8. a.decoded.ok /\ a.decoded.network = network /\ a.decoded.address = address
  BY <1>3, <1>4, Zenon
<1>9. Exact(t, a)
  BY <1>5, <1>7, <1>8, Zenon DEF Exact
<1> QED BY <1>9 DEF a

LEMMA TextIsExact ==
  ASSUME NEW t \in Text
  PROVE  Exact(t, AnswerTo(t))
<1>1. CASE decode(t).ok
  <2>1. t.hrp \in Prefixes /\ t.data \in UNION {[1 .. n -> Symbols] : n \in 0 .. MaxSymbols}
    BY DEF Text
  <2>2. PICK n \in 0 .. MaxSymbols : t.data \in [1 .. n -> Symbols]
    BY <2>1
  <2>3. n \in Nat
    BY EncodingAssumption
  <2>4. PICK address \in Address, network \in Networks : Spells(t, address, network)
    BY <1>1, <2>1, <2>2, <2>3, DecodedIsSpelt
  <2>5. t \in {encode(address, network), InUpperCase(encode(address, network))}
    BY <2>4, SpellsOnly
  <2> QED BY <2>5, SpeltIsExact
<1>2. CASE ~decode(t).ok
  <2> DEFINE a == AnswerTo(t)
  <2>1. a.decoded = decode(t)
    BY DEF AnswerTo
  <2> HIDE DEF a
  <2>2. ~a.decoded.ok
    BY <1>2, <2>1, Zenon
  <2>3. ~\E w \in WrittenTexts : t \in {w, InUpperCase(w)}
    <3> SUFFICES ASSUME NEW w \in WrittenTexts, t \in {w, InUpperCase(w)} PROVE FALSE
      OBVIOUS
    <3>1. PICK address \in Address, network \in Networks : w = encode(address, network)
      BY DEF WrittenTexts
    <3>2. Spells(t, address, network)
      BY <3>1, EncodedSpells
    <3>3. decode(t) = Decoded(address, network)
      BY <3>2, SpeltIsDecoded
    <3>4. decode(t).ok
      BY <3>3 DEF Decoded
    <3> QED BY <1>2, <3>4
  <2>4. Exact(t, a)
    BY <2>2, <2>3, Zenon DEF Exact
  <2> QED BY <2>4 DEF a
<1> QED BY <1>1, <1>2

LEMMA NoTextIsExact ==
  Exact(NoText, NoAnswer)
<1>1. ~NoAnswer.decoded.ok
  BY DEF NoAnswer, Failed
<1>2. ~\E w \in WrittenTexts : NoText \in {w, InUpperCase(w)}
  <2> SUFFICES ASSUME NEW w \in WrittenTexts, NoText \in {w, InUpperCase(w)} PROVE FALSE
    OBVIOUS
  <2>1. PICK address \in Address, network \in Networks : w = encode(address, network)
    BY DEF WrittenTexts
  <2>2. Spells(NoText, address, network)
    BY <2>1, EncodedSpells
  <2>3. Encoding(NoText) = "BECH32M"
    BY <2>2 DEF Spells
  <2>4. Encoding(NoText) = "INVALID"
    BY DEF Encoding, NoText
  <2> QED BY <2>3, <2>4
<1> QED BY <1>1, <1>2, Zenon DEF Exact

LEMMA ExactMeans ==
  DecodesExactly <=> Exact(text, answer)
BY Zenon DEF DecodesExactly, Exact

LEMMA AddressStep ==
  ASSUME Exact(text, answer), [AddressNext]_addressVars
  PROVE  Exact(text', answer')
<1>1. CASE UNCHANGED addressVars
  <2>1. text' = text /\ answer' = answer
    BY <1>1 DEF addressVars
  <2> QED BY <2>1, Zenon
<1>2. ASSUME NEW t, Exact(t, AnswerTo(t)), Ask(t) PROVE Exact(text', answer')
  <2>1. text' = t /\ answer' = AnswerTo(t)
    BY <1>2, Zenon DEF Ask, AnswerTo
  <2> QED BY <1>2, <2>1, Zenon
<1>3. ASSUME NEW t \in Text, Ask(t) PROVE Exact(text', answer')
  BY <1>2, <1>3, TextIsExact, Zenon
<1>4. ASSUME NEW address \in Address, NEW network \in Networks, Ask(encode(address, network))
      PROVE  Exact(text', answer')
  <2>1. Exact(encode(address, network), AnswerTo(encode(address, network)))
    BY SpeltIsExact
  <2> QED BY <1>2, <1>4, <2>1, Zenon
<1>5. CASE text' = NoText /\ answer' = NoAnswer
  BY <1>5, NoTextIsExact, Zenon
<1> QED BY <1>1, <1>3, <1>4, <1>5, Zenon DEF AddressNext

\* decode accepts exactly the texts encode writes, in lower or all in upper
\* case, and gives back what was encoded, whatever the sizes of bytes and
\* symbols, the digest, and the bytes that are group elements: convertbits
\* loses and adds no bit, and F4Grumble is a permutation.
THEOREM AddressesReadBack == AddressSpec => []DecodesExactly
<1> DEFINE Inv == Exact(text, answer)
<1>1. AddressInit => Inv
  BY NoTextIsExact, Zenon DEF AddressInit
<1>2. Inv /\ [AddressNext]_addressVars => Inv'
  BY AddressStep, Zenon
<1>3. Inv => DecodesExactly
  BY ExactMeans
<1> HIDE DEF Inv
<1> QED BY <1>1, <1>2, <1>3, PTL DEF AddressSpec

=============================================================================
