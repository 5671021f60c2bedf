----------------------------- MODULE TagHashing -----------------------------
(***************************************************************************)
(* The two ways to the hash of a linking tag: hashTags, for a batch of     *)
(* serialised points, and hashTag, for a pair of hexadecimal coordinates.  *)
(* A wallet compares the results with the lTagHash of its coins, so a tag  *)
(* must have one hash, whichever way and spelling it comes in.             *)
(*                                                                         *)
(* The curve is secp256k1's equation over a small prime field.  Bytes and  *)
(* hexadecimal digits are digits in the same small radix.                  *)
(***************************************************************************)
EXTENDS Powers, Sequences

CONSTANTS
  Prime,        (* of the field                                            *)
  Radix, Width, (* a coordinate has Width digits                           *)
  Letters,      (* digits from here on are letters, in either case         *)
  MaxBatch      (* bound: tags in a call of hashTags                       *)

\* The prime is odd and has Width digits, and no point of the curve has y = 0:
\* the order of the group is odd.
ASSUME FieldAssumption ==
  /\ Radix \in 2 .. 16 /\ Width \in Nat \ {0} /\ Letters \in 1 .. Radix
  /\ MaxBatch \in Nat
  /\ Prime \in Power(Radix, Width - 1) .. Power(Radix, Width) - 1
  /\ Prime >= 3 /\ Prime % 2 = 1
  /\ \A x \in 0 .. Prime - 1 : (x * x * x + 7) % Prime # 0

VARIABLES
  asked,    (* the arguments of the last call: [tags] or [x, y]            *)
  result    (* its answer                                                  *)

hashVars == <<asked, result>>

Field == 0 .. Prime - 1
Digits == 0 .. Radix - 1

\* Affine points.
OnCurve(x, y) == (y * y) % Prime = (x * x * x + 7) % Prime
Points == {P \in Field \X Field : OnCurve(P[1], P[2])}

\* The value of a sequence of digits, the most significant first.
Number(s) == Horner(Radix, s, Len(s))

\* The Width digits of a number.
DigitsOf(n) == [i \in 1 .. Width |-> (n \div Power(Radix, Width - i)) % Radix]

\* memcmp(s, t, ...) < 0
Less(s, t) ==
  \E i \in 1 .. Len(t) : s[i] < t[i] /\ \A j \in 1 .. i - 1 : s[j] = t[j]

\* GetLTagHash: a hash of the serialised point, which is x, the oddness of y
\* and whether the point is at infinity.
Serialized(P) == DigitsOf(P[1]) \o <<P[2] % 2, 0>>
GetLTagHash(P) == <<"tag_hash", Serialized(P)>>

\* An answer: an error, or the hashes.
Error == [error |-> TRUE, hashes |-> <<>>]
Answer(hashes) == [error |-> FALSE, hashes |-> hashes]

-----------------------------------------------------------------------------
(***************************************************************************)
(* hashTags.                                                               *)
(***************************************************************************)

\* Mutant of isCanonicalTag: x is not compared with the prime.
isTagWithFlags(tag) == tag[Width + 1] <= 1 /\ tag[Width + 2] = 0

isCanonicalTag(tag) ==
  /\ Less(SubSeq(tag, 1, Width), DigitsOf(Prime))
  /\ tag[Width + 1] <= 1
  /\ tag[Width + 2] = 0

\* GroupElement::deserialize: a root of the curve's equation, negated unless
\* its oddness is the one asked for; no points if there is none.
Deserialize(tag) ==
  LET x     == Number(SubSeq(tag, 1, Width)) % Prime
      roots == {y \in Field : OnCurve(x, y)}
      root  == CHOOSE y \in roots : TRUE
      y     == IF root % 2 # tag[Width + 1] THEN (Prime - root) % Prime ELSE root
  IN  IF roots = {} THEN {} ELSE {<<x, y>>}

\* Every tag, or none.
hashTags(tags) ==
  LET fails(tag) == ~isCanonicalTag(tag) \/ Deserialize(tag) = {}
  IN  IF \E i \in 1 .. Len(tags) : fails(tags[i]) THEN Error
      ELSE Answer([i \in 1 .. Len(tags) |->
                     GetLTagHash(CHOOSE P \in Deserialize(tags[i]) : TRUE)])

-----------------------------------------------------------------------------
(***************************************************************************)
(* hashTag.  Characters are their ASCII codes.                             *)
(***************************************************************************)

Lower(d) == IF d < Letters THEN 48 + d ELSE 97 + d - Letters
Upper(d) == IF d < Letters THEN 48 + d ELSE 65 + d - Letters
HexChars == {Lower(d) : d \in Digits} \cup {Upper(d) : d \in Digits}
Minus == 45

\* c | 0x20
Fold(c) == IF c \in 65 .. 90 THEN c + 32 ELSE c

DigitOf(c) == CHOOSE d \in Digits : c \in {Lower(d), Upper(d)}

\* The string after its leading zeros.
Significant(s) ==
  LET start == CHOOSE n \in 0 .. Len(s) :
                 /\ \A i \in 1 .. n : s[i] = 48
                 /\ n < Len(s) => s[n + 1] # 48
  IN  SubSeq(s, start + 1, Len(s))

\* Mutant of isHexCoordinate: leading zeros count as digits.
isShortHex(s) ==
  /\ s # <<>>
  /\ \A i \in 1 .. Len(s) : s[i] \in HexChars
  /\ \/ Len(s) < Width
     \/ /\ Len(s) = Width
        /\ Less([i \in 1 .. Width |-> Fold(s[i])],
                [i \in 1 .. Width |-> Lower(DigitsOf(Prime)[i])])

isHexCoordinate(s) ==
  /\ s # <<>>
  /\ \A i \in 1 .. Len(s) : s[i] \in HexChars
  /\ LET t == Significant(s) IN
     \/ Len(t) < Width
     \/ /\ Len(t) = Width
        /\ Less([i \in 1 .. Width |-> Fold(t[i])],
                [i \in 1 .. Width |-> Lower(DigitsOf(Prime)[i])])

\* _convertToFieldElement, for a string without a sign.
FieldElement(s) == Number([i \in 1 .. Len(s) |-> DigitOf(s[i])]) % Prime

isMember(P) == OnCurve(P[1], P[2])

hashTag(x, y) ==
  LET P == <<FieldElement(x), FieldElement(y)>> IN
  IF isHexCoordinate(x) /\ isHexCoordinate(y) /\ isMember(P)
  THEN Answer(<<GetLTagHash(P)>>) ELSE Error

-----------------------------------------------------------------------------
Tags == {s \in [1 .. Width + 2 -> 0 .. Radix] :
           (\A i \in 1 .. Width : s[i] \in Digits)
           /\ s[Width + 1] \in 0 .. 2 /\ s[Width + 2] \in 0 .. 1}
Batches == UNION {[1 .. n -> Tags] : n \in 1 .. MaxBatch}

\* Up to one leading zero more than a coordinate has digits, and a sign; and
\* the plain spellings.
Strings == UNION {[1 .. n -> HexChars \cup {Minus}] : n \in 0 .. Width + 1}
Plain == [1 .. Width -> {Lower(d) : d \in Digits}]

HashInit == asked = <<"none">> /\ result = Error

HashTags(tags) ==
  /\ asked' = <<"tags", tags>>
  /\ result' = hashTags(tags)

HashTag(x, y) ==
  /\ asked' = <<"coordinates", x, y>>
  /\ result' = hashTag(x, y)

\* No call depends on the one before.
HashNext ==
  \/ asked[1] = "none" /\ \E tags \in Batches : HashTags(tags)
  \/ asked[1] = "none" /\ \E x \in Strings, y \in Plain : HashTag(x, y)
  \/ asked[1] = "none" /\ \E x \in Plain, y \in Strings : HashTag(x, y)
  \/ asked[1] # "none" /\ asked' = <<"none">> /\ result' = Error

HashSpec == HashInit /\ [][HashNext]_hashVars

-----------------------------------------------------------------------------
\* What serialize writes for the points.
PointTags == {Serialized(P) : P \in Points}

\* A batch is hashed exactly when each of its tags is what serialize writes
\* for a point of the curve, and then each gets the hash of that point: no two
\* spellings of a tag are accepted, and none that a coin can have is refused,
\* left out or mixed up with another.
BatchIsExact ==
  asked[1] = "tags" =>
    LET tags == asked[2] IN
      IF \A i \in 1 .. Len(tags) : tags[i] \in PointTags
      THEN result = Answer([i \in 1 .. Len(tags) |-> <<"tag_hash", tags[i]>>])
      ELSE result = Error

\* A pair of coordinates is hashed exactly when it spells, in either case and
\* with any number of leading zeros, the reduced coordinates of a point, and
\* then with the hash its serialisation has in a batch.
CoordinatesAreExact ==
  asked[1] = "coordinates" =>
    LET isHex(s)  == s # <<>> /\ \A i \in 1 .. Len(s) : s[i] \in HexChars
        spelt(s)  == Number([i \in 1 .. Len(s) |-> DigitOf(s[i])])
    IN  IF /\ isHex(asked[2]) /\ isHex(asked[3])
           /\ <<spelt(asked[2]), spelt(asked[3])>> \in Points
        THEN result = hashTags(<<Serialized(<<spelt(asked[2]), spelt(asked[3])>>)>>)
        ELSE result = Error

=============================================================================
