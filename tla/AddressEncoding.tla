--------------------------- MODULE AddressEncoding ---------------------------
(***************************************************************************)
(* The text form of an address: d, Q1 and Q2 as bytes, scrambled by the    *)
(* four rounds of F4Grumble under the network's name, regrouped from bytes *)
(* to the symbols of bech32m.  decode undoes it and has to refuse every    *)
(* text that encode does not write.                                        *)
(*                                                                         *)
(* Bytes have ByteBits bits and symbols SymbolBits.  d and a serialised    *)
(* group element are a byte each.  A text is its prefix, its letter case,  *)
(* its symbols and what its checksum says: the checksum code is ideal.     *)
(***************************************************************************)
EXTENDS Powers, Sequences

CONSTANTS
  ByteBits, SymbolBits,
  Digest(_, _, _, _), (* of label, network, round and bytes: DigestSize bytes *)
  DigestSize,
  PointOf,            (* bytes to group elements, partial: GroupElement::deserialize *)
  Infinity,           (* the group's neutral element                       *)
  Prefixes,           (* bound: the prefixes of the texts                  *)
  MaxSymbols          (* bound: the symbols of a text                      *)

Bytes == 0 .. Power(2, ByteBits) - 1
Symbols == 0 .. Power(2, SymbolBits) - 1
Elements == {PointOf[b] : b \in DOMAIN PointOf}

\* The prefix of an address is a letter and the network.
PrefixOK(hrp) == Len(hrp) = 2 /\ hrp[1] = "s"
Networks == {hrp[2] : hrp \in {h \in Prefixes : PrefixOK(h)}}

ASSUME EncodingAssumption ==
  /\ ByteBits \in Nat /\ SymbolBits \in 1 .. ByteBits
  /\ DOMAIN PointOf \subseteq Bytes /\ Infinity \in Elements
  /\ Prefixes \subseteq Seq(STRING) /\ MaxSymbols \in Nat

\* A digest is enough for the longer half of an address.
ASSUME DigestAssumption ==
  /\ DigestSize \in Nat /\ DigestSize >= 2
  /\ \A label \in {"G", "H"}, network \in Networks, i \in {0, 1} :
       \A u \in [1 .. 1 -> Bytes] \cup [1 .. 2 -> Bytes] :
         Digest(label, network, i, u) \in [1 .. DigestSize -> Bytes]

VARIABLES
  text,      (* the text of the last call                                  *)
  answer     (* what decode and isValidSparkAddress said of it             *)

addressVars == <<text, answer>>

\* GroupElement::serialize writes the smallest of the bytes read as the point.
Serialize(P) ==
  CHOOSE b \in DOMAIN PointOf :
    PointOf[b] = P /\ \A c \in DOMAIN PointOf : PointOf[c] = P => b <= c

\* d, Q1 and Q2.
AddressSize == 3
Address == [d : Bytes, Q1 : Elements \ {Infinity}, Q2 : Elements \ {Infinity}]

-----------------------------------------------------------------------------
(***************************************************************************)
(* F4Grumble.                                                              *)
(***************************************************************************)

\* The bits of a byte, from the most significant, and bit by bit x ^ y.
Bit(n, i) == (n \div Power(2, ByteBits - i)) % 2
XorTable ==
  [p \in Bytes \X Bytes |->
     Horner(2, [i \in 1 .. ByteBits |-> (Bit(p[1], i) + Bit(p[2], i)) % 2], ByteBits)]
vec_xor(x, y) == [i \in 1 .. Len(x) |-> XorTable[<<x[i], y[i]>>]]

\* The digest cut to the length of the other half.
G(network, i, u) ==
  SubSeq(Digest("G", network, i, u), 1, AddressSize - AddressSize \div 2)
H(network, i, u) ==
  SubSeq(Digest("H", network, i, u), 1, AddressSize \div 2)

LeftHalf(s) == SubSeq(s, 1, AddressSize \div 2)
RightHalf(s) == SubSeq(s, AddressSize \div 2 + 1, AddressSize)

Scramble(network, input) ==
  LET a == LeftHalf(input)
      b == RightHalf(input)
      x == vec_xor(b, G(network, 0, a))
      y == vec_xor(a, H(network, 0, x))
      d == vec_xor(x, G(network, 1, y))
      c == vec_xor(y, H(network, 1, d))
  IN  c \o d

Unscramble(network, input) ==
  LET c == LeftHalf(input)
      d == RightHalf(input)
      y == vec_xor(c, H(network, 1, d))
      x == vec_xor(d, G(network, 1, y))
      a == vec_xor(y, H(network, 0, x))
      b == vec_xor(x, G(network, 0, a))
  IN  a \o b

-----------------------------------------------------------------------------
(***************************************************************************)
(* convertbits: an accumulator of which bits are not written out yet.      *)
(***************************************************************************)

\* One value goes in, and groups of tobits come out while there are enough.
Accumulate(s, value, frombits, tobits) ==
  LET acc  == (s.acc * Power(2, frombits) + value) % Power(2, frombits + tobits - 1)
      bits == s.bits + frombits
      groups == bits \div tobits
  IN  [acc  |-> acc,
       bits |-> bits % tobits,
       out  |-> s.out \o [j \in 1 .. groups |->
                            (acc \div Power(2, bits - j * tobits)) % Power(2, tobits)]]

Converted(in, frombits, tobits) ==
  LET state[n \in 0 .. Len(in)] ==
        IF n = 0 THEN [acc |-> 0, bits |-> 0, out |-> <<>>]
        ELSE Accumulate(state[n - 1], in[n], frombits, tobits)
  IN  state[Len(in)]

\* What is left over, as the start of another group.
Rest(s, tobits) == (s.acc * Power(2, tobits - s.bits)) % Power(2, tobits)

Padded(s, tobits) == IF s.bits = 0 THEN s.out ELSE Append(s.out, Rest(s, tobits))

\* Mutant of NothingLeft: the bits left over are not looked at.
NothingLeftUnchecked(s, frombits, tobits) == s.bits < frombits

NothingLeft(s, frombits, tobits) == s.bits < frombits /\ Rest(s, tobits) = 0

-----------------------------------------------------------------------------
(***************************************************************************)
(* Address::encode and Address::decode.                                    *)
(***************************************************************************)

Text == [hrp : Prefixes, case : {"lower", "upper", "mixed"},
         data : UNION {[1 .. n -> Symbols] : n \in 0 .. MaxSymbols},
         checksum : {"BECH32", "BECH32M", "INVALID"}]

encode(address, network) ==
  LET raw == <<address.d, Serialize(address.Q1), Serialize(address.Q2)>>
      scrambled == Scramble(network, raw)
  IN  [hrp |-> <<"s", network>>, case |-> "lower", checksum |-> "BECH32M",
       data |-> Padded(Converted(scrambled, ByteBits, SymbolBits), SymbolBits)]

\* The encoding bech32::decode finds.
Encoding(t) == IF t.case = "mixed" THEN "INVALID" ELSE t.checksum

KeyOK(b) ==
  b \in DOMAIN PointOf /\ b = Serialize(PointOf[b]) /\ PointOf[b] # Infinity

Failed == [ok |-> FALSE]

decode(t) ==
  LET network   == t.hrp[2]
      converted == Converted(t.data, SymbolBits, ByteBits)
      raw       == Unscramble(network, converted.out)
      address   == [d |-> raw[1], Q1 |-> PointOf[raw[2]], Q2 |-> PointOf[raw[3]]]
  IN  IF /\ Encoding(t) = "BECH32M"
         /\ PrefixOK(t.hrp)
         /\ NothingLeft(converted, SymbolBits, ByteBits)
         /\ Len(converted.out) = AddressSize
         /\ KeyOK(raw[2]) /\ KeyOK(raw[3])
      THEN [ok |-> TRUE, network |-> network, address |-> address]
      ELSE Failed

isValidSparkAddress(t, isTestNet) ==
  decode(t).ok /\ decode(t).network = IF isTestNet THEN "t" ELSE "m"

-----------------------------------------------------------------------------
NoText == [hrp |-> <<>>, case |-> "lower", data |-> <<>>, checksum |-> "INVALID"]
NoAnswer == [decoded |-> Failed, mainnet |-> FALSE, testnet |-> FALSE]

AddressInit == text = NoText /\ answer = NoAnswer

Ask(t) ==
  /\ text' = t
  /\ answer' = [decoded |-> decode(t),
                mainnet |-> isValidSparkAddress(t, FALSE),
                testnet |-> isValidSparkAddress(t, TRUE)]

\* Texts that may or may not be an address's, and texts of addresses; no call
\* depends on the one before.
AddressNext ==
  \/ text = NoText /\ \E t \in Text : Ask(t)
  \/ /\ text = NoText
     /\ \E address \in Address, network \in Networks : Ask(encode(address, network))
  \/ text # NoText /\ text' = NoText /\ answer' = NoAnswer

AddressSpec == AddressInit /\ [][AddressNext]_addressVars

-----------------------------------------------------------------------------
\* Every text the code writes for an address.
WrittenTexts == {encode(address, network) : address \in Address, network \in Networks}
InUpperCase(t) == [t EXCEPT !.case = "upper"]

\* A text is an address exactly when encode writes it for an address with
\* usable keys, in lower or all in upper case: no address has a third
\* spelling, and none is refused.  It is decoded to what it was encoded from,
\* and isValidSparkAddress accepts it on that network alone.
DecodesExactly ==
  /\ answer.decoded.ok <=> \E t \in WrittenTexts : text \in {t, InUpperCase(t)}
  /\ answer.decoded.ok =>
       LET network == answer.decoded.network
           again   == encode(answer.decoded.address, network)
       IN  /\ answer.decoded.address \in Address
           /\ text \in {again, InUpperCase(again)}
           /\ answer.mainnet = (network = "m")
           /\ answer.testnet = (network = "t")

=============================================================================
