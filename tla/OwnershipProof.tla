--------------------------- MODULE OwnershipProof ---------------------------
(***************************************************************************)
(* createSparkAddressOwnershipProof and verifySparkAddressOwnershipProof:  *)
(* a proof, for a message, that one knows the spend key of an address.     *)
(*                                                                         *)
(* Scalars are the integers modulo the prime Order.  A group element is    *)
(* its vector of coefficients over generators nobody knows a relation of:  *)
(* G, F and one H for every encrypted diversifier.  The challenge is a     *)
(* random oracle, asked and remembered in the variable oracle.             *)
(***************************************************************************)
EXTENDS Integers

CONSTANTS
  Order,            (* of the group, a prime                               *)
  ScalarCodes,      (* the values the bytes of a scalar can spell          *)
  SpendKeys,        (* records of s1 and r                                 *)
  s2,               (* the same in every derived key                       *)
  hash_Q2(_, _),    (* of s1 and a diversifier                             *)
  Diversifiers,
  Messages,
  Overlong          (* messages whose hash is not below the order          *)

Scalars == 0 .. Order - 1

ASSUME OwnershipAssumption ==
  /\ Order \in Nat /\ Order > 2
  /\ \A a \in 1 .. Order - 1 : \E b \in Scalars : (a * b) % Order = 1
  /\ Scalars \subseteq ScalarCodes /\ ScalarCodes \subseteq Nat
  /\ SpendKeys \subseteq [s1 : 1 .. Order - 1, r : 1 .. Order - 1]
  /\ \A j, k \in SpendKeys : j.s1 = k.s1 => j = k
  /\ s2 \in Scalars
  /\ \A k \in SpendKeys, i \in Diversifiers : hash_Q2(k.s1, i) \in Scalars
  /\ Overlong \subseteq Messages

VARIABLES
  oracle,    (* transcripts asked, to challenges                           *)
  proof,     (* the proof the wallet made: what for, and its bytes         *)
  verdict    (* the last verification: its arguments and its answer        *)

proofVars == <<oracle, proof, verdict>>

-----------------------------------------------------------------------------
(***************************************************************************)
(* The group, the addresses and the challenge.                             *)
(***************************************************************************)

\* diversifier_encrypt, under a key derived from s1.
Encrypted(k, i) == <<"d", k.s1, i>>
Ds == {Encrypted(k, i) : k \in SpendKeys, i \in Diversifiers}

hash_div(d) == <<"H", d>>
G == <<"G">>
F == <<"F">>
Generators == {G, F} \cup {hash_div(d) : d \in Ds}

Times(x, a) == [g \in Generators |-> IF g = x THEN a % Order ELSE 0]
Plus(P, Q) == [g \in Generators |-> (P[g] + Q[g]) % Order]
Scaled(P, a) == [g \in Generators |-> (P[g] * a) % Order]
Infinity == [g \in Generators |-> 0]

\* Address::Address; its network is part of its text only.
AddressOf(k, i) ==
  LET d == Encrypted(k, i) IN
  [d  |-> d,
   Q1 |-> Times(hash_div(d), k.s1),
   Q2 |-> Plus(Times(F, hash_Q2(k.s1, i)),
               Plus(Times(F, s2), Times(G, k.r)))]
Addresses == {AddressOf(k, i) : k \in SpendKeys, i \in Diversifiers}

\* Mutant of Transcript: the message is not in the transcript.
TranscriptOfAddress(m, A, address) == <<A, address>>

\* Address::challenge: G, F and H are determined by the rest.
Transcript(m, A, address) == <<m, A, address>>

\* The scalar x is the oracle's answer; a transcript asked before has one.
Answers(m, A, address, x) ==
  LET t == Transcript(m, A, address) IN
    /\ t \in DOMAIN oracle => oracle[t] = x
    /\ oracle' = [u \in DOMAIN oracle \cup {t} |-> IF u = t THEN x ELSE oracle[u]]

-----------------------------------------------------------------------------
(***************************************************************************)
(* The bytes of a proof: an element in its canonical or another spelling,  *)
(* and three scalars.                                                      *)
(***************************************************************************)

Encode(A, t1, t2, t3) ==
  [A |-> A, spelling |-> "canonical", t1 |-> t1, t2 |-> t2, t3 |-> t3]

\* stream >> proof throws for a scalar that is not reduced.
Readable(bytes) == {bytes.t1, bytes.t2, bytes.t3} \subseteq Scalars

\* Mutant of Canonical: not compared.
CanonicalUnchecked(bytes) == TRUE

\* canonical << proof, compared with the bytes.
Canonical(bytes) == bytes.spelling = "canonical"

-----------------------------------------------------------------------------
NoProof == [made |-> FALSE]
NoVerdict == [asked |-> FALSE]

OwnershipInit ==
  /\ oracle = [t \in {} |-> 0]
  /\ proof = NoProof
  /\ verdict = NoVerdict

\* t1, t2 and t3
Responses(k, i, a, b, c, x) ==
  <<(a + x * k.s1) % Order,
    (b + x * x * k.r) % Order,
    (c + x * x * (hash_Q2(k.s1, i) + s2)) % Order>>

Commitment(address, a, b, c) ==
  Plus(Times(hash_div(address.d), a), Plus(Times(G, b), Times(F, c)))

\* Why prove_own, or the hash of the message before it, throws.
CreateError(m, A, x) == m \in Overlong \/ A = Infinity \/ x = 0

\* createSparkAddressOwnershipProof, with prove_own's random a, b and c.  An
\* exception becomes the result's error, and the caller may try again.
Create(k, i, m, a, b, c, x) ==
  LET address == AddressOf(k, i)
      A == Commitment(address, a, b, c)
      t == Responses(k, i, a, b, c, x)
  IN
  /\ ~proof.made
  /\ IF m \in Overlong \/ A = Infinity THEN UNCHANGED oracle
     ELSE Answers(m, A, address, x)
  /\ proof' = IF CreateError(m, A, x) THEN NoProof
              ELSE [made |-> TRUE, message |-> m, address |-> address, a |-> a,
                    bytes |-> Encode(A, t[1], t[2], t[3])]
  /\ UNCHANGED verdict

\* verify_own's equation.
Holds(bytes, address, x) ==
  LET left  == Plus(bytes.A, Plus(Scaled(address.Q1, x), Scaled(address.Q2, x * x)))
      right == Plus(Times(hash_div(address.d), bytes.t1),
                    Plus(Times(G, bytes.t2), Times(F, bytes.t3)))
  IN  left = right

\* The reasons to answer 0 before the equation is looked at.
Refused(m, network, isTestNet, bytes) ==
  \/ network # IF isTestNet THEN "t" ELSE "m"
  \/ ~Readable(bytes) \/ ~Canonical(bytes)
  \/ m \in Overlong
  \/ bytes.A = Infinity

\* verifySparkAddressOwnershipProof, of the text of address on network.
Verify(m, address, network, isTestNet, bytes, x) ==
  /\ IF Refused(m, network, isTestNet, bytes) THEN UNCHANGED oracle
     ELSE Answers(m, bytes.A, address, x)
  /\ verdict' =
       [asked |-> TRUE, message |-> m, address |-> address,
        right_network |-> (network = "t") = isTestNet, bytes |-> bytes,
        challenge |-> x,
        accepted |-> /\ ~Refused(m, network, isTestNet, bytes)
                     /\ x # 0 /\ Holds(bytes, address, x)]
  /\ UNCHANGED proof

\* The proof, or the proof with one of its parts replaced.
Variants(bytes) ==
  {bytes, [bytes EXCEPT !.spelling = "other"]}
    \cup UNION {{[bytes EXCEPT !.t1 = s], [bytes EXCEPT !.t2 = s],
                 [bytes EXCEPT !.t3 = s]} : s \in ScalarCodes}

\* One attempt at a proof, and one verification of it; then from the start.
OwnershipNext ==
  \/ /\ DOMAIN oracle = {}
     /\ \E k \in SpendKeys, i \in Diversifiers, m \in Messages,
           a, b, c, x \in Scalars : Create(k, i, m, a, b, c, x)
  \/ /\ proof.made /\ ~verdict.asked
     /\ \E m \in Messages, address \in Addresses, network \in {"m", "t"},
           isTestNet \in BOOLEAN, bytes \in Variants(proof.bytes), x \in Scalars :
             Verify(m, address, network, isTestNet, bytes, x)
  \/ /\ proof.made = verdict.asked /\ DOMAIN oracle # {}
     /\ proof' = NoProof /\ verdict' = NoVerdict
     /\ oracle' = [t \in {} |-> 0]

OwnershipSpec == OwnershipInit /\ [][OwnershipNext]_proofVars

-----------------------------------------------------------------------------
\* A proof is accepted for another message only if the oracle answers two
\* questions alike, and for another address only if the proof was made with a
\* zero for its first random scalar: each a chance of one in the group's order.
ProofIsBound ==
  verdict.asked /\ verdict.accepted /\ verdict.bytes = proof.bytes =>
    /\ verdict.right_network
    /\ verdict.address # proof.address => proof.a = 0
    /\ verdict.address = proof.address /\ verdict.message # proof.message =>
         \E t, u \in DOMAIN oracle : t # u /\ oracle[t] = oracle[u]

\* Of all the bytes with the commitment of a proof, verification for the
\* proof's message and address accepts the proof, on the address's network,
\* and nothing else: neither another scalar nor another spelling of the same.
OneProofAccepted ==
  verdict.asked /\ verdict.message = proof.message /\ verdict.address = proof.address =>
    (verdict.accepted <=> verdict.right_network /\ verdict.bytes = proof.bytes)

=============================================================================
