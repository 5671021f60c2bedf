----------------------------- MODULE SpendWire -----------------------------
(***************************************************************************)
(* The V2 wire format: SpendTransaction::SerializationOpV2, which writes a *)
(* transaction the constructor built or an object holds, and reads one     *)
(* from a wire that may be another program's.  The wire is a sequence of   *)
(* words, one for each fixed-width field.  A point has several words that  *)
(* GroupElement::deserialize accepts, and one that serialize writes.       *)
(***************************************************************************)
EXTENDS Powers, Sequences, FiniteSets, Functions

CONSTANTS
  MaxChaumV2Inputs,   (* MAX_CHAUM_V2_INPUTS                               *)
  MaxV2Outputs,       (* MAX_SPARK_V2_OUTPUTS                              *)
  MaxSetId,           (* the largest int32                                 *)
  Escape,             (* 253: a CompactSize from here on takes two words   *)
  Bits,               (* 64: bits of an amount in the range proof          *)
  GrootleN, GrootleM, (* the Grootle parameters                            *)
  Words,              (* words a foreign wire is made of                   *)
  Respelt,            (* words deserialize takes for a point, each with the*)
                      (* one serialize writes for what it read             *)
  ScalarWords,        (* words Scalar::deserialize takes                   *)
  Tails               (* proofs a wire is tried with: sequences of words   *)

ASSUME WireAssumption ==
  /\ MaxChaumV2Inputs \in Nat /\ MaxV2Outputs \in Nat /\ MaxSetId \in Nat
  /\ Escape \in Nat /\ Escape > MaxChaumV2Inputs /\ Escape > MaxV2Outputs
  /\ Bits \in Nat \ {0} /\ GrootleN \in Nat \ {0} /\ GrootleM \in Nat
  /\ Words \subseteq Nat

\* deserialize takes x modulo the prime, any oddness byte and, with the
\* infinity byte set, any x; reading what serialize wrote changes nothing.
ASSUME PointAssumption ==
  /\ DOMAIN Respelt \subseteq Nat /\ Respelt \in [DOMAIN Respelt -> DOMAIN Respelt]
  /\ \A w \in DOMAIN Respelt : Respelt[Respelt[w]] = Respelt[w]
  /\ ScalarWords \subseteq Nat
  /\ Tails \subseteq Seq(Nat)

\* The serialised fields.  hashes is set_id_blockHash.  Of the proofs the
\* sizes of their vectors: perInput of the vectors with an element for each
\* input (S1, C1, T, grootle_proofs and those of chaum_proof_v2), X, X1 and fs
\* of each Grootle proof, L and R of the range proof.  proof is the words
\* serialize would write for their points and scalars.
SpendTransaction ==
  [cover_set_ids : Seq(Nat), hashes : SUBSET (Nat \X Nat), f : Nat,
   extension_commitment : Nat, outputs : Nat,
   perInput : Nat, X : Nat, X1 : Nat, fs : Nat, L : Nat, R : Nat,
   proof : Seq(Nat)]

Ids(hashes) == {e[1] : e \in hashes}

-----------------------------------------------------------------------------
(***************************************************************************)
(* The proofs: what is a point and what a scalar, in the order of the wire.*)
(***************************************************************************)

Points(n) == [k \in 1 .. n |-> "point"]

Scalars(n) == [k \in 1 .. n |-> "scalar"]

Repeat(s, n) == [k \in 1 .. n * Len(s) |-> s[((k - 1) % Len(s)) + 1]]

\* A, B, X, X1; f, z, zS, zV.
GrootleLayout ==
  Points(2 + 2 * GrootleM) \o Scalars(GrootleM * (GrootleN - 1) + 3)

\* S1, C1, T; the Grootle proofs; A1, A2; t1, t2, t3; the balance proof; the
\* range proof's A, A1, B; r1, s1, d1; L, R.
Layout(ins, rounds) ==
  Points(3 * ins) \o Repeat(GrootleLayout, ins)
    \o Points(2 * ins) \o Scalars(3 * ins) \o Points(1) \o Scalars(1)
    \o Points(3) \o Scalars(3) \o Points(2 * rounds)

\* No word of them makes deserialize throw.
Accepted(layout, words) ==
  /\ Len(words) = Len(layout)
  /\ \A k \in 1 .. Len(layout) :
       words[k] \in IF layout[k] = "point" THEN DOMAIN Respelt ELSE ScalarWords

\* What was read, as serialize writes it.
Deserialized(layout, words) ==
  [k \in 1 .. Len(layout) |->
     IF layout[k] = "point" THEN Respelt[words[k]] ELSE words[k]]

\* Points and scalars of our own, which serialize writes in its own form.
Serialized(layout, words) ==
  Accepted(layout, words) /\ Deserialized(layout, words) = words

-----------------------------------------------------------------------------
(***************************************************************************)
(* The constructor: its checks, and the sizes of what the provers return.  *)
(***************************************************************************)

\* n halved until it is 1.
Halvings(n) ==
  LET count[k \in 0 .. n] == IF k <= 1 THEN 0 ELSE count[k \div 2] + 1
  IN  count[n]

is_nonzero_power_of_2(n) == n = Power(2, Halvings(n))

\* BPPlus::prove pads the outputs to a power of two.
ProverRounds(t) ==
  Halvings(Bits * (IF is_nonzero_power_of_2(t) THEN t ELSE Power(2, Halvings(t) + 1)))

ConstructorError(b) ==
  \/ \E id \in Range(b.ids) : id = 0 \/ id > MaxSetId
  \/ Cardinality(Ids(b.hashes)) # Cardinality(Range(b.ids))
  \/ ~(Range(b.ids) \subseteq Ids(b.hashes))
  \/ Len(b.ids) \notin 1 .. MaxChaumV2Inputs
  \/ b.outputs \notin 1 .. MaxV2Outputs

\* The provers return p, whatever their randomness makes of it.
ProversReturn(b, p) == Serialized(Layout(Len(b.ids), ProverRounds(b.outputs)), p)

Constructed(b, p) ==
  [cover_set_ids |-> b.ids, hashes |-> b.hashes, f |-> b.f,
   extension_commitment |-> b.extension, outputs |-> b.outputs,
   perInput |-> Len(b.ids), X |-> GrootleM, X1 |-> GrootleM,
   fs |-> GrootleM * (GrootleN - 1),
   L |-> ProverRounds(b.outputs), R |-> ProverRounds(b.outputs),
   proof |-> p]

-----------------------------------------------------------------------------
(***************************************************************************)
(* Writing.                                                                *)
(***************************************************************************)

\* WriteCompactSize; the three longer forms are one here.
CompactSize(n) == IF n < Escape THEN <<n>> ELSE <<Escape, n>>

\* The order of std::map.
Ascending(hashes) ==
  [k \in 1 .. Cardinality(hashes) |->
     CHOOSE e \in hashes : Cardinality({d \in hashes : d[1] < e[1]}) = k - 1]

\* Mutant of WireRounds: the padding is doubled once too often.
WireRoundsOverPadded(t) ==
  LET padded == CHOOSE p \in {Power(2, k) : k \in 1 .. t + 1} :
                  t < p /\ \A q \in {Power(2, k) : k \in 1 .. t + 1} : t < q => p <= q
  IN  Halvings(Bits * padded)

\* Rounds of the range proof of t outputs: padded_outputs is the first power
\* of two that is no less than t.
WireRounds(t) ==
  LET powers == {Power(2, k) : k \in 0 .. t}
      padded == CHOOSE p \in powers : t <= p /\ \A q \in powers : t <= q => p <= q
  IN  Halvings(Bits * padded)

DimensionsOK(inputs, outputs) ==
  inputs \in 1 .. MaxChaumV2Inputs /\ outputs \in 1 .. MaxV2Outputs

IdOK(id) == id # 0 /\ id <= MaxSetId

\* Every hash has an input and every input a hash.
HashesOK(ids, hashes) == Range(ids) = Ids(hashes)

SizesOK(tx) ==
  /\ tx.perInput = Len(tx.cover_set_ids)
  /\ tx.X = GrootleM /\ tx.X1 = GrootleM /\ tx.fs = GrootleM * (GrootleN - 1)
  /\ tx.L = WireRounds(tx.outputs) /\ tx.R = WireRounds(tx.outputs)

Writable(tx) ==
  /\ DimensionsOK(Len(tx.cover_set_ids), tx.outputs)
  /\ \A id \in Range(tx.cover_set_ids) : IdOK(id)
  /\ Cardinality(tx.hashes) <= Len(tx.cover_set_ids)
  /\ HashesOK(tx.cover_set_ids, tx.hashes)
  /\ SizesOK(tx)

Written(tx) ==
  LET n       == Cardinality(tx.hashes)
      entries == Ascending(tx.hashes)
  IN  <<2>> \o CompactSize(Len(tx.cover_set_ids)) \o CompactSize(tx.outputs)
        \o tx.cover_set_ids \o CompactSize(n)
        \o [k \in 1 .. 2 * n |-> entries[((k - 1) \div 2) + 1][((k - 1) % 2) + 1]]
        \o <<tx.f, tx.extension_commitment>>
        \o tx.proof

-----------------------------------------------------------------------------
(***************************************************************************)
(* Reading, a word at a time.                                              *)
(***************************************************************************)

VARIABLES
  at,       (* the field to read next, or how it ended                     *)
  sent,     (* the transaction that was written, if the wire is our own    *)
  wire,     (* what was written                                            *)
  read,     (* the words read so far                                       *)
  long,     (* the escape word of a CompactSize has been read              *)
  inputs,   (* input_count                                                 *)
  count,    (* block_hash_count                                            *)
  expected, (* expected_output_count                                       *)
  tx        (* the object being filled                                     *)

wireVars == <<at, sent, wire, read, long, inputs, count, expected, tx>>

Empty ==
  [cover_set_ids |-> <<>>, hashes |-> {}, f |-> 0, extension_commitment |-> 0,
   outputs |-> 0, perInput |-> 0, X |-> 0, X1 |-> 0, fs |-> 0, L |-> 0, R |-> 0,
   proof |-> <<>>]

\* An object that has been read into before still has its hashes.
Targets == {Empty, [Empty EXCEPT !.hashes = {<<1, 0>>}]}

WireInit ==
  /\ at = "start" /\ sent = Empty /\ wire = <<>> /\ read = <<>> /\ long = FALSE
  /\ inputs = 0 /\ count = 0 /\ expected = 0 /\ tx \in Targets

\* t is written, for a reader that knows the number of outputs from the
\* transaction's output scripts.
Send(t) ==
  /\ sent' = t /\ expected' = t.outputs
  /\ IF Writable(t) THEN wire' = Written(t) /\ at' = "version"
                    ELSE wire' = <<>> /\ at' = "threw"

\* A transaction is built, written and read back.
Write(b, p) ==
  /\ at = "start"
  /\ ~ConstructorError(b) /\ ProversReturn(b, p)
  /\ Send(Constructed(b, p))
  /\ UNCHANGED <<read, long, inputs, count, tx>>

\* A wire from elsewhere.
Receive(t) ==
  /\ at = "start"
  /\ expected' = t /\ at' = "version"
  /\ UNCHANGED <<sent, wire, read, long, inputs, count, tx>>

\* w is the next word; a foreign wire may have any.
Word(w) ==
  /\ wire # <<>> => Len(read) < Len(wire) /\ w = wire[Len(read) + 1]
  /\ read' = Append(read, w)

\* The field is w or what w completes; ok is its check.
Go(next, ok) == at' = IF ok THEN next ELSE "threw"

ReadVersion(w) ==
  /\ at = "version" /\ Word(w) /\ Go("inputs", w = 2)
  /\ UNCHANGED <<sent, wire, long, inputs, count, expected, tx>>

\* ReadCompactSize refuses a count in a longer form than it needs.
NonCanonical(w) == w < Escape

\* w completes a CompactSize.
CountOK(w) == IF long THEN ~NonCanonical(w) ELSE w < Escape

Counts == {"inputs", "outputs", "hash_count"}

\* The escape word of a longer form: there is more to read.
ReadEscape(w) ==
  /\ at \in Counts /\ ~long /\ w = Escape /\ Word(w)
  /\ long' = TRUE
  /\ UNCHANGED <<at, sent, wire, inputs, count, expected, tx>>

\* The even longer forms are refused, here or because no limit is that large.
RefuseCount(w) ==
  /\ at \in Counts /\ (long \/ w # Escape) /\ ~CountOK(w) /\ Word(w)
  /\ at' = "threw" /\ long' = FALSE
  /\ UNCHANGED <<sent, wire, inputs, count, expected, tx>>

ReadInputCount(w) ==
  /\ at = "inputs" /\ CountOK(w) /\ Word(w)
  /\ inputs' = w /\ long' = FALSE /\ at' = "outputs"
  /\ UNCHANGED <<sent, wire, count, expected, tx>>

\* The vectors are resized to the counts.
ReadOutputCount(w) ==
  /\ at = "outputs" /\ CountOK(w) /\ Word(w)
  /\ Go("ids", DimensionsOK(inputs, w) /\ w = expected)
  /\ tx' = [tx EXCEPT !.cover_set_ids = <<>>, !.outputs = w]
  /\ long' = FALSE
  /\ UNCHANGED <<sent, wire, inputs, count, expected>>

ReadId(w) ==
  /\ at = "ids" /\ Word(w)
  /\ tx' = [tx EXCEPT !.cover_set_ids = Append(@, w)]
  /\ IF Len(tx.cover_set_ids) + 1 < inputs THEN at' = at
     ELSE Go("hash_count", \A id \in Range(tx'.cover_set_ids) : IdOK(id))
  /\ UNCHANGED <<sent, wire, long, inputs, count, expected>>

\* set_id_blockHash is cleared, whatever the object held.
ReadHashCount(w) ==
  /\ at = "hash_count" /\ CountOK(w) /\ Word(w)
  /\ count' = w /\ long' = FALSE
  /\ tx' = [tx EXCEPT !.hashes = {}]
  /\ Go(IF w = 0 THEN "fee" ELSE "entries",
        w <= inputs /\ (w = 0 => HashesOK(tx.cover_set_ids, {})))
  /\ UNCHANGED <<sent, wire, inputs, expected>>

\* Mutant of EntryOK: an id may come twice.
EntryAny(id) == TRUE

\* Mutant of EntryOK: the ids may come in any order.
EntryNew(id) == id \notin Ids(tx.hashes)

\* previous_id is the largest id so far, and emplace refuses one that is there.
EntryOK(id) == \A e \in tx.hashes : e[1] < id

ReadEntry(id, hash) ==
  /\ at = "entries"
  /\ wire # <<>> => /\ Len(read) + 1 < Len(wire)
                    /\ id = wire[Len(read) + 1] /\ hash = wire[Len(read) + 2]
  /\ read' = read \o <<id, hash>>
  /\ IF ~EntryOK(id) THEN at' = "threw" /\ UNCHANGED tx
     ELSE /\ tx' = [tx EXCEPT !.hashes = @ \cup {<<id, hash>>}]
          /\ IF Cardinality(tx'.hashes) < count THEN at' = at
             ELSE Go("fee", HashesOK(tx.cover_set_ids, tx'.hashes))
  /\ UNCHANGED <<sent, wire, long, inputs, count, expected>>

ReadFee(w) ==
  /\ at = "fee" /\ Word(w) /\ at' = "extension"
  /\ tx' = [tx EXCEPT !.f = w]
  /\ UNCHANGED <<sent, wire, long, inputs, count, expected>>

ReadExtension(w) ==
  /\ at = "extension" /\ Word(w) /\ at' = "proofs"
  /\ tx' = [tx EXCEPT !.extension_commitment = w]
  /\ UNCHANGED <<sent, wire, long, inputs, count, expected>>

\* The layout of the proofs that the counts read announce.
Rest == Layout(inputs, WireRounds(tx.outputs))

\* The rest is as long as the counts say.  What an object holds that refused a
\* point or a scalar is overwritten by the next read.
ReadProofs ==
  LET n    == Len(Rest)
      next == [k \in 1 .. n |-> wire[Len(read) + k]]
  IN  /\ at = "proofs"
      /\ wire # <<>> => Len(read) + n <= Len(wire)
      /\ \E words \in IF wire = <<>> THEN {t \in Tails : Len(t) = n} ELSE {next} :
           /\ read' = read \o words
           /\ IF Accepted(Rest, words)
              THEN /\ tx' = [tx EXCEPT !.perInput = inputs,
                              !.X = GrootleM, !.X1 = GrootleM,
                              !.fs = GrootleM * (GrootleN - 1),
                              !.L = WireRounds(tx.outputs), !.R = WireRounds(tx.outputs),
                              !.proof = Deserialized(Rest, words)]
                   /\ at' = "done"
              ELSE UNCHANGED tx /\ at' = "threw"
      /\ UNCHANGED <<sent, wire, long, inputs, count, expected>>

\* A foreign wire may end anywhere, our own where it ends.
EndOfData ==
  /\ at \notin {"start", "done", "threw"}
  /\ wire # <<>> =>
       Len(wire) < Len(read) + CASE at = "entries" -> 2
                                 [] at = "proofs" -> Len(Rest)
                                 [] OTHER -> 1
  /\ at' = "threw"
  /\ UNCHANGED <<sent, wire, read, long, inputs, count, expected, tx>>

\* What was read, from wherever, is written and read back.
Relay ==
  /\ at = "done"
  /\ Send(tx)
  /\ read' = <<>> /\ long' = FALSE /\ inputs' = 0 /\ count' = 0
  /\ tx' \in Targets

\* The next transaction, in another object or in the same.
Again ==
  /\ at \in {"done", "threw"}
  /\ at' = "start" /\ sent' = Empty /\ wire' = <<>> /\ read' = <<>>
  /\ long' = FALSE /\ inputs' = 0 /\ count' = 0 /\ expected' = 0
  /\ tx' \in Targets

\* What the constructor may be given: V2 spends within a word of the limits.
Builds ==
  LET ids == UNION {[1 .. n -> 0 .. MaxSetId + 1] : n \in 0 .. MaxChaumV2Inputs + 1}
  IN  [ids : ids,
       hashes : {{<<g, h[g]>> : g \in G} : G \in SUBSET (0 .. MaxSetId + 1),
                                           h \in [0 .. MaxSetId + 1 -> {0, 1}]},
       outputs : 0 .. MaxV2Outputs + 1, f : {1}, extension : {0, 3}]

WireNext ==
  \/ at = "start" /\ \E b \in Builds, p \in Tails : Write(b, p)
  \/ \E t \in 0 .. MaxV2Outputs : Receive(t)
  \/ \E w \in Words \cup Range(wire) :
       \/ ReadVersion(w) \/ ReadEscape(w) \/ RefuseCount(w) \/ ReadInputCount(w)
       \/ ReadOutputCount(w) \/ ReadId(w) \/ ReadHashCount(w)
       \/ ReadFee(w) \/ ReadExtension(w)
       \/ \E h \in Words \cup Range(wire) : ReadEntry(w, h)
  \/ ReadProofs
  \/ EndOfData
  \/ Relay
  \/ Again

WireSpec == WireInit /\ [][WireNext]_wireVars

-----------------------------------------------------------------------------
(***************************************************************************)
(* Properties.                                                             *)
(***************************************************************************)

\* Types.
WireTypeOK ==
  /\ at \in {"start", "version", "inputs", "outputs", "ids", "hash_count",
             "entries", "fee", "extension", "proofs", "done", "threw"}
  /\ tx \in SpendTransaction /\ sent \in SpendTransaction
  /\ wire \in Seq(Nat) /\ read \in Seq(Nat)
  /\ Cardinality(Ids(tx.hashes)) = Cardinality(tx.hashes)

\* A transaction the constructor built can be written, whatever its numbers of
\* inputs and outputs: the limits it checked and the sizes of the vectors its
\* provers returned are those the wire format requires.  So can one that was
\* read, however its points were spelt.  Reading it back uses the whole wire
\* and gives the same transaction, into whatever object.
ReadsBack ==
  /\ sent # Empty => at # "threw"
  /\ sent # Empty /\ at = "done" => tx = sent /\ read = wire

\* Whatever wire is accepted, from whatever source, writing the transaction
\* again gives it word for word but for the spelling of points: counts, ids,
\* the hash map, its order, fee and scalars have one encoding.
OnlyPointsRespelt ==
  at = "done" =>
    LET again == Written(tx)
        head  == Len(again) - Len(tx.proof)
        point(k) == k > head /\ Rest[k - head] = "point"
    IN  /\ Writable(tx)
        /\ Len(again) = Len(read)
        /\ \A k \in 1 .. Len(read) :
             again[k] = IF point(k) THEN Respelt[read[k]] ELSE read[k]

=============================================================================
