------------------------------ MODULE SparkName ------------------------------
(***************************************************************************)
(* Registering a Spark name.  The wallet makes the same script twice: a    *)
(* draft without the ownership proof, for its size, its commitment and the *)
(* digest of the unfinished transaction, and a final one whose proof signs *)
(* that digest.  Between the two it builds the spend, which already pays   *)
(* for and, from V2 on, commits to the script that does not exist yet.     *)
(* Strings are their lengths; hashes and proofs are what they are made of. *)
(***************************************************************************)
EXTENDS Integers

CONSTANTS
  NameLengths, InfoLengths,   (* lengths of a name and its information     *)
  Validities,                 (* values of sparkNameValidityBlocks         *)
  AddressLength,              (* length of an encoded address              *)
  ProofLength,                (* bytes of an OwnershipProof, empty or not  *)
  Margin,                     (* what the Dart wrapper adds to a size      *)
  MaxInt32,                   (* 0x7fffffff                                *)
  MaxFailSafe                 (* bound: retries after a "hash fail"        *)

ASSUME NameAssumption ==
  /\ NameLengths \subseteq Nat /\ InfoLengths \subseteq Nat
  /\ Validities \subseteq Int /\ AddressLength \in Nat
  /\ ProofLength \in Nat \ {0} /\ Margin \in Nat
  /\ MaxInt32 \in Nat /\ MaxFailSafe \in 0 .. MaxInt32

Versions == {1, 2}
None == <<>>

VARIABLES
  phase,        (* the next call of the wallet                             *)
  request,      (* what the user asked for                                 *)
  badHashes,    (* fail-safes whose digest is not a scalar                 *)
  hashFailSafe, (* the one the wallet passes                               *)
  draft,        (* result of the call without a proof                      *)
  commitment,   (* result of getSparkNameCommitment, or zero               *)
  spend,        (* the spend of this transaction                           *)
  final         (* result of the call with a proof                         *)

vars == <<phase, request, badHashes, hashFailSafe, draft, commitment, spend,
          final>>

\* nul: the name or the information holds a NUL character.
Requests == [version : Versions, name : NameLengths, info : InfoLengths,
             validity : Validities, nul : BOOLEAN]

-----------------------------------------------------------------------------
(***************************************************************************)
(* CSparkNameTxData, its length and its commitment.                        *)
(***************************************************************************)
CSparkNameTxData ==
  [name : NameLengths, sparkNameValidityBlocks : 0 .. MaxInt32,
   additionalInfo : InfoLengths, hashFailsafe : 0 .. MaxFailSafe]

CompactSize(n) == IF n < 253 THEN 1 ELSE IF n <= 65535 THEN 3 ELSE 5
StringLength(n) == CompactSize(n) + n

\* Version 2 of the data: nVersion, inputsHash, the four strings, two uint32
\* and operationType.
DataLength(data, proofLength) ==
  2 + 32 + StringLength(data.name) + StringLength(AddressLength)
    + StringLength(proofLength) + 4 + StringLength(data.additionalInfo) + 4 + 1

\* A script is the data with its proof, None when the vector is empty.
ScriptLength(script) ==
  DataLength(script.data, IF script.proof = None THEN 0 ELSE ProofLength)

\* Mutant of getSparkNameTxDataSize: the data as it is, without a proof.
SizeWithoutProof(data) == DataLength(data, 0)

getSparkNameTxDataSize(data) == DataLength(data, ProofLength)

\* Mutant of getSparkNameCommitment: the proof is not cleared.
CommitmentOfScript(script) == <<"FiroSparkNameExtensionV1", script>>

getSparkNameCommitment(script) ==
  <<"FiroSparkNameExtensionV1", [script EXCEPT !.proof = None]>>

\* The scalar the proof signs.  A V1 digest is read as a scalar, and may be
\* too large for one; a V2 digest is hashed to one.
getSparkNameOwnershipMessage(digest, version) ==
  IF version = 1 THEN <<"SetHex", digest>>
                 ELSE <<"SparkNameOwnershipMessageV2", digest>>

-----------------------------------------------------------------------------
(***************************************************************************)
(* createSparkNameScript, from the Dart checks to the result.              *)
(***************************************************************************)

\* Mutant of ArgumentsOK: the validity is passed on unchecked.
ArgumentsUnchecked(r) == ~r.nul

\* _checkInt32 and _checkCString; the native checks repeat them.
ArgumentsOK(r) == r.validity \in 0 .. MaxInt32 /\ ~r.nul

\* Mutant of TxData: the fail-safe is not stored.
TxDataNoFailSafe(r, failSafe) ==
  [name |-> r.name, sparkNameValidityBlocks |-> r.validity,
   additionalInfo |-> r.info, hashFailsafe |-> 0]

TxData(r, failSafe) ==
  [name |-> r.name, sparkNameValidityBlocks |-> r.validity,
   additionalInfo |-> r.info, hashFailsafe |-> failSafe]

\* The hash of the transaction is random: it fails to be a scalar for some
\* contents of the data, told apart by their fail-safe.
IsScalar(digest) == digest.script.data.hashFailsafe \notin badHashes

HashFails(digest, version) == version = 1 /\ ~IsScalar(digest)

\* The result of a call: its script and its size with the margin, or an error.
Result(data, signature) ==
  [error |-> "none", script |-> [data |-> data, proof |-> signature],
   size |-> getSparkNameTxDataSize(data) + Margin]
Failure(error) == [error |-> error, script |-> None, size |-> 0]

createSparkNameScript(r, failSafe, digest, withoutProof) ==
  LET data == TxData(r, failSafe) IN
  IF ~ArgumentsOK(r) THEN Failure("arguments")
  ELSE IF withoutProof THEN Result(data, None)
  ELSE IF HashFails(digest, r.version) THEN Failure("hash fail")
  ELSE Result(data, getSparkNameOwnershipMessage(digest, r.version))

-----------------------------------------------------------------------------
(***************************************************************************)
(* The wallet, which follows the documented order of the calls.            *)
(***************************************************************************)

\* An absent commitment is zero.
Zero == <<"zero">>
resolveExtensionCommitment(given) == IF given = None THEN Zero ELSE given

ExtensionOK(version, given) ==
  version = 1 => resolveExtensionCommitment(given) = Zero

\* The hash of the unfinished transaction: its spend and the draft.
Digest == [spend |-> spend, script |-> draft.script]

NameInit ==
  /\ phase = "draft" /\ request \in Requests
  /\ badHashes \in SUBSET (0 .. MaxFailSafe)
  /\ hashFailSafe = 0
  /\ draft = None /\ commitment = None /\ spend = None /\ final = None

\* A V2 spend has to commit to the name.  A V1 spend cannot, but the wallet
\* may try.
Draft ==
  /\ phase = "draft"
  /\ draft' = createSparkNameScript(request, hashFailSafe, None, TRUE)
  /\ \/ draft'.error # "none" /\ phase' = "failed"
     \/ draft'.error = "none" /\ spend # None /\ phase' = "prove"
     \/ draft'.error = "none" /\ spend = None /\ phase' = "commit"
     \/ /\ draft'.error = "none" /\ spend = None
        /\ request.version = 1 /\ phase' = "spend"
  /\ UNCHANGED <<request, badHashes, hashFailSafe, commitment, spend, final>>

Commit ==
  /\ phase = "commit"
  /\ commitment' = getSparkNameCommitment(draft.script)
  /\ phase' = "spend"
  /\ UNCHANGED <<request, badHashes, hashFailSafe, draft, spend, final>>

\* createSparkSpendTransaction (SparkSpend) with the size and the commitment.
Spend ==
  /\ phase = "spend"
  /\ ExtensionOK(request.version, commitment)
  /\ spend' = [version |-> request.version,
               extension_commitment |->
                 resolveExtensionCommitment(commitment),
               additionalTxSize |-> draft.size]
  /\ phase' = "prove"
  /\ UNCHANGED <<request, badHashes, hashFailSafe, draft, commitment, final>>

\* The spend itself may fail, for want of coins or cover sets.
SpendFails ==
  /\ phase = "spend"
  /\ phase' = "failed"
  /\ UNCHANGED <<request, badHashes, hashFailSafe, draft, commitment, spend,
                 final>>

Prove ==
  /\ phase = "prove"
  /\ final' = createSparkNameScript(request, hashFailSafe, Digest, FALSE)
  /\ phase' = CASE final'.error = "none" -> "published"
                [] final'.error = "hash fail" -> "retry"
                [] OTHER -> "failed"
  /\ UNCHANGED <<request, badHashes, hashFailSafe, draft, commitment, spend>>

\* The spend is kept: only the script changes.
Retry ==
  /\ phase = "retry" /\ hashFailSafe < MaxFailSafe
  /\ hashFailSafe' = hashFailSafe + 1
  /\ final' = None
  /\ phase' = "draft"
  /\ UNCHANGED <<request, badHashes, draft, commitment, spend>>

GiveUp ==
  /\ phase = "retry" /\ hashFailSafe = MaxFailSafe
  /\ phase' = "failed"
  /\ UNCHANGED <<request, badHashes, hashFailSafe, draft, commitment, spend,
                 final>>

\* Nothing is kept for another name.
Finished == phase \in {"published", "failed"} /\ UNCHANGED vars

Call == Draft \/ Commit \/ Spend \/ SpendFails \/ Prove \/ Retry \/ GiveUp

NameNext == Call \/ Finished

\* A wallet goes on with the calls it has begun.
NameSpec ==
  NameInit /\ [][NameNext]_vars /\ WF_vars(Call)

-----------------------------------------------------------------------------
\* Types: what the checks let through fits CSparkNameTxData, whose integers
\* are unsigned, and a commitment is taken of data without a proof.
NameTypeOK ==
  /\ phase \in {"draft", "commit", "spend", "prove", "retry", "published",
               "failed"}
  /\ request \in Requests
  /\ badHashes \subseteq 0 .. MaxFailSafe
  /\ hashFailSafe \in 0 .. MaxFailSafe
  /\ \A r \in {draft, final} \ {None} :
       r.error = "none" => r.script.data \in CSparkNameTxData /\ r.size \in Nat
  /\ commitment # None => commitment[2].proof = None
  /\ spend # None => draft # None /\ spend.additionalTxSize \in Nat

\* What a node checks of the finished transaction (sparkname.cpp 47-74 are its
\* own functions too): the proof in the script signs the transaction as it was
\* without that proof, spend included, and the spend commits to the script, or
\* to nothing in V1.  The commitment and the digest were taken from the draft,
\* before the proof, and possibly several drafts ago.
PublishedIsAccepted ==
  phase = "published" =>
    LET bare == [final.script EXCEPT !.proof = None] IN
      /\ final.script.proof =
           getSparkNameOwnershipMessage([spend |-> spend, script |-> bare],
                                        spend.version)
      /\ spend.extension_commitment =
           IF spend.version = 2 THEN getSparkNameCommitment(final.script)
                                ELSE Zero

\* The spend was charged for exactly the bytes of the script that ends up in
\* the transaction and the margin, though it was made before the proof and
\* before any retry (additionalTxSize of createSparkSpendTransaction).
SizePaid ==
  phase = "published" =>
    spend.additionalTxSize = ScriptLength(final.script) + Margin

\* Once its spend exists a name is published: the only failure left is the
\* hash fail, and a retry with the next hashFailSafe changes the digest, so
\* that it ends unless no fail-safe would do.
SpendIsUsed ==
  (spend # None /\ badHashes # 0 .. MaxFailSafe) ~> (phase = "published")

=============================================================================
