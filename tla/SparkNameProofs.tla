-------------------------- MODULE SparkNameProofs ---------------------------
(***************************************************************************)
(* The safety properties of SparkName, for every length, validity, version *)
(* and number of retries, and of OwnershipProof, in a group of any prime   *)
(* order, for any keys, diversifiers and messages.                         *)
(***************************************************************************)
EXTENDS SparkName, OwnershipProof, AmountsProofs

-----------------------------------------------------------------------------
(***************************************************************************)
(* NAMES.                                                                  *)
(***************************************************************************)

-----------------------------------------------------------------------------
(***************************************************************************)
(* Lengths and results.                                                    *)
(***************************************************************************)

\* The data that the checks let through.
LEMMA DataType ==
  ASSUME NEW r \in Requests, ArgumentsOK(r), NEW n \in 0 .. MaxFailSafe
  PROVE  TxData(r, n) \in CSparkNameTxData
BY DEF Requests, ArgumentsOK, TxData, CSparkNameTxData

\* The length of the data does not depend on the fail-safe.
LEMMA LengthType ==
  ASSUME NEW d \in CSparkNameTxData, NEW n \in Nat
  PROVE  DataLength(d, n) \in Nat
<1>1. \A k \in Nat : StringLength(k) \in Nat
  BY DEF StringLength, CompactSize
<1>2. d.name \in Nat /\ d.additionalInfo \in Nat
  BY NameAssumption DEF CSparkNameTxData
<1>3. /\ StringLength(d.name) \in Nat /\ StringLength(d.additionalInfo) \in Nat
      /\ StringLength(AddressLength) \in Nat /\ StringLength(n) \in Nat
  BY <1>1, <1>2, NameAssumption
<1> QED BY <1>3 DEF DataLength

LEMMA LengthIgnoresFailSafe ==
  ASSUME NEW r \in Requests, NEW m, NEW n, NEW k
  PROVE  DataLength(TxData(r, m), k) = DataLength(TxData(r, n), k)
BY DEF DataLength, TxData

\* What tells results, scripts, commitments and messages from None.
LEMMA NoneIsNothing ==
  /\ \A d, p : Result(d, p) # None /\ Result(d, p).error = "none"
  /\ \A e : Failure(e) # None /\ Failure(e).error = e
  /\ \A s : getSparkNameCommitment(s) # None /\ getSparkNameCommitment(s) # Zero
  /\ \A g, v : getSparkNameOwnershipMessage(g, v) # None
<1>1. \A d, p : Result(d, p) # None /\ Result(d, p).error = "none"
  BY DEF Result, None
<1>2. \A e : Failure(e) # None /\ Failure(e).error = e
  BY DEF Failure, None
<1>3. \A s : getSparkNameCommitment(s) # None /\ getSparkNameCommitment(s) # Zero
  BY DEF getSparkNameCommitment, None, Zero
<1>4. \A g, v : getSparkNameOwnershipMessage(g, v) # None
  BY DEF getSparkNameOwnershipMessage, None
<1> QED BY <1>1, <1>2, <1>3, <1>4

-----------------------------------------------------------------------------
(***************************************************************************)
(* The inductive invariant.                                                *)
(***************************************************************************)

BareScript(r, n) == [data |-> TxData(r, n), proof |-> None]

\* From its draft on, a name is worked on with that draft, of the current
\* fail-safe.
DraftIsCurrent ==
  phase \in {"commit", "spend", "prove", "retry", "published"} =>
    ArgumentsOK(request) /\ draft = Result(TxData(request, hashFailSafe), None)

\* A V2 message is always a scalar: nothing is ever retried.
V2NeverRetries == request.version = 2 => hashFailSafe = 0 /\ phase # "retry"

\* Until there is a spend nothing has been retried.
BeforeSpend ==
  /\ phase = "draft" /\ spend = None => hashFailSafe = 0 /\ commitment = None
  /\ phase \in {"commit", "spend"} => hashFailSafe = 0 /\ spend = None
  /\ phase = "commit" => commitment = None
  /\ phase = "spend" =>
       /\ commitment # None => commitment = getSparkNameCommitment(draft.script)
       /\ request.version = 2 => commitment # None

\* The spend was made for the first draft.
SpendIsForFirstDraft ==
  /\ phase \in {"prove", "retry", "published"} => spend # None
  /\ spend # None =>
       /\ ArgumentsOK(request)
       /\ spend = [version |-> request.version,
                   extension_commitment |->
                     IF request.version = 2
                     THEN getSparkNameCommitment(BareScript(request, 0)) ELSE Zero,
                   additionalTxSize |->
                     getSparkNameTxDataSize(TxData(request, 0)) + Margin]

FinalIsSigned ==
  phase = "published" =>
    final = Result(TxData(request, hashFailSafe),
                   getSparkNameOwnershipMessage(Digest, request.version))

NameInv ==
  /\ NameTypeOK
  /\ DraftIsCurrent
  /\ V2NeverRetries
  /\ BeforeSpend
  /\ SpendIsForFirstDraft
  /\ FinalIsSigned

LEMMA NameInitInv == NameInit => NameInv
BY NameAssumption
DEF NameInit, NameInv, NameTypeOK, DraftIsCurrent, V2NeverRetries, BeforeSpend,
    SpendIsForFirstDraft, FinalIsSigned

\* The script of a draft.
LEMMA DraftFacts ==
  ASSUME NameInv, phase \in {"commit", "spend", "prove"}
  PROVE  /\ request \in Requests /\ ArgumentsOK(request)
         /\ draft.script = BareScript(request, hashFailSafe)
         /\ draft.size = getSparkNameTxDataSize(TxData(request, hashFailSafe)) + Margin
         /\ draft # None
BY NoneIsNothing DEF NameInv, NameTypeOK, DraftIsCurrent, Result, BareScript

\* What a result holds has its type.
LEMMA ResultType ==
  ASSUME NEW r \in Requests, ArgumentsOK(r), NEW n \in 0 .. MaxFailSafe, NEW p
  PROVE  /\ Result(TxData(r, n), p).script.data \in CSparkNameTxData
         /\ Result(TxData(r, n), p).size \in Nat
<1>1. TxData(r, n) \in CSparkNameTxData
  BY DataType
<1>2. getSparkNameTxDataSize(TxData(r, n)) \in Nat
  BY <1>1, LengthType, NameAssumption DEF getSparkNameTxDataSize
<1> QED BY <1>1, <1>2, NameAssumption DEF Result

-----------------------------------------------------------------------------
(***************************************************************************)
(* The steps.                                                              *)
(***************************************************************************)

LEMMA DraftInv == ASSUME NameInv, Draft PROVE NameInv'
<1>1. /\ phase = "draft" /\ request \in Requests /\ hashFailSafe \in 0 .. MaxFailSafe
      /\ UNCHANGED <<request, badHashes, hashFailSafe, commitment, spend, final>>
      /\ phase' \in {"failed", "prove", "commit", "spend"}
      /\ phase' = "prove" => spend # None
      /\ phase' \in {"commit", "spend"} => spend = None
      /\ phase' = "spend" => request.version = 1
      /\ phase' = "failed" \/ draft'.error = "none"
  BY DEF Draft, NameInv, NameTypeOK
<1>2. draft' = IF ArgumentsOK(request) THEN Result(TxData(request, hashFailSafe), None)
               ELSE Failure("arguments")
  BY DEF Draft, createSparkNameScript
<1>3. phase' # "failed" => ArgumentsOK(request)
  BY <1>1, <1>2, NoneIsNothing
<1>4. draft' # None /\ (draft'.error = "none" => ArgumentsOK(request))
  BY <1>2, NoneIsNothing
<1>5. NameTypeOK'
  <2>1. \A r \in {draft', final'} \ {None} :
          r.error = "none" => r.script.data \in CSparkNameTxData /\ r.size \in Nat
    <3>1. draft'.error = "none" =>
            draft'.script.data \in CSparkNameTxData /\ draft'.size \in Nat
      BY <1>1, <1>2, <1>4, ResultType
    <3> QED BY <1>1, <3>1 DEF NameInv, NameTypeOK
  <2> QED BY <1>1, <1>4, <2>1 DEF NameInv, NameTypeOK
<1>6. DraftIsCurrent' /\ V2NeverRetries' /\ FinalIsSigned'
  BY <1>1, <1>2, <1>3 DEF NameInv, DraftIsCurrent, V2NeverRetries, FinalIsSigned
<1>7. BeforeSpend'
  BY <1>1 DEF NameInv, BeforeSpend, Requests, Versions
<1>8. SpendIsForFirstDraft'
  BY <1>1, Zenon DEF NameInv, SpendIsForFirstDraft
<1> QED BY <1>5, <1>6, <1>7, <1>8 DEF NameInv

LEMMA CommitInv == ASSUME NameInv, Commit PROVE NameInv'
<1>1. /\ phase = "commit" /\ phase' = "spend"
      /\ commitment' = getSparkNameCommitment(draft.script)
      /\ UNCHANGED <<request, badHashes, hashFailSafe, draft, spend, final>>
  BY DEF Commit
<1>2. commitment' # None /\ commitment'[2].proof = None
  <2>1. draft.script = BareScript(request, hashFailSafe)
    BY <1>1, DraftFacts
  <2> QED BY <1>1, <2>1, NoneIsNothing DEF getSparkNameCommitment, BareScript
<1>3. NameTypeOK'
  BY <1>1, <1>2 DEF NameInv, NameTypeOK
<1>4. DraftIsCurrent' /\ V2NeverRetries' /\ BeforeSpend'
  BY <1>1, <1>2 DEF NameInv, DraftIsCurrent, V2NeverRetries, BeforeSpend
<1>5. SpendIsForFirstDraft' /\ FinalIsSigned'
  BY <1>1 DEF NameInv, BeforeSpend, SpendIsForFirstDraft, FinalIsSigned
<1> QED BY <1>3, <1>4, <1>5 DEF NameInv

LEMMA SpendStepInv == ASSUME NameInv, Spend PROVE NameInv'
<1>1. /\ phase = "spend" /\ phase' = "prove"
      /\ ExtensionOK(request.version, commitment)
      /\ spend' = [version |-> request.version,
                   extension_commitment |-> resolveExtensionCommitment(commitment),
                   additionalTxSize |-> draft.size]
      /\ UNCHANGED <<request, badHashes, hashFailSafe, draft, commitment, final>>
  BY DEF Spend
<1>2. /\ request \in Requests /\ ArgumentsOK(request) /\ draft # None
      /\ draft.script = BareScript(request, 0) /\ hashFailSafe = 0
      /\ draft.size = getSparkNameTxDataSize(TxData(request, 0)) + Margin
  <2>1. hashFailSafe = 0
    BY <1>1 DEF NameInv, BeforeSpend
  <2> QED BY <1>1, <2>1, DraftFacts
<1>3. draft.size \in Nat
  <2>1. Result(TxData(request, 0), None).size \in Nat
    BY <1>2, ResultType, NameAssumption
  <2> QED BY <1>2, <2>1 DEF Result
<1>4. resolveExtensionCommitment(commitment) =
        IF request.version = 2 THEN getSparkNameCommitment(BareScript(request, 0)) ELSE Zero
  <2>1. CASE request.version = 2
    <3>1. commitment # None /\ commitment = getSparkNameCommitment(BareScript(request, 0))
      BY <1>1, <1>2, <2>1 DEF NameInv, BeforeSpend
    <3> QED BY <2>1, <3>1 DEF resolveExtensionCommitment
  <2>2. CASE request.version = 1
    BY <1>1, <2>2 DEF ExtensionOK
  <2> QED BY <1>2, <2>1, <2>2 DEF Requests, Versions
<1>5. NameTypeOK'
  BY <1>1, <1>2, <1>3 DEF NameInv, NameTypeOK
<1>6. DraftIsCurrent' /\ V2NeverRetries' /\ BeforeSpend' /\ FinalIsSigned'
  BY <1>1, <1>2 DEF NameInv, DraftIsCurrent, V2NeverRetries, BeforeSpend, FinalIsSigned
<1>7. SpendIsForFirstDraft'
  <2>1. spend' # None
    BY <1>1 DEF None
  <2>2. spend' = [version |-> request.version,
                  extension_commitment |->
                    IF request.version = 2
                    THEN getSparkNameCommitment(BareScript(request, 0)) ELSE Zero,
                  additionalTxSize |->
                    getSparkNameTxDataSize(TxData(request, 0)) + Margin]
    BY <1>1, <1>2, <1>4, Zenon
  <2> QED BY <1>1, <1>2, <2>1, <2>2, Zenon DEF SpendIsForFirstDraft
<1> QED BY <1>5, <1>6, <1>7 DEF NameInv

LEMMA ProveInv == ASSUME NameInv, Prove PROVE NameInv'
<1>1. /\ phase = "prove" /\ request \in Requests /\ hashFailSafe \in 0 .. MaxFailSafe
      /\ final' = createSparkNameScript(request, hashFailSafe, Digest, FALSE)
      /\ UNCHANGED <<request, badHashes, hashFailSafe, draft, commitment, spend>>
  BY DEF Prove, NameInv, NameTypeOK
<1>2. ArgumentsOK(request) /\ spend # None
  BY <1>1, DraftFacts DEF NameInv, SpendIsForFirstDraft
<1>3. final' = IF HashFails(Digest, request.version) THEN Failure("hash fail")
               ELSE Result(TxData(request, hashFailSafe),
                           getSparkNameOwnershipMessage(Digest, request.version))
  BY <1>1, <1>2 DEF createSparkNameScript
<1>4. CASE HashFails(Digest, request.version)
  <2>1. final' # None /\ final'.error = "hash fail"
    BY <1>3, <1>4, NoneIsNothing
  <2>2. phase' = "retry"
    BY <2>1 DEF Prove
  <2>3. NameTypeOK'
    BY <1>1, <2>1, <2>2 DEF NameInv, NameTypeOK
  <2>4. DraftIsCurrent' /\ V2NeverRetries' /\ BeforeSpend' /\ FinalIsSigned'
    <3>1. request.version # 2
      BY <1>4 DEF HashFails
    <3> QED
      BY <1>1, <1>2, <2>2, <3>1
      DEF NameInv, DraftIsCurrent, V2NeverRetries, BeforeSpend, FinalIsSigned
  <2>5. SpendIsForFirstDraft'
    BY <1>1, <1>2, <2>2, Zenon DEF NameInv, SpendIsForFirstDraft
  <2> QED BY <2>3, <2>4, <2>5 DEF NameInv
<1>5. CASE ~HashFails(Digest, request.version)
  <2>1. /\ final' = Result(TxData(request, hashFailSafe),
                           getSparkNameOwnershipMessage(Digest, request.version))
        /\ final' # None /\ final'.error = "none"
    BY <1>3, <1>5, NoneIsNothing
  <2>2. phase' = "published"
    BY <2>1 DEF Prove
  <2>3. final'.script.data \in CSparkNameTxData /\ final'.size \in Nat
    BY <1>1, <1>2, <2>1, ResultType
  <2>4. NameTypeOK'
    BY <1>1, <2>1, <2>2, <2>3 DEF NameInv, NameTypeOK
  <2>5. DraftIsCurrent' /\ V2NeverRetries' /\ BeforeSpend'
    BY <1>1, <1>2, <2>2 DEF NameInv, DraftIsCurrent, V2NeverRetries, BeforeSpend
  <2>6. FinalIsSigned'
    BY <1>1, <2>1 DEF FinalIsSigned, Digest
  <2>7. SpendIsForFirstDraft'
    BY <1>1, <1>2, <2>2, Zenon DEF NameInv, SpendIsForFirstDraft
  <2> QED BY <2>4, <2>5, <2>6, <2>7 DEF NameInv
<1> QED BY <1>4, <1>5

\* Only a V1 name gets as far as a retry.
LEMMA RetryInv == ASSUME NameInv, Retry PROVE NameInv'
<1>1. /\ phase = "retry" /\ phase' = "draft" /\ hashFailSafe' = hashFailSafe + 1
      /\ hashFailSafe < MaxFailSafe /\ hashFailSafe \in 0 .. MaxFailSafe
      /\ final' = None /\ UNCHANGED <<request, badHashes, draft, commitment, spend>>
  BY DEF Retry, NameInv, NameTypeOK
<1>2. hashFailSafe' \in 0 .. MaxFailSafe
  BY <1>1, NameAssumption
<1>3. spend # None /\ request.version # 2
  BY <1>1 DEF NameInv, SpendIsForFirstDraft, V2NeverRetries
<1>4. NameTypeOK'
  BY <1>1, <1>2 DEF NameInv, NameTypeOK
<1>5. DraftIsCurrent' /\ V2NeverRetries' /\ BeforeSpend' /\ FinalIsSigned'
  BY <1>1, <1>3 DEF DraftIsCurrent, V2NeverRetries, BeforeSpend, FinalIsSigned
<1>6. SpendIsForFirstDraft'
  BY <1>1, Zenon DEF NameInv, SpendIsForFirstDraft
<1> QED BY <1>4, <1>5, <1>6 DEF NameInv

LEMMA FailInv == ASSUME NameInv, SpendFails \/ GiveUp PROVE NameInv'
<1>1. /\ phase' = "failed"
      /\ UNCHANGED <<request, badHashes, hashFailSafe, draft, commitment, spend, final>>
  BY DEF SpendFails, GiveUp
<1>2. NameTypeOK' /\ DraftIsCurrent' /\ V2NeverRetries' /\ BeforeSpend' /\ FinalIsSigned'
  BY <1>1
  DEF NameInv, NameTypeOK, DraftIsCurrent, V2NeverRetries, BeforeSpend, FinalIsSigned
<1>3. SpendIsForFirstDraft'
  BY <1>1, Zenon DEF NameInv, SpendIsForFirstDraft
<1> QED BY <1>2, <1>3 DEF NameInv

LEMMA NameStutterInv == ASSUME NameInv, UNCHANGED vars PROVE NameInv'
<1>1. NameTypeOK' /\ DraftIsCurrent' /\ V2NeverRetries' /\ BeforeSpend' /\ FinalIsSigned'
  BY DEF vars, NameInv, NameTypeOK, DraftIsCurrent, V2NeverRetries, BeforeSpend,
         FinalIsSigned, Digest
<1>2. SpendIsForFirstDraft'
  BY Zenon DEF vars, NameInv, SpendIsForFirstDraft
<1> QED BY <1>1, <1>2 DEF NameInv

-----------------------------------------------------------------------------
(***************************************************************************)
(* The theorems.                                                           *)
(***************************************************************************)

\* NameInv is an invariant of the wallet and the calls it makes.
THEOREM NameInvariant == NameSpec => []NameInv
<1>1. NameInit => NameInv
  BY NameInitInv
<1>2. NameInv /\ [NameNext]_vars => NameInv'
  BY DraftInv, CommitInv, SpendStepInv, ProveInv, RetryInv, FailInv, NameStutterInv
  DEF NameNext, Call, Finished
<1> QED BY <1>1, <1>2, PTL DEF NameSpec

\* Whatever lengths and validities a user asks for, what the checks of
\* createSparkNameScript let through fits CSparkNameTxData.
THEOREM NameTypeCorrect == NameSpec => []NameTypeOK
BY NameInvariant, PTL DEF NameInv

\* Names of both versions, after any number of retries, are published in a
\* transaction a node accepts: the proof signs the transaction without it, and
\* the commitment the spend made before the proof is that of the final script.
THEOREM PublishedNamesAreAccepted == NameSpec => []PublishedIsAccepted
<1>1. NameInv => PublishedIsAccepted
  <2> SUFFICES ASSUME NameInv, phase = "published"
               PROVE  LET bare == [final.script EXCEPT !.proof = None] IN
                        /\ final.script.proof =
                             getSparkNameOwnershipMessage(
                               [spend |-> spend, script |-> bare], spend.version)
                        /\ spend.extension_commitment =
                             IF spend.version = 2
                             THEN getSparkNameCommitment(final.script) ELSE Zero
    BY DEF PublishedIsAccepted
  <2> DEFINE message == getSparkNameOwnershipMessage(Digest, request.version)
             data == TxData(request, hashFailSafe)
  <2>1. final.script = [data |-> data, proof |-> message]
    BY DEF NameInv, FinalIsSigned, Result
  <2>2. draft.script = BareScript(request, hashFailSafe)
    BY DEF NameInv, DraftIsCurrent, Result, BareScript
  <2>3. [final.script EXCEPT !.proof = None] = draft.script
    <3> HIDE DEF message, data
    <3> QED BY <2>1, <2>2 DEF BareScript, data
  <2>4. /\ spend.version = request.version
        /\ spend.extension_commitment =
             IF request.version = 2
             THEN getSparkNameCommitment(BareScript(request, 0)) ELSE Zero
    BY DEF NameInv, SpendIsForFirstDraft
  <2>5. final.script.proof =
          getSparkNameOwnershipMessage([spend |-> spend, script |-> draft.script],
                                       spend.version)
    BY <2>1, <2>4 DEF Digest
  <2>6. request.version = 2 =>
          getSparkNameCommitment(BareScript(request, 0)) = getSparkNameCommitment(final.script)
    <3> SUFFICES ASSUME request.version = 2
                 PROVE  [BareScript(request, 0) EXCEPT !.proof = None] =
                          [final.script EXCEPT !.proof = None]
      BY DEF getSparkNameCommitment
    <3>1. hashFailSafe = 0
      BY DEF NameInv, V2NeverRetries
    <3>2. [BareScript(request, 0) EXCEPT !.proof = None] = BareScript(request, 0)
      BY DEF BareScript
    <3> QED BY <2>2, <2>3, <3>1, <3>2
  <2> QED BY <2>3, <2>4, <2>5, <2>6
<1> QED BY <1>1, NameInvariant, PTL

\* The draft's size is that of the script that ends up in the transaction,
\* proof and fail-safe included, so that the spend has paid for it.
THEOREM ScriptSizeIsPaid == NameSpec => []SizePaid
<1>1. NameInv => SizePaid
  <2> SUFFICES ASSUME NameInv, phase = "published"
               PROVE  spend.additionalTxSize = ScriptLength(final.script) + Margin
    BY DEF SizePaid
  <2> DEFINE message == getSparkNameOwnershipMessage(Digest, request.version)
             data == TxData(request, hashFailSafe)
  <2>1. final.script = [data |-> data, proof |-> message] /\ message # None
    BY NoneIsNothing DEF NameInv, FinalIsSigned, Result
  <2>2. ScriptLength(final.script) = DataLength(data, ProofLength)
    <3> HIDE DEF message, data
    <3> QED BY <2>1 DEF ScriptLength
  <2>3. spend.additionalTxSize = DataLength(TxData(request, 0), ProofLength) + Margin
    BY DEF NameInv, SpendIsForFirstDraft, getSparkNameTxDataSize
  <2>4. DataLength(data, ProofLength) = DataLength(TxData(request, 0), ProofLength)
    BY LengthIgnoresFailSafe DEF NameInv, NameTypeOK
  <2> QED BY <2>2, <2>3, <2>4
<1> QED BY <1>1, NameInvariant, PTL

-----------------------------------------------------------------------------
(***************************************************************************)
(* OWNERSHIP PROOFS.                                                       *)
(***************************************************************************)

-----------------------------------------------------------------------------
(***************************************************************************)
(* Group elements at their generators.                                     *)
(***************************************************************************)

LEMMA OrderFacts ==
  /\ Order \in Nat \ {0} /\ Order > 2 /\ s2 \in Int
  /\ Scalars = 0 .. Order - 1
BY OwnershipAssumption DEF Scalars

\* The generators are different from each other.
LEMMA GeneratorsDiffer ==
  /\ G # F
  /\ \A d : hash_div(d) # G /\ hash_div(d) # F
  /\ \A d, e : hash_div(d) = hash_div(e) => d = e
<1>1. G # F
  BY DEF G, F
<1>2. ASSUME NEW d PROVE hash_div(d) # G /\ hash_div(d) # F
  BY DEF G, F, hash_div
<1>3. ASSUME NEW d, NEW e, hash_div(d) = hash_div(e) PROVE d = e
  <2>1. hash_div(d)[2] = d /\ hash_div(e)[2] = e
    BY DEF hash_div
  <2> QED BY <1>3, <2>1
<1> QED BY <1>1, <1>2, <1>3

\* A key and a diversifier are determined by the encrypted diversifier.
LEMMA EncryptedDiffer ==
  ASSUME NEW k \in SpendKeys, NEW i \in Diversifiers,
         NEW j \in SpendKeys, NEW e \in Diversifiers,
         Encrypted(k, i) = Encrypted(j, e)
  PROVE  k = j /\ i = e
<1>1. /\ Encrypted(k, i)[2] = k.s1 /\ Encrypted(j, e)[2] = j.s1
      /\ Encrypted(k, i)[3] = i /\ Encrypted(j, e)[3] = e
  BY DEF Encrypted
<1>2. k.s1 = j.s1 /\ i = e
  BY <1>1
<1> QED BY <1>2, OwnershipAssumption

LEMMA KeyFacts ==
  ASSUME NEW k \in SpendKeys, NEW i \in Diversifiers
  PROVE  /\ k.s1 \in 1 .. Order - 1 /\ k.r \in 1 .. Order - 1
         /\ hash_Q2(k.s1, i) \in 0 .. Order - 1 /\ s2 \in 0 .. Order - 1
         /\ Encrypted(k, i) \in Ds
BY OwnershipAssumption DEF Scalars, Ds

\* The coefficients of an element are reduced.
Elements == [Generators -> Scalars]

LEMMA TimesAt ==
  ASSUME NEW x \in Generators, NEW a \in Int
  PROVE  /\ Times(x, a) \in Elements
         /\ \A g \in Generators : Times(x, a)[g] = IF g = x THEN a % Order ELSE 0
<1>1. 0 \in Scalars
  BY OrderFacts
<1>2. a % Order \in Scalars
  BY OrderFacts, Divided, Zenon
<1> QED BY <1>1, <1>2 DEF Times, Elements

LEMMA PlusAt ==
  ASSUME NEW P \in Elements, NEW Q \in Elements
  PROVE  /\ Plus(P, Q) \in Elements
         /\ \A g \in Generators : Plus(P, Q)[g] = (P[g] + Q[g]) % Order
<1>1. ASSUME NEW g \in Generators PROVE (P[g] + Q[g]) % Order \in Scalars
  <2> DEFINE p == P[g] + Q[g]
  <2>1. p \in Int
    BY OrderFacts DEF Elements
  <2> HIDE DEF p
  <2>2. p % Order \in Scalars
    BY <2>1, OrderFacts, Divided, Zenon
  <2> QED BY <2>2 DEF p
<1> QED BY <1>1 DEF Plus, Elements

LEMMA ScaledAt ==
  ASSUME NEW P \in Elements, NEW a \in Int
  PROVE  /\ Scaled(P, a) \in Elements
         /\ \A g \in Generators : Scaled(P, a)[g] = (P[g] * a) % Order
<1>1. ASSUME NEW g \in Generators PROVE (P[g] * a) % Order \in Scalars
  <2> DEFINE p == P[g] * a
  <2>1. p \in Int
    BY OrderFacts DEF Elements
  <2> HIDE DEF p
  <2>2. p % Order \in Scalars
    BY <2>1, OrderFacts, Divided
  <2> QED BY <2>2 DEF p
<1> QED BY <1>1 DEF Scaled, Elements

\* P is a times H, b times G and c times F.
CoefficientsAre(P, d, a, b, c) ==
  /\ P \in Elements
  /\ P[hash_div(d)] = a /\ P[G] = b /\ P[F] = c
  /\ \A e \in Ds : e # d => P[hash_div(e)] = 0

LEMMA SumAt ==
  ASSUME NEW d \in Ds, NEW a \in Int, NEW b \in Int, NEW c \in Int,
         NEW P, P = Plus(Times(hash_div(d), a), Plus(Times(G, b), Times(F, c)))
  PROVE  CoefficientsAre(P, d, a % Order, b % Order, c % Order)
<1>1. hash_div(d) \in Generators /\ G \in Generators /\ F \in Generators
  BY DEF Generators
<1> DEFINE X == Times(hash_div(d), a)
           Y == Times(G, b)
           Z == Times(F, c)
           W == Plus(Y, Z)
<1>2. X \in Elements /\ \A g \in Generators : X[g] = IF g = hash_div(d) THEN a % Order ELSE 0
  BY <1>1, TimesAt
<1>3. Y \in Elements /\ \A g \in Generators : Y[g] = IF g = G THEN b % Order ELSE 0
  BY <1>1, TimesAt
<1>4. Z \in Elements /\ \A g \in Generators : Z[g] = IF g = F THEN c % Order ELSE 0
  BY <1>1, TimesAt
<1> HIDE DEF X, Y, Z
<1>5. W \in Elements /\ \A g \in Generators : W[g] = (Y[g] + Z[g]) % Order
  BY <1>3, <1>4, PlusAt
<1>6. P = Plus(X, W)
  BY DEF X, Y, Z
<1> HIDE DEF W
<1>7. P \in Elements /\ \A g \in Generators : P[g] = (X[g] + W[g]) % Order
  BY <1>2, <1>5, <1>6, PlusAt
<1> DEFINE u == a % Order
           v == b % Order
           w == c % Order
<1>8. u \in 0 .. Order - 1 /\ v \in 0 .. Order - 1 /\ w \in 0 .. Order - 1
  BY OrderFacts, Divided
<1>9. \A r \in 0 .. Order - 1 : (r + 0) % Order = r /\ (0 + r) % Order = r
  BY OrderFacts, SmallRemainder
<1>10. \A g \in Generators : P[g] = (X[g] + ((Y[g] + Z[g]) % Order)) % Order
  <2> TAKE g \in Generators
  <2>1. P[g] = (X[g] + W[g]) % Order
    BY <1>7
  <2>2. W[g] = (Y[g] + Z[g]) % Order
    BY <1>5
  <2> QED BY <2>1, <2>2
<1> HIDE DEF u, v, w
<1>11. P[hash_div(d)] = u
  <2>1. X[hash_div(d)] = u /\ Y[hash_div(d)] = 0 /\ Z[hash_div(d)] = 0
    BY <1>1, <1>2, <1>3, <1>4, GeneratorsDiffer, Zenon DEF u
  <2> QED BY <2>1, <1>1, <1>8, <1>9, <1>10, OrderFacts
<1>12. P[G] = v
  <2>1. X[G] = 0 /\ Y[G] = v /\ Z[G] = 0
    BY <1>1, <1>2, <1>3, <1>4, GeneratorsDiffer, Zenon DEF v
  <2> QED BY <2>1, <1>1, <1>8, <1>9, <1>10, OrderFacts
<1>13. P[F] = w
  <2>1. X[F] = 0 /\ Y[F] = 0 /\ Z[F] = w
    BY <1>1, <1>2, <1>3, <1>4, GeneratorsDiffer, Zenon DEF w
  <2> QED BY <2>1, <1>1, <1>8, <1>9, <1>10, OrderFacts
<1>14. ASSUME NEW e \in Ds, e # d PROVE P[hash_div(e)] = 0
  <2>1. hash_div(e) \in Generators
    BY DEF Generators
  <2>2. X[hash_div(e)] = 0 /\ Y[hash_div(e)] = 0 /\ Z[hash_div(e)] = 0
    BY <2>1, <1>2, <1>3, <1>4, <1>14, GeneratorsDiffer, Zenon
  <2> QED BY <2>1, <2>2, <1>9, <1>10, OrderFacts
<1> QED BY <1>7, <1>11, <1>12, <1>13, <1>14 DEF u, v, w, CoefficientsAre

\* The two elements of an address.
LEMMA AddressAt ==
  ASSUME NEW k \in SpendKeys, NEW i \in Diversifiers, NEW d, d = Encrypted(k, i),
         NEW Q1, Q1 = AddressOf(k, i).Q1, NEW Q2, Q2 = AddressOf(k, i).Q2
  PROVE  /\ AddressOf(k, i).d = d
         /\ Q1 \in Elements /\ Q2 \in Elements
         /\ Q1[hash_div(d)] = k.s1 /\ Q1[G] = 0 /\ Q1[F] = 0
         /\ Q2[G] = k.r /\ Q2[F] = (hash_Q2(k.s1, i) + s2) % Order
         /\ \A e \in Ds : Q2[hash_div(e)] = 0 /\ (e # d => Q1[hash_div(e)] = 0)
<1> DEFINE s == k.s1
           r == k.r
           h == hash_Q2(k.s1, i)
<1>1. /\ s \in 0 .. Order - 1 /\ r \in 0 .. Order - 1 /\ h \in 0 .. Order - 1
      /\ s2 \in 0 .. Order - 1 /\ d \in Ds
  BY KeyFacts, OrderFacts
<1>2. hash_div(d) \in Generators /\ G \in Generators /\ F \in Generators
  BY <1>1 DEF Generators
<1> DEFINE X == Times(F, h)
           Y == Times(F, s2)
           Z == Times(G, r)
           W == Plus(Y, Z)
<1>3. /\ Q1 = Times(hash_div(d), s) /\ Q2 = Plus(X, W)
      /\ AddressOf(k, i).d = d
  BY Zenon DEF AddressOf
<1> HIDE DEF s, r, h
<1>4. \A q \in 0 .. Order - 1 : q \in Int /\ q % Order = q /\ (0 + q) % Order = q /\ (q + 0) % Order = q
  BY OrderFacts, SmallRemainder
<1>5. X \in Elements /\ \A g \in Generators : X[g] = IF g = F THEN h % Order ELSE 0
  BY <1>1, <1>2, <1>4, TimesAt
<1>6. Y \in Elements /\ \A g \in Generators : Y[g] = IF g = F THEN s2 % Order ELSE 0
  BY <1>1, <1>2, <1>4, TimesAt
<1>7. Z \in Elements /\ \A g \in Generators : Z[g] = IF g = G THEN r % Order ELSE 0
  BY <1>1, <1>2, <1>4, TimesAt
<1>8. Q1 \in Elements /\ \A g \in Generators : Q1[g] = IF g = hash_div(d) THEN s % Order ELSE 0
  BY <1>1, <1>2, <1>3, <1>4, TimesAt
<1> HIDE DEF X, Y, Z
<1>9. W \in Elements /\ \A g \in Generators : W[g] = (Y[g] + Z[g]) % Order
  BY <1>6, <1>7, PlusAt
<1> HIDE DEF W
<1>10. Q2 \in Elements /\ \A g \in Generators : Q2[g] = (X[g] + W[g]) % Order
  BY <1>3, <1>5, <1>9, PlusAt
<1>11. \A g \in Generators : Q2[g] = (X[g] + ((Y[g] + Z[g]) % Order)) % Order
  <2> TAKE g \in Generators
  <2>1. Q2[g] = (X[g] + W[g]) % Order
    BY <1>10
  <2>2. W[g] = (Y[g] + Z[g]) % Order
    BY <1>9
  <2> QED BY <2>1, <2>2
<1>12. Q1[hash_div(d)] = s /\ Q1[G] = 0 /\ Q1[F] = 0
  BY <1>1, <1>2, <1>4, <1>8, GeneratorsDiffer, Zenon
<1>13. Q2[G] = r
  <2>1. X[G] = 0 /\ Y[G] = 0 /\ Z[G] = r
    BY <1>1, <1>2, <1>4, <1>5, <1>6, <1>7, GeneratorsDiffer, Zenon
  <2> QED BY <2>1, <1>1, <1>2, <1>4, <1>11
<1>14. Q2[F] = (h + s2) % Order
  <2>1. X[F] = h /\ Y[F] = s2 /\ Z[F] = 0
    BY <1>1, <1>2, <1>4, <1>5, <1>6, <1>7, GeneratorsDiffer, Zenon
  <2>2. (s2 + 0) % Order = s2
    BY <1>1, <1>4
  <2>3. Q2[F] = (X[F] + ((Y[F] + Z[F]) % Order)) % Order
    BY <1>2, <1>11
  <2> QED BY <2>1, <2>2, <2>3
<1>15. ASSUME NEW e \in Ds PROVE Q2[hash_div(e)] = 0 /\ (e # d => Q1[hash_div(e)] = 0)
  <2>1. hash_div(e) \in Generators
    BY DEF Generators
  <2>2. X[hash_div(e)] = 0 /\ Y[hash_div(e)] = 0 /\ Z[hash_div(e)] = 0
    BY <2>1, <1>5, <1>6, <1>7, GeneratorsDiffer, Zenon
  <2>3. Q2[hash_div(e)] = 0
    BY <2>1, <2>2, <1>4, <1>11, OrderFacts
  <2>4. e # d => Q1[hash_div(e)] = 0
    BY <2>1, <1>8, GeneratorsDiffer, Zenon
  <2> QED BY <2>3, <2>4
<1> QED BY <1>3, <1>8, <1>10, <1>12, <1>13, <1>14, <1>15 DEF s, r, h

\* verify_own's equation, generator by generator.
LEMMA HoldsAt ==
  ASSUME NEW k \in SpendKeys, NEW i \in Diversifiers, NEW d, d = Encrypted(k, i),
         NEW bytes, NEW A, A \in Elements, bytes.A = A,
         bytes.t1 \in Int, bytes.t2 \in Int, bytes.t3 \in Int, NEW x \in Int,
         NEW Q1, Q1 = AddressOf(k, i).Q1, NEW Q2, Q2 = AddressOf(k, i).Q2
  PROVE  Holds(bytes, AddressOf(k, i), x) <=>
           /\ (A[hash_div(d)] + x * k.s1) % Order = bytes.t1 % Order
           /\ (A[G] + x * x * k.r) % Order = bytes.t2 % Order
           /\ (A[F] + x * x * (hash_Q2(k.s1, i) + s2)) % Order = bytes.t3 % Order
           /\ \A e \in Ds : e # d => A[hash_div(e)] = 0
<1> DEFINE s == k.s1
           r == k.r
           h == hash_Q2(k.s1, i) + s2
           y == x * x
           X == Scaled(Q1, x)
           Y == Scaled(Q2, y)
           W == Plus(X, Y)
           L == Plus(A, W)
           R == Plus(Times(hash_div(d), bytes.t1), Plus(Times(G, bytes.t2), Times(F, bytes.t3)))
<1>1. s \in Int /\ r \in Int /\ h \in Int /\ d \in Ds /\ y \in Int
  BY KeyFacts, OrderFacts
<1>2. hash_div(d) \in Generators /\ G \in Generators /\ F \in Generators
  BY <1>1 DEF Generators
<1>3. AddressOf(k, i).d = d
  BY Zenon DEF AddressOf
<1>4. Holds(bytes, AddressOf(k, i), x) <=> L = R
  BY <1>3, Zenon DEF Holds
<1>5. /\ Q1 \in Elements /\ Q2 \in Elements
      /\ Q1[hash_div(d)] = s /\ Q1[G] = 0 /\ Q1[F] = 0
      /\ Q2[G] = r /\ Q2[F] = h % Order
      /\ \A e \in Ds : Q2[hash_div(e)] = 0 /\ (e # d => Q1[hash_div(e)] = 0)
  BY AddressAt
<1> HIDE DEF R
<1>6. /\ R \in Elements
      /\ R[hash_div(d)] = bytes.t1 % Order /\ R[G] = bytes.t2 % Order /\ R[F] = bytes.t3 % Order
      /\ \A e \in Ds : e # d => R[hash_div(e)] = 0
  <2> DEFINE u == bytes.t1
             v == bytes.t2
             w == bytes.t3
  <2>1. /\ R = Plus(Times(hash_div(d), u), Plus(Times(G, v), Times(F, w)))
        /\ u \in Int /\ v \in Int /\ w \in Int
    BY DEF R
  <2> HIDE DEF u, v, w
  <2>2. CoefficientsAre(R, d, u % Order, v % Order, w % Order)
    BY <1>1, <2>1, SumAt
  <2> QED BY <2>2, Zenon DEF u, v, w, CoefficientsAre
<1> HIDE DEF s, r, h, y
<1>7. X \in Elements /\ \A g \in Generators : X[g] = (Q1[g] * x) % Order
  BY <1>5, ScaledAt
<1>8. Y \in Elements /\ \A g \in Generators : Y[g] = (Q2[g] * y) % Order
  BY <1>1, <1>5, ScaledAt
<1> HIDE DEF X, Y
<1>9. W \in Elements /\ \A g \in Generators : W[g] = (X[g] + Y[g]) % Order
  BY <1>7, <1>8, PlusAt
<1> HIDE DEF W
<1>10. L \in Elements /\ \A g \in Generators : L[g] = (A[g] + W[g]) % Order
  BY <1>9, PlusAt
<1> HIDE DEF L
<1>11. \A q \in 0 .. Order - 1 : q \in Int /\ q % Order = q /\ (0 + q) % Order = q /\ (q + 0) % Order = q
  BY OrderFacts, SmallRemainder
<1>12. \A u, v \in Int : ((u % Order) + v) % Order = (u + v) % Order /\ (u + (v % Order)) % Order = (u + v) % Order
  BY OrderFacts, SumRemainders
<1>13. \A g \in Generators : A[g] \in Int
  BY OrderFacts DEF Elements
<1>zero. (0 * x) % Order = 0 /\ (0 * y) % Order = 0
  <2>1. 0 * x = 0 /\ 0 * y = 0
    BY <1>1
  <2>2. 0 % Order = 0
    BY OrderFacts, SmallRemainder
  <2> QED BY <2>1, <2>2, Zenon
<1>14. L[hash_div(d)] = (A[hash_div(d)] + x * s) % Order
  <2> DEFINE z == x * s
  <2>1. X[hash_div(d)] = z % Order /\ z \in Int
    <3>1. X[hash_div(d)] = (s * x) % Order
      BY <1>2, <1>5, <1>7, Zenon
    <3>2. s * x = z /\ z \in Int
      BY <1>1
    <3> QED BY <3>1, <3>2, Zenon
  <2>2. Y[hash_div(d)] = 0
    BY <1>1, <1>2, <1>5, <1>8, <1>zero, Zenon
  <2> HIDE DEF z
  <2>3. z % Order \in 0 .. Order - 1
    BY <2>1, OrderFacts, Divided, Zenon
  <2>4. W[hash_div(d)] = z % Order
    <3>1. W[hash_div(d)] = ((z % Order) + 0) % Order
      BY <2>1, <2>2, <1>2, <1>9, Zenon
    <3>2. ((z % Order) + 0) % Order = z % Order
      BY <2>3, <1>11, Zenon
    <3> QED BY <3>1, <3>2, Zenon
  <2>5. L[hash_div(d)] = (A[hash_div(d)] + z) % Order
    <3>1. L[hash_div(d)] = (A[hash_div(d)] + W[hash_div(d)]) % Order
      BY <1>2, <1>10
    <3>2. (A[hash_div(d)] + (z % Order)) % Order = (A[hash_div(d)] + z) % Order
      BY <2>1, <1>2, <1>12, <1>13
    <3> QED BY <3>1, <3>2, <2>4, Zenon
  <2> QED BY <2>5 DEF z
<1>15. L[G] = (A[G] + y * r) % Order
  <2> DEFINE z == y * r
  <2>1. Y[G] = z % Order /\ z \in Int
    <3>1. Y[G] = (r * y) % Order
      BY <1>2, <1>5, <1>8, Zenon
    <3>2. r * y = z /\ z \in Int
      BY <1>1
    <3> QED BY <3>1, <3>2, Zenon
  <2>2. X[G] = 0
    BY <1>2, <1>5, <1>7, <1>zero, Zenon
  <2> HIDE DEF z
  <2>3. z % Order \in 0 .. Order - 1
    BY <2>1, OrderFacts, Divided, Zenon
  <2>4. W[G] = z % Order
    <3>1. W[G] = (0 + (z % Order)) % Order
      BY <2>1, <2>2, <1>2, <1>9, Zenon
    <3>2. (0 + (z % Order)) % Order = z % Order
      BY <2>3, <1>11, Zenon
    <3> QED BY <3>1, <3>2, Zenon
  <2>5. L[G] = (A[G] + z) % Order
    <3>1. L[G] = (A[G] + W[G]) % Order
      BY <1>2, <1>10
    <3>2. (A[G] + (z % Order)) % Order = (A[G] + z) % Order
      BY <2>1, <1>2, <1>12, <1>13
    <3> QED BY <3>1, <3>2, <2>4, Zenon
  <2> QED BY <2>5 DEF z
<1>16. L[F] = (A[F] + y * h) % Order
  <2> DEFINE z == y * h
             v == h % Order
  <2>1. Y[F] = (v * y) % Order
    BY <1>2, <1>5, <1>8, Zenon
  <2>2. (v * y) % Order = (h * y) % Order
    BY <1>1, OrderFacts, RemainderOfProduct
  <2>3. h * y = z /\ z \in Int
    BY <1>1
  <2>4. Y[F] = z % Order
    BY <2>1, <2>2, <2>3, Zenon
  <2>5. X[F] = 0
    BY <1>2, <1>5, <1>7, <1>zero, Zenon
  <2> HIDE DEF z
  <2>6. z % Order \in 0 .. Order - 1
    BY <2>3, OrderFacts, Divided, Zenon
  <2>7. W[F] = z % Order
    <3>1. W[F] = (0 + (z % Order)) % Order
      BY <2>4, <2>5, <1>2, <1>9, Zenon
    <3>2. (0 + (z % Order)) % Order = z % Order
      BY <2>6, <1>11, Zenon
    <3> QED BY <3>1, <3>2, Zenon
  <2>8. L[F] = (A[F] + z) % Order
    <3>1. L[F] = (A[F] + W[F]) % Order
      BY <1>2, <1>10
    <3>2. (A[F] + (z % Order)) % Order = (A[F] + z) % Order
      BY <2>3, <1>2, <1>12, <1>13
    <3> QED BY <3>1, <3>2, <2>7, Zenon
  <2> QED BY <2>8 DEF z
<1>17. ASSUME NEW e \in Ds, e # d PROVE L[hash_div(e)] = A[hash_div(e)]
  <2>1. hash_div(e) \in Generators
    BY DEF Generators
  <2>2. Q1[hash_div(e)] = 0 /\ Q2[hash_div(e)] = 0
    BY <1>5, <1>17
  <2>3. X[hash_div(e)] = 0 /\ Y[hash_div(e)] = 0
    BY <2>1, <2>2, <1>7, <1>8, <1>zero, Zenon
  <2>4. W[hash_div(e)] = 0
    BY <2>1, <2>3, <1>9, <1>11, OrderFacts
  <2>5. A[hash_div(e)] \in 0 .. Order - 1
    BY <2>1, OrderFacts DEF Elements
  <2> QED BY <2>1, <2>4, <2>5, <1>10, <1>11, Zenon
<1>18. L = R <=> \A g \in Generators : L[g] = R[g]
  BY <1>6, <1>10 DEF Elements
<1>19. \A g : g \in Generators <=> g = G \/ g = F \/ \E e \in Ds : g = hash_div(e)
  BY DEF Generators
<1>20. L = R <=> /\ L[hash_div(d)] = R[hash_div(d)] /\ L[G] = R[G] /\ L[F] = R[F]
                 /\ \A e \in Ds : e # d => L[hash_div(e)] = R[hash_div(e)]
  BY <1>1, <1>18, <1>19, Zenon
<1>21. L = R <=> /\ (A[hash_div(d)] + x * s) % Order = bytes.t1 % Order
                 /\ (A[G] + y * r) % Order = bytes.t2 % Order
                 /\ (A[F] + y * h) % Order = bytes.t3 % Order
                 /\ \A e \in Ds : e # d => A[hash_div(e)] = 0
  BY <1>6, <1>14, <1>15, <1>16, <1>17, <1>20, Zenon
<1> QED BY <1>4, <1>21, Zenon DEF s, y, r, h

-----------------------------------------------------------------------------
(***************************************************************************)
(* Challenges.                                                             *)
(***************************************************************************)

\* A response determines the challenge: the order is prime and the key not 0.
LEMMA OneChallenge ==
  ASSUME NEW a \in Int, NEW s \in 1 .. Order - 1, NEW x \in Scalars, NEW y \in Scalars,
         (a + x * s) % Order = (a + y * s) % Order
  PROVE  x = y
<1>0. x \in Int /\ y \in Int /\ s \in Int /\ x < Order /\ y < Order /\ x >= 0 /\ y >= 0
  BY OrderFacts
<1> DEFINE u == a + x * s
           v == a + y * s
<1>1. u \in Int /\ v \in Int
  BY <1>0
<1>2. u % Order = v % Order
  OBVIOUS
<1> HIDE DEF u, v
<1>3. PICK q \in Int : u = v + Order * q
  BY <1>1, <1>2, OrderFacts, SameRemainder
<1>4. x * s - y * s = Order * q
  BY <1>0, <1>3, OrderFacts DEF u, v
<1>5. PICK i \in Scalars : (s * i) % Order = 1
  BY OwnershipAssumption
<1> DEFINE w == (s * i) \div Order
<1>6. w \in Int /\ s * i = Order * w + 1 /\ i \in Int
  <2> DEFINE p == s * i
  <2>1. p \in Int /\ i \in Int
    BY <1>0, OrderFacts
  <2> HIDE DEF p
  <2>2. p \div Order \in Int /\ Order * (p \div Order) + (p % Order) = p
    BY <2>1, OrderFacts, Divided
  <2> QED BY <2>1, <2>2, <1>5 DEF p
<1> HIDE DEF w
<1> DEFINE z == x - y
<1>7. z \in Int /\ z * s = Order * q
  BY <1>0, <1>4
<1>8. z < Order /\ z > -Order
  BY <1>0, OrderFacts
<1> HIDE DEF z
<1>9. z * (s * i) = Order * (q * i)
  <2>1. z * (s * i) = (z * s) * i
    BY <1>0, <1>6, <1>7
  <2>2. (Order * q) * i = Order * (q * i)
    BY <1>6, OrderFacts
  <2> QED BY <2>1, <2>2, <1>7
<1>10. z * (s * i) = z * (Order * w + 1)
  BY <1>6
<1>11. z * (Order * w + 1) = Order * (z * w) + z
  BY <1>6, <1>7, OrderFacts
<1> DEFINE g == q * i
           h == z * w
           e == g - h
<1>12. g \in Int /\ h \in Int
  BY <1>6, <1>7
<1>13. Order * g = Order * h + z
  BY <1>9, <1>10, <1>11
<1> HIDE DEF g, h
<1>14. e \in Int /\ Order * e = z
  BY <1>7, <1>12, <1>13, OrderFacts
<1> HIDE DEF e
<1>15. e = 0
  BY <1>8, <1>14, OrderFacts, SmallMultiple
<1>16. z = 0
  BY <1>14, <1>15, OrderFacts
<1> QED BY <1>0, <1>16 DEF z

-----------------------------------------------------------------------------
(***************************************************************************)
(* The invariant: a proof is one that prove_own made, and the oracle has   *)
(* been asked for its challenge.                                           *)
(***************************************************************************)

MadeBy(k, i, m, a, b, c, x) ==
  LET address == AddressOf(k, i)
      A == Commitment(address, a, b, c)
      t == Responses(k, i, a, b, c, x)
      asked == Transcript(m, A, address)
  IN  /\ ~CreateError(m, A, x)
      /\ proof = [made |-> TRUE, message |-> m, address |-> address, a |-> a,
                  bytes |-> Encode(A, t[1], t[2], t[3])]
      /\ asked \in DOMAIN oracle /\ oracle[asked] = x

OwnershipInv ==
  /\ proof.made =>
       \E k \in SpendKeys, i \in Diversifiers, m \in Messages, a, b, c, x \in Scalars :
         MadeBy(k, i, m, a, b, c, x)
  /\ verdict.asked => proof.made
  /\ ProofIsBound /\ OneProofAccepted

\* What there is to know of a proof that was made.
LEMMA MadeFacts ==
  ASSUME NEW k \in SpendKeys, NEW i \in Diversifiers, NEW m \in Messages,
         NEW a \in Scalars, NEW b \in Scalars, NEW c \in Scalars, NEW x \in Scalars,
         MadeBy(k, i, m, a, b, c, x), NEW A, A = Commitment(AddressOf(k, i), a, b, c)
  PROVE  /\ m \notin Overlong /\ A # Infinity /\ x # 0
         /\ proof.made /\ proof.message = m /\ proof.address = AddressOf(k, i) /\ proof.a = a
         /\ proof.bytes = Encode(A, (a + x * k.s1) % Order, (b + x * x * k.r) % Order,
                                 (c + x * x * (hash_Q2(k.s1, i) + s2)) % Order)
         /\ Transcript(m, A, AddressOf(k, i)) \in DOMAIN oracle
         /\ oracle[Transcript(m, A, AddressOf(k, i))] = x
<1> DEFINE t == Responses(k, i, a, b, c, x)
           bytes == Encode(A, t[1], t[2], t[3])
<1>1. t[1] = (a + x * k.s1) % Order /\ t[2] = (b + x * x * k.r) % Order
      /\ t[3] = (c + x * x * (hash_Q2(k.s1, i) + s2)) % Order
  BY DEF Responses
<1>2. /\ ~CreateError(m, A, x)
      /\ proof = [made |-> TRUE, message |-> m, address |-> AddressOf(k, i), a |-> a, bytes |-> bytes]
      /\ Transcript(m, A, AddressOf(k, i)) \in DOMAIN oracle
      /\ oracle[Transcript(m, A, AddressOf(k, i))] = x
  BY Zenon DEF MadeBy
<1>3. bytes = Encode(A, (a + x * k.s1) % Order, (b + x * x * k.r) % Order,
                                 (c + x * x * (hash_Q2(k.s1, i) + s2)) % Order)
  BY <1>1, Zenon
<1> HIDE DEF bytes
<1>4. m \notin Overlong /\ A # Infinity /\ x # 0
  BY <1>2, Zenon DEF CreateError
<1>5. proof.made /\ proof.message = m /\ proof.address = AddressOf(k, i) /\ proof.a = a /\ proof.bytes = bytes
  BY <1>2, Zenon
<1> QED BY <1>2, <1>3, <1>4, <1>5, Zenon

\* Its commitment and its responses.
LEMMA CommitmentAt ==
  ASSUME NEW k \in SpendKeys, NEW i \in Diversifiers, NEW d, d = Encrypted(k, i),
         NEW a \in Scalars, NEW b \in Scalars, NEW c \in Scalars,
         NEW A, A = Commitment(AddressOf(k, i), a, b, c)
  PROVE  CoefficientsAre(A, d, a, b, c)
<1>1. AddressOf(k, i).d = d
  BY Zenon DEF AddressOf
<1>2. d \in Ds
  BY KeyFacts
<1>3. A = Plus(Times(hash_div(d), a), Plus(Times(G, b), Times(F, c)))
  BY <1>1, Zenon DEF Commitment
<1>4. a \in Int /\ b \in Int /\ c \in Int
  BY OrderFacts
<1>5. CoefficientsAre(A, d, a % Order, b % Order, c % Order)
  BY <1>2, <1>3, <1>4, SumAt
<1>6. a % Order = a /\ b % Order = b /\ c % Order = c
  BY OrderFacts, SmallRemainder
<1> QED BY <1>5, <1>6, Zenon

LEMMA ResponsesAt ==
  ASSUME NEW k \in SpendKeys, NEW i \in Diversifiers,
         NEW a \in Scalars, NEW b \in Scalars, NEW c \in Scalars, NEW x \in Scalars
  PROVE  /\ (a + x * k.s1) % Order \in Scalars
         /\ (b + x * x * k.r) % Order \in Scalars
         /\ (c + x * x * (hash_Q2(k.s1, i) + s2)) % Order \in Scalars
<1> DEFINE u == a + x * k.s1
           v == b + x * x * k.r
           w == c + x * x * (hash_Q2(k.s1, i) + s2)
<1>1. u \in Int /\ v \in Int /\ w \in Int
  BY KeyFacts, OrderFacts
<1> HIDE DEF u, v, w
<1>2. u % Order \in Scalars /\ v % Order \in Scalars /\ w % Order \in Scalars
  BY <1>1, OrderFacts, Divided
<1> QED BY <1>2 DEF u, v, w

\* What verification is given.
LEMMA VariantFacts ==
  ASSUME NEW A, NEW t1 \in Scalars, NEW t2 \in Scalars, NEW t3 \in Scalars,
         NEW bytes \in Variants(Encode(A, t1, t2, t3))
  PROVE  /\ bytes.A = A
         /\ bytes = [A |-> A, spelling |-> bytes.spelling,
                     t1 |-> bytes.t1, t2 |-> bytes.t2, t3 |-> bytes.t3]
<1> DEFINE p == Encode(A, t1, t2, t3)
<1>1. p = [A |-> A, spelling |-> "canonical", t1 |-> t1, t2 |-> t2, t3 |-> t3]
  BY DEF Encode
<1>2. ASSUME bytes = p
      PROVE bytes = [A |-> A, spelling |-> "canonical", t1 |-> t1, t2 |-> t2, t3 |-> t3]
  BY <1>1, <1>2
<1>3. ASSUME bytes = [p EXCEPT !.spelling = "other"]
      PROVE bytes = [A |-> A, spelling |-> "other", t1 |-> t1, t2 |-> t2, t3 |-> t3]
  BY <1>1, <1>3
<1>4. ASSUME NEW s, bytes = [p EXCEPT !.t1 = s]
      PROVE bytes = [A |-> A, spelling |-> "canonical", t1 |-> s, t2 |-> t2, t3 |-> t3]
  BY <1>1, <1>4
<1>5. ASSUME NEW s, bytes = [p EXCEPT !.t2 = s]
      PROVE bytes = [A |-> A, spelling |-> "canonical", t1 |-> t1, t2 |-> s, t3 |-> t3]
  BY <1>1, <1>5
<1>6. ASSUME NEW s, bytes = [p EXCEPT !.t3 = s]
      PROVE bytes = [A |-> A, spelling |-> "canonical", t1 |-> t1, t2 |-> t2, t3 |-> s]
  BY <1>1, <1>6
<1> HIDE DEF p
<1>7. \/ bytes = p \/ bytes = [p EXCEPT !.spelling = "other"]
      \/ \E s \in ScalarCodes : bytes = [p EXCEPT !.t1 = s]
      \/ \E s \in ScalarCodes : bytes = [p EXCEPT !.t2 = s]
      \/ \E s \in ScalarCodes : bytes = [p EXCEPT !.t3 = s]
  <2>1. bytes \in Variants(p)
    BY DEF p
  <2> QED BY <2>1 DEF Variants
<1> DEFINE shaped == \E sp, u1, u2, u3 :
                       bytes = [A |-> A, spelling |-> sp, t1 |-> u1, t2 |-> u2, t3 |-> u3]
<1>8. shaped
  <2>1. (bytes = p \/ bytes = [p EXCEPT !.spelling = "other"]) => shaped
    BY <1>2, <1>3
  <2>2. ASSUME NEW s \in ScalarCodes, bytes = [p EXCEPT !.t1 = s] PROVE shaped
    <3>1. bytes = [A |-> A, spelling |-> "canonical", t1 |-> s, t2 |-> t2, t3 |-> t3]
      BY <2>2, <1>4
    <3> QED BY <3>1, Zenon
  <2>3. ASSUME NEW s \in ScalarCodes, bytes = [p EXCEPT !.t2 = s] PROVE shaped
    <3>1. bytes = [A |-> A, spelling |-> "canonical", t1 |-> t1, t2 |-> s, t3 |-> t3]
      BY <2>3, <1>5
    <3> QED BY <3>1, Zenon
  <2>4. ASSUME NEW s \in ScalarCodes, bytes = [p EXCEPT !.t3 = s] PROVE shaped
    <3>1. bytes = [A |-> A, spelling |-> "canonical", t1 |-> t1, t2 |-> t2, t3 |-> s]
      BY <2>4, <1>6
    <3> QED BY <3>1, Zenon
  <2> HIDE DEF shaped
  <2> QED BY <2>1, <2>2, <2>3, <2>4, <1>7
<1> QED BY <1>8

\* Asking keeps what was answered before.
LEMMA AnswersFacts ==
  ASSUME NEW m, NEW A, NEW address, NEW x, Answers(m, A, address, x),
         NEW t, t = Transcript(m, A, address)
  PROVE  /\ t \in DOMAIN oracle' /\ oracle'[t] = x
         /\ t \in DOMAIN oracle => oracle[t] = x
         /\ \A u \in DOMAIN oracle : u \in DOMAIN oracle' /\ oracle'[u] = oracle[u]
<1>1. /\ t \in DOMAIN oracle => oracle[t] = x
      /\ oracle' = [u \in DOMAIN oracle \cup {t} |-> IF u = t THEN x ELSE oracle[u]]
  BY Zenon DEF Answers
<1> QED BY <1>1

\* What a verification is, field by field.
LEMMA VerifyFacts ==
  ASSUME NEW m, NEW address, NEW network, NEW isTestNet, NEW bytes, NEW x,
         Verify(m, address, network, isTestNet, bytes, x)
  PROVE  /\ proof' = proof
         /\ verdict'.asked /\ verdict'.message = m /\ verdict'.address = address
         /\ verdict'.bytes = bytes
         /\ verdict'.right_network = ((network = "t") = isTestNet)
         /\ verdict'.accepted <=> /\ ~Refused(m, network, isTestNet, bytes)
                                  /\ x # 0 /\ Holds(bytes, address, x)
         /\ ~Refused(m, network, isTestNet, bytes) => Answers(m, bytes.A, address, x)
         /\ Refused(m, network, isTestNet, bytes) => oracle' = oracle
<1> DEFINE rn == (network = "t") = isTestNet
           acc == /\ ~Refused(m, network, isTestNet, bytes)
                  /\ x # 0 /\ Holds(bytes, address, x)
<1>1. verdict' = [asked |-> TRUE, message |-> m, address |-> address,
                  right_network |-> rn, bytes |-> bytes, challenge |-> x, accepted |-> acc]
  BY Zenon DEF Verify
<1>2. /\ proof' = proof
      /\ ~Refused(m, network, isTestNet, bytes) => Answers(m, bytes.A, address, x)
      /\ Refused(m, network, isTestNet, bytes) => oracle' = oracle
  BY Zenon DEF Verify
<1> HIDE DEF rn, acc
<1>3. /\ verdict'.asked = TRUE /\ verdict'.message = m /\ verdict'.address = address
      /\ verdict'.bytes = bytes /\ verdict'.right_network = rn /\ verdict'.accepted = acc
  BY <1>1, Zenon
<1> QED BY <1>2, <1>3, Zenon DEF rn, acc

\* Verification leaves the proof and the oracle's answer for it alone.
LEMMA StillMade ==
  ASSUME NEW k \in SpendKeys, NEW i \in Diversifiers, NEW m \in Messages,
         NEW a \in Scalars, NEW b \in Scalars, NEW c \in Scalars, NEW x \in Scalars,
         MadeBy(k, i, m, a, b, c, x), proof' = proof,
         \A u \in DOMAIN oracle : u \in DOMAIN oracle' /\ oracle'[u] = oracle[u]
  PROVE  MadeBy(k, i, m, a, b, c, x)'
<1> DEFINE A == Commitment(AddressOf(k, i), a, b, c)
           t == Responses(k, i, a, b, c, x)
           asked == Transcript(m, A, AddressOf(k, i))
           it == [made |-> TRUE, message |-> m, address |-> AddressOf(k, i), a |-> a,
                  bytes |-> Encode(A, t[1], t[2], t[3])]
<1>1. /\ ~CreateError(m, A, x) /\ proof = it
      /\ asked \in DOMAIN oracle /\ oracle[asked] = x
  BY Zenon DEF MadeBy
<1>2. proof' = it
  BY <1>1, Zenon
<1>3. asked \in DOMAIN oracle' /\ oracle'[asked] = x
  BY <1>1, Zenon
<1> QED BY <1>1, <1>2, <1>3, Zenon DEF MadeBy

\* An accepted proof is bound to its address and to its challenge.
LEMMA AcceptedIsBound ==
  ASSUME NEW k \in SpendKeys, NEW i \in Diversifiers, NEW m \in Messages,
         NEW a \in Scalars, NEW b \in Scalars, NEW c \in Scalars, NEW x \in Scalars,
         MadeBy(k, i, m, a, b, c, x),
         NEW j \in SpendKeys, NEW e \in Diversifiers, NEW y \in Scalars,
         Holds(proof.bytes, AddressOf(j, e), y)
  PROVE  /\ AddressOf(j, e) # AddressOf(k, i) => a = 0
         /\ AddressOf(j, e) = AddressOf(k, i) => x = y
<1> DEFINE A == Commitment(AddressOf(k, i), a, b, c)
           d == Encrypted(k, i)
           f == Encrypted(j, e)
           t1 == (a + x * k.s1) % Order
           t2 == (b + x * x * k.r) % Order
           t3 == (c + x * x * (hash_Q2(k.s1, i) + s2)) % Order
           bytes == proof.bytes
<1>1. bytes = Encode(A, t1, t2, t3)
  BY MadeFacts, Zenon
<1>2. t1 \in Scalars /\ t2 \in Scalars /\ t3 \in Scalars
  BY ResponsesAt, Zenon
<1>a. A = Commitment(AddressOf(k, i), a, b, c) /\ d = Encrypted(k, i)
  OBVIOUS
<1> HIDE DEF t1, t2, t3, A, d, bytes
<1>3. /\ A \in Elements /\ A[hash_div(d)] = a
      /\ \A g \in Ds : g # d => A[hash_div(g)] = 0
  <2>1. A = Commitment(AddressOf(k, i), a, b, c)
    BY <1>a
  <2>2. d = Encrypted(k, i)
    BY <1>a
  <2>3. CoefficientsAre(A, d, a, b, c)
    BY <2>1, <2>2, CommitmentAt
  <2> QED BY <2>3, Zenon DEF CoefficientsAre
<1>4. bytes.A = A /\ bytes.t1 = t1 /\ bytes.t2 = t2 /\ bytes.t3 = t3
  <2>1. bytes = [A |-> A, spelling |-> "canonical", t1 |-> t1, t2 |-> t2, t3 |-> t3]
    BY <1>1, Zenon DEF Encode
  <2> QED BY <2>1
<1>5. bytes.t1 \in Int /\ bytes.t2 \in Int /\ bytes.t3 \in Int /\ y \in Int
  BY <1>2, <1>4, OrderFacts
<1>6. Holds(bytes, AddressOf(j, e), y)
  BY DEF bytes
<1> HIDE DEF f
<1>7. f = Encrypted(j, e)
  BY DEF f
<1>8. /\ (A[hash_div(f)] + y * j.s1) % Order = bytes.t1 % Order
      /\ \A g \in Ds : g # f => A[hash_div(g)] = 0
  BY <1>3, <1>4, <1>5, <1>6, <1>7, HoldsAt
<1>9. d \in Ds
  BY <1>a, KeyFacts
<1>10. CASE d = f
  <2>1. k = j /\ i = e
    <3>1. Encrypted(k, i) = Encrypted(j, e)
      BY <1>a, <1>7, <1>10, Zenon
    <3> QED BY <3>1, EncryptedDiffer, Zenon
  <2>2. t1 % Order = t1
    BY <1>2, OrderFacts, SmallRemainder
  <2>3. (a + y * k.s1) % Order = (a + x * k.s1) % Order
    BY <1>3, <1>4, <1>8, <1>10, <2>1, <2>2, Zenon DEF t1
  <2>4. k.s1 \in 1 .. Order - 1 /\ a \in Int
    BY KeyFacts, OrderFacts
  <2>5. y = x
    BY <2>3, <2>4, OneChallenge
  <2> QED BY <2>1, <2>5
<1>11. CASE d # f
  <2>1. a = 0
    BY <1>3, <1>8, <1>9, <1>11
  <2>2. AddressOf(j, e) # AddressOf(k, i)
    <3>1. AddressOf(j, e).d = f /\ AddressOf(k, i).d = d
      BY <1>a, <1>7, Zenon DEF AddressOf
    <3> QED BY <3>1, <1>11
  <2> QED BY <2>1, <2>2
<1> QED BY <1>10, <1>11

\* The responses prove_own gives.
RespondsWith(bytes, k, i, a, b, c, x) ==
  /\ bytes.t1 = (a + x * k.s1) % Order
  /\ bytes.t2 = (b + x * x * k.r) % Order
  /\ bytes.t3 = (c + x * x * (hash_Q2(k.s1, i) + s2)) % Order

\* With the proof's challenge the equation holds for its responses only.
LEMMA ResponsesOnly ==
  ASSUME NEW k \in SpendKeys, NEW i \in Diversifiers,
         NEW a \in Scalars, NEW b \in Scalars, NEW c \in Scalars, NEW x \in Scalars,
         NEW A, A = Commitment(AddressOf(k, i), a, b, c),
         NEW bytes, bytes.A = A,
         bytes.t1 \in Scalars, bytes.t2 \in Scalars, bytes.t3 \in Scalars
  PROVE  Holds(bytes, AddressOf(k, i), x) <=> RespondsWith(bytes, k, i, a, b, c, x)
<1> DEFINE d == Encrypted(k, i)
<1>1. /\ A \in Elements /\ A[hash_div(d)] = a /\ A[G] = b /\ A[F] = c
      /\ \A g \in Ds : g # d => A[hash_div(g)] = 0
  <2>1. CoefficientsAre(A, d, a, b, c)
    BY CommitmentAt
  <2> QED BY <2>1, Zenon DEF CoefficientsAre
<1>2. bytes.t1 \in Int /\ bytes.t2 \in Int /\ bytes.t3 \in Int /\ x \in Int
  BY OrderFacts
<1>3. bytes.t1 % Order = bytes.t1 /\ bytes.t2 % Order = bytes.t2 /\ bytes.t3 % Order = bytes.t3
  <2> DEFINE u == bytes.t1
             v == bytes.t2
             w == bytes.t3
  <2>1. u \in 0 .. Order - 1 /\ v \in 0 .. Order - 1 /\ w \in 0 .. Order - 1
    BY OrderFacts
  <2> HIDE DEF u, v, w
  <2>2. u % Order = u /\ v % Order = v /\ w % Order = w
    BY <2>1, OrderFacts, SmallRemainder
  <2> QED BY <2>2 DEF u, v, w
<1> HIDE DEF d
<1>4. d = Encrypted(k, i)
  BY DEF d
<1>5. Holds(bytes, AddressOf(k, i), x) <=>
           /\ (A[hash_div(d)] + x * k.s1) % Order = bytes.t1 % Order
           /\ (A[G] + x * x * k.r) % Order = bytes.t2 % Order
           /\ (A[F] + x * x * (hash_Q2(k.s1, i) + s2)) % Order = bytes.t3 % Order
           /\ \A e \in Ds : e # d => A[hash_div(e)] = 0
  BY <1>1, <1>2, <1>4, HoldsAt
<1> QED BY <1>1, <1>3, <1>5, Zenon DEF RespondsWith

\* On the right network and with the proof's own bytes nothing is refused, and
\* what is not refused came to the right network.
LEMMA RefusedOnly ==
  ASSUME NEW m, NEW network \in {"m", "t"}, NEW isTestNet \in BOOLEAN, NEW bytes,
         m \notin Overlong, bytes.A # Infinity
  PROVE  ~Refused(m, network, isTestNet, bytes) <=>
           /\ (network = "t") = isTestNet
           /\ bytes.t1 \in Scalars /\ bytes.t2 \in Scalars /\ bytes.t3 \in Scalars
           /\ bytes.spelling = "canonical"
<1>1. network # (IF isTestNet THEN "t" ELSE "m") <=> ~((network = "t") = isTestNet)
  <2>1. CASE isTestNet = TRUE
    BY <2>1
  <2>2. CASE isTestNet = FALSE
    BY <2>2
  <2> QED BY <2>1, <2>2
<1>2. Readable(bytes) <=> bytes.t1 \in Scalars /\ bytes.t2 \in Scalars /\ bytes.t3 \in Scalars
  BY DEF Readable
<1> QED BY <1>1, <1>2, Zenon DEF Refused, Canonical

LEMMA VerifyStep ==
  ASSUME NEW k \in SpendKeys, NEW i \in Diversifiers, NEW m \in Messages,
         NEW a \in Scalars, NEW b \in Scalars, NEW c \in Scalars, NEW x \in Scalars,
         MadeBy(k, i, m, a, b, c, x),
         NEW n \in Messages, NEW j \in SpendKeys, NEW e \in Diversifiers,
         NEW network \in {"m", "t"}, NEW isTestNet \in BOOLEAN,
         NEW bytes \in Variants(proof.bytes), NEW y \in Scalars,
         Verify(n, AddressOf(j, e), network, isTestNet, bytes, y)
  PROVE  /\ MadeBy(k, i, m, a, b, c, x)' /\ proof'.made
         /\ ProofIsBound' /\ OneProofAccepted'
<1> DEFINE A == Commitment(AddressOf(k, i), a, b, c)
           t1 == (a + x * k.s1) % Order
           t2 == (b + x * x * k.r) % Order
           t3 == (c + x * x * (hash_Q2(k.s1, i) + s2)) % Order
           asked == Transcript(m, A, AddressOf(k, i))
           refused == Refused(n, network, isTestNet, bytes)
<1>1. /\ m \notin Overlong /\ A # Infinity /\ x # 0
      /\ proof.made /\ proof.message = m /\ proof.address = AddressOf(k, i) /\ proof.a = a
      /\ proof.bytes = Encode(A, t1, t2, t3)
      /\ asked \in DOMAIN oracle /\ oracle[asked] = x
  BY MadeFacts, Zenon
<1>2. t1 \in Scalars /\ t2 \in Scalars /\ t3 \in Scalars
  BY ResponsesAt, Zenon
<1>3. A = Commitment(AddressOf(k, i), a, b, c)
  OBVIOUS
<1>4. /\ proof' = proof
      /\ verdict'.asked /\ verdict'.message = n /\ verdict'.address = AddressOf(j, e)
      /\ verdict'.bytes = bytes
      /\ verdict'.right_network = ((network = "t") = isTestNet)
      /\ verdict'.accepted <=> ~refused /\ y # 0 /\ Holds(bytes, AddressOf(j, e), y)
      /\ ~refused => Answers(n, bytes.A, AddressOf(j, e), y)
      /\ refused => oracle' = oracle
  <2>1. Verify(n, AddressOf(j, e), network, isTestNet, bytes, y)
    OBVIOUS
  <2> QED BY <2>1, VerifyFacts, SMT
<1> DEFINE own == Encode(A, t1, t2, t3)
<1>5. own = [A |-> A, spelling |-> "canonical", t1 |-> t1, t2 |-> t2, t3 |-> t3]
  BY Zenon DEF Encode
<1> HIDE DEF A, t1, t2, t3, refused
<1>6. /\ bytes.A = A
      /\ bytes = [A |-> A, spelling |-> bytes.spelling,
                  t1 |-> bytes.t1, t2 |-> bytes.t2, t3 |-> bytes.t3]
  <2>1. bytes \in Variants(Encode(A, t1, t2, t3))
    BY <1>1, Zenon
  <2> QED BY <1>2, <2>1, VariantFacts
<1>7. bytes = own <=> /\ bytes.spelling = "canonical"
                      /\ bytes.t1 = t1 /\ bytes.t2 = t2 /\ bytes.t3 = t3
  <2>1. own.spelling = "canonical" /\ own.t1 = t1 /\ own.t2 = t2 /\ own.t3 = t3
    BY <1>5
  <2>2. ASSUME bytes.spelling = "canonical", bytes.t1 = t1, bytes.t2 = t2, bytes.t3 = t3
        PROVE  bytes = own
    BY <1>5, <1>6, <2>2, Zenon
  <2> HIDE DEF own
  <2> QED BY <2>1, <2>2, Zenon
<1> HIDE DEF own
<1> DEFINE now == Transcript(n, A, AddressOf(j, e))
<1>8. ~refused => /\ now \in DOMAIN oracle' /\ oracle'[now] = y
                  /\ now \in DOMAIN oracle => oracle[now] = y
                  /\ \A u \in DOMAIN oracle : u \in DOMAIN oracle' /\ oracle'[u] = oracle[u]
  BY <1>4, <1>6, AnswersFacts, Zenon
<1>9. \A u \in DOMAIN oracle : u \in DOMAIN oracle' /\ oracle'[u] = oracle[u]
  BY <1>4, <1>8, Zenon
<1>10. MadeBy(k, i, m, a, b, c, x)' /\ proof'.made
  <2>1. MadeBy(k, i, m, a, b, c, x)'
    BY <1>4, <1>9, StillMade, Zenon
  <2> QED BY <2>1, <1>1, <1>4, Zenon
<1>11. ProofIsBound'
  <2> SUFFICES ASSUME verdict'.accepted, verdict'.bytes = proof'.bytes
               PROVE  /\ verdict'.right_network
                      /\ verdict'.address # proof'.address => proof'.a = 0
                      /\ verdict'.address = proof'.address /\ verdict'.message # proof'.message =>
                           \E t, u \in DOMAIN oracle' : t # u /\ oracle'[t] = oracle'[u]
    BY Zenon DEF ProofIsBound
  <2>1. ~refused /\ Holds(bytes, AddressOf(j, e), y) /\ bytes = proof.bytes
    BY <1>4, Zenon
  <2>2. (network = "t") = isTestNet
    <3>1. CASE isTestNet = TRUE
      BY <2>1, <3>1, Zenon DEF refused, Refused
    <3>2. CASE isTestNet = FALSE
      <4>1. network = "m"
        BY <2>1, <3>2, Zenon DEF refused, Refused
      <4> QED BY <3>2, <4>1
    <3> QED BY <3>1, <3>2
  <2>3. /\ AddressOf(j, e) # AddressOf(k, i) => a = 0
        /\ AddressOf(j, e) = AddressOf(k, i) => x = y
    BY <2>1, AcceptedIsBound
  <2>4. ASSUME AddressOf(j, e) = AddressOf(k, i), n # m
        PROVE  \E t, u \in DOMAIN oracle' : t # u /\ oracle'[t] = oracle'[u]
    <3>1. now # asked
      <4>1. now[1] = n /\ asked[1] = m
        BY DEF Transcript
      <4> QED BY <4>1, <2>4
    <3>2. now \in DOMAIN oracle' /\ oracle'[now] = y
      BY <1>8, <2>1, Zenon
    <3>3. asked \in DOMAIN oracle' /\ oracle'[asked] = x
      BY <1>1, <1>9, Zenon
    <3> HIDE DEF now, asked
    <3> QED BY <3>1, <3>2, <3>3, <2>3, <2>4, Zenon
  <2> QED BY <1>1, <1>4, <2>2, <2>3, <2>4, Zenon
<1>12. OneProofAccepted'
  <2> SUFFICES ASSUME n = m, AddressOf(j, e) = AddressOf(k, i)
               PROVE  verdict'.accepted <=> (network = "t") = isTestNet /\ bytes = own
    BY <1>1, <1>4, Zenon DEF OneProofAccepted, own
  <2>1. ~refused <=> /\ (network = "t") = isTestNet
                     /\ bytes.t1 \in Scalars /\ bytes.t2 \in Scalars /\ bytes.t3 \in Scalars
                     /\ bytes.spelling = "canonical"
    <3>1. n \notin Overlong /\ bytes.A # Infinity
      BY <1>1, <1>6, Zenon
    <3> QED BY <3>1, RefusedOnly, Zenon DEF refused
  <2>2. now = asked
    BY Zenon
  <2>3. ~refused => y = x
    BY <1>1, <1>8, <2>2, Zenon
  <2>4. ASSUME ~refused PROVE Holds(bytes, AddressOf(j, e), y) <=> bytes = own
    <3>1. bytes.t1 \in Scalars /\ bytes.t2 \in Scalars /\ bytes.t3 \in Scalars
          /\ bytes.spelling = "canonical"
      BY <2>1, <2>4, Zenon
    <3>2. Holds(bytes, AddressOf(k, i), x) <=> bytes.t1 = t1 /\ bytes.t2 = t2 /\ bytes.t3 = t3
      <4>1. Holds(bytes, AddressOf(k, i), x) <=> RespondsWith(bytes, k, i, a, b, c, x)
        BY <1>3, <1>6, <3>1, ResponsesOnly
      <4> QED BY <4>1, Zenon DEF RespondsWith, t1, t2, t3
    <3> QED BY <3>1, <3>2, <2>3, <2>4, <1>7, Zenon
  <2>5. bytes = own => bytes.t1 \in Scalars /\ bytes.t2 \in Scalars /\ bytes.t3 \in Scalars
                       /\ bytes.spelling = "canonical"
    BY <1>2, <1>7, Zenon
  <2> QED BY <2>1, <2>3, <2>4, <2>5, <1>1, <1>4, Zenon
<1> QED BY <1>10, <1>11, <1>12

\* prove_own, and the hash of the message before it.
LEMMA CreateStep ==
  ASSUME NEW k \in SpendKeys, NEW i \in Diversifiers, NEW m \in Messages,
         NEW a \in Scalars, NEW b \in Scalars, NEW c \in Scalars, NEW x \in Scalars,
         Create(k, i, m, a, b, c, x)
  PROVE  /\ ~proof.made /\ verdict' = verdict
         /\ proof'.made => MadeBy(k, i, m, a, b, c, x)'
<1> DEFINE A == Commitment(AddressOf(k, i), a, b, c)
           t == Responses(k, i, a, b, c, x)
           asked == Transcript(m, A, AddressOf(k, i))
           it == [made |-> TRUE, message |-> m, address |-> AddressOf(k, i), a |-> a,
                  bytes |-> Encode(A, t[1], t[2], t[3])]
<1>1. /\ ~proof.made /\ verdict' = verdict
      /\ IF m \in Overlong \/ A = Infinity THEN UNCHANGED oracle
         ELSE Answers(m, A, AddressOf(k, i), x)
      /\ proof' = IF CreateError(m, A, x) THEN NoProof ELSE it
  BY Zenon DEF Create
<1>2. ASSUME proof'.made PROVE MadeBy(k, i, m, a, b, c, x)'
  <2>1. ~CreateError(m, A, x)
    <3>1. NoProof.made = FALSE
      BY DEF NoProof
    <3> QED BY <1>1, <1>2, <3>1, Zenon
  <2>2. proof' = it
    BY <1>1, <2>1, Zenon
  <2>3. Answers(m, A, AddressOf(k, i), x)
    BY <1>1, <2>1, Zenon DEF CreateError
  <2>4. asked \in DOMAIN oracle' /\ oracle'[asked] = x
    BY <2>3, AnswersFacts
  <2> QED BY <2>1, <2>2, <2>4, Zenon DEF MadeBy
<1> QED BY <1>1, <1>2

-----------------------------------------------------------------------------
(***************************************************************************)
(* The theorem.                                                            *)
(***************************************************************************)

LEMMA OwnershipInvInit == OwnershipInit => OwnershipInv
<1> SUFFICES ASSUME OwnershipInit PROVE OwnershipInv
  OBVIOUS
<1>1. proof.made = FALSE /\ verdict.asked = FALSE
  BY DEF OwnershipInit, NoProof, NoVerdict
<1> QED BY <1>1, Zenon DEF OwnershipInv, ProofIsBound, OneProofAccepted

LEMMA OwnershipInvNext == OwnershipInv /\ [OwnershipNext]_proofVars => OwnershipInv'
<1> SUFFICES ASSUME OwnershipInv, [OwnershipNext]_proofVars PROVE OwnershipInv'
  OBVIOUS
<1>1. verdict'.asked = FALSE => ProofIsBound' /\ OneProofAccepted'
  BY Zenon DEF ProofIsBound, OneProofAccepted
<1>2. ASSUME NEW k \in SpendKeys, NEW i \in Diversifiers, NEW m \in Messages,
             NEW a \in Scalars, NEW b \in Scalars, NEW c \in Scalars, NEW x \in Scalars,
             Create(k, i, m, a, b, c, x)
      PROVE  OwnershipInv'
  <2>1. /\ ~proof.made /\ verdict' = verdict
        /\ proof'.made => MadeBy(k, i, m, a, b, c, x)'
    BY <1>2, CreateStep
  <2>2. ~verdict'.asked
    BY <2>1, Zenon DEF OwnershipInv
  <2>3. ProofIsBound' /\ OneProofAccepted'
    BY <2>2, Zenon DEF ProofIsBound, OneProofAccepted
  <2> QED BY <2>1, <2>2, <2>3, Zenon DEF OwnershipInv
<1>3. ASSUME proof.made, ~verdict.asked,
             NEW n \in Messages, NEW address \in Addresses, NEW network \in {"m", "t"},
             NEW isTestNet \in BOOLEAN, NEW bytes \in Variants(proof.bytes), NEW y \in Scalars,
             Verify(n, address, network, isTestNet, bytes, y)
      PROVE  OwnershipInv'
  <2>1. PICK j \in SpendKeys, e \in Diversifiers : address = AddressOf(j, e)
    BY DEF Addresses
  <2>2. PICK k \in SpendKeys, i \in Diversifiers, m \in Messages, a, b, c, x \in Scalars :
          MadeBy(k, i, m, a, b, c, x)
    BY <1>3, Zenon DEF OwnershipInv
  <2>3. Verify(n, AddressOf(j, e), network, isTestNet, bytes, y)
    BY <1>3, <2>1
  <2>4. /\ MadeBy(k, i, m, a, b, c, x)' /\ proof'.made
        /\ ProofIsBound' /\ OneProofAccepted'
    BY <2>2, <2>3, VerifyStep
  <2> QED BY <2>4, Zenon DEF OwnershipInv
<1>4. ASSUME proof' = NoProof, verdict' = NoVerdict PROVE OwnershipInv'
  <2>1. proof'.made = FALSE /\ verdict'.asked = FALSE
    BY <1>4 DEF NoProof, NoVerdict
  <2> QED BY <1>1, <2>1, Zenon DEF OwnershipInv
<1>5. CASE UNCHANGED proofVars
  <2>1. oracle' = oracle /\ proof' = proof /\ verdict' = verdict
    BY <1>5 DEF proofVars
  <2>2. ProofIsBound' /\ OneProofAccepted'
    BY <2>1, Zenon DEF OwnershipInv, ProofIsBound, OneProofAccepted
  <2>3. ASSUME proof.made
        PROVE  \E k \in SpendKeys, i \in Diversifiers, m \in Messages, a, b, c, x \in Scalars :
                 MadeBy(k, i, m, a, b, c, x)'
    <3>1. PICK k \in SpendKeys, i \in Diversifiers, m \in Messages, a, b, c, x \in Scalars :
            MadeBy(k, i, m, a, b, c, x)
      BY <2>3, Zenon DEF OwnershipInv
    <3>2. MadeBy(k, i, m, a, b, c, x)'
      BY <2>1, <3>1, StillMade, Zenon
    <3> QED BY <3>2
  <2> QED BY <2>1, <2>2, <2>3, Zenon DEF OwnershipInv
<1> QED BY <1>2, <1>3, <1>4, <1>5, Zenon DEF OwnershipNext

\* For every prime order of the group, every set of keys, diversifiers and
\* messages: verifySparkAddressOwnershipProof accepts the bytes of a proof
\* that createSparkAddressOwnershipProof made on the address's network only,
\* for another message only after two equal answers of the oracle, and for
\* another address only if the first random scalar was zero.
THEOREM ProofsAreBound == OwnershipSpec => []ProofIsBound
<1>1. OwnershipInv => ProofIsBound
  BY DEF OwnershipInv
<1> QED BY <1>1, OwnershipInvInit, OwnershipInvNext, PTL DEF OwnershipSpec

\* For the same constants: of all bytes with the commitment of a proof, the
\* proof's own are accepted for its message and address, and no others are.
THEOREM ProofsAreUnique == OwnershipSpec => []OneProofAccepted
<1>1. OwnershipInv => OneProofAccepted
  BY DEF OwnershipInv
<1> QED BY <1>1, OwnershipInvInit, OwnershipInvNext, PTL DEF OwnershipSpec

=============================================================================
