-------------------------- MODULE SpendRefinement --------------------------
(***************************************************************************)
(* SparkSpend implements AtomicSpend.  The answer is given by the step     *)
(* that builds the transaction or throws; until then a request is asked.   *)
(***************************************************************************)
EXTENDS SparkSpend

\* Besides the checks of the request, the balance of the wallet has to be in
\* the money range, and a V2 request for nothing is refused because its first
\* round selects nothing.
RequestConsidered(r) ==
  /\ RequestError(r) = "none"
  /\ Balance(r.coins) <= MaxMoney
  /\ ~(r.version = "V2" /\ Sum(AmountsOf(AllPayments(r))) = 0)

RequestFee(r, n) == EstimatedSize(CallOf(r), n)

RequestFits(r, n) ==
  /\ RequestFee(r, n) <= MaxSize
  /\ r.version = "V2" => n \in 1 .. MaxChaumV2Inputs

\* The coins at positions S of request r can be made inputs: each is in the
\* cover set the caller last gave for its group, whose block hash is known,
\* and no limit of the transaction format is exceeded.
InputsExist(r, S) ==
  /\ r.version = "V1" => Cardinality(S) = 1
  /\ \A i \in S :
       LET g    == r.coins[i].nId
           mine == {k \in 1 .. Len(r.sets) : r.sets[k].setId = g}
           last == CHOOSE k \in mine : \A j \in mine : j <= k
       IN  /\ g \in r.blockHashes /\ mine # {}
           /\ r.coins[i].coin \in {r.sets[last].coins[n] : n \in 1 .. Len(r.sets[last].coins)}
           /\ Len(r.sets[last].coins) <= MaxCoverSet
           /\ r.version = "V2" => r.sets[last].hash32 /\ g \in 1 .. MaxSetId
  /\ r.longMemos \cap {i \in Len(r.recipients) + 1 .. Len(AllPayments(r)) :
                         AllPayments(r)[i].amount # 0} = {}

\* What each payment's output carries.
Carried ==
  [i \in 1 .. Len(paid) |-> IF i <= Len(req.recipients) \/ i \in outs THEN paid[i] ELSE 0]

CallStatus == IF pc = "idle" THEN "idle" ELSE IF Returned THEN "answered" ELSE "asked"

CallAnswer ==
  IF CallStatus # "answered" \/ pc # "done"
  THEN [outcome |-> IF CallStatus = "answered" THEN "refused" ELSE "none",
        spent |-> {}, fee |-> 0, paid |-> <<>>, change |-> 0]
  ELSE [outcome |-> "paid", spent |-> picked, fee |-> fee, paid |-> Carried,
        change |-> change]

Atomic == INSTANCE AtomicSpend
  WITH WellFormed <- RequestConsidered, Fee <- RequestFee,
       Fits <- RequestFits, Bindable <- InputsExist,
       status <- CallStatus, request <- req, answer <- CallAnswer

\* createSparkSpendTransaction implements AtomicSpend: whatever its loops do,
\* the caller sees one answer to each request, a cheapest transaction that
\* settles every payment or a refusal with a reason, and sees it eventually.
ImplementsAtomicSpend == Atomic!AtomicSpec

=============================================================================
