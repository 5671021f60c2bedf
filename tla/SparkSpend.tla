----------------------------- MODULE SparkSpend -----------------------------
(***************************************************************************)
(* createSparkSpendTransaction of sparkmobile's spark.cpp, with the checks *)
(* of the SpendTransaction constructor it ends in.                         *)
(*                                                                         *)
(* A call validates the request, runs SelectSparkCoins (CoinSelection),    *)
(* takes the fee out of the recipients that bear it, makes the private     *)
(* outputs and the change, binds each selected coin to its cover set, and  *)
(* builds the transaction.  Every check throws, and a throw ends the call. *)
(***************************************************************************)
EXTENDS CoinSelection

CONSTANTS
  SparkOutLimit,   (* SPARK_OUT_LIMIT_PER_TX                               *)
  MaxV2Outputs,    (* MAX_SPARK_V2_OUTPUTS                                 *)
  MaxCoverSet,     (* n^m of the Grootle proof: the largest cover set      *)
  MaxSetId,        (* the largest int32                                    *)
  Requests         (* the requests to consider                             *)

ASSUME OutputLimitsAssumption ==
  /\ SparkOutLimit \in Nat /\ MaxV2Outputs \in Nat
  /\ SparkOutLimit <= MaxV2Outputs
  /\ MaxCoverSet \in Nat /\ MaxSetId \in Nat

\* An amount, as the int64 the Dart side passed, and whether the fee is
\* taken out of it.
Payment == [amount : Int, subtractFee : BOOLEAN]

\* An anonymity set: its group, its coins and whether its hash has 32 bytes.
CoverSet == [setId : Nat, coins : Seq(Nat), hash32 : BOOLEAN]

\* The arguments, as cCreateSparkSpendTransaction hands them on.  longMemos
\* are the payments whose memo is over the limit of a coin.
Request ==
  [recipients : Seq(Payment), privateRecipients : Seq(Payment),
   coins : Seq(CoinMeta), sets : Seq(CoverSet), blockHashes : SUBSET Nat,
   additional : Nat, version : {"V1", "V2", "unknown"}, extension : BOOLEAN,
   longMemos : SUBSET Nat]

ASSUME RequestsAssumption == Requests \subseteq Request

VARIABLES
  pc,              (* control point of createSparkSpendTransaction         *)
  req,             (* its arguments                                        *)
  paid,            (* recipients_ then privateRecipients_: amounts         *)
  transparentOut,  (* value of the transparent outputs                     *)
  outs,            (* positions in paid that become private outputs        *)
  change,          (* spendInCurrentTx: what is left for the wallet        *)
  todo,            (* selected coins not yet made inputs                   *)
  groups,          (* groups in cover_set_data and idAndBlockHashes        *)
  reason           (* what was thrown outside selection, or "none"         *)

spendVars ==
  <<pc, req, paid, transparentOut, outs, change, todo, groups, reason>>

vars == <<selectVars, spendVars>>

SpendErrors ==
  {"unsupported version", "V1 binds no extension", "no recipients",
   "output limit exceeded", "invalid recipient amount",
   "invalid private recipient amount", "output amount out of range",
   "V1 requires one input", "amount too small after fee deduction",
   "unable to create spend", "no such set", "hash must be 32 bytes",
   "no such coin in set", "bad V2 cover-set id",
   "missing V2 cover-set reference", "bad V2 dimensions", "wrong set size",
   "memo is too large"}

-----------------------------------------------------------------------------
(***************************************************************************)
(* The request.                                                            *)
(***************************************************************************)

\* Transparent recipients, then private ones: the order of the fee loops.
AllPayments(r) == r.recipients \o r.privateRecipients

AmountsOf(s) == [i \in 1 .. Len(s) |-> s[i].amount]
Sum(s) == Total(s, Len(s))

\* A list whose running total leaves the money range.
BadAmounts(s) ==
  \/ \E i \in 1 .. Len(s) : ~MoneyRange(s[i].amount)
  \/ Sum(AmountsOf(s)) > MaxMoney

RequestError(r) ==
  IF r.version \notin {"V1", "V2"} THEN "unsupported version"
  ELSE IF r.version = "V1" /\ r.extension THEN "V1 binds no extension"
  ELSE IF AllPayments(r) = <<>> THEN "no recipients"
  ELSE IF Len(r.privateRecipients) >= SparkOutLimit - 1
    THEN "output limit exceeded"
  ELSE IF BadAmounts(r.recipients) THEN "invalid recipient amount"
  ELSE IF BadAmounts(r.privateRecipients)
    THEN "invalid private recipient amount"
  ELSE IF BadAmounts(AllPayments(r)) THEN "output amount out of range"
  ELSE "none"

\* recipientsToSubtractFee
FeeBearers(r) ==
  {i \in 1 .. Len(AllPayments(r)) : AllPayments(r)[i].subtractFee}

\* Mutant of CallOf: the two output counts are swapped.
CallOfSwapped(r) ==
  [required |-> Sum(AmountsOf(AllPayments(r))),
   subtractFee |-> FeeBearers(r) # {}, coins |-> r.coins,
   mintNum |-> Len(r.recipients), utxoNum |-> Len(r.privateRecipients),
   additional |-> r.additional, version |-> r.version]

\* Mutant of CallOf: the fee is always left to the recipients.
CallOfSubtracting(r) ==
  [required |-> Sum(AmountsOf(AllPayments(r))),
   subtractFee |-> TRUE, coins |-> r.coins,
   mintNum |-> Len(r.privateRecipients), utxoNum |-> Len(r.recipients),
   additional |-> r.additional, version |-> r.version]

\* The arguments of SelectSparkCoins.
CallOf(r) ==
  [required |-> Sum(AmountsOf(AllPayments(r))),
   subtractFee |-> FeeBearers(r) # {}, coins |-> r.coins,
   mintNum |-> Len(r.privateRecipients), utxoNum |-> Len(r.recipients),
   additional |-> r.additional, version |-> r.version]

ThrowInSpend(why) == pc' = "failed" /\ reason' = why

CreateSparkSpend(r) ==
  /\ pc = "idle"
  /\ req' = r
  /\ IF RequestError(r) = "none"
     THEN SelectSparkCoins(CallOf(r)) /\ pc' = "select" /\ reason' = reason
     ELSE ThrowInSpend(RequestError(r)) /\ UNCHANGED selectVars
  /\ UNCHANGED <<paid, transparentOut, outs, change, todo, groups>>

-----------------------------------------------------------------------------
(***************************************************************************)
(* The fee is taken out of the recipients that bear it: an equal share     *)
(* each, the remainder from the first of them.                             *)
(***************************************************************************)

\* Mutant of FeeToSubtract: nobody pays the remainder.
EqualShare(i) ==
  IF i \notin FeeBearers(req) THEN 0 ELSE fee \div Cardinality(FeeBearers(req))

FeeToSubtract(i) ==
  LET bearers == FeeBearers(req)
      n       == Cardinality(bearers)
  IN  IF i \notin bearers THEN 0
      ELSE fee \div n + IF \A j \in bearers : i <= j THEN fee % n ELSE 0

\* Mutant of TooSmall: the amount is not compared with its share.
TooSmallUnchecked(i) == FALSE

TooSmall(i) == AllPayments(req)[i].amount <= FeeToSubtract(i)

DeductFee ==
  LET payments == AllPayments(req)
      why == IF req.version = "V1" /\ Cardinality(picked) # 1
               THEN "V1 requires one input"
             ELSE IF \E i \in FeeBearers(req) : TooSmall(i)
               THEN "amount too small after fee deduction"
             ELSE "none"
  IN  /\ pc = "select" /\ at = "ok"
      /\ IF why = "none"
         THEN /\ paid' = [i \in 1 .. Len(payments) |->
                            payments[i].amount - FeeToSubtract(i)]
              /\ pc' = "fill" /\ reason' = reason
         ELSE ThrowInSpend(why) /\ paid' = paid
      /\ UNCHANGED <<selectVars, req, transparentOut, outs, change, todo, groups>>

-----------------------------------------------------------------------------
(***************************************************************************)
(* Outputs.                                                                *)
(***************************************************************************)

\* Mutant of PrivateOutputs: the loop starts at the second recipient.
PrivateOutputsButFirst ==
  {i \in Len(req.recipients) + 2 .. Len(paid) : paid[i] # 0}

\* Amounts of zero make no output.
PrivateOutputs ==
  {i \in Len(req.recipients) + 1 .. Len(paid) : paid[i] # 0}

\* A change output is added when something is left, or when there would be
\* no private output at all.
HasChange == outs = {} \/ change > 0

FillOutputs ==
  LET public == Total(paid, Len(req.recipients))
      rest   == Value(call.coins, picked) - fee - Sum(paid)
  IN  /\ pc = "fill"
      /\ transparentOut' = public
      /\ outs' = PrivateOutputs
      /\ change' = rest
      /\ todo' = picked
      /\ IF rest < 0 THEN ThrowInSpend("unable to create spend")
                     ELSE pc' = "inputs" /\ reason' = reason
      /\ UNCHANGED <<selectVars, req, paid, groups>>

-----------------------------------------------------------------------------
(***************************************************************************)
(* Inputs: the selected coins in ascending order of their groups.          *)
(***************************************************************************)

\* The entries of the caller's list for group g; the map keeps the last one.
SetsOf(g) == {k \in 1 .. Len(req.sets) : req.sets[k].setId = g}

\* Mutant of LastSet: the first entry is kept.
FirstSet(g) ==
  req.sets[CHOOSE k \in SetsOf(g) : \A j \in SetsOf(g) : k <= j]

LastSet(g) ==
  req.sets[CHOOSE k \in SetsOf(g) : \A j \in SetsOf(g) : j <= k]

\* Mutant of InputError: the result of getIndex is ignored.
InputErrorIndexUnchecked(i) ==
  LET g == call.coins[i].nId
  IN  IF SetsOf(g) = {} \/ g \notin req.blockHashes THEN "no such set"
      ELSE IF req.version = "V2" /\ ~LastSet(g).hash32
        THEN "hash must be 32 bytes"
      ELSE "none"

InputError(i) ==
  LET g == call.coins[i].nId
  IN  IF SetsOf(g) = {} \/ g \notin req.blockHashes THEN "no such set"
      ELSE IF req.version = "V2" /\ ~LastSet(g).hash32
        THEN "hash must be 32 bytes"
      ELSE IF \A k \in 1 .. Len(LastSet(g).coins) :
                LastSet(g).coins[k] # call.coins[i].coin
        THEN "no such coin in set"
      ELSE "none"

Referenced(i) == groups \cup {call.coins[i].nId}

AddInput(i) ==
  /\ pc = "inputs"
  /\ \A j \in todo : call.coins[i].nId <= call.coins[j].nId
  /\ IF InputError(i) = "none"
     THEN /\ todo' = todo \ {i}
          /\ groups' = Referenced(i)
          /\ UNCHANGED <<pc, reason>>
     ELSE ThrowInSpend(InputError(i)) /\ UNCHANGED <<todo, groups>>
  /\ UNCHANGED <<selectVars, req, paid, transparentOut, outs, change>>

-----------------------------------------------------------------------------
(***************************************************************************)
(* The SpendTransaction constructor, up to the proofs it computes, and the *)
(* coins it makes for the outputs.                                         *)
(***************************************************************************)

OutputCount == Cardinality(outs) + IF HasChange THEN 1 ELSE 0

BuildError ==
  LET used == {call.coins[i].nId : i \in picked}
      w    == Cardinality(picked)
  IN  IF req.version = "V2" /\ \E g \in used : g = 0 \/ g > MaxSetId
        THEN "bad V2 cover-set id"
      ELSE IF req.version = "V2" /\ groups # used
        THEN "missing V2 cover-set reference"
      ELSE IF /\ req.version = "V2"
              /\ \/ w = 0 \/ w > MaxChaumV2Inputs
                 \/ OutputCount = 0 \/ OutputCount > MaxV2Outputs
        THEN "bad V2 dimensions"
      ELSE IF \E g \in used : Len(LastSet(g).coins) > MaxCoverSet
        THEN "wrong set size"
      ELSE IF req.longMemos \cap outs # {} THEN "memo is too large"
      ELSE "none"

BuildTransaction ==
  /\ pc = "inputs" /\ todo = {}
  /\ IF BuildError = "none" THEN pc' = "done" /\ reason' = reason
                            ELSE ThrowInSpend(BuildError)
  /\ UNCHANGED <<selectVars, req, paid, transparentOut, outs, change, todo, groups>>

-----------------------------------------------------------------------------
NoRequest ==
  [recipients |-> <<>>, privateRecipients |-> <<>>, coins |-> <<>>,
   sets |-> <<>>, blockHashes |-> {}, additional |-> 0, version |-> "V1",
   extension |-> FALSE, longMemos |-> {}]

Init ==
  /\ SelectInit
  /\ pc = "idle" /\ req = NoRequest /\ paid = <<>> /\ transparentOut = 0
  /\ outs = {} /\ change = 0 /\ todo = {} /\ groups = {} /\ reason = "none"

\* The result goes back to the caller, whether it is a transaction or an
\* exception from this function or from the selection it called.
Returned == pc \in {"done", "failed"} \/ at = "error"

ReturnSpend ==
  /\ Returned
  /\ at' = "idle" /\ call' = NoCall /\ err' = "none"
  /\ fee' = 0 /\ left' = {} /\ picked' = {} /\ spend_val' = 0
  /\ pc' = "idle" /\ req' = NoRequest /\ paid' = <<>> /\ transparentOut' = 0
  /\ outs' = {} /\ change' = 0 /\ todo' = {} /\ groups' = {} /\ reason' = "none"

SpendStep ==
  \/ SelectStep /\ UNCHANGED spendVars
  \/ DeductFee
  \/ FillOutputs
  \/ \E i \in todo : AddInput(i)
  \/ BuildTransaction

Next ==
  \/ pc = "idle" /\ \E r \in Requests : CreateSparkSpend(r)
  \/ SpendStep
  \/ ReturnSpend

Spec == Init /\ [][Next]_vars /\ WF_vars(SpendStep)

-----------------------------------------------------------------------------
(***************************************************************************)
(* Properties.                                                             *)
(***************************************************************************)

\* Types.  The fee split never drives an amount below zero, and the change
\* of a transaction that is still being built is never negative.
SpendTypeOK ==
  /\ SelectTypeOK
  /\ pc \in {"idle", "select", "fill", "inputs", "done", "failed"}
  /\ req \in Request
  /\ paid \in Seq(Nat)
  /\ transparentOut \in 0 .. MaxMoney
  /\ outs \subseteq 1 .. Len(paid)
  /\ change \in Int
  /\ todo \subseteq picked
  /\ groups \subseteq Nat
  /\ reason \in SpendErrors \cup {"none"}
  /\ (pc = "failed") <=> (reason # "none")

\* What the private recipients are paid.
PrivateOut == Total([i \in 1 .. Len(paid) |-> IF i \in outs THEN paid[i] ELSE 0],
                    Len(paid))

\* Nothing is created and nothing is lost: the selected coins are worth the
\* fee, the transparent outputs, the private outputs and the change, which is
\* what the balance proof of SpendTransaction needs, and the wallet is charged
\* the requested amounts, plus the fee when no recipient bears it.
ValueConserved ==
  pc \in {"inputs", "done"} =>
    /\ Value(call.coins, picked) = fee + transparentOut + PrivateOut + change
    /\ change = Value(call.coins, picked) - CurrentRequired
    /\ change >= 0

\* The recipients that bear the fee bear exactly all of it between them, each
\* of them still gets something, no share differs from another by as much as
\* their number, and the others get what was asked for.
FeeBorneExactly ==
  pc \in {"fill", "inputs", "done"} =>
    LET asked   == AmountsOf(AllPayments(req))
        bearers == FeeBearers(req)
        lost(i) == asked[i] - paid[i]
    IN  /\ Len(paid) = Len(asked)
        /\ Sum(asked) - Sum(paid) = IF bearers = {} THEN 0 ELSE fee
        /\ \A i \in 1 .. Len(asked) \ bearers : lost(i) = 0
        /\ \A i \in bearers :
             /\ paid[i] > 0 /\ lost(i) >= 0
             /\ \A j \in bearers : lost(i) - lost(j) < Cardinality(bearers)

\* The fee was fixed before the outputs were known, from the number of
\* recipients and one change output: it still pays for the outputs that are
\* really made, and they respect the output limit.
FeeCoversOutputs ==
  pc = "done" =>
    /\ OutputCount \in 1 .. SparkOutLimit
    /\ fee >= EstimatedSize([call EXCEPT !.mintNum = OutputCount - 1,
                                         !.utxoNum = Len(req.recipients)],
                            Cardinality(picked))

\* A finished transaction spends every selected coin, each from a cover set
\* the caller supplied that contains it, and references the block hashes of
\* exactly the groups it spends from.
InputsBound ==
  pc = "done" =>
    /\ todo = {}
    /\ groups = {call.coins[i].nId : i \in picked}
    /\ groups \subseteq req.blockHashes
    /\ \A i \in picked : \E k \in 1 .. Len(req.sets) :
         /\ req.sets[k].setId = call.coins[i].nId
         /\ \E m \in 1 .. Len(req.sets[k].coins) :
              req.sets[k].coins[m] = call.coins[i].coin

\* The checks that repeat earlier ones never fire: selection always covers
\* fee and outputs, every group of an input is referenced, and a transaction
\* that passed the request checks fits the dimensions of a V2 spend.
RepeatedChecksHold ==
  reason \notin {"unable to create spend", "missing V2 cover-set reference",
                 "bad V2 dimensions"}

=============================================================================
