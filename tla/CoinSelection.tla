--------------------------- MODULE CoinSelection ---------------------------
(***************************************************************************)
(* Coin selection: SelectSparkCoins and GetCoinsToSpend of sparkmobile's   *)
(* spark.cpp, the code behind estimateSparkFee and the first half of       *)
(* createSparkSpendTransaction.                                            *)
(*                                                                         *)
(* A call selects wallet coins for an amount, estimates the size of the    *)
(* transaction they make, which is also its fee, and starts again with     *)
(* that fee added to the amount until the fee covers the size.  A coin of  *)
(* the wallet list is named by its position, so a sorted list is an order  *)
(* on positions and a partly consumed list is a set of them.               *)
(***************************************************************************)
EXTENDS Amounts, FiniteSets

CONSTANTS
  MaxMoney,            (* MAX_MONEY                                        *)
  MaxSize,             (* the largest unsigned int                         *)
  BaseSize,            (* 924: bytes of a spend before inputs and outputs  *)
  InputSize,           (* 1803: bytes of an input                          *)
  MintSize,            (* 322: bytes of a private output                   *)
  UtxoSize,            (* 34: bytes of a transparent output                *)
  V2Size,              (* 32: the extension commitment of a V2 spend       *)
  V2InputSize,         (* 98: a V2 input after the first                   *)
  MaxChaumV2Inputs,    (* MAX_CHAUM_V2_INPUTS                              *)
  SelectCalls          (* the calls of SelectSparkCoins to consider        *)

ASSUME LimitsAssumption ==
  /\ MaxMoney \in Nat /\ MaxSize \in Nat /\ MaxChaumV2Inputs \in Nat
  /\ BaseSize \in Nat \ {0} /\ BaseSize <= MaxSize
  /\ InputSize \in Nat \ {0}
  /\ MintSize \in Nat /\ UtxoSize \in Nat
  /\ V2Size \in Nat /\ V2InputSize \in Nat

(***************************************************************************)
(* A CSparkMintMeta, reduced to what selection and input building read:    *)
(* its value, the height of its block, its group (cover set) and the coin  *)
(* on the chain it stands for.                                             *)
(***************************************************************************)
CoinMeta == [v : Nat, nHeight : Int, nId : Nat, coin : Nat]

\* The arguments of SelectSparkCoins.  A version is an int cast to an enum.
SelectCall ==
  [required : Int, subtractFee : BOOLEAN, coins : Seq(CoinMeta),
   mintNum : Nat, utxoNum : Nat, additional : Nat,
   version : {"V1", "V2", "unknown"}]

ASSUME CallsAssumption == SelectCalls \subseteq SelectCall

VARIABLES
  at,         (* control point of SelectSparkCoins                         *)
  call,       (* its arguments                                             *)
  fee,        (* the fee of this round                                     *)
  left,       (* GetCoinsToSpend: positions still in the sorted list       *)
  picked,     (* ... and positions moved to coinsToSpend                   *)
  spend_val,  (* ... and the value of the latter                           *)
  err         (* what was thrown, or "none"                                *)

selectVars == <<at, call, fee, left, picked, spend_val, err>>

SelectErrors ==
  {"unsupported version", "amount out of range", "fee out of range",
   "amount plus fee out of range", "coin amount out of range",
   "insufficient funds", "bad V2 input count", "size out of range",
   "unable to select coins"}

-----------------------------------------------------------------------------

MoneyRange(v) == 0 <= v /\ v <= MaxMoney

\* Bytes of the transaction a call's coins make: n inputs, the requested
\* outputs and one change output.
EstimatedSize(c, n) ==
  BaseSize + InputSize * n + MintSize * c.mintNum + MintSize
    + UtxoSize * c.utxoNum + c.additional
    + IF c.version = "V2"
      THEN V2Size + V2InputSize * (IF n > 1 THEN n - 1 ELSE 0)
      ELSE 0

\* What this round has to select, the fee included unless recipients pay it.
CurrentRequired == IF call.subtractFee THEN call.required
                                       ELSE call.required + fee

-----------------------------------------------------------------------------
(***************************************************************************)
(* The sorted list.                                                        *)
(***************************************************************************)

\* Mutant of Precedes: the list is sorted the other way round.
PrecedesAscending(i, j) ==
  \/ call.coins[i].v < call.coins[j].v
  \/ call.coins[i].v = call.coins[j].v /\ i < j

\* Bigger amounts first, older blocks first among equal amounts; list::sort
\* is stable, so positions decide the rest.
Precedes(i, j) ==
  LET a == call.coins[i]
      b == call.coins[j]
  IN  \/ a.v > b.v
      \/ a.v = b.v /\ a.nHeight < b.nHeight
      \/ a.v = b.v /\ a.nHeight = b.nHeight /\ i < j

\* coins.begin() of the remaining coins.
Front(S) == CHOOSE i \in S : \A j \in S \ {i} : Precedes(i, j)

\* Mutant of ScanStops: the scan stops at the first coin big enough.
ScanStopsAnywhere(S, need) == {i \in S : call.coins[i].v >= need}

\* The coins at which the backward scan may stop: big enough, and the first
\* of the coins with its amount.
ScanStops(S, need) ==
  {i \in S : /\ call.coins[i].v >= need
             /\ \A j \in S : Precedes(j, i) => call.coins[j].v # call.coins[i].v}

\* Where the scan from the back of the list stops.
SmallestSufficient(S, need) ==
  CHOOSE i \in ScanStops(S, need) :
    \A j \in ScanStops(S, need) \ {i} : Precedes(j, i)

-----------------------------------------------------------------------------
(***************************************************************************)
(* The steps of a call.                                                    *)
(***************************************************************************)

Throw(reason) == at' = "error" /\ err' = reason

\* Entry of SelectSparkCoins.
SelectSparkCoins(c) ==
  LET reason == IF c.version \notin {"V1", "V2"} THEN "unsupported version"
                ELSE IF ~MoneyRange(c.required) THEN "amount out of range"
                ELSE "none"
  IN  /\ at = "idle"
      /\ call' = c
      /\ IF reason = "none" THEN at' = "round" /\ err' = err ELSE Throw(reason)
      /\ UNCHANGED <<fee, left, picked, spend_val>>

\* Mutant of RoundError: the balance is not range-checked.
RoundErrorBalanceUnchecked ==
  IF ~call.subtractFee /\ fee > MaxMoney - call.required
    THEN "amount plus fee out of range"
  ELSE IF CurrentRequired > Balance(call.coins) THEN "insufficient funds"
  ELSE "none"

\* Mutant of RoundError: the balance is not compared with the amount.
RoundErrorFundsUnchecked ==
  IF ~call.subtractFee /\ fee > MaxMoney - call.required
    THEN "amount plus fee out of range"
  ELSE IF Balance(call.coins) > MaxMoney THEN "coin amount out of range"
  ELSE "none"

\* The head of the fee loop and of GetCoinsToSpend, whose own range check of
\* the amount repeats the two before it.  Coin amounts are unsigned, so the
\* running range check of the balance fails exactly when the whole balance
\* is out of range.
RoundError ==
  IF ~MoneyRange(fee) THEN "fee out of range"
  ELSE IF ~call.subtractFee /\ fee > MaxMoney - call.required
    THEN "amount plus fee out of range"
  ELSE IF Balance(call.coins) > MaxMoney THEN "coin amount out of range"
  ELSE IF CurrentRequired > Balance(call.coins) THEN "insufficient funds"
  ELSE "none"

StartRound ==
  /\ at = "round"
  /\ IF RoundError # "none"
     THEN Throw(RoundError) /\ UNCHANGED <<left, picked, spend_val>>
     ELSE /\ at' = "take" /\ err' = err
          /\ left' = 1 .. Len(call.coins)
          /\ picked' = {}
          /\ spend_val' = 0
  /\ UNCHANGED <<call, fee>>

Need == CurrentRequired - spend_val

\* Mutant of Choose: the chosen coin is not erased from the list.
ChooseWithoutErase(i) ==
  /\ left' = left
  /\ picked' = picked \cup {i}
  /\ spend_val' = spend_val + call.coins[i].v
  /\ UNCHANGED <<at, call, fee, err>>

Choose(i) ==
  /\ left' = left \ {i}
  /\ picked' = picked \cup {i}
  /\ spend_val' = spend_val + call.coins[i].v
  /\ UNCHANGED <<at, call, fee, err>>

\* The biggest remaining coin is not too big: take it.
TakeLargest ==
  /\ at = "take" /\ Need > 0 /\ left # {}
  /\ Need >= call.coins[Front(left)].v
  /\ Choose(Front(left))

\* It is: take the smallest that suffices.
TakeSufficient ==
  /\ at = "take" /\ Need > 0 /\ left # {}
  /\ Need < call.coins[Front(left)].v
  /\ Choose(SmallestSufficient(left, Need))

\* Mutant of InputCountOK: the limit is taken as exclusive.
InputCountBelowLimit(n) == call.version = "V2" => n # 0 /\ n < MaxChaumV2Inputs

InputCountOK(n) == call.version = "V2" => n # 0 /\ n <= MaxChaumV2Inputs

\* Mutant of RaisedFee: the new fee is computed and dropped.
FeeNotRaised(size) == fee

RaisedFee(size) == IF fee >= size THEN fee ELSE size

\* The rest of the loop body, once GetCoinsToSpend has returned.
FinishRound ==
  LET n      == Cardinality(picked)
      size   == EstimatedSize(call, n)
      last   == fee >= size \/ call.subtractFee
      reason == IF ~InputCountOK(n) THEN "bad V2 input count"
                ELSE IF size > MaxSize THEN "size out of range"
                ELSE IF last /\ Need > 0 THEN "unable to select coins"
                ELSE "none"
  IN  /\ at = "take" /\ (Need <= 0 \/ left = {})
      /\ IF reason = "none"
         THEN fee' = RaisedFee(size) /\ at' = (IF last THEN "ok" ELSE "round")
                                     /\ err' = err
         ELSE Throw(reason) /\ fee' = fee
      /\ UNCHANGED <<call, left, picked, spend_val>>

SelectStep == StartRound \/ TakeLargest \/ TakeSufficient \/ FinishRound

-----------------------------------------------------------------------------
(***************************************************************************)
(* estimateSparkFee: one call after the other.                             *)
(***************************************************************************)

NoCall ==
  [required |-> 0, subtractFee |-> FALSE, coins |-> <<>>,
   mintNum |-> 0, utxoNum |-> 0, additional |-> 0, version |-> "V1"]

SelectInit ==
  /\ at = "idle" /\ call = NoCall /\ err = "none"
  /\ fee = 0 /\ left = {} /\ picked = {} /\ spend_val = 0

EstimateSparkFee == at = "idle" /\ \E c \in SelectCalls : SelectSparkCoins(c)

\* The result (or the exception's text) goes back to the caller.
Return ==
  /\ at \in {"ok", "error"}
  /\ at' = "idle" /\ call' = NoCall /\ err' = "none"
  /\ fee' = 0 /\ left' = {} /\ picked' = {} /\ spend_val' = 0

SelectNext == EstimateSparkFee \/ SelectStep \/ Return

\* The native call runs to its end on the caller's thread.
SelectSpec ==
  SelectInit /\ [][SelectNext]_selectVars /\ WF_selectVars(SelectStep)

-----------------------------------------------------------------------------
(***************************************************************************)
(* Properties.                                                             *)
(***************************************************************************)

\* Types.  The value selected so far never leaves the money range, so the
\* CAmount additions of GetCoinsToSpend cannot overflow.
SelectTypeOK ==
  /\ at \in {"idle", "round", "take", "ok", "error"}
  /\ call \in SelectCall
  /\ fee \in 0 .. MaxSize
  /\ left \subseteq 1 .. Len(call.coins)
  /\ picked \subseteq 1 .. Len(call.coins)
  /\ spend_val \in 0 .. MaxMoney
  /\ err \in SelectErrors \cup {"none"}
  /\ (at = "error") <=> (err # "none")

\* Every coin of the wallet list is either still in GetCoinsToSpend's list or
\* selected, never both and never lost by the two erase calls, and spend_val
\* is what the selected coins are worth.
SelectionAccounted ==
  at \in {"take", "ok"} =>
    /\ picked \cap left = {}
    /\ picked \cup left = 1 .. Len(call.coins)
    /\ spend_val = Value(call.coins, picked)

\* The positions in S pay for the call: for the amount, and for the fee of
\* the transaction they make unless the recipients bear it.
Pays(S) ==
  Value(call.coins, S) >=
    call.required + IF call.subtractFee THEN 0
                    ELSE EstimatedSize(call, Cardinality(S))

\* The fee loop stops at a fixed point and at the least one: the coins
\* returned pay, the fee is exactly the estimate for them, and no other
\* choice of coins pays with fewer inputs, hence with a smaller fee.
LeastFee ==
  at = "ok" =>
    /\ Pays(picked)
    /\ fee = EstimatedSize(call, Cardinality(picked))
    /\ \A S \in SUBSET (1 .. Len(call.coins)) :
         Pays(S) => Cardinality(picked) <= Cardinality(S)

\* Some choice of coins pays within the input limit and the size limit.
Payable ==
  \E S \in SUBSET (1 .. Len(call.coins)) :
    /\ Pays(S)
    /\ EstimatedSize(call, Cardinality(S)) <= MaxSize
    /\ call.version = "V2" => Cardinality(S) \in 1 .. MaxChaumV2Inputs

\* The greedy rounds give up only when they must: a well-formed call fails
\* only if no choice of coins would do.  The exception is a V2 call for
\* nothing, whose first, feeless round selects nothing and is refused.
FailureIsReal ==
  /\ at = "error"
  /\ call.version \in {"V1", "V2"}
  /\ MoneyRange(call.required)
  /\ Balance(call.coins) <= MaxMoney
  /\ ~(call.version = "V2" /\ call.required = 0)
  => ~Payable

\* GetCoinsToSpend never comes back short, although SelectSparkCoins expects
\* that changeToMint "can be negative" (spark.cpp:168) and guards against it.
NeverShort == err # "unable to select coins"

\* "if it is same amount we will prefer the older block" (spark.cpp:103), on
\* both ways of taking a coin.
OldestFirst ==
  at \in {"take", "ok"} =>
    \A i \in picked, j \in left :
      call.coins[i].v = call.coins[j].v =>
        call.coins[i].nHeight <= call.coins[j].nHeight

\* The fee loop, which has no iteration bound, ends.
SelectTerminates == at = "round" ~> at \in {"ok", "error"}

-----------------------------------------------------------------------------
(***************************************************************************)
(* The inductive invariant behind the safety properties.                   *)
(***************************************************************************)

Choices == SUBSET (1 .. Len(call.coins))

\* What the checks passed so far have established.
ChecksPassed ==
  /\ at = "idle" => fee = 0 /\ left = {} /\ picked = {}
  /\ at \in {"round", "take", "ok"} =>
       call.version \in {"V1", "V2"} /\ MoneyRange(call.required)
  /\ at \in {"round", "take"} /\ call.subtractFee => fee = 0
  /\ at \in {"take", "ok"} =>
       Balance(call.coins) <= MaxMoney /\ CurrentRequired <= Balance(call.coins)

\* No round asks for more fee than any choice that pays would cost.
FeeIsLowerBound ==
  at \in {"round", "take"} =>
    \A S \in Choices :
      Pays(S) => call.subtractFee \/ fee <= EstimatedSize(call, Cardinality(S))

\* While coins are still needed, no choice of as few is worth more ...
PickedDominate ==
  at = "take" /\ Need > 0 =>
    \A S \in Choices : Cardinality(S) <= Cardinality(picked)
                         => Value(call.coins, S) <= spend_val

\* ... so none that covers the amount has fewer coins.
PickedFewest ==
  at = "take" =>
    \A S \in Choices : Value(call.coins, S) >= CurrentRequired
                         => Cardinality(picked) <= Cardinality(S)

SelectInv ==
  /\ SelectTypeOK
  /\ SelectionAccounted
  /\ ChecksPassed
  /\ FeeIsLowerBound
  /\ PickedDominate
  /\ PickedFewest
  /\ LeastFee
  /\ FailureIsReal
  /\ NeverShort
  /\ OldestFirst

=============================================================================
