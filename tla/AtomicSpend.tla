---------------------------- MODULE AtomicSpend ----------------------------
(***************************************************************************)
(* What createSparkSendTransaction promises a wallet: a request is         *)
(* answered once and in one step, either by a transaction that spends the  *)
(* fewest coins that pay and settles every payment, or by a refusal for    *)
(* which there is a reason.  SparkSpend, with its fee loop, fee split and  *)
(* input loop, is shown to implement it (SpendRefinement).                 *)
(***************************************************************************)
EXTENDS Amounts, FiniteSets

CONSTANTS
  Requests,        (* requests: payment lists and a wallet's coins         *)
  NoRequest,       (* no request                                           *)
  WellFormed(_),   (* the request is one the program considers             *)
  Fee(_, _),       (* price of a request's transaction with n inputs       *)
  Fits(_, _),      (* a transaction of the request may have n inputs       *)
  Bindable(_, _)   (* the coins at these positions can be made inputs      *)

VARIABLES status, request, answer

atomicVars == <<status, request, answer>>

Answer ==
  [outcome : {"none", "refused", "paid"}, spent : SUBSET Nat, fee : Nat,
   paid : Seq(Nat), change : Nat]

NoTransaction(outcome) ==
  [outcome |-> outcome, spent |-> {}, fee |-> 0, paid |-> <<>>, change |-> 0]

-----------------------------------------------------------------------------
Asked(r) == r.recipients \o r.privateRecipients
AmountAsked(r) ==
  Total([i \in 1 .. Len(Asked(r)) |-> Asked(r)[i].amount], Len(Asked(r)))

\* The payments the fee is taken out of; the wallet pays it when none is.
Bearers(r) == {i \in 1 .. Len(Asked(r)) : Asked(r)[i].subtractFee}

Price(r, S) == Fee(r, Cardinality(S))

\* The coins at positions S pay for the request.
PaysFor(r, S) ==
  /\ Fits(r, Cardinality(S))
  /\ Value(r.coins, S) >= AmountAsked(r) + IF Bearers(r) = {} THEN Price(r, S) ELSE 0

\* The cheapest choices.
Cheapest(r) ==
  LET choices == {S \in SUBSET (1 .. Len(r.coins)) : PaysFor(r, S)}
  IN  {S \in choices : \A T \in choices : Price(r, S) <= Price(r, T)}

\* Every bearer can give up the largest share of the fee and get something.
Affordable(r, S) ==
  LET n == Cardinality(Bearers(r))
  IN  \A i \in Bearers(r) :
        Asked(r)[i].amount > (Price(r, S) \div n) + (Price(r, S) % n)

\* A refusal has a reason: the request, its funds, or every payment cannot be
\* met with some cheapest choice of coins.
Refusable(r) ==
  \/ ~WellFormed(r)
  \/ Cheapest(r) = {}
  \/ \E S \in Cheapest(r) : ~Affordable(r, S) \/ ~Bindable(r, S)

\* A transaction spends a cheapest choice of coins at its price, all of it
\* accounted for; the bearers of the fee bear it between them and still get
\* something, and everyone else is paid in full.
Settles(r, a) ==
  LET due(i) == Asked(r)[i].amount
  IN  /\ WellFormed(r)
      /\ a.spent \in Cheapest(r) /\ Bindable(r, a.spent)
      /\ a.fee = Price(r, a.spent)
      /\ Len(a.paid) = Len(Asked(r))
      /\ Value(r.coins, a.spent) = a.fee + Total(a.paid, Len(a.paid)) + a.change
      /\ AmountAsked(r) - Total(a.paid, Len(a.paid)) =
           IF Bearers(r) = {} THEN 0 ELSE a.fee
      /\ \A i \in 1 .. Len(Asked(r)) :
           IF i \in Bearers(r) THEN a.paid[i] \in 1 .. due(i) ELSE a.paid[i] = due(i)

-----------------------------------------------------------------------------
AtomicInit ==
  status = "idle" /\ request = NoRequest /\ answer = NoTransaction("none")

\* A wallet asks; a request may be refused at once.
Ask ==
  /\ status = "idle"
  /\ request' \in Requests
  /\ \/ status' = "asked" /\ answer' = answer
     \/ /\ Refusable(request')
        /\ status' = "answered" /\ answer' = NoTransaction("refused")

Refuse ==
  /\ status = "asked" /\ Refusable(request)
  /\ status' = "answered" /\ answer' = NoTransaction("refused")
  /\ UNCHANGED request

Settle ==
  /\ status = "asked"
  /\ answer' \in Answer /\ answer'.outcome = "paid" /\ Settles(request, answer')
  /\ status' = "answered"
  /\ UNCHANGED request

Deliver ==
  /\ status = "answered"
  /\ status' = "idle" /\ request' = NoRequest /\ answer' = NoTransaction("none")

AtomicNext == Ask \/ Refuse \/ Settle \/ Deliver

\* Every request is answered.
Answered == status = "asked" ~> status = "answered"

AtomicSafety == AtomicInit /\ [][AtomicNext]_atomicVars

AtomicSpec == AtomicSafety /\ Answered

=============================================================================
