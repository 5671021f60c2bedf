------------------------------ MODULE FeeQuote ------------------------------
(***************************************************************************)
(* A wallet that asks estimateSparkFee for a fee, shows it to the user,    *)
(* and later calls createSparkSpendTransaction for the payment, while its  *)
(* coins come and go.  Nothing of the first call is kept for the second.   *)
(***************************************************************************)
EXTENDS SparkSpend, Functions

CONSTANTS
  CoinPool,    (* coins the wallet may receive, each of them once          *)
  MaxWallet    (* bound: coins held at a time                              *)

ASSUME CoinPoolAssumption ==
  CoinPool \subseteq CoinMeta /\ MaxWallet \in Nat

VARIABLES
  coins,     (* the coins of the wallet, in the order it passes them       *)
  unseen,    (* coins not received yet                                     *)
  asked,     (* the payment the user is asked about, or NoRequest          *)
  quote      (* the quoted fee and the coins it was asked for, or NoQuote  *)

quoteVars == <<coins, unseen, asked, quote>>
allVars == <<vars, quoteVars>>

NoQuote == [answer |-> "none", fee |-> 0, coins |-> <<>>]

QuoteInit ==
  /\ Init
  /\ coins = <<>> /\ unseen = CoinPool /\ asked = NoRequest /\ quote = NoQuote

\* Neither native call is running: both are synchronous.
Free == at = "idle" /\ pc = "idle"

Receive(c) ==
  /\ Free /\ Len(coins) < MaxWallet
  /\ \/ coins' = Append(coins, c)
     \/ coins' = <<c>> \o coins
  /\ unseen' = unseen \ {c}
  /\ UNCHANGED <<vars, asked, quote>>

\* A coin turns out to be spent, by another device.
Lose(i) ==
  /\ Free
  /\ coins' = SubSeq(coins, 1, i - 1) \o SubSeq(coins, i + 1, Len(coins))
  /\ UNCHANGED <<vars, unseen, asked, quote>>

\* The arguments estimateSparkFee passes on: the amount in all, whether the
\* recipients bear the fee, and how many recipients there are.
QuoteCall(r) ==
  [required |-> Sum(AmountsOf(r.recipients)) + Sum(AmountsOf(r.privateRecipients)),
   subtractFee |-> \E p \in Range(r.recipients \o r.privateRecipients) :
                     p.subtractFee,
   coins |-> coins, mintNum |-> Len(r.privateRecipients),
   utxoNum |-> Len(r.recipients), additional |-> r.additional,
   version |-> r.version]

EstimateFee(r) ==
  /\ Free /\ quote.answer = "none"
  /\ asked' = r
  /\ SelectSparkCoins(QuoteCall(r))
  /\ UNCHANGED <<spendVars, coins, unseen, quote>>

TakeQuote ==
  /\ pc = "idle" /\ at \in {"ok", "error"}
  /\ quote' = [answer |-> at, fee |-> fee, coins |-> coins]
  /\ Return
  /\ UNCHANGED <<spendVars, coins, unseen, asked>>

Pay ==
  /\ Free /\ quote.answer # "none"
  /\ CreateSparkSpend([asked EXCEPT !.coins = coins])
  /\ UNCHANGED quoteVars

\* The coins in usedCoins leave the list.
Used(c) == \E i \in picked : call.coins[i] = c
Unused ==
  LET kept[n \in 0 .. Len(coins)] ==
        IF n = 0 THEN <<>>
        ELSE IF Used(coins[n]) THEN kept[n - 1] ELSE Append(kept[n - 1], coins[n])
  IN  kept[Len(coins)]

EndPayment ==
  /\ ReturnSpend /\ pc # "idle"
  /\ coins' = IF pc = "done" THEN Unused ELSE coins
  /\ asked' = NoRequest /\ quote' = NoQuote
  /\ UNCHANGED unseen

QuoteNext ==
  \/ \E c \in unseen : Receive(c)
  \/ \E i \in 1 .. Len(coins) : Lose(i)
  \/ \E r \in Requests : EstimateFee(r)
  \/ TakeQuote
  \/ Pay
  \/ SpendStep /\ UNCHANGED quoteVars
  \/ EndPayment

QuoteSpec == QuoteInit /\ [][QuoteNext]_allVars

-----------------------------------------------------------------------------
\* The payment's own selection has succeeded.
Selected == pc \in {"fill", "inputs", "done"}

\* The fee the user agreed to holds, though the spend counts its recipients
\* and selects its coins anew.  If coins have only come in since, in whatever
\* order the wallet now lists them, the payment still finds its coins and is
\* charged no more; if coins have only left, no less; and so the same if the
\* wallet is the same.
QuoteHolds ==
  quote.answer = "ok" =>
    /\ Range(quote.coins) \subseteq Range(coins) =>
         /\ Selected => fee <= quote.fee
         /\ pc = "select" /\ Balance(coins) <= MaxMoney => at # "error"
    /\ Range(coins) \subseteq Range(quote.coins) =>
         (Selected => fee >= quote.fee)

=============================================================================
