---------------------------- MODULE MCSparkSpend ----------------------------
(***************************************************************************)
(* Two families of requests: many payment lists over few wallets, for the  *)
(* fee split and the outputs, and few payment lists over wallets that span *)
(* groups, with cover sets missing, incomplete or oversized.               *)
(***************************************************************************)
EXTENDS SpendRefinement

CONSTANTS PayAmounts, MaxPublic, MaxPrivate, Wallets, CoverSets

Lists(S, n) == UNION {[1 .. k -> S] : k \in 0 .. n}

Coin(v, g, id) == [v |-> v, nHeight |-> id, nId |-> g, coin |-> id]

\* Wallets by name, so that a cfg can list them.
Wallet(w) ==
  CASE w = "one"   -> <<Coin(12, 1, 1)>>
    [] w = "many"  -> <<Coin(3, 2, 1), Coin(9, 1, 2), Coin(2, 2, 3)>>
    [] w = "zero"  -> <<Coin(8, 0, 1), Coin(4, 3, 2)>>
    [] w = "over"  -> <<Coin(15, 1, 1), Coin(15, 1, 2)>>

FullSet(g) == [setId |-> g, coins |-> <<1, 2, 3>>, hash32 |-> TRUE]

Pay(amounts) == [amount : amounts, subtractFee : BOOLEAN]

\* Payment lists for every wallet, the whole range of good amounts in them.
PaymentRequests ==
  [recipients : Lists(Pay(PayAmounts), MaxPublic),
   privateRecipients : Lists(Pay(PayAmounts), MaxPrivate),
   coins : {Wallet(w) : w \in Wallets},
   sets : {<<FullSet(0), FullSet(1), FullSet(2), FullSet(3)>>},
   blockHashes : {{0, 1, 2, 3}}, additional : {0},
   version : {"V1", "V2"}, extension : {FALSE}, longMemos : {{}}]

\* Requests the first checks refuse: amounts out of range alone or in sum,
\* one private recipient too many, an extension on V1, an unknown version.
RefusedRequests ==
  LET odd == {-1, MaxMoney \div 2 + 1, MaxMoney + 1}
  IN  [recipients : Lists([amount : odd, subtractFee : {FALSE}], 2),
       privateRecipients :
         Lists([amount : odd, subtractFee : {FALSE}], 2)
           \cup [1 .. SparkOutLimit - 1 -> [amount : {1}, subtractFee : {FALSE}]],
       coins : {Wallet("one")}, sets : {<<>>}, blockHashes : {{}},
       additional : {0}, version : {"V1", "V2", "unknown"},
       extension : BOOLEAN, longMemos : {{}}]

\* Every way a cover set can be wrong, in V2 and V1.
CoverRequests ==
  [recipients : {<<>>},
   privateRecipients : {<<[amount |-> 5, subtractFee |-> f]>> : f \in BOOLEAN},
   coins : {Wallet("one"), Wallet("many"), Wallet("zero")},
   sets : Lists([setId : {0, 1, 2}, coins : CoverSets, hash32 : BOOLEAN], 2),
   blockHashes : {{0, 1, 2, 3}, {1}}, additional : {0},
   version : {"V1", "V2"}, extension : {FALSE}, longMemos : {{}, {1}}]

MCRequests == PaymentRequests \cup RefusedRequests \cup CoverRequests
MCCoverSets == {<<1, 2, 3>>, <<2>>, <<3, 2, 1, 1>>}

=============================================================================
