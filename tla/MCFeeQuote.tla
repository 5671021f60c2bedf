----------------------------- MODULE MCFeeQuote -----------------------------
(***************************************************************************)
(* Instance of FeeQuote: few payments over every wallet that can be made   *)
(* of a pool of coins, all of them in the cover sets.                      *)
(***************************************************************************)
EXTENDS FeeQuote

CONSTANTS PayAmounts, PoolValues

MCCoinPool ==
  {[v |-> PoolValues[n], nHeight |-> 1, nId |-> 1, coin |-> n] :
     n \in 1 .. Len(PoolValues)}

One(subtract) == {<<[amount |-> a, subtractFee |-> subtract]>> : a \in PayAmounts}

MCQuoteRequests ==
  [recipients : {<<>>, <<[amount |-> 2, subtractFee |-> FALSE]>>},
   privateRecipients : One(TRUE) \cup One(FALSE),
   coins : {<<>>},
   sets : {<<[setId |-> 1, coins |-> [n \in 1 .. Len(PoolValues) |-> n],
              hash32 |-> TRUE]>>},
   blockHashes : {{1}}, additional : {0}, version : {"V1", "V2"},
   extension : {FALSE}, longMemos : {{}}]

MCPoolValues == <<3, 3, 6, 9>>

=============================================================================
