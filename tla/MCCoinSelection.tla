-------------------------- MODULE MCCoinSelection --------------------------
(***************************************************************************)
(* The calls TLC tries: every list of up to MaxCoins coins over a few      *)
(* amounts and heights, amounts to send on both sides of every threshold,  *)
(* and sizes scaled down so that the fee rounds change the number of       *)
(* inputs.                                                                 *)
(***************************************************************************)
EXTENDS CoinSelection

CONSTANTS CoinValues, Heights, MaxCoins, Sends, Extras

Lists(n) ==
  [1 .. n -> {[v |-> v, nHeight |-> h, nId |-> 1, coin |-> 1]
                : v \in CoinValues, h \in Heights}]

MCCalls ==
  [required : Sends \cup {-1}, subtractFee : BOOLEAN,
   coins : UNION {Lists(n) : n \in 0 .. MaxCoins},
   mintNum : {1}, utxoNum : {0, 1}, additional : Extras,
   version : {"V1", "V2"}]
  \cup {[NoCall EXCEPT !.version = "unknown"]}
=============================================================================
