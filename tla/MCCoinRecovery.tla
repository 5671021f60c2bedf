--------------------------- MODULE MCCoinRecovery ---------------------------
(***************************************************************************)
(* Instance of CoinRecovery: one key on two devices and another on a third. *)
(***************************************************************************)
EXTENDS CoinRecovery

CONSTANTS k1, k2, d1, d2, d3

MCKeyOf == [d \in Devices |-> IF d = d3 THEN k2 ELSE k1]

\* To both keys; the last has a memo that does not fit.
MCPayments ==
  {[key |-> k1, i |-> 1, v |-> 2, memo |-> 0],
   [key |-> k2, i |-> 1, v |-> 1, memo |-> MemoBytes],
   [key |-> k1, i |-> 2, v |-> 1, memo |-> MemoBytes + 1]}

=============================================================================
