------------------------------ MODULE Amounts ------------------------------
(***************************************************************************)
(* Sums of amounts.  Every total in the spend code (a wallet balance, the  *)
(* recipients' amounts, the selected coins) is a loop that adds one        *)
(* element at a time to an accumulator; Total is the accumulator after the *)
(* first n elements of f.                                                  *)
(***************************************************************************)
EXTENDS Integers, Sequences

Total(f, n) ==
  LET acc[i \in 0 .. n] == IF i = 0 THEN 0 ELSE acc[i - 1] + f[i]
  IN  acc[n]

\* The value of the entries of the coin list whose positions are in S.
Value(coins, S) ==
  Total([i \in 1 .. Len(coins) |-> IF i \in S THEN coins[i].v ELSE 0],
        Len(coins))

\* CalculateSparkCoinsBalance: the value of the whole list.
Balance(coins) == Value(coins, 1 .. Len(coins))

=============================================================================
