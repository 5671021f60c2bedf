---------------------------- MODULE MCSpendWire ----------------------------
(***************************************************************************)
(* The instance of SpendWire that TLC checks.                              *)
(***************************************************************************)
EXTENDS SpendWire

\* 1 is a second spelling of the point 0; 2 and what is not named is no point.
MCRespelt == [w \in {0, 1, 3} |-> IF w = 1 THEN 0 ELSE w]

\* 3 is at or above the group order.
MCScalarWords == {0, 1, 2}

\* For each shape of a transaction, proofs whose points are p and scalars s:
\* two of our own (the second good in these places only), one that respells
\* every point, one with no point, one with no scalar.
MCTails ==
  UNION {LET layout == Layout(i, rounds)
             Of(p, s) == [k \in 1 .. Len(layout) |-> IF layout[k] = "point" THEN p ELSE s]
         IN  {Of(0, 0), Of(3, 2), Of(1, 1), Of(2, 0), Of(0, 3)} :
         i \in 1 .. MaxChaumV2Inputs,
         rounds \in {ProverRounds(t) : t \in 1 .. MaxV2Outputs}}

=============================================================================
