------------------------------ MODULE Powers ------------------------------
(***************************************************************************)
(* Powers, and numbers in a positional system: 1 << k in the range proof   *)
(* and in convertbits, and the digits of a coordinate.                     *)
(***************************************************************************)
EXTENDS Integers

Power(b, k) ==
  LET power[n \in 0 .. k] == IF n = 0 THEN 1 ELSE b * power[n - 1]
  IN  power[k]

\* The number of the digits s[1] .. s[m] in base b, the most significant first.
Horner(b, s, m) ==
  LET value[n \in 0 .. m] == IF n = 0 THEN 0 ELSE b * value[n - 1] + s[n]
  IN  value[m]

=============================================================================
