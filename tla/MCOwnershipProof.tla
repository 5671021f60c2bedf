-------------------------- MODULE MCOwnershipProof --------------------------
(***************************************************************************)
(* Instance of OwnershipProof: two keys with two addresses each, in a group *)
(* of three elements per generator.                                        *)
(***************************************************************************)
EXTENDS OwnershipProof

MCSpendKeys == {[s1 |-> 1, r |-> 2], [s1 |-> 2, r |-> 2]}
MCHashQ2(s, i) == (s + 2 * i) % Order

=============================================================================
