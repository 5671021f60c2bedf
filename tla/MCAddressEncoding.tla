-------------------------- MODULE MCAddressEncoding --------------------------
(* Bytes of three bits and symbols of two: an address is nine bits, which    *)
(* five symbols hold with one to spare.                                      *)
EXTENDS AddressEncoding

\* Sensitive to the label, the network, the round and every byte.
MCDigest(label, network, i, u) ==
  LET weight[n \in 0 .. Len(u)] ==
        IF n = 0 THEN (IF label = "G" THEN 1 ELSE 2) + 3 * i
                      + (IF network = "m" THEN 0 ELSE 5)
        ELSE weight[n - 1] * 3 + u[n]
  IN  [j \in 1 .. DigestSize |-> (weight[Len(u)] * (j + 1) + j) % Power(2, ByteBits)]

\* 0 is the neutral element, 5 another spelling of the point of 2, 4 and 7 are
\* no points.
MCPointOf ==
  [b \in {0, 1, 2, 3, 5, 6} |->
     CASE b = 0 -> "O" [] b = 1 -> "P" [] b \in {2, 5} -> "Q"
       [] b = 3 -> "R" [] b = 6 -> "S"]

MCPrefixes == {<<"s", "m">>, <<"s", "t">>, <<"x", "m">>, <<"s", "m", "m">>, <<"s">>}

=============================================================================
