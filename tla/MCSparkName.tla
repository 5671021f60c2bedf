---------------------------- MODULE MCSparkName ----------------------------
(***************************************************************************)
(* Instance of SparkName: lengths on both sides of a one-byte CompactSize, *)
(* and validities on both sides of what the checks let through.            *)
(***************************************************************************)
EXTENDS SparkName

MCValidities == {-1, 1}

=============================================================================
