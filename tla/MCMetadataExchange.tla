------------------------- MODULE MCMetadataExchange -------------------------
(***************************************************************************)
(* A small instance of MetadataExchange for TLC: metadata pieces of 2      *)
(* bytes, a genuine info dict of 3 bytes (two pieces, the last one short), *)
(* and size hints that are rejected (0, above INT_MAX), wrong (2) or right *)
(* (3).  The clock starts past MIN_REPEAT_INTERVAL_SECS, as the wall clock *)
(* does, so a fresh piece may be requested at once.                        *)
(***************************************************************************)
EXTENDS MetadataExchange

MCHintSizes == {0, 2, TrueSize, IntMax + 1}

=============================================================================
