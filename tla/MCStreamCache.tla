---------------------------- MODULE MCStreamCache ----------------------------
(* StreamCache for TLC: a ring of two groups with every kind of packet that  *)
(* matters to a viewer, long enough for the index to come round twice.       *)
EXTENDS StreamCache
=============================================================================
