------------------------------ MODULE MCTsCache ------------------------------
(* TsCache for TLC: a ring of two segments, so that a player's playlist is   *)
(* stale after two more, served from memory or from files.                   *)
EXTENDS TsCache
=============================================================================
