----------------------------- MODULE MCSfuRoom ------------------------------
(* SfuRoom for TLC: two connections, of two users or of one who joins again  *)
(* while the first connection is still closing, and somebody who watches.    *)
EXTENDS SfuRoom, TLC

MCUserMaps == [Joins -> Users]
Swaps == Permutations(Joins) \cup Permutations(Users)
=============================================================================
