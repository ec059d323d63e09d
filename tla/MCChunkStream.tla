---------------------------- MODULE MCChunkStream ----------------------------
(* ChunkStream for TLC: two streams and the control stream; messages of up   *)
(* to three chunks; three times that wrap, one of them extended. No          *)
(* definition tells audio from video, and no property is about liveness.     *)
EXTENDS ChunkStream, TLC

StreamSymmetry == Permutations(Streams)
=============================================================================
