--------------------------- MODULE MCPacketWriter ---------------------------
(* PacketWriter for TLC: all four writers over a queue of two places and     *)
(* four packets (three for the file alone), so that the queue fills, a       *)
(* blocked send waits, the second rtmp send finds it full and a Close meets  *)
(* a backlog.                                                                *)
EXTENDS PacketWriter
=============================================================================
