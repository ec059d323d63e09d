--------------------------- MODULE MCStreamRelay ----------------------------
(* StreamRelay for TLC. The runs differ in who takes part: a publisher with  *)
(* its file, an RTMP and an HTTP viewer; two publishers that fight for one   *)
(* key; a viewer whose request fails. Two packets let a writer fail in the   *)
(* first round and be missed in the second.                                  *)
EXTENDS StreamRelay
=============================================================================
