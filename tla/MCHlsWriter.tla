---------------------------- MODULE MCHlsWriter -----------------------------
(* HlsWriter for TLC. Steps of 23 milliseconds keep audio aligned, steps of  *)
(* three seconds make a segment due, and the clock wraps at five seconds.    *)
(* The shapes lay a key frame out in 176, 179 and 184 bytes: just one packet *)
(* with the PCR, the gap where stuffing does not fit, and two. Groups of     *)
(* audio have two frames, not six.                                           *)
EXTENDS HlsWriter

MCSteps == {23, 3000}
MCShapes == {[size |-> 162, hasDts |-> FALSE], [size |-> 165, hasDts |-> FALSE],
             [size |-> 165, hasDts |-> TRUE]}
=============================================================================
