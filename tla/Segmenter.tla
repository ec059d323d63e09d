----------------------------- MODULE Segmenter ------------------------------
(* What cutting a live stream into files promises: every frame goes into     *)
(* exactly one segment, the frames of one track stay in order, a segment is  *)
(* finished by the key frame that starts the next one or by the end of the   *)
(* stream, and what is finished never changes. How frames are packed, and    *)
(* when a key frame is late enough to cut, is left open.                     *)
EXTENDS Naturals, Sequences

CONSTANT Tracks          \* "video", "audio"

VARIABLES
  number,                \* how many frames have been accepted
  open,                  \* track -> the frames of the segment being made
  done,                  \* the finished segments
  over                   \* the stream has ended

vars == <<number, open, done, over>>

Nothing == [t \in Tracks |-> <<>>]

Init == number = 0 /\ open = Nothing /\ done = <<>> /\ over = FALSE

Accept(t) ==
  /\ ~over
  /\ number' = number + 1
  /\ open' = [open EXCEPT ![t] = Append(@, number')]
  /\ UNCHANGED <<done, over>>

\* A key frame ends the segment and is the first frame of the next.
Cut ==
  /\ ~over
  /\ number' = number + 1
  /\ done' = Append(done, open)
  /\ open' = [Nothing EXCEPT !["video"] = <<number'>>]
  /\ UNCHANGED over

\* The end of the stream ends the segment, unless there was never one to begin.
End ==
  /\ ~over
  /\ over' = TRUE
  /\ \/ done' = Append(done, open) /\ open' = Nothing
     \/ done = <<>> /\ UNCHANGED <<done, open>>
  /\ UNCHANGED number

Next == (\E t \in Tracks : Accept(t)) \/ Cut \/ End

Spec == Init /\ [][Next]_vars
=============================================================================
