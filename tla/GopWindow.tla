------------------------------ MODULE GopWindow ------------------------------
(* What the cache of a stream promises: the newest metadata and sequence     *)
(* headers, and the groups of pictures that the newest Width key frames      *)
(* start, oldest first. Module StreamCache is the ring that implements it.   *)
EXTENDS Integers, Sequences

CONSTANTS
  Width,    \* groups of pictures kept, at least one
  NoPacket

VARIABLES published, metadata, videoSeq, audioSeq, window
vars == <<published, metadata, videoSeq, audioSeq, window>>

Init ==
  /\ published = <<>> /\ window = <<>>
  /\ metadata = NoPacket /\ videoSeq = NoPacket /\ audioSeq = NoPacket

\* The packet being published.
Newest(kind) == [kind |-> kind, n |-> Len(published) + 1]

Header ==
  \/ published' = Append(published, "metadata") /\ metadata' = Newest("metadata")
     /\ UNCHANGED <<videoSeq, audioSeq, window>>
  \/ published' = Append(published, "videoSeq") /\ videoSeq' = Newest("videoSeq")
     /\ UNCHANGED <<metadata, audioSeq, window>>
  \/ published' = Append(published, "audioSeq") /\ audioSeq' = Newest("audioSeq")
     /\ UNCHANGED <<metadata, videoSeq, window>>

\* A key frame starts a group and pushes the oldest out of a full window.
KeyFrame ==
  /\ published' = Append(published, "key")
  /\ window' = Append(IF Len(window) = Width THEN Tail(window) ELSE window,
                      <<Newest("key")>>)
  /\ UNCHANGED <<metadata, videoSeq, audioSeq>>

\* Any other frame joins the newest group, if there is one.
InterFrame ==
  /\ published' = Append(published, "inter")
  /\ window' = IF window = <<>> THEN window
               ELSE [window EXCEPT ![Len(window)] = Append(@, Newest("inter"))]
  /\ UNCHANGED <<metadata, videoSeq, audioSeq>>

Audio ==
  /\ published' = Append(published, "audio")
  /\ UNCHANGED <<metadata, videoSeq, audioSeq, window>>

Next == Header \/ KeyFrame \/ InterFrame \/ Audio

Spec == Init /\ [][Next]_vars
=============================================================================
