----------------------------- MODULE StreamCache -----------------------------
(* The cache a viewer is served from when it joins: the newest metadata and  *)
(* sequence headers, and a ring of groups of pictures; and what one viewer   *)
(* is handed, first from the cache and then live.                            *)
(*                                                                           *)
(* rtmp/stream.go 158-186 and 228-288, rtmp/gop.go, rtmp/registry.go 46-63.  *)
EXTENDS Integers, SequencesExt

CONSTANTS
  RequestedGops, \* the argument of newGopRingQueue
  Sent,          \* kinds of packets this publisher sends
  MaxPackets     \* bound: packets published

Kinds == {"metadata", "videoSeq", "audioSeq", "audio", "key", "inter"}

ASSUME CacheAssumption ==
  RequestedGops \in Int /\ Sent \subseteq Kinds /\ MaxPackets \in Nat

GopNum == IF RequestedGops <= 0 THEN 1 ELSE RequestedGops
Slots == 0 .. GopNum - 1
Packets == [kind : Kinds, n : 1 .. MaxPackets]
NoPacket == [kind |-> "none", n |-> 0]

VARIABLES
  metadata, videoSeq, audioSeq, \* the newest of each, or NoPacket
  start, index,                 \* gopRingQueue
  queue,                        \* slot -> its packets; no packet: a nil gop
  running,                      \* start() has not returned
  viewer,                       \* "absent", "new" in the registry, "live", "gone"
  received,                     \* what the viewer's writer was handed
  published                     \* kinds of the packets so far (history)

headerVars == <<metadata, videoSeq, audioSeq>>
ringVars == <<start, index, queue>>
viewerVars == <<running, viewer, received>>
vars == <<headerVars, ringVars, viewerVars, published>>

Init ==
  /\ metadata = NoPacket /\ videoSeq = NoPacket /\ audioSeq = NoPacket
  /\ start = FALSE /\ index = -1 /\ queue = [i \in Slots |-> <<>>]
  /\ running = TRUE /\ viewer = "absent" /\ received = <<>> /\ published = <<>>

\* gopRingQueue.add: a key frame takes the next slot, emptied; until the first
\* one nothing is kept.
RingAdd(p) ==
  IF p.kind = "key"
    THEN /\ start' = TRUE
         /\ index' = (index + 1) % GopNum
         /\ queue' = [queue EXCEPT ![index'] = <<p>>]
    ELSE /\ queue' = IF start THEN [queue EXCEPT ![index] = Append(@, p)] ELSE queue
         /\ UNCHANGED <<start, index>>

\* Mutant of CacheAdd: the first header of its kind stays for good.
CacheAddFirstHeaders(p) ==
  /\ metadata' = IF p.kind = "metadata" THEN p ELSE metadata
  /\ videoSeq' = IF p.kind = "videoSeq" /\ videoSeq = NoPacket THEN p ELSE videoSeq
  /\ audioSeq' = IF p.kind = "audioSeq" /\ audioSeq = NoPacket THEN p ELSE audioSeq
  /\ IF p.kind \in {"key", "inter"} THEN RingAdd(p) ELSE UNCHANGED ringVars

\* streamCache.add: headers have a place of their own, audio is not cached.
CacheAdd(p) ==
  /\ metadata' = IF p.kind = "metadata" THEN p ELSE metadata
  /\ videoSeq' = IF p.kind = "videoSeq" THEN p ELSE videoSeq
  /\ audioSeq' = IF p.kind = "audioSeq" THEN p ELSE audioSeq
  /\ IF p.kind \in {"key", "inter"} THEN RingAdd(p) ELSE UNCHANGED ringVars

\* Mutant of GopsOldestFirst: the slots in the order of the array.
GopsAsStored ==
  LET last == IF queue[GopNum - 1] # <<>> THEN GopNum ELSE index + 1
  IN  [i \in 1 .. last |-> queue[i - 1]]

\* The two loops of gopRingQueue.send: behind the index if the ring has gone
\* round, then from the start to the index.
GopsOldestFirst ==
  (IF queue[GopNum - 1] # <<>>
     THEN [i \in 1 .. GopNum - 1 - index |-> queue[index + i]] ELSE <<>>)
  \o [i \in 1 .. index + 1 |-> queue[i - 1]]

\* streamCache.send.
CacheSends ==
  LET Header(p) == IF p = NoPacket THEN <<>> ELSE <<p>>
  IN  Header(metadata) \o Header(videoSeq) \o Header(audioSeq)
        \o FlattenSeq(GopsOldestFirst)

\* Mutant of Serve: the cache is sent before every packet.
ServeCacheEachTime(p) ==
  /\ viewer' = IF viewer = "new" THEN "live" ELSE viewer
  /\ received' = IF viewer \in {"new", "live"} THEN received \o CacheSends' \o <<p>>
                 ELSE received
  /\ UNCHANGED running

\* The rest of the iteration for this viewer: writeCache the first time, then
\* the packet itself, which the cache holds already. The writer may have been
\* closed at any point; when that happens during writeCache, start() returns.
Serve(p) ==
  \/ viewer \in {"absent", "gone"} /\ UNCHANGED viewerVars
  \/ /\ viewer = "new" /\ viewer' = "live"
     /\ received' = Append(CacheSends', p)
     /\ UNCHANGED running
  \/ /\ viewer = "new" /\ viewer' = "gone"
     /\ \E taken \in 0 .. Len(CacheSends') :
          /\ received' = SubSeq(CacheSends', 1, taken)
          /\ running' = (taken = Len(CacheSends'))
  \/ /\ viewer = "live"
     /\ received' = Append(received, p)
     /\ UNCHANGED <<running, viewer>>
  \/ viewer = "live" /\ viewer' = "gone" /\ UNCHANGED <<running, received>>

\* One iteration of streamPublisher.start.
Publish(kind) ==
  LET p == [kind |-> kind, n |-> Len(published) + 1] IN
  /\ running /\ Len(published) < MaxPackets
  /\ published' = Append(published, kind)
  /\ CacheAdd(p)
  /\ Serve(p)

\* A viewer registers between two calls of getMembers.
Join ==
  /\ viewer = "absent" /\ viewer' = "new"
  /\ UNCHANGED <<headerVars, ringVars, running, received, published>>

Next == Join \/ \E kind \in Sent : Publish(kind)

Spec == Init /\ [][Next]_vars

-----------------------------------------------------------------------------
(* Properties.                                                               *)

IsFrame(p) == p.kind \in {"key", "inter"}
At(kind) == {n \in 1 .. Len(published) : published[n] = kind}
FramesAt == At("key") \cup At("inter")
FramesHad == {i \in 1 .. Len(received) : IsFrame(received[i])}
IsHad(n) == \E i \in FramesHad : received[i].n = n

\* A viewer that joined after a key frame starts with one, and from then on it
\* has had every frame up to the newest while it is live; at most the packet of
\* the iteration it joined in comes twice, once from the cache and once live
\* (rtmp/stream.go 172-184).
GapFree ==
  /\ \A i, j \in FramesHad : i < j => received[i].n <= received[j].n
  /\ \A i, j, k, l \in FramesHad :
       i < j /\ k < l /\ received[i].n = received[j].n /\ received[k].n = received[l].n
         => i = k /\ j = l
  /\ \A i, j \in FramesHad : \A n \in FramesAt :
       received[i].n <= n /\ (viewer = "live" \/ n <= received[j].n) => IsHad(n)
  /\ \A i \in FramesHad :
       received[i].kind = "inter" /\ (\A j \in FramesHad : i <= j)
         => \A n \in At("key") : n > received[i].n

\* The sequence header of a kind that was in force for packet n, 0 for none.
InForce(header, n) == Max({0} \cup {m \in At(header) : m < n})
\* The last one of that kind the viewer had been handed before position i.
Handed(header, i) ==
  LET before == {j \in 1 .. i - 1 : received[j].kind = header}
  IN  IF before = {} THEN 0 ELSE received[Max(before)].n

\* A viewer decodes every audio frame with the header the publisher coded it
\* with; a video frame with that header or, for a cached group of pictures from
\* before a change of parameters, a newer one: never without, never with an
\* older one (rtmp/stream.go 241-288).
HeadersFirst ==
  \A i \in 1 .. Len(received) :
    /\ received[i].kind = "audio" =>
         Handed("audioSeq", i) = InForce("audioSeq", received[i].n)
    /\ IsFrame(received[i]) =>
         Handed("videoSeq", i) >= InForce("videoSeq", received[i].n)

\* What the cache replays is a sliding window over the groups of pictures:
\* however long the stream and wherever the ring stands, each packet of the
\* last GopNum groups, none missing, none twice, in order (rtmp/gop.go 50-93).
Window == INSTANCE GopWindow WITH Width <- GopNum, window <- GopsOldestFirst
SlidingWindow == Window!Spec
=============================================================================
