----------------------------- MODULE HlsWriter ------------------------------
(* The goroutine of an HLS writer, StreamWriter.muxPacket of hls/stream.go:  *)
(* it parses each packet, cuts a segment at a key frame that comes at least  *)
(* three seconds into it, packs audio frames in groups, and flushes what is  *)
(* left when its queue is closed or a packet cannot be demuxed. The queue    *)
(* itself is in PacketWriter, the cache the segments go to in TsCache. Other *)
(* writers of the same stream name (an encoder that came back) meet this one *)
(* only in the registry.                                                     *)
EXTENDS Integers, SequencesExt

CONSTANTS
  MaxFrames,         \* how many frames are accepted: a bound
  MaxOthers,         \* how often another writer of the name comes: a bound
  Duration,          \* duration: milliseconds after which a key frame cuts
  CacheMaxFrames,    \* cacheMaxFrames of audio.go
  Inc,               \* videoHZ*aacSampleLen/sampleRate: an audio frame's ticks
  Steps,             \* milliseconds from one frame to the next
  TimeModulus,       \* where timestamps wrap: 2^32 in the code
  Shapes             \* [size, hasDts] of the frames: one for a behaviour

ASSUME Bounds ==
  /\ MaxFrames \in Nat /\ MaxOthers \in Nat /\ Duration \in Nat
  /\ CacheMaxFrames \in 1..255 /\ Inc \in Nat \ {0} /\ Steps \subseteq Int
  /\ TimeModulus \in Nat \ {0}
  /\ Shapes \subseteq [size : Nat \ {0}, hasDts : BOOLEAN]

Mux == INSTANCE TsMuxer

Hz == 90             \* h264DefaultHz
SyncMs == 2          \* syncms of align.go
CcModulus == 16
Tables == {"pat", "pmt"}
Tracks == {"video", "audio"}

(* What flv.Demux and parse tell apart. "undecodable" is metadata, an end of  *)
(* sequence, another codec or a frame that does not parse: muxPacket goes on. *)
(* "malformed" is a header too short to demux: muxPacket returns.             *)
Kinds == {"key", "inter", "audio", "config", "undecodable", "malformed"}

VARIABLES
  shape,             \* the shape of this behaviour's frames
  time,              \* the timestamp of the newest frame accepted
  frames,            \* the frames accepted: a sequence of [kind, time]
  w,                 \* the fields of the StreamWriter, a record
  gone,              \* muxPacket has returned
  closing,           \* Close: "no", "deregistered", "closed"
  registered,        \* the registry's entry: "this", "other" or "none"
  others             \* how many other writers of the name have registered

vars == <<shape, time, frames, w, gone, closing, registered, others>>

NewStatus == [set |-> FALSE, first |-> 0, last |-> 0]

\* NewStreamWriter. The tables' counters are used and stepped, the tracks'
\* stepped and used: cc is what the next packet will carry.
Init ==
  /\ shape \in Shapes
  /\ time = 0 /\ frames = <<>> /\ gone = FALSE
  /\ w = [config |-> FALSE, stat |-> NewStatus, alignNum |-> 0, alignBase |-> 0,
          cache |-> <<>>, cachePts |-> 0, file |-> <<>>, segments |-> <<>>,
          firstCut |-> FALSE,
          cc |-> [p \in Tables \cup Tracks |-> IF p \in Tracks THEN 1 ELSE 0]]
  /\ closing = "no" /\ registered = "this" /\ others = 0

-----------------------------------------------------------------------------
(* What the handler's parts do to the writer's fields.                       *)

\* A unit is what one call of the muxer writes: the tables or a PES packet. It
\* has the counter of its first packet.
Written(x, unit) ==
  [x EXCEPT !.file = Append(@, unit), !.cc[unit.pid] = (@ + unit.packets) % CcModulus]

Pes(x, track, key, ids, pts, total) ==
  LET layout == Mux!Layout(key, total)
  IN [pid |-> track, packets |-> Len(layout), frames |-> ids, pts |-> pts,
      whole |-> Mux!Reassembles(layout), cc |-> x.cc[track]]

Table(x, pid) == [pid |-> pid, packets |-> 1, frames |-> <<>>, pts |-> 0,
                  whole |-> TRUE, cc |-> x.cc[pid]]

WriteTables(x) ==
  LET y == Written(x, Table(x, "pat")) IN Written(y, Table(y, "pmt"))

\* status.update
StatUpdate(x, t) ==
  [x EXCEPT !.stat = [set |-> TRUE, last |-> t,
                      first |-> IF @.set THEN @.first ELSE t]]

DurationMs(x) == x.stat.last - x.stat.first

\* audioCache.getFrame: the group is stamped in milliseconds.
AudioGroup(x) ==
  Pes(x, "audio", FALSE, x.cache, (x.cachePts \div Hz) * Hz,
      Len(x.cache) * shape.size + Mux!PesHeader(FALSE))

\* muxAudio: fewer frames than the limit stay in the cache.
MuxAudio(x, limit) ==
  IF Len(x.cache) < limit THEN x
  ELSE Written([x EXCEPT !.cache = <<>>], AudioGroup(x))

\* Mutant: the next segment gets no tables.
FlushBare(x) ==
  LET y == MuxAudio(x, 1) IN
  [y EXCEPT !.segments = Append(@, [units |-> y.file, duration |-> DurationMs(y)]),
            !.file = <<>>, !.stat = NewStatus]

\* Mutant: the status goes on from segment to segment.
FlushKeepsStatus(x) ==
  LET y == MuxAudio(x, 1) IN
  WriteTables([y EXCEPT
    !.segments = Append(@, [units |-> y.file, duration |-> DurationMs(y)]),
    !.file = <<>>, !.stat.first = y.stat.last])

\* Mutant: the cached audio is left for the next segment.
FlushWithoutAudio(x) ==
  WriteTables([x EXCEPT
    !.segments = Append(@, [units |-> x.file, duration |-> DurationMs(x)]),
    !.file = <<>>, !.stat = NewStatus])

\* flush2Cache
Flush(x) ==
  LET y == MuxAudio(x, 1) IN
  WriteTables([y EXCEPT
    !.segments = Append(@, [units |-> y.file, duration |-> DurationMs(y)]),
    !.file = <<>>, !.stat = NewStatus])

\* cut, called for a key frame before it is counted or written.
Cut(x) ==
  IF ~x.firstCut THEN WriteTables([x EXCEPT !.firstCut = TRUE])
  ELSE IF DurationMs(x) >= Duration THEN Flush(x) ELSE x

\* align.align: close to the estimate, the estimate; else a new base.
Near(a, b) == (IF a >= b THEN a - b ELSE b - a) <= SyncMs * Hz

Aligned(x, dts) ==
  LET est == x.alignBase + x.alignNum * Inc IN
  IF Near(est, dts)
  THEN [to |-> est, x |-> [x EXCEPT !.alignNum = @ + 1]]
  ELSE [to |-> dts, x |-> [x EXCEPT !.alignNum = 1, !.alignBase = dts]]

\* tsMux of a video frame
MuxVideo(x, id, t, key) ==
  Written(x, Pes(x, "video", key, <<id>>, t * Hz,
                 shape.size + Mux!PesHeader(shape.hasDts)))

\* Mutant: a group has the time of its newest frame.
CacheAudioNewest(x, id, t) ==
  LET a == Aligned(x, t * Hz) IN
  MuxAudio([a.x EXCEPT !.cache = Append(@, id), !.cachePts = a.to], CacheMaxFrames)

\* calcPtsDts and tsMux of an audio frame: audioCache.cache, then muxAudio.
CacheAudio(x, id, t) ==
  LET a == Aligned(x, t * Hz) IN
  MuxAudio([a.x EXCEPT !.cache = Append(@, id),
                       !.cachePts = IF x.cache = <<>> THEN a.to ELSE @],
           CacheMaxFrames)

\* What a packet of each kind makes of the writer; audio before its
\* configuration does not parse.
Decodes(kind) == kind \in {"key", "inter"} \/ (kind = "audio" /\ w.config)

Handled(kind, id, t) ==
  CASE kind = "key"   -> MuxVideo(StatUpdate(Cut(w), t), id, t, TRUE)
    [] kind = "inter" -> MuxVideo(StatUpdate(w, t), id, t, FALSE)
    [] kind = "audio" -> CacheAudio(StatUpdate(w, t), id, t)

\* The deferred function of muxPacket, up to its call of Close.
Ended == IF w.firstCut THEN Flush(w) ELSE w

-----------------------------------------------------------------------------
(* Steps. A packet still in the queue is taken even after Close.             *)

TakeFrame(kind, step) ==
  /\ ~gone /\ Decodes(kind) /\ Len(frames) < MaxFrames
  /\ time' = (time + step) % TimeModulus
  /\ frames' = Append(frames, [kind |-> kind, time |-> time'])
  /\ w' = Handled(kind, Len(frames'), time')
  /\ UNCHANGED <<shape, gone, closing, registered, others>>

\* The configuration is parsed; what else is no frame changes nothing.
TakeOther(kind) ==
  /\ ~gone /\ ~Decodes(kind) /\ kind # "malformed"
  /\ w' = [w EXCEPT !.config = @ \/ kind = "config"]
  /\ UNCHANGED <<shape, time, frames, gone, closing, registered, others>>

TakeMalformed ==
  /\ ~gone
  /\ w' = Ended /\ gone' = TRUE
  /\ UNCHANGED <<shape, time, frames, closing, registered, others>>

\* !ok: the queue is closed and empty.
EndOfQueue ==
  /\ ~gone /\ closing = "closed"
  /\ w' = Ended /\ gone' = TRUE
  /\ UNCHANGED <<shape, time, frames, closing, registered, others>>

\* Mutant: muxPacket returns without a call of Close.
DeregisterByOthers ==
  /\ ~gone
  /\ closing = "no"
  /\ closing' = "deregistered" /\ registered' = "none"
  /\ UNCHANGED <<shape, time, frames, w, gone, others>>

\* Close, by the publisher, the shutdown hook or muxPacket itself: the name is
\* deleted, whoever is registered, before the queue is closed.
Deregister ==
  /\ closing = "no"
  /\ closing' = "deregistered" /\ registered' = "none"
  /\ UNCHANGED <<shape, time, frames, w, gone, others>>

CloseQueue ==
  /\ closing = "deregistered"
  /\ closing' = "closed"
  /\ UNCHANGED <<shape, time, frames, w, gone, registered, others>>

\* NewStreamWriter and Close of another writer of the name.
OtherRegisters ==
  /\ others < MaxOthers
  /\ others' = others + 1 /\ registered' = "other"
  /\ UNCHANGED <<shape, time, frames, w, gone, closing>>

OtherDeregisters ==
  /\ others > 0
  /\ registered' = "none"
  /\ UNCHANGED <<shape, time, frames, w, gone, closing, others>>

Next ==
  \/ \E kind \in Kinds, step \in Steps : TakeFrame(kind, step)
  \/ \E kind \in Kinds : TakeOther(kind)
  \/ TakeMalformed \/ EndOfQueue \/ Deregister \/ CloseQueue
  \/ OtherRegisters \/ OtherDeregisters

Spec == Init /\ [][Next]_vars

\* muxPacket runs on to the end of a closed queue, whatever it takes on the way,
\* and on its way out calls Close, which waits for nothing.
Fairness == /\ WF_gone(closing = "closed" /\ gone' = TRUE)
            /\ WF_vars(gone /\ Deregister) /\ WF_vars(CloseQueue)

FairSpec == Spec /\ Fairness

-----------------------------------------------------------------------------
(* Properties.                                                               *)

UnitsOf(k) == w.segments[k].units
Ids(units) == UNION {ToSet(units[i].frames) : i \in DOMAIN units}
IsKey(u) == u.pid = "video" /\ frames[u.frames[1]].kind = "key"

\* Every frame reassembles, but for a key frame so small that its one packet
\* has both the PCR and stuffing: 175 bytes of PES packet or less, 177 to 183.
TooSmall(u) ==
  LET total == shape.size + Mux!PesHeader(shape.hasDts) IN
  IsKey(u) /\ total < Mux!Body /\ total # Mux!Body - 8

\* A player that starts at any segment can decode it: from the second on it
\* begins with the tables and a key frame, the first has them somewhere and no
\* key frame before them; the continuity counters run on through all segments
\* and the file being written; and frames reassemble, but for those TooSmall.
\* (cut, flush2Cache and Muxer.WritePacket: counters, tables and order.)
SegmentsDecode ==
  LET all == FlattenSeq([k \in DOMAIN w.segments |-> UnitsOf(k)]) \o w.file
  IN /\ \A i, j \in DOMAIN all :
          i < j /\ all[i].pid = all[j].pid /\ (\A m \in i + 1 .. j - 1 : all[m].pid # all[i].pid)
            => all[j].cc = (all[i].cc + all[i].packets) % CcModulus
     /\ \A i \in DOMAIN all : all[i].whole <=> ~TooSmall(all[i])
     /\ \A k \in DOMAIN w.segments :
          LET u == UnitsOf(k) IN
          /\ k > 1 => /\ u[1].pid = "pat" /\ u[2].pid = "pmt"
                      /\ Len(u) > 2 => IsKey(u[3])
          /\ \E i \in DOMAIN u : /\ u[i].pid = "pat" /\ u[i + 1].pid = "pmt"
                                 /\ \A j \in DOMAIN u : IsKey(u[j]) => i < j

\* The duration a segment is listed with is the time from its first frame to
\* its last, cached audio included; a segment that a key frame ended is at
\* least Duration long, and a key frame inside one came before Duration was
\* over, or was the first of the stream.
\* (status over cut and flush2Cache: update follows the cut, reset the flush.)
DurationsHonest ==
  \A k \in DOMAIN w.segments :
     LET ids == Ids(UnitsOf(k))
         first == CHOOSE i \in ids : \A j \in ids : i <= j
         last == CHOOSE i \in ids : \A j \in ids : i >= j
         keys == {i \in DOMAIN frames : frames[i].kind = "key"}
         since(i) == frames[i].time - frames[first].time
     IN /\ w.segments[k].duration = IF ids = {} THEN 0 ELSE since(last)
        /\ (k < Len(w.segments) \/ ~gone) => w.segments[k].duration >= Duration
        /\ \A i \in (ids \cap keys) \ {first} :
             since(i - 1) < Duration \/ \A j \in keys : i <= j

\* A group of audio frames is stamped within two milliseconds (and one lost to
\* rounding) of its first frame, whatever was cached, aligned or flushed before.
\* (align, audioCache and muxAudio.)
AudioInSync ==
  \A u \in ToSet(w.file) \cup UNION {ToSet(s.units) : s \in ToSet(w.segments)} :
     u.pid = "audio" =>
        LET due == frames[u.frames[1]].time * Hz
        IN u.pts - due \in -(SyncMs + 1) * Hz .. SyncMs * Hz

\* What the goroutine does to frames is cutting a stream into segments: none is
\* lost, repeated or moved to another segment, those still in the audio cache
\* included, and the end of the stream stores the rest.
InTrack(units, t) ==
  FlattenSeq([i \in DOMAIN units |-> IF units[i].pid = t THEN units[i].frames ELSE <<>>])

Segmented == INSTANCE Segmenter WITH
  number <- Len(frames),
  open <- [t \in Tracks |-> InTrack(w.file, t) \o (IF t = "audio" THEN w.cache ELSE <<>>)],
  done <- [k \in DOMAIN w.segments |-> [t \in Tracks |-> InTrack(UnitsOf(k), t)]],
  over <- gone

CutsTheStream == Segmented!Spec

\* Once somebody closes the writer, or a packet makes muxPacket return, the
\* goroutine ends, the queue is closed and the writer is out of the registry,
\* even if another of its name takes the entry meanwhile.
EndIsComplete ==
  (closing # "no" \/ gone) ~> (gone /\ closing = "closed" /\ registered # "this")
=============================================================================
