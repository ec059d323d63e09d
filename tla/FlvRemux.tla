------------------------------ MODULE FlvRemux ------------------------------
(***************************************************************************)
(* From the bytes of an FLV stream to the segments of a fragmented MP4, in *)
(* the player the server hands out (resources/flv.js): FLVDemuxer takes    *)
(* whole tags off what it is given and queues their frames per track;      *)
(* MP4Remuxer turns a batch of frames into a media segment, always holding *)
(* one frame back because a frame's duration is the distance to the next.  *)
(*                                                                         *)
(* Everything here is a function on one record, the state of demuxer and   *)
(* remuxer ("x" below) with the segments they have emitted in "out".       *)
(*                                                                         *)
(* A stream is a sequence of tags and is sent as units: <<0, 1>> and       *)
(* <<0, 2>> are the file header up to its ninth byte and the rest of it    *)
(* with PreviousTagSize0, <<i, 1>> and <<i, 2>> the two halves of tag i,   *)
(* so that any cut the code can notice falls between two units.  Sound is  *)
(* AAC and pictures are AVC; a "foreign" tag has another codec.            *)
(***************************************************************************)
EXTENDS SpsParser, AacConfig

CONSTANTS Ref,      \* refSampleDuration of each type, in units of time
          Sps,      \* the parameter set of each configuration of the pictures, in bytes
          Asc       \* the AudioSpecificConfig of each configuration of the sound

Types == {"video", "audio"}
NoMeta == 0     \* the configuration of a track that has none
Unset  == -1    \* undefined, or a dtsBase that is not known yet

ASSUME RefAssumption == Ref \in [Types -> Nat \ {0}]

\* The code knows the rates and the channels: an error comes of others.
ASSUME SpsAssumption == \A c \in DOMAIN Sps : Sps[c] \in Seq(0..255)
ASSUME AscAssumption ==
    \A c \in DOMAIN Asc :
       SamplingIndex(Asc[c]) < Len(MpegSamplingRates) /\ Channels(Asc[c]) < 8

(***************************************************************************)
(* The records.  A track holds what the demuxer has queued for it and what *)
(* the remuxer knows of it.                                                *)
(***************************************************************************)
NewTrack == [queue |-> <<>>, stash |-> <<>>, next |-> Unset, meta |-> NoMeta]

\* The header's flags say sound and pictures, whatever the stream holds.
NewDemuxer == [has      |-> [t \in Types |-> TRUE],
               seen     |-> [t \in Types |-> FALSE],
               done     |-> [t \in Types |-> FALSE],
               first    |-> TRUE,
               dispatch |-> FALSE]

NewTransmuxer == [demux  |-> NewDemuxer,
                  tracks |-> [t \in Types |-> NewTrack],
                  base   |-> Unset,
                  parsed |-> 0,
                  out    |-> <<>>]

-----------------------------------------------------------------------------
(***************************************************************************)
(* The remuxer.                                                            *)
(***************************************************************************)
\* Mutant: the sample held back from the last batch is forgotten.
BatchOfQueue(k, queue) ==
    IF Len(queue) > 1
    THEN [samples |-> Front(queue), held |-> <<Last(queue)>>]
    ELSE [samples |-> queue, held |-> <<>>]

\* A track's samples once the one at the end has been held back and the one
\* held back before has been put in front.
Batch(k, queue) ==
    IF Len(queue) > 1
    THEN [samples |-> k.stash \o Front(queue), held |-> <<Last(queue)>>]
    ELSE [samples |-> k.stash \o queue, held |-> <<>>]

\* How far the times of a batch are moved: on from where the last one ended.
DtsCorrection(k, base, batch) ==
    IF k.next > 0 THEN batch.samples[1].dts - base - k.next ELSE 0

At(b, i, base, correction) == b.samples[i].dts - base - correction

\* Mutant: the sample held back is not asked for its time.
DurationInBatch(t, b, i, base) ==
    IF i < Len(b.samples) THEN b.samples[i + 1].dts - b.samples[i].dts ELSE Ref[t]

\* The distance to the next frame; the reference duration when there is none,
\* which happens only to a single frame that is flushed.
Duration(t, b, i, base) ==
    IF i < Len(b.samples) THEN b.samples[i + 1].dts - b.samples[i].dts
    ELSE IF b.held # <<>> THEN b.held[1].dts - b.samples[i].dts
    ELSE Ref[t]

\* A gap of more than one and a half frames of sound is filled with silence.
NeedsSilence(t, duration) == t = "audio" /\ 2 * duration > 3 * Ref[t]

SilentFrames(duration, ref) ==
    LET n == (duration - 1) \div ref    \* Math.ceil((duration - ref) / ref)
    IN  [j \in 1..n |-> [tag |-> 0, cfg |-> NoMeta,
                         dur |-> IF j < n THEN ref ELSE duration - n * ref]]

FilledUp(t, sample, duration) ==
    LET frame(len) == [tag |-> sample.tag, cfg |-> sample.cfg, dur |-> len]
    IN  IF NeedsSilence(t, duration) THEN <<frame(Ref[t])>> \o SilentFrames(duration, Ref[t])
        ELSE <<frame(duration)>>

Mp4Samples(t, b, i, base) ==
    FilledUp(t, b.samples[i], Duration(t, b, i, base))

\* The durations of the samples of a segment, added up.
Length(run) ==
    LET sum[n \in 0..Len(run)] == IF n = 0 THEN 0 ELSE sum[n - 1] + run[n].dur
    IN  sum[Len(run)]

\* A moof states the time of its first sample; a sample's own is its duration.
Moof(t, dts, samples) == [ev |-> "media", type |-> t, base |-> dts, run |-> samples]

MediaSegment(t, b, k, base) ==
    Moof(t, At(b, 1, base, DtsCorrection(k, base, b)),
         FlattenSeq([i \in 1..Len(b.samples) |-> Mp4Samples(t, b, i, base)]))

\* When each of its samples is shown: what the browser makes of a moof.
Presented(seg, lost) ==
    [i \in 1..Len(seg.run) |->
        [tag  |-> seg.run[i].tag, cfg |-> seg.run[i].cfg,
         at   |-> seg.base + Length(SubSeq(seg.run, 1, i - 1)),
         lost |-> lost]]

\* A segment, an initialization segment and an error go to the controller.
Emit(x, event) == [x EXCEPT !.out = Append(@, event)]

\* Nothing to be done; one frame alone stays in the demuxer's queue.
NothingToRemux(k, queue, force) ==
    k.meta = NoMeta \/ queue = <<>> \/ (Len(queue) = 1 /\ ~force)

Sent(x, t, seg) == [Emit(x, seg) EXCEPT !.tracks[t].next = seg.base + Length(seg.run)]

Remuxed(x, t, b, force) ==
    Sent([x EXCEPT !.tracks[t].stash = b.held, !.tracks[t].queue = IF force THEN @ ELSE <<>>],
         t, MediaSegment(t, b, x.tracks[t], x.base))

\* _remuxAudio, _remuxVideo
RemuxTrack(x, t, queue, force) ==
    IF NothingToRemux(x.tracks[t], queue, force) THEN x
    ELSE Remuxed(x, t, Batch(x.tracks[t], queue), force)

\* The zero of the timeline: the earliest frame of the first batch.
CalculateDtsBase(x) ==
    LET first == {x.tracks[t].queue[1].dts : t \in {u \in Types : x.tracks[u].queue # <<>>}}
    IN  IF x.base # Unset THEN x ELSE [x EXCEPT !.base = Min(first)]

RemuxQueue(x, t) == RemuxTrack(x, t, x.tracks[t].queue, FALSE)

Remux(x) == RemuxQueue(RemuxQueue(CalculateDtsBase(x), "video"), "audio")

\* At the end of the stream: what the remuxer holds back, and not what the
\* demuxer has queued.
FlushStashedSamples(x) ==
    LET flushed(y, t) == RemuxTrack([y EXCEPT !.tracks[t].stash = <<>>], t, x.tracks[t].stash, TRUE)
    IN  flushed(flushed(x, "video"), "audio")

\* What a configuration says once it has been parsed: of the sound, to the
\* viewers of each browser.
VideoMetadata == FoldLeft(LAMBDA metas, sps : Append(metas, ParseSPS(sps)), <<>>, Sps)
AudioMetadata ==
    [c \in DOMAIN Asc |-> [agent \in Agents |-> ParseAudioSpecificConfig(Asc[c], agent)]]

\* The boxes that say it to the browser; sizes and rates have sixteen bits.
Avc1(cfg) == [width  |-> VideoMetadata[cfg].codec_size.width % 65536,
              height |-> VideoMetadata[cfg].codec_size.height % 65536, avcc |-> cfg]
Esds(meta) == meta.config
Mp4a(cfg) ==
    [agent \in Agents |->
        LET meta == AudioMetadata[cfg][agent]
        IN  [channelCount |-> meta.channelCount, sampleRate |-> meta.samplingRate % 65536,
             esds |-> Esds(meta)]]
Stsd(t, cfg) == IF t = "audio" THEN Mp4a(cfg) ELSE Avc1(cfg)

Tkhd(t, cfg) ==
    IF t = "audio" THEN [width |-> 0, height |-> 0]
    ELSE [width |-> VideoMetadata[cfg].present_width % 65536, height |-> Avc1(cfg).height]

\* generateInitSegment: its boxes are Tkhd and Stsd of its configuration.
InitSegment(t, cfg) == [ev |-> "init", type |-> t, cfg |-> cfg]

\* _onTrackMetadataReceived
TrackMetadata(x, t, cfg) == Emit([x EXCEPT !.tracks[t].meta = cfg], InitSegment(t, cfg))

InsertDiscontinuity(x) ==
    [x EXCEPT !.tracks = [t \in Types |-> [@[t] EXCEPT !.next = Unset]]]

-----------------------------------------------------------------------------
(***************************************************************************)
(* The demuxer.                                                            *)
(***************************************************************************)
\* _isInitialMetadataDispatched
InitialMetadataDispatched(d) ==
    /\ \E t \in Types : d.has[t]
    /\ \A t \in Types : d.has[t] => d.done[t]

HasFrames(x) == \E t \in Types : x.tracks[t].queue # <<>>

\* _parseScriptData: what onMetaData says of sound and pictures, if it says
\* anything, overrides the header.
ParseScriptData(x, tag) ==
    [x EXCEPT !.demux.has = [t \in Types |-> IF t \in DOMAIN tag.says THEN tag.says[t] ELSE @[t]],
              !.demux.dispatch = FALSE]

\* The first tag of a type makes its metadata, and the type known to be there.
MetadataSeen(x, t) ==
    IF x.demux.seen[t] THEN x
    ELSE [x EXCEPT !.demux.seen[t] = TRUE, !.demux.has[t] = TRUE]

\* New metadata: frames queued under the old go out first.
ReadyFor(x, t) ==
    IF ~InitialMetadataDispatched(x.demux) THEN [x EXCEPT !.demux.done[t] = TRUE]
    ELSE IF HasFrames(x) THEN Remux(x) ELSE x

NewMetadata(x, t, cfg) == TrackMetadata([ReadyFor(x, t) EXCEPT !.demux.dispatch = FALSE], t, cfg)

QueueFrame(x, t, tag, i) ==
    [x EXCEPT !.tracks[t].queue = Append(@, [tag |-> i, dts |-> tag.ts, cfg |-> tag.cfg])]

\* Any sound makes the metadata of its track; it is queued even before its
\* configuration.
ParseAudioData(x, tag, i) ==
    IF tag.kind = "aac" THEN NewMetadata(MetadataSeen(x, "audio"), "audio", tag.cfg)
    ELSE QueueFrame(MetadataSeen(x, "audio"), "audio", tag, i)

\* Of pictures only the configuration record does.
ParseAVCDecoderConfigurationRecord(x, tag) ==
    NewMetadata(MetadataSeen(x, "video"), "video", tag.cfg)

ParseVideoData(x, tag, i) ==
    CASE tag.kind = "foreign" -> Emit(x, [ev |-> "demux_error"])
      [] tag.kind = "avc"     -> ParseAVCDecoderConfigurationRecord(x, tag)
      [] OTHER                -> QueueFrame(x, "video", tag, i)

ParseData(x, tag, i) ==
    CASE tag.kind = "meta" -> ParseScriptData(x, tag)
      [] tag.kind \in {"aac", "audio"} -> ParseAudioData(x, tag, i)
      [] OTHER -> ParseVideoData(x, tag, i)

ParseTag(x, stream, i) ==
    ParseData([x EXCEPT !.demux.dispatch = TRUE, !.parsed = @ + 1], stream[i], i)

\* The tags that lie whole in the data from an offset on.  Where a tag should
\* begin and the file header does (a response begun anew), "FLV" is read as
\* the size of a tag of five megabytes, which is waited for; the bytes that
\* are read as a tag after that are taken to be none either.
WholeTags(data, from) ==
    LET whole(i) == /\ 2 * i + from <= Len(data)
                    /\ data[2 * i + from - 1][1] > 0
                    /\ data[2 * i + from - 1] = <<data[2 * i + from][1], 1>>
                    /\ data[2 * i + from][2] = 2
        n == Max({m \in 0..Len(data) : \A i \in 1..m : whole(i)})
    IN  [i \in 1..n |-> data[2 * i + from][1]]

\* Frames go to the remuxer at the end of the data, unless its last tag was a
\* configuration record or a script.
DispatchFrames(x, more) ==
    IF InitialMetadataDispatched(x.demux) /\ (more \/ x.demux.dispatch) /\ HasFrames(x)
    THEN Remux([x EXCEPT !.demux.dispatch = @ \/ more])
    ELSE [x EXCEPT !.demux.dispatch = @ \/ more]

\* FLVDemuxer.probe: nine bytes that begin with FLV.
Probe(data) == Len(data) >= 2 /\ data[1] = <<0, 1>> /\ data[2] = <<0, 2>>

HeaderOf(x, byteStart) == IF byteStart = 0 /\ x.demux.first THEN 2 ELSE 0

\* One tag after the other.
ParseTags(x, stream, tags) ==
    LET parsed[n \in 0..Len(tags)] == IF n = 0 THEN x ELSE ParseTag(parsed[n - 1], stream, tags[n])
    IN  parsed[Len(tags)]

\* parseChunks: the new state and the number of units it has consumed.
ParseChunks(x, stream, data, byteStart) ==
    LET from == HeaderOf(x, byteStart)
        tags == WholeTags(data, from)
        end == from + 2 * Len(tags)
    IN  IF byteStart = 0 /\ Len(data) <= 2 THEN [mux |-> x, consumed |-> 0]
        ELSE [mux |-> DispatchFrames(ParseTags([x EXCEPT !.demux.first = FALSE], stream, tags),
                                     Len(data) > end),
              consumed |-> end]
=============================================================================
