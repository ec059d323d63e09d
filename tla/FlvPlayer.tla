----------------------------- MODULE FlvPlayer -----------------------------
(***************************************************************************)
(* A viewer in the browser: the page p.html and the player it loads from   *)
(* the server, resources/flv.js, configured as the page does (live, no     *)
(* worker, no stash buffer, no lazy loading, old media cleaned up).        *)
(*                                                                         *)
(* FetchStreamLoader reads the response; IOController keeps what is no     *)
(* whole tag; FlvRemux makes segments; Transmuxer hands each on in a       *)
(* microtask of its own ("tasks"); MseBuffer feeds the browser.  The page  *)
(* destroys the player at any error, and when the stream has been played   *)
(* to its end, and makes a new one five seconds later; every two seconds   *)
(* it jumps close to the end of what is buffered.  All of it runs in one   *)
(* thread: an action is one callback, and nothing else runs while          *)
(* microtasks are waiting.                                                 *)
(***************************************************************************)
EXTENDS MseBuffer, FiniteSets

CONSTANTS Streams,      \* what the server may be sending: sequences of tags
          Written,      \* what the encoder has put into each configuration
          FirstSizes,   \* how many units the first chunk of a response may have
          ChunkSizes,   \* and how many any later one
          JumpBehind,   \* how far behind the page lets the picture be: one second
          JumpBack,     \* where before the end it jumps to: half a second
          Recover,      \* lazyLoadRecoverDuration
          MaxLoads,     \* bound: players made by the page
          MaxRequests,  \* bound: requests sent
          MaxFaults,    \* bound: errors of network and browser, for each stream
          MaxRemovals   \* bound: removals that wait when the page's timer fires

\* What a tag says: of sound and pictures a script names none, either or both.
Tags == [kind : {"aac", "avc", "audio", "video", "foreign"}, ts : Nat, cfg : Nat] \cup
        [kind : {"meta"}, ts : Nat, cfg : Nat, says : UNION {[T -> BOOLEAN] : T \in SUBSET Types}]
Configures(tag) == tag.kind \in {"aac", "avc"}

ASSUME StreamsAssumption ==
    /\ Streams \subseteq Seq(Tags)
    /\ \A s \in Streams : \A i \in DOMAIN s : Configures(s[i]) => s[i].cfg # NoMeta

ASSUME PlayerAssumption ==
    /\ FirstSizes \cup ChunkSizes \subseteq Nat \ {0}
    /\ JumpBack \in Nat /\ JumpBehind \in Nat /\ JumpBack < JumpBehind
    /\ {Recover, MaxLoads, MaxRequests, MaxRemovals} \subseteq Nat
    /\ MaxFaults \in [Streams -> Nat]

VARIABLES stream,   \* what the server sends to this player
          reqs,     \* the requests sent, each with its FetchStreamLoader
          io,       \* IOController
          mux,      \* demuxer and remuxer
          tasks,    \* microtasks: events of the transmuxer on their way
          mse,      \* MSEController and the browser's MediaSource
          page,     \* the page: player, timer and progress checker
          head,     \* currentTime
          loads, faults

vars == <<stream, reqs, io, mux, tasks, mse, page, head, loads, faults>>

\* The units of a stream, the file header first.
Units(s) == [u \in 1..2 * (Len(s) + 1) |-> <<(u - 1) \div 2, 2 - (u % 2)>>]

-----------------------------------------------------------------------------
(***************************************************************************)
(* Every handler is a function on what the player consists of, "p".        *)
(***************************************************************************)
Player == [reqs |-> reqs, io |-> io, mux |-> mux, tasks |-> tasks, mse |-> mse, page |-> page, head |-> head]

\* The new state is computed once.
Becomes(p) ==
    \E q \in {p} :
       /\ reqs' = q.reqs /\ io' = q.io /\ mux' = q.mux /\ tasks' = q.tasks
       /\ mse' = q.mse /\ page' = q.page /\ head' = q.head

(***************************************************************************)
(* FetchStreamLoader and IOController.                                     *)
(***************************************************************************)
NewLoader == [status |-> "idle", abort |-> FALSE, bound |-> FALSE,
              conn |-> "none", from |-> 0, received |-> 0]

NewIO == [alive |-> TRUE, init |-> TRUE, paused |-> FALSE,
          stash |-> <<>>, start |-> 0, to |-> -1, resumeFrom |-> 0]

\* Mutant: a loader that waits for its response is not at work.
WorkingBuffering(loader) == loader.status = "buffering"

Working(loader) == loader.status \in {"connecting", "buffering"}

OpenLoader(loader, from) == [loader EXCEPT !.status = "connecting", !.conn = "asked", !.from = from]

AbortLoader(loader) == [loader EXCEPT !.abort = TRUE]
StopLoader(loader) == IF Working(loader) THEN AbortLoader(loader) ELSE loader

\* BaseLoader.destroy
Unbind(loader) == [loader EXCEPT !.status = "idle", !.bound = FALSE]

DestroyLoader(loader) == Unbind(StopLoader(loader))

Current == Len(reqs)
CurrentOf(p) == Len(p.reqs)

CreateLoader(p) == [p EXCEPT !.reqs = Append(@, [NewLoader EXCEPT !.bound = TRUE])]

OpenIO(p, from) == [p EXCEPT !.io.to = -1, !.reqs[CurrentOf(p)] = OpenLoader(@, from)]

DestroyIO(p) == [p EXCEPT !.io.alive = FALSE, !.io.stash = <<>>,
                          !.reqs[CurrentOf(p)] = DestroyLoader(StopLoader(@))]

IsWorking(p) == Working(p.reqs[CurrentOf(p)]) /\ ~p.io.paused

\* IOController.pause
PauseIO(p) ==
    LET q == [p EXCEPT !.reqs[CurrentOf(p)] = AbortLoader(@),
                       !.io.paused = TRUE, !.io.stash = <<>>, !.io.start = 0]
    IN  IF p.io.stash # <<>> THEN [q EXCEPT !.io.resumeFrom = p.io.start, !.io.to = p.io.start - 1]
        ELSE [q EXCEPT !.io.resumeFrom = p.io.to + 1]

-----------------------------------------------------------------------------
(***************************************************************************)
(* TransmuxingController and Transmuxer.                                   *)
(***************************************************************************)
\* What demuxer and remuxer have emitted becomes microtasks.
Emitted(p) == [p EXCEPT !.tasks = p.tasks \o p.mux.out, !.mux.out = <<>>]
Told(p, event) == [p EXCEPT !.tasks = Append(@, [ev |-> event])]

OnIOException(p) == Told(p, "io_error")
OnIOSeeked(p) == [p EXCEPT !.mux = InsertDiscontinuity(@)]

LoadSegment(p) == OpenIO(CreateLoader([p EXCEPT !.io = NewIO]), 0)

\* stop, _internalAbort
InternalAbort(p) == IF p.io.alive THEN DestroyIO(p) ELSE p

\* TransmuxingController.destroy
DestroyController(p) == [InternalAbort(p) EXCEPT !.mux = NewTransmuxer]

\* Transmuxer.destroy: microtasks still waiting will find no listener.
DestroyTransmuxer(p) == [DestroyController(p) EXCEPT !.tasks = <<>>]

PauseTransmuxing(p) == IF p.io.alive /\ IsWorking(p) THEN PauseIO(p) ELSE p

\* _onInitChunkArrival: the first data must be FLV.
Parsed(p, r) == [p |-> Emitted([p EXCEPT !.io.init = FALSE, !.mux = r.mux]), consumed |-> r.consumed]

Consume(p, data, byteStart) ==
    IF p.io.init /\ ~Probe(data)
    THEN [p |-> Told(Told(p, "abort"), "demux_error"), consumed |-> 0]
    ELSE Parsed(p, ParseChunks(IF p.io.init THEN NewTransmuxer ELSE p.mux, stream, data, byteStart))

\* _dispatchChunks, and what the consumer has left over is kept.
KeepRest(r, data, byteStart) ==
    [r.p EXCEPT !.io.stash = SubSeq(data, r.consumed + 1, Len(data)),
                !.io.start = byteStart + r.consumed]

DispatchChunks(p, data, byteStart) ==
    KeepRest(Consume([p EXCEPT !.io.to = byteStart + Len(data) - 1], data, byteStart), data, byteStart)

LoaderChunkArrival(p, chunk, byteStart) ==
    IF p.io.paused THEN p
    ELSE DispatchChunks(p, p.io.stash \o chunk, IF p.io.stash = <<>> THEN byteStart ELSE p.io.start)

Flushed(p, dropUnconsumed) ==
    IF dropUnconsumed \/ p.io.stash = <<>> THEN [p EXCEPT !.io.stash = <<>>, !.io.start = 0] ELSE p

FlushStash(p, dropUnconsumed) ==
    IF p.io.stash = <<>> THEN p
    ELSE Flushed(DispatchChunks(p, p.io.stash, p.io.start), dropUnconsumed)

\* A live stream is not taken up again: the error goes to the page.
LoaderError(p) == OnIOException(FlushStash(p, FALSE))

\* Without data there is no remuxer, and the exception makes the loader report
\* an error; nothing is stashed then.
OnIOComplete(p) ==
    IF p.io.init THEN OnIOException(p)
    ELSE Told(Emitted([p EXCEPT !.mux = FlushStashedSamples(@)]), "loading_complete")

LoaderComplete(p) == OnIOComplete(FlushStash(p, TRUE))

\* IOController.resume, _internalSeek: a new request from where the last one
\* was left.
ResumeIO(p) ==
    LET stopped == [p EXCEPT !.io.paused = FALSE, !.io.resumeFrom = 0,
                             !.reqs[CurrentOf(p)] = StopLoader(@)]
        flushed == [FlushStash(stopped, TRUE) EXCEPT !.reqs[CurrentOf(p)] = DestroyLoader(@)]
    IN  OnIOSeeked(OpenIO(CreateLoader(flushed), p.io.resumeFrom))

ResumeTransmuxing(p) == IF p.io.alive /\ p.io.paused THEN ResumeIO(p) ELSE p

-----------------------------------------------------------------------------
(***************************************************************************)
(* FlvPlayer and the page.                                                 *)
(***************************************************************************)
\* The media element's buffered: where all its SourceBuffers hold something.
Buffered ==
    LET made == {t \in Types : mse.made[t]}
        r == [from |-> Max({mse.held[t].from : t \in made}), to |-> Min({mse.held[t].to : t \in made})]
    IN  IF made = {} \/ (\E t \in made : mse.held[t] = NoRange) \/ r.from >= r.to THEN NoRange ELSE r

IsBuffered(time) == Buffered.from <= time /\ time < Buffered.to

NewPage == [player |-> FALSE, timer |-> FALSE, checker |-> FALSE]

AttachMediaElement(p) == [p EXCEPT !.mse = AttachMediaSource(NewController), !.head = 0]

LoadPlayer(p) == LoadSegment([p EXCEPT !.mux = NewTransmuxer])

Unload(p) == DestroyTransmuxer(InternalAbort([p EXCEPT !.mse = SeekBuffers(@)]))

DetachMediaElement(p) == [p EXCEPT !.mse = DestroyMse(DetachMediaSource(@))]

DestroyPlayer(p) == [p EXCEPT !.page = NewPage]

\* reloadFlvPlayer
ReloadPlayer(p) ==
    [DestroyPlayer(DetachMediaElement(Unload(p))) EXCEPT !.page.timer = TRUE]

\* _onmseBufferFull, _suspendTransmuxer
Suspend(p) ==
    IF p.page.checker THEN p ELSE [PauseTransmuxing(p) EXCEPT !.page.checker = TRUE]

\* What the controller tells the player.
MseSays(p) ==
    CASE p.mse.said = "error" -> ReloadPlayer(p)
      [] p.mse.said = "full"  -> Suspend([p EXCEPT !.mse.said = "nothing"])
      [] OTHER              -> p

\* What the browser answers: at most MaxFaults times something else than ok.
Outcomes ==
    {[video |-> "ok", audio |-> "ok", add |-> "ok"]} \cup
    (IF faults < MaxFaults[stream]
     THEN {[video |-> v, audio |-> a, add |-> d] : v \in {"ok", "full", "error"},
                                                   a \in {"ok", "full"}, d \in {"ok", "refused"}}
     ELSE {})

FaultsOf(o) == IF \E f \in DOMAIN o : o[f] # "ok" THEN 1 ELSE 0

\* The handlers of the transmuxer's events.
Handled(p, e, o) ==
    CASE e.ev = "init"  -> MseSays([p EXCEPT !.mse = AppendInitSegment(@, e, FALSE, o)])
      [] e.ev = "media" -> MseSays([p EXCEPT !.mse = AppendMediaSegment(@, e, p.head, o)])
      [] e.ev = "loading_complete" -> [p EXCEPT !.mse = EndOfStream(@)]
      [] e.ev = "abort" -> InternalAbort(p)
      [] OTHER -> ReloadPlayer(p)

\* One microtask.
Deliver ==
    /\ tasks # <<>> /\ page.player
    /\ \E o \in Outcomes :
          /\ Head(tasks).ev \notin {"init", "media"} => FaultsOf(o) = 0
          /\ Becomes(Handled([Player EXCEPT !.tasks = Tail(@)], Head(tasks), o))
          /\ faults' = faults + FaultsOf(o)
    /\ UNCHANGED <<stream, loads>>

\* flv_load, when the page is opened or its timer has run out.
Load ==
    /\ page.timer /\ loads < MaxLoads /\ Current < MaxRequests
    /\ Becomes([LoadPlayer(AttachMediaElement(Player)) EXCEPT !.page = [NewPage EXCEPT !.player = TRUE]])
    /\ loads' = loads + 1
    /\ UNCHANGED <<stream, faults>>

Init ==
    /\ \E s \in Streams : stream = s
    /\ reqs = <<>>
    /\ io = [NewIO EXCEPT !.alive = FALSE]
    /\ mux = NewTransmuxer
    /\ tasks = <<>>
    /\ mse = NewController
    /\ page = [NewPage EXCEPT !.timer = TRUE]
    /\ head = 0 /\ loads = 0 /\ faults = 0

-----------------------------------------------------------------------------
(***************************************************************************)
(* The network.                                                            *)
(***************************************************************************)
With(n, loader) == [Player EXCEPT !.reqs[n] = loader]

\* A loader reports what has become of it; only a bound one has a listener.
Reports(n, loader, heard) ==
    Becomes(IF loader.bound THEN heard ELSE With(n, loader)) /\ UNCHANGED <<stream, loads>>

\* The response begins.  A loader told to stop leaves its body unread.
FetchAnswers(n) ==
    /\ reqs[n].conn = "asked"
    /\ Becomes(With(n, IF reqs[n].abort
                       THEN [reqs[n] EXCEPT !.abort = FALSE, !.status = "idle", !.conn = "unread"]
                       ELSE [reqs[n] EXCEPT !.conn = "open"]))
    /\ UNCHANGED <<stream, loads, faults>>

Failed(n) == [reqs[n] EXCEPT !.status = "error", !.conn = "over"]

\* There is no such stream, or no connection.
FetchFails(n) ==
    /\ reqs[n].conn = "asked" /\ faults < MaxFaults[stream]
    /\ faults' = faults + 1
    /\ Reports(n, Failed(n), LoaderError(With(n, Failed(n))))

\* A chunk; the server begins a stream anew whatever range it is asked for.
ChunkArrives(n, size) ==
    LET r == reqs[n]
        all == Units(stream)
        chunk == SubSeq(all, r.received + 1, r.received + size)
        stopped == [r EXCEPT !.abort = FALSE, !.status = "complete", !.conn = "over"]
        reading == [r EXCEPT !.status = "buffering", !.received = @ + size]
    IN  /\ r.conn = "open" /\ r.received + size <= Len(all)
        /\ IF r.abort
           THEN Reports(n, stopped, With(n, stopped))
           ELSE Reports(n, reading, LoaderChunkArrival(With(n, reading), chunk, r.from + r.received))
        /\ UNCHANGED faults

\* The publisher has gone and the server ends the response, between two tags.
ResponseEnds(n) ==
    /\ reqs[n].conn = "open" /\ reqs[n].received % 2 = 0
    /\ LET done == [reqs[n] EXCEPT !.status = IF io.init THEN "error" ELSE "complete", !.conn = "over"]
       IN  Reports(n, done, LoaderComplete(With(n, done)))
    /\ UNCHANGED faults

ConnectionBreaks(n) ==
    /\ reqs[n].conn = "open" /\ faults < MaxFaults[stream]
    /\ faults' = faults + 1
    /\ Reports(n, Failed(n), LoaderError(With(n, Failed(n))))

-----------------------------------------------------------------------------
(***************************************************************************)
(* The browser and the page's timers.                                      *)
(***************************************************************************)
\* The controller has answered the browser; the player hears of it.
Answers(controller, o) ==
    /\ Becomes(MseSays([Player EXCEPT !.mse = controller])) /\ faults' = faults + FaultsOf(o)
    /\ UNCHANGED <<stream, loads>>

SourceOpen ==
    /\ page.player /\ mse.state = "closed"
    /\ \E o \in Outcomes : Answers(OnSourceOpen(mse, o), o)

UpdateEnd(t) ==
    /\ page.player /\ Updating(mse, t)
    /\ \E o \in Outcomes : Answers(OnUpdateEnd(mse, t, o), o)

\* The picture goes on; if it is before what is buffered it is moved there.
Plays ==
    /\ page.player /\ Buffered # NoRange
    /\ head' = IF head < Buffered.from THEN Buffered.from ELSE head + 1
    /\ head' <= Buffered.to
    /\ UNCHANGED <<stream, reqs, io, mux, tasks, mse, page, loads, faults>>

\* _checkProgressAndResume
NeedsResume(time) == page.checker /\ IsBuffered(time) /\ time >= Buffered.to - Recover

ResumeLoading(p) == ResumeTransmuxing([p EXCEPT !.page.checker = FALSE])

\* Every second, once the transmuxer has been suspended.
CheckProgress ==
    /\ page.player /\ NeedsResume(head) /\ Current < MaxRequests
    /\ Becomes(ResumeLoading(Player))
    /\ UNCHANGED <<stream, loads, faults>>

\* _internalSeek.  A time that is not buffered empties the SourceBuffers; the
\* transmuxer has no index of key frames and goes on as it was.
InternalSeek(p, target) ==
    LET there == [p EXCEPT !.head = target]
    IN  IF target < Buffered.from /\ Buffered.from < JumpBehind THEN [p EXCEPT !.head = Buffered.from]
        ELSE IF ~IsBuffered(target) THEN [p EXCEPT !.mse = SeekBuffers(@), !.page.checker = FALSE]
        ELSE IF NeedsResume(target) THEN ResumeLoading(there) ELSE there

\* The page's timer: to just before the end of what is buffered.
JumpToEnd ==
    /\ page.player /\ Buffered # NoRange /\ Buffered.to - head > JumpBehind
    /\ \A t \in Types : Len(mse.removals[t]) < MaxRemovals
    /\ NeedsResume(Buffered.to - JumpBack) => Current < MaxRequests
    /\ Becomes(InternalSeek(Player, Buffered.to - JumpBack))
    /\ UNCHANGED <<stream, loads, faults>>

\* The picture has come to the end of the stream: the page tries again.
Ended ==
    /\ page.player /\ mse.state = "ended" /\ ~AnyUpdating(mse)
    /\ Buffered # NoRange /\ head = Buffered.to
    /\ Becomes(ReloadPlayer(Player))
    /\ UNCHANGED <<stream, loads, faults>>

-----------------------------------------------------------------------------
Network(n) ==
    \/ FetchAnswers(n) \/ FetchFails(n) \/ ResponseEnds(n) \/ ConnectionBreaks(n)
    \/ \E size \in IF reqs[n].received = 0 THEN FirstSizes ELSE ChunkSizes : ChunkArrives(n, size)

Browser == SourceOpen \/ (\E t \in Types : UpdateEnd(t)) \/ Plays \/ Ended

Timers == Load \/ CheckProgress \/ JumpToEnd

Next ==
    \/ Deliver
    \/ tasks = <<>> /\ ((\E n \in 1..Current : Network(n)) \/ Browser \/ Timers)

Spec == Init /\ [][Next]_vars
-----------------------------------------------------------------------------
(***************************************************************************)
(* Properties.                                                             *)
(***************************************************************************)
\* The frames on their way through the player, the foremost first: what a
\* SourceBuffer has been fed, is being fed and is going to be fed, what the
\* remuxer holds back and what the demuxer has queued; 0 is a frame of silence.
Appending(t) == IF Updating(mse, t) /\ mse.busy[t][1].op = "append" THEN <<mse.busy[t][1].seg>> ELSE <<>>
FramesOf(items) == [i \in DOMAIN items |-> items[i].tag]
Carried(e, t) == IF e.ev = "media" /\ e.type = t THEN FramesOf(e.run) ELSE <<>>
Line(t) ==
    LET segments == Appending(t) \o mse.segs[t] \o tasks
    IN  FramesOf(mse.done[t]) \o FlattenSeq([i \in DOMAIN segments |-> Carried(segments[i], t)])
           \o FramesOf(mux.tracks[t].stash) \o FramesOf(mux.tracks[t].queue)

\* The frames of the tags read so far are in the player exactly once and in
\* their order, be they queued by the demuxer, held back by the remuxer, on
\* their way to the controller, waiting there, buffered or dropped by a seek;
\* and as long as no request was resumed, every byte received has been read
\* as part of a tag or kept (parseChunks, _remuxVideo, _doAppendSegments, the
\* stash of IOController).
EveryFrameOnce ==
    page.player =>
       /\ \A t \in Types :
             LET line == Line(t)
             IN  /\ {line[i] : i \in DOMAIN line} \ {0} = {n \in 1..mux.parsed : stream[n].kind = t}
                 /\ \A i, j \in DOMAIN line : i < j /\ line[i] > 0 /\ line[j] > 0 => line[i] < line[j]
       /\ LET r == reqs[Current]
          IN  Current = loads /\ Working(r) /\ ~r.abort /\ ~io.init =>
                r.received = Len(io.stash) + (IF mux.demux.first THEN 0 ELSE 2 + 2 * mux.parsed)

\* Every frame that a SourceBuffer has is shown at its own time, on one clock
\* for sound and pictures, however often segments were cut, silence put between
\* and loading given up and resumed (_remuxAudio, _remuxVideo, _calculateDtsBase).
FramesKeepTime ==
    \A t \in Types : \A i \in DOMAIN mse.done[t] :
       LET frame == mse.done[t][i]
       IN  frame.tag > 0 /\ ~frame.lost => frame.at = stream[frame.tag].ts - mux.base

InitsOnTheWay(t) ==
    {e \in ToSet(tasks \o mse.segs[t] \o Appending(t)) : e.ev = "init" /\ e.type = t}

\* A frame that may have waited in the demuxer for metadata: a track's first
\* configuration, or a script, comes after it.
MayHaveWaited(n) ==
    \E k \in n + 1..Len(stream) :
       \/ stream[k].kind = "meta"
       \/ Configures(stream[k]) /\ \A l \in 1..k - 1 : stream[l].kind # stream[k].kind

\* The browser is told the size, shape, depth and rate of the pictures that the
\* encoder has put bit by bit into the parameter set, whatever lies before them
\* there (parseSPS, avc1, tkhd); and, whichever browser it is, the rate and the
\* channels of the sound, though the player writes that configuration anew
\* (_parseAACAudioSpecificConfig, esds).  It is told so ahead of the frames: an
\* initialization segment of a frame's configuration has come before it, or was
\* dropped by a jump with all that waited; and at most two frames of the former
\* configuration are behind a new one, the one the demuxer has queued and the
\* one the remuxer holds back, besides those that waited for metadata
\* (_remuxAudio, _parseAVCDecoderConfigurationRecord).
ConfigReachesBrowser ==
    /\ \A e \in InitsOnTheWay("video") :
          /\ VideoMetadata[e.cfg] = Written.video[e.cfg]
          /\ Tkhd("video", e.cfg).width = Written.video[e.cfg].present_width
          /\ Avc1(e.cfg) = Written.video[e.cfg].codec_size @@ [avcc |-> e.cfg]
    /\ \A e \in InitsOnTheWay("audio"), agent \in Agents :
          LET box == Stsd("audio", e.cfg)[agent]
              w == Written.audio[e.cfg]
          IN  /\ box.channelCount = w.channels /\ Channels(box.esds) = w.channels
              /\ MpegSamplingRates[SamplingIndex(box.esds) + 1] = w.rate
    /\ \A t \in Types :
          LET done == mse.done[t]
              init(j) == done[j].tag = 0 /\ done[j].cfg # NoMeta
              frame(i) == done[i].tag > 0
              since(i) == Max({0} \cup {j \in 1..i : init(j)})
              stale(i) == {k \in since(i)..i : frame(k) /\ done[k].cfg # done[since(i)].cfg}
          IN  \A i \in {k \in DOMAIN done : frame(k)} :
                /\ \E j \in 1..i : init(j) /\ done[j].cfg = done[i].cfg
                /\ Cardinality({k \in stale(i) : ~MayHaveWaited(done[k].tag)}) <= 2

\* The MediaSource is told of the end of the stream behind its last segment:
\* no media waits but what the browser had no room for (endOfStream,
\* _onSourceBufferUpdateEnd), and the remuxer holds nothing back.  Frames that
\* were queued before a last tag that is none are the exception: they wait for
\* more data, and a request resumed after the end makes the remuxer take them.
EosComesLast ==
    page.player /\ mse.state = "ended" =>
       /\ mse.full \/ \A t \in Types : \A i \in DOMAIN mse.segs[t] : mse.segs[t][i].ev = "init"
       /\ \/ \A t \in Types : mux.tracks[t].stash = <<>>
          \/ Current > loads /\ mux.parsed > 0 /\ stream[mux.parsed].kind \in {"meta", "aac", "avc"}

\* The queues of the controller are drained by events alone, so whatever waits
\* in them while the page is idle must have an updateend to come that will
\* take it up, unless the browser has no room for it or it is the first
\* initialization segment, which waits for media.
NothingStalls ==
    page.player /\ mse.state = "open" /\ tasks = <<>> =>
       \A t \in {u \in Types : mse.made[u]} :
          /\ mse.removals[t] # <<>> => Updating(mse, t)
          /\ mse.segs[t] # <<>> /\ ~AnyUpdating(mse) => mse.full \/ Last(mse.segs[t]).ev = "init"

\* A request that is no longer the player's has been told to stop, so that the
\* server is rid of its viewer at the next chunk; only the player's own can
\* change it (destroy, abort, resume).
OldRequestsEnd ==
    \A n \in 1..Current :
       n < Current \/ ~io.alive =>
          /\ reqs[n].conn \in {"asked", "open"} => reqs[n].abort
          /\ ~reqs[n].bound
=============================================================================
