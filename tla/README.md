# z-live in TLA+

z-live is a live streaming server in Go: an encoder pushes a stream over RTMP,
and the server relays it to RTMP players and HTTP-FLV viewers, saves it to an
FLV file and cuts it into HLS segments. The web page it serves plays the stream
with a bundled player, flv.js. Next to that it has WebRTC rooms (an SFU and
peer-to-peer signalling). This directory holds TLA+ modules of the parts
whose behaviour depends on the order in which goroutines, callbacks and peers
act, the TLC configurations that check them, and TLAPS proofs.

Paths in comments and below are relative to the repository, for example
`rtmp/stream.go 158-186`.

## 1. The system

| component | state | operations | works with |
|---|---|---|---|
| packet writers (`rtmp/stream.go` 19-121, `flv/writer.go`, `hls/stream.go` 46-170) | `packetQueue`, `ctx`, `closeOnce`, connection, file or response | `WritePacket` (publisher's goroutine), `SendPacket`/`muxPacket` (own goroutine), `Close` (anyone), `Wait` (HTTP handler) | called by the relay and the cache; closed by the relay, its own goroutine and shutdown hooks |
| stream relay (`rtmp/registry.go`, `rtmp/stream.go` 127-226, `rtmp/server.go` 109-174, `httpserver/flv.go`) | `publisherMap`, per publisher `closed`, registry (`members`, `numGen`, `closed`), three locks | `handleConn`, `start`, `Register`, `close`, `FindPublisher`, `closeAllPublisher` | hands every packet to every writer; viewers find it through the map |
| stream cache (`rtmp/stream.go` 228-288, `rtmp/gop.go`) | newest metadata and sequence headers, ring of groups of pictures | `add`, `send` | filled by the relay's loop, sent once to each new writer |
| HLS segmenter (`hls/stream.go`, `status.go`, `align.go`, `audio.go`, `registry.go`) | `firstCut`, `seq`, timestamps, audio cache, TS buffer, registry by name | `muxPacket`, `parse`, `cut`, `flush2Cache`, `Close` | is a packet writer; fills the segment cache through the TS muxer |
| HLS segment cache (`hls/cache.go`, `httpserver/hls.go`) | ring of names, map of items, pool of buffers, files | `SetItem`, `GenM3U8PlayList`, `GetItem`, `GetFileContent` | filled by the segmenter, read by HTTP handlers |
| RTMP chunk layer (`rtmp/chunk.go`, `rtmp/server.go` 191-222) | per chunk stream: header, remaining bytes; chunk sizes | `readChunk`, `writeChunk` | below every RTMP message |
| RTMP session (`rtmp/handshake.go`, `conn.go`, `cmd.go`) | handshake, commands seen, window sizes, one buffered writer | `handshake2Client`, `handleCmdMsg`, `handleUserControlMsg`, `ack` | decides publisher or player, then hands the connection to the relay |
| MPEG-TS muxer (`hls/ts/muxer.go`) | continuity counters, PAT and PMT buffers | `WritePacket`, `WritePAT`, `WritePMT` | called by the segmenter |
| SFU rooms (`sfu/`) | rooms by id, members by user, listeners, tracks | join, forward, `OnTrack`, `OnClose`, the janitor | callbacks of WebRTC connections and websockets |
| P2P signalling (`p2p/room.go`, `p2p/websocket.go`) | rooms by id, two members by user, who is asked to offer | `OnOpen`, `OnTextMessage`, `OnClose`, the janitor | two websockets, a page at each |
| recording of WebRTC tracks (`webm/saver.go`, `sfu/track_save_*.go`) | sample builders, writers made by the first key frame | `PushOpus`, `PushVP8`, `Close` | two `OnTrack` callbacks |
| browser player (`resources/flv.js`, `resources/p.html`) | requests, stash, demuxer, remuxer, queues of the MediaSource, currentTime | load, chunk arrival, `parseChunks`, `remux`, append, remove, seek, pause and resume, reload | reads an HTTP-FLV response, feeds the browser's SourceBuffers |
| codecs (`parser/`, `flv/tag.go`, `amf/`), client, TURN, MP4 | none that is shared | pure functions, wrappers | |

`main.go` starts the RTMP server, the HTTP-FLV server and the SFU server; the
HLS, MP4 and P2P servers are there to be started.

What makes it hard is concentrated in a few places:

- **A publisher's goroutine serves everybody.** One loop reads the encoder's
  connection and calls `WritePacket` on each writer, with sends that block for
  audio and key frames. A viewer that stops reading, that leaves while it is sent
  the cache, or that registers while the stream ends meets that loop at every
  possible point.
- **Four parties close a writer:** the publisher's loop, `closeAll`, the
  writer's own goroutine and a shutdown hook, while the publisher may be blocked
  on the very queue that is being closed.
- **Maps keyed by name** (publishers, HLS writers, members of rooms), with
  deletes that do not look whose entry it is.
- **Rings** whose index wraps: groups of pictures, segments.
- **Buffers that are reused** after the lock that protected them is gone.
- **Callbacks** of WebRTC and websockets in no particular order, with a janitor
  that removes empty rooms.
- **Arithmetic on timestamps and bytes**: segments, durations and groups of audio
  are differences of clocks that wrap; a frame is laid out in packets of 188 bytes;
  parameter sets are read bit by bit.
- **A player made of callbacks**: chunks end anywhere, a SourceBuffer does one
  thing at a time, and what waits in a queue is taken up by an event or never.

What each component has to get right: a writer keeps the order, loses only what
may be lost, and always comes to an end; the relay forgets no writer, skips
none, never leads a viewer to a dead publisher and gets through a shutdown;
the cache replays what is decodable, without a gap; a playlist
lists consecutive segments, and their bodies are theirs; the chunk layer
reassembles what was split; every frame is in one HLS segment, which can be
decoded on its own; a room's members are those that are connected, nobody goes on
watching a member that has left, and two peers never wait for each other; the
player shows every frame once, at its time, with the right configuration, and its
queues never stand still.

## 2. Modules and how they correspond to the code

### PacketWriter

One writer of any of the four kinds (`mode`), with the goroutines that touch it:
the publisher (`producer`), its own goroutine (`consumer`), the shutdown hook
and, for HTTP, the handler in `Wait`. A packet is its number; what
`WritePacket` tells apart is its kind, `vital` (audio, key frame, sequence
header: blocking send) or `spare` (`select` with `default`). `Offer` is the
ctx check, `BlockingSend` and `TrySend` are the two sends, `SendPanics` the
panic of a send on a closed channel that `RunSafe` turns into an error.
`CloseSteps` lists what each `Close` does under `closeOnce`, in its order;
every thread that calls `Close` takes those steps one by one, or waits for the
one that does. `SinkWrite`, `SinkFail` and `WriteOnClosed` are the outcomes of
the write to the connection, response, file or segment. The differences between
the four writers are kept: only `SendPacket` also selects on `ctx.Done()`, the
RTMP `WritePacket` has no `return` after its blocking sends, HTTP and HLS have
nothing to close.

An HTTP response has its own end. `Close` cancels the context, `Wait` returns
(`WaitReturns`) and with it `handleFlvRequest`; net/http finishes the response and gin
gives its context to another request, while `muxPacket` still drains the queue into that
`ResponseWriter`. From then on (`ResponseOver`) nothing reaches this viewer. What a write does
is not defined and depends on net/http and gin, which are not in this repository, so
`WriteAfterEnd` has every outcome: the packet goes nowhere or into another request's
response, the write fails, or the flush panics in a goroutine without a `recover` and the
process ends (every thread is gone).

### StreamRelay

The map of publishers, the registries, the loop, the viewers' handlers and
shutdown. A writer is `open`, `closed` or `nil` here (a `*flv.Writer` that could
not be made). Each publisher's `ppc` is its place in `handleConn` and `start`,
with one action between any two points where another goroutine can get in: the
read, the snapshot of the registry, the choice of the next writer (in the map's
random order), `writeCache`, `WritePacket`, `Close` with `deregister`. `vlock`
is the publisher's lock while `close()` holds it; `MapUnlocked` is `pmu` while
`closeAllPublisher` reads it. `NilPanic` and the quantified subset in `CloseAll`
are what a method call on the nil writer does. `count`, `got` and `joined` are
history.

### StreamCache and GopWindow

`StreamCache` is `streamCache` with its ring and one viewer: `CacheAdd`
and `RingAdd` are `add`, `CacheSends` is what `send` hands over,
`Serve` what one viewer gets in one iteration, including a failure at any packet
of the cache, which ends the loop. `GopWindow` is what it promises: the
newest headers and the groups of pictures that the newest `Width` key frames
start. `SlidingWindow` is the refinement, with
the ring read oldest first as the window.

### TsCache

`CacheInit` and `CacheNext` are the cache of one stream. `SetItem` is split where another
goroutine can see a difference: the name is made from the clock before the lock
(`MakeName`), the ring, map and pool change under the lock (`Store`), and with
`SaveFileFlag` the two files are truncated and written one after the other (`OpenM3U8` ...
`WriteTs`), which players do not lock out. `SaveFileFlag` is the setting `hls.saveFile`,
either value. A buffer is an *array* of memory, holding the bytes of one segment;
`sync.Pool` gives any pooled array or a new one. A player fetches the playlist, then a
listed segment: `GetItem` returns the array and the bytes are read when the body is sent
(`SendBody`).

### P2pRoom

One room id, the connections made to it, and the page at the other end of each
(`resources/p2p-data-channel.html`). `authenticateAndInit` is split where
another connection or the janitor gets in: `GetOrNewRoom` (lock of the map),
`CheckSize` (lock of the room), `AddMember` (lock of the room again), then the
greeting, before which the other member may already have written to the
session. A room is named after the connection that made it, so that a swept room
and its successor are two. `Relay` is `OnTextMessage`: the addressee is any other
member of the room *at that moment*; the sender's own membership is not looked
at. The map of members is keyed by user, in `Join` as in `OnClose`. A session
carries messages in order and loses them when it is down; the websocket library
behind it, and the peer connection, are external: the library's write queue is
configured for 8 messages and never holds more than that here, and whether
a browser accepts a description in its state is not modelled, only that it is
handed over. The page's promises (`jobs`) resolve in order, and other messages
may arrive before they do. `heard`, `answered`, `left` and `raced` are history.

### SfuRoom

One room id, connections that join it and connections over which a member is
watched. The peer connection is external: `Connect`, `Disconnect`, `IceFails`,
`PeerCloses` and `ClosePc` are what the library reports, `StateChange` is the
handler that turns `Failed` and `Closed` into a call of `OnClose` each. Two `OnTrack`
callbacks store a track (`StoreTrack`) and then look for both (`Check`, with
`AddMember`); `OnClose` is split where another goroutine sees a difference:
`BeginLeave` takes the room's lock and marks the member, `EndLeave` closes its
listeners, deletes the entry of its *user* and closes `saveChan`. A
watcher finds a member by its user's name (`FindMember`) and attaches itself later
(`Attach`, with `AddListener`). `Sweep` is the janitor. A room is named after the
join that made it. `added` and `bystanders` are history. The peer connection's
signalling (`session`) is its own state, since `service.OnClose` closes only a
connection that is not connected.

### HlsWriter, TsMuxer and Segmenter

`HlsWriter` is the goroutine of one HLS writer. Its fields are one record `w`, and
the parts of `muxPacket` are functions on it: `Cut`, `StatUpdate`, `MuxVideo`,
`CacheAudio`, `Flush`, in the order of the calls. What is written is a
sequence of units (the tables, a PES packet) with the frames in it, its
continuity counter and its stamp. A frame is its number, kind and time;
all frames of one behaviour have one size. `TsMuxer` is the byte arithmetic of
`Muxer.WritePacket`: where the bytes of a PES packet land in packets
of 188, with `Byte` for the wrap of a length, and where a decoder looks for them.
`Segmenter` is the promise: every frame in exactly one segment, in the order of its
track, a segment ended by the key frame of the next or the end of the stream.
`Deregister`, `CloseQueue` and the other writer share the registry's entry of the
stream's name.

### ExpGolomb, SpsParser, AacConfig, FlvRemux, MseBuffer and FlvPlayer

A viewer's page with the player it is served. JavaScript runs in one thread, so
an action is one callback, and `Deliver` runs the microtasks that are waiting before
anything else happens. `FlvPlayer` has the loader (`FetchStreamLoader`), the stash
(`IOController`), the transmuxer, the page's reload and jump to the live end, and
as external actions the network and the browser. `FlvRemux` is the demuxer and the
remuxer as functions on one record: whole tags are taken off the data, frames
are queued until both tracks have their metadata, a batch becomes a media segment
whose last frame is held back, because its duration is the distance to the next.
`ParseTags` is the loop over the tags of a chunk, as a recursive function. A
stream is sent as *units*, halves of its header and tags, so that every cut the
code can notice is between two units. `MseBuffer` is `MSEController`:
pending segments and removals per SourceBuffer, drained by `updateend`. `AppendOne` is
one type's turn in `_doAppendSegments`: the browser opens a MediaSource that had
ended before it looks for room, and once an error has made the page destroy the
player nothing is appended for the other type. `StreamsAssumption` says what a
stream is made of: tags, of which the configuring ones have a configuration.

The configuration of pictures and sound goes through the parsers at the level of
bits and bytes: `ExpGolomb` reads numbers across 32-bit words, `SpsParser` the fields
of a sequence parameter set (laid out as sections of parts, each read under a
condition on the fields before it), `AacConfig` an AudioSpecificConfig and what the player
writes in its place. `MCFlvPlayer` has the *encoder* for five parameter sets,
written from the fields alone, with emulation prevention: the model's parser must
find what the encoder has put there.

### ChunkStream and MessageChannel

One direction of an RTMP connection. The receiver is `readChunkStream`:
`NewMessage`, `ReadsExtended`, `TimeRead` and `HeaderRead` are `readFmt0` to
`readFmt3`, `AfterNew` is `new()`, `ReadChunk` is `readChunk`, and
`HandleControl` what follows a completed message. The sender is either
`writeChunk` (`WriteChunk`, `Continue`, `SetChunkSize`: whole messages, format 0
and then 3) or an encoder, which is external: it interleaves chunk streams,
leaves out what a header may leave out as the receiver understands it
(`MayCompress`), changes its chunk size at any time and may abort a message. A
chunk on the wire says whether the four bytes of an extended time follow it and
how much payload; a receiver that would read more or fewer bytes than that has
lost its place, which is `failed`, as is the error `invalid remain`. In the
program the former shows as garbage some chunks later.
`MessageChannel` is the promise: messages arrive as sent, in the order of
completion, up to a failure. `writeChunk` sends no chunk for a message of
length 0, so it has none.

## 3. Runs

| run | instance | states | what it shows |
|---|---|---|---|
| `packet_writer` | 4 modes, queue of 2, 4 packets, fairness | 193,536 | order; what is taken is lost only for a reason (`LossHasReason`); `Close` frees a blocked publisher and ends the writer although the peer never reads; with peers that read, what the hls writer took is written through any `Close`, what an http writer took until its handler has returned |
| `file_loses_packets` | file mode, 3 packets | - | **violation**: the file is closed with packets in the queue (finding 1) |
| `relay` | 1 publisher with its file, 1 RTMP and 1 HTTP viewer, 2 packets, fairness | 333,597 | closed registries stay closed, no writer forgotten, none skipped, waiting viewers are registered, the map leads to running publishers; closing ends the loop and shutdown ends though viewers may never read; if they read, the end of the stream closes every writer |
| `same_key_unfindable` | 2 publishers of one key | - | **violation**: a streaming publisher is not in the map (finding 2) |
| `refused_request` | 1 publisher, 2 viewers | - | **violation**: a failed request keeps others open (finding 3) |
| `stream_cache` | ring of 2, all kinds, 6 packets | 63,000 | no gap, no disorder, the right headers; refinement of `GopWindow` |
| `ts_cache` | ring of 2, 5 segments, 5 ms, 1 player, memory or files | 197,000 | buffers apart, playlist consecutive, bodies of the right segment, the file that a playlist announces |
| `p2p_room` | 3 connections of one, two or three users or one of none, 1 candidate, fairness | 258,000 | two members at most and one asked to offer, joined means member, rooms with members can be found, answers and candidates fit; two that stay negotiate |
| `chunk_stream` | 2 streams and control, 4 messages of 0 or 3 units, chunk sizes 1 and 2, 3 times of which 1 is extended | 396,000 | refinement of `MessageChannel`; the receiver loses its place only after an abort or a repeated extended time; everything sent has arrived when the wire is empty |
| `hls_writer` | 5 frames, steps of 23 ms and 3 s, clock of 5 s, groups of 2, frames of 3 sizes, 1 other writer, fairness | 577,584 | segments decode on their own, durations and audio stamps; refinement of `Segmenter`; the writer ends and is out of the registry |
| `flv_player` | 6 streams of 5 to 12 tags, 2 page loads, 2 requests, up to 2 faults | 834,096 | each frame exactly once; what is buffered is shown at its own time; the browser is told the configuration the encoder wrote, ahead of its frames; the end comes last; queues do not stall; old requests are told to stop |
| `sfu_room` | 2 joining connections of one or two users, 1 watcher | 2,886,972 | nobody watches the closed, which panics there are, members are found, the second track joins |

**Bounds.** A queue of two is full, half full and empty; with four packets it
fills again after having been drained, and the RTMP writer's second send meets
every level. Two packets in the relay are enough for a writer to be met, to fail
and to be missed in the next round; a third repeats the round. One
HTTP and one RTMP viewer are the two kinds there are; what two of one kind could
do to each other goes through the registry, where the file writer, the
players and the requests are all just members. Two publishers meet only in
the map: `same_key_unfindable` has them there, and the invariants that involve
the map are proved for any number of them. A ring of two with six packets, up to
six of them key frames, wraps more than twice. Two slots of segments with five
flushes wrap twice; five milliseconds let every pair of segments share one or
not. Three connections to a room of two are a pair and one that comes
before it, in between, or is refused; the assignments of users to them are all
there are up to renaming, and the one candidate may be anybody's, at any time.
In the chunk layer, four messages are what it takes to use every format once
after the others on one stream; a message of three units is one, two or three
chunks and may see both sizes; one chunk on the wire is enough because the
receiver depends on nothing but the chunks in their order. The two streams are
interchangeable (`SYMMETRY`), and the run has no liveness property.

In `hls_writer` five frames make three segments with something in between, the clock of
five seconds wraps between any two frames, and a step of 23 ms keeps audio aligned (an
audio frame has 2089 ticks of 90 kHz) while one of three seconds does not. The three sizes
lay a key frame out in 176, 179 and 184 bytes: exactly one packet with the PCR, the gap
where stuffing does not fit, and two packets. In `flv_player` the first chunk of a
response has 1, 2 or 8 units (half the header, the header, three tags) and others 3 or 7,
so that chunks end within tags and between them; the streams have sound and pictures with
a gap and a new configuration, pictures alone, a little of both, pictures that begin late
with a codec the player refuses, sound that begins after the pictures have changed, and
pictures that change while the page jumps. A cleanup after 3 units of time, a jump at 3
and a recovery at 4 happen in streams of 4 to 13; two page loads or one load and one
resumed request are what can follow each other, and one fault of network or browser for
each stream (two for the shortest, none for the longest) is what they have to survive. Two
joining connections are a user and another, or a user who comes back; the watcher may be
late or early for either, and the theorems hold for any number. `CHECK_DEADLOCK FALSE` is
set because every bounded behaviour ends: packets run out, viewers are gone, the process
stops.

**Fairness.** Goroutines that can run do run (the Go scheduler), a mutex is
handed on, a read from or a write to a closed connection, file or channel
returns. Nothing is assumed of peers: nobody has to send, read or hang up.
Properties that need viewers (or a disk) that take what they are sent say so as
a premise, `SinkReturns` and `ViewersRead`. One strong fairness, of `ReadEOF`: the
rest of what an encoder sent before it hung up is finite and a read error is
followed by another read, so the end is read in the end.

In `P2pRoom` it is only assumed that as long as some service or page
can go on, one does; connections are finitely many and each has finitely many
steps, so this is less than what a fair scheduler gives. Nobody has to connect
or leave, and the janitor may never run. In `HlsWriter` the goroutine comes to the
end of a queue that has been closed, since nothing is added to it any more, and a
call of `Close` that has begun goes on. `SfuRoom` and `FlvPlayer` are checked for
safety only: what should happen there depends on the network and the user.

**Findings.**

1. `flv/writer.go 111` says that file mode loses no packet. `Close` closes
   the file after the channel, and `muxPacket` cannot write what is still
   queued.
2. `readme.md 5` says a pushed stream can be played over http-flv and hls.
   `deregisterPublisher` deletes by key; after a reconnect the end of
   the old connection hides the new stream.
3. `httpserver/flv.go 121` answers "init failed" and goes on: the nil writer is
   registered, panics the publisher's loop and stops `closeAll` half way.

Other behaviour worth knowing, stated in the properties as it is:
a viewer that registers after its publisher was closed waits for ever
(`WaitingMeansRegistered`); a viewer that fails during its cache ends the stream
for everybody (`Serve`, `CacheRefused`); the packet of the round a
viewer joins in reaches it twice (`GapFree`); an RTMP player can be sent audio
and key frames twice (`InOrder`); an old group of pictures can be replayed under
newer headers (`HeadersFirst`); a segment's body can be another segment's when
the ring comes round during the transfer (`BodyIsTheSegment`); with files, the
newest listed segment may not be there yet (`FileIsTheSegment`); `writeHeader`
repeats an extended time before each chunk of format 3, while the comment above it
gives format 3 no bytes and `readFmt3` reads none within a message, so that
a message of several chunks and a time past `0xffffff` cannot be read back
(`InSync`); an abort is ignored (`InSync`, `ChunksCarryMessages`);
`ReadPacket` of an RTMP player returns when the player hangs up and closes
nothing (`rtmp/stream.go 52`), so that its writer ends with its next failed write.

*HLS* (`SegmentsDecode`, `DurationsHonest`, `AudioInSync`, `EndIsComplete`). The first
segment may begin with frames that came before the tables. A key frame whose PES
packet has less than 176 bytes, or 177 to 183, is garbled: the stuffing is
written over the adaptation field of the PCR. A duration leaves out the time to
the key frame that ends the segment, and it is negative after the clock has wrapped;
the last segment is stored when nobody can find the writer any more. `Close` of an
old writer takes its successor of the same name out of the registry.

*SFU* (`ProcessSurvives`, `MemberIsFound`). A connection is reported failed and then
closed, and `OnClose` runs for both: the second closes `saveChan` again and the
panic is nobody's to recover. A packet that was read before the close and is put in
`saveChan` after it does the same. `OnTrack` may add a member after its `OnClose`, and
it stays. A room swept between `getOrNewRoom` and `AddMember` keeps a member nobody
finds. `service.OnClose` closes a connection that is not connected at that
moment, though it might come back. When `newPeerConnection` fails, the files and the
goroutine made for it stay.

*Player.* The server begins a stream anew whatever `Range` it is asked for, so that
after a pause for a full buffer the demuxer reads the file header as a tag of five
megabytes and is deaf until the page reloads; a pause right after a resume asks for
byte 0. A jump outside what is buffered clears the progress checker, and a player
that was paused then stays so. A first chunk of less than nine bytes is "not FLV". A
frame that the demuxer has queued at the end is never flushed. Two frames
of the old configuration can follow a new one (`ConfigReachesBrowser`), and more when
they waited in the demuxer for the other track's metadata: they are remuxed behind
whatever was configured meanwhile. A jump drops all that waits in the controller, an
initialization segment with it, so that what comes after a new configuration can be fed
under the old one. A segment the browser
had no room for waits for the next append (`NothingStalls`), past the end of the
stream if it comes to that (`EosComesLast`). A loader that is aborted while it connects
never reads its body and never cancels it, so that the server keeps the viewer
(`OldRequestsEnd` says it has been told to stop, not that it has). Frames that were
queued before a last tag that is none can be taken by the remuxer after the end of the
stream was told, when a request is resumed then (`EosComesLast`). A stream of one
track without metadata never plays: the header written by `flv/writer.go 17`
announces both. `aspect_ratio_idc` 16 is taken for none, and a rate that is not fixed
is 23.976.

## 4. Theorems

### Rtmp_proofs

The relay, for all sets of publishers, viewers, own writers and keys, and every number of
packets, under `MaxPacketsAssumption` and `DistinctAssumption` (the
identifiers are different things). The invariant is

    RelayInv == TypeOK /\ Membership /\ RelayControl /\ ClosingMarked /\ Round
                /\ Kept /\ ClosedRegistryIsClosed

* `Membership`: a member's `joined` is its registry, what was never made is
  nowhere, a viewer has been registered once at most.
* `RelayControl`: which of the locations go with a publisher in the map, with a
  registration, with the locks.
* `ClosingMarked`: whoever holds a publisher's lock across `close()` has set its
  flag, so that `Register` is refused before the registry itself is closed.
  Without it `ClosedRegistryIsClosed` is not inductive: a writer could register
  between the flag and `closeAll`.
* `Round`: in the middle of a round, a member that the loop has met has the
  newest packet unless it is still in the snapshot or in hand; a member it has
  not met has been handed nothing. `NobodySkipped` speaks only of the time
  between rounds and says nothing about a step within one.
* `Kept`: a writer given up is closed, and one about to be given up is in hand.

Each action has its own step; lemmas (`TypeStep`, `MembershipStep`,
`ControlStep`, `ClosingStep`, `RoundStep`, `KeptStep`, `ClosedStep`) prove one
conjunct of the invariant each, with `MovesFrame` for the many actions that leave
the registries alone. `RelayInvariance` is `Spec => []RelayInv`; `TypeCorrect`,
`NothingStaysOpen` (from `ClosedForGood` and `NothingForgotten`), `WaitersRegistered`,
`FoundMeansRunning` and `EveryoneServed` follow for the invariants of the run.

The chunk layer (`ChunkSpec`), for all chunk streams, chunk sizes, messages and times. The
receiver is behind the sender by what is on the wire, so no invariant about their
variables alone is inductive:

    InStepInv == Shape /\ Unfinished /\ Excused /\ InStep

`InStep` says that there is a *run* of receiver states over the first chunks on the wire,
from the receiver as it is, that ends level with the sender or before a chunk that repeats
an extended time and is refused (`CatchesUp`); all it delivers was sent. `Level` compares
the two ends stream by stream: same header, same payload, the length that is left. The
sender's steps make the run longer at its end, the receiver's take its first state away.
`TimeBack` is the arithmetic of time differences modulo 2^32. `StaysInSync` is `InSync`;
`Carries` is the refinement of `MessageChannel`: the receiver's next state is the second
of the run, so that what it delivers is the next message sent.

### Hls_proofs

The segmenter (`Spec`), for every duration, cache size, clock and frame size under
`Bounds`. Handlers are turned into relations between the record before and after
(`Tabled`, `Filmed`, `Grouped`, `Stashed`, `Emptied`, `IsCut`), and each part of the
invariant is carried through them:

    IInv == Typed /\ FitsAll /\ Pending /\ Continues /\ Begins /\ (~gone => Ready)
            /\ (\E lo : Counts) /\ AllHonest /\ LongEnough /\ NoKeyYet

* `FitsAll`, `Pending`: what reassembles, and the stamps of audio that is written and of
  audio still cached (`AudioInSync` speaks of the former only).
* `Continues`: the continuity counters run on through all units ever written, and the
  muxer's field has the next of each.
* `Begins`, `Ready`: tables come ahead of key frames; a file that follows a segment
  has more than its tables.
* `Counts`: file and cache hold the frames from some `lo` to the newest, the status says
  when the first and last of them were, and each key frame among them came
  before its time was over. `AllHonest` and `LongEnough` say it of finished segments.

`LayoutIs` proves, by induction along the recursive function `Layout`, that a PES
packet of any size reassembles unless it is one of the sizes which `TooSmall` names: the
run has three sizes, the lemma all of them. `EverySegmentDecodes`, `DurationsRight` and
`GroupsInSync` are the invariants of the run. `CutsIt` is the refinement of
`Segmenter`: a video frame is an `Accept`, or a `Cut` for a late key frame; an audio frame is
an `Accept` whether or not it makes the cache flush; configuration is a stutter.

The cache of segments (`CacheSpec`), for every ring size, set of players, number of
segments and clock:

    CacheIInv == Shape /\ Apart /\ (~reused => Fresh)
    Fresh     == Ringed /\ Named /\ Saved /\ Lists /\ Sent
                 /\ BodyIsTheSegment /\ FileIsTheSegment

`Apart` is about memory and holds always: `BuffersApart`, and that memory in an item or in
the pool has the bytes of a segment stored already. The rest holds until two segments get
one name (a millisecond is all that tells them apart). `Ringed` numbers the segments in
the slots, `Named` says that names grow, so that the file being written is not an older
segment's, `Saved` and `Lists` that what the playlist announces can be had, or the ring
has come round or it is the newest and on its way; `Sent` follows a body from the moment
it is asked for. Without `Named` and `Lists`, `FileIsTheSegment` is not inductive: an old
playlist in a player's hands could name anything. `BuffersStayApart`, `PlaylistGoesOn`,
`BodiesAreRight` and `FilesAreRight` are the four invariants of the run.

### StreamCache_proofs

For every ring size. `RingIsWindow == Spec => SlidingWindow` rests on `RingShape`: the
slots up to the index are filled and, once the last one is, all of them are. `SlotOrder`
and `NextSlot` compute where a slot is in the replay order and which one comes next, with
the wrap; `KeyFrameStep` and `InterFrameStep` carry that to the sequence that `send`
produces; `WindowStep` maps every step of `StreamCache` to a step of `GopWindow` or a
stutter. The invariant for what a viewer gets is

    IInv == RingShape /\ Holds(GopsOldestFirst, published) /\ HeadersNewest /\ ViewerFits

`Holds` says that the window has every frame from its first key frame on, once and in
order; `HeadersNewest` that the three headers are the newest published; `ViewerFits`
that the viewer has had frames without a gap, each behind its header and, while it is
live, all of them and the newest headers. The cache sends the ring in one
sequence, `FlattenSeq`: what that consists of is proved by induction on the number of
groups. `NothingMissing` is `GapFree`, `HeadersReachFirst` is `HeadersFirst`.

### PacketWriter_proofs

For every queue size, number of packets and set of writer kinds. `InOrder` and
`LossHasReason` are part of the invariant but say nothing about the middle of
`WritePacket` or about why the writer's goroutine has gone:

    IInv == Shape /\ Undecided /\ Newest /\ LeftFor /\ InOrder /\ LossHasReason

* `Undecided`: what is known of the newest packet while `WritePacket` is at it. A
  vital packet of an RTMP player has been accepted when the second, non-blocking
  send begins (`rtmp` sends it twice); that is why it can come twice and no other
  packet can.
* `Newest`: the newest packet is on its way at most once, and then behind all others,
  so that a second send keeps the order.
* `LeftFor`: the goroutine has left its loop only since the sink failed, the queue was
  closed, an RTMP writer was cancelled or the HTTP handler has returned: the reasons for a
  loss that `LossHasReason` admits.

The proof follows the *pipeline* (what is written, in hand and queued, in a row): a
step offers a packet, puts the newest at the end, gives up the one in hand, or leaves
the pipeline as it is (`Offers`, `Takes`, `GivesUp`, `StayOrLeave`).

### P2pRoom_proofs

For all sets of connections and users, under `P2pAssumption` (the null values
are not in the sets, `Logins` assigns users). `StepKinds` reduces the fifteen actions to the
few things that can happen to a room: a service goes on, a refused one goes,
one withdraws, one gets the room, one joins, a sweep. Each has a lemma that
proves every conjunct of

    IInv == Shape /\ Placed /\ Entries /\ Arriving /\ AtMostTwo /\ Told
            /\ ToldOnce /\ OneTold /\ JoinedIsMember /\ MembersAreFindable

`Entries` ties an entry of the map to its connection's user and room; without it
a `DelMember` could remove anybody. `Arriving` says that who is between
`getOrNewRoom` and `AddMember` has the current room or one swept meanwhile,
which makes `MembersAreFindable` inductive. `Told` says that in a room nobody has
left, one who was told to offer has a peer: the room is full, so nobody
else can be told. `PairOffers`, `JoinedStays` and `RoomsFindable` are the three
invariants of the run.

`MessagesFitPages` is the fourth. With `IInv` goes an invariant of the wire,

    MInv == WireShape /\ Quiet /\ Underway /\ Introductions

`Quiet`: who has never been in a room has sent and got nothing, and a page has no
candidate to send before it has a description. `Underway` gives each message in an inbox,
an outbox or a page's list of jobs what must be true of it there, so that an answer is
followed from the offer it answers. `Introductions` says that a description of a peer is
ahead of its candidates, wherever the two queues between them are cut. The proof found a
case that the run cannot, since it takes four connections: the second connection of a user
closes and removes the entry of the first, which goes on relaying, and so does its answer to
a page that has been replaced. `AnswerMeetsItsOffer` names it; the theorem holds for any
number.

### SfuRoom_proofs

For all sets of connections, users and watchers, under `SfuAssumption` (the empty
entry is no connection, users are assigned to connections). All four invariants of
the run are theorems: `NobodyWatchesTheClosed`, `OnlySaveChanPanics`, `MembersFound`
and `SecondTrackJoins`. `StepKinds` reduces the eighteen actions to those that touch
the room, with `Turns` for the six that only change a peer connection's state.

    IInv == Shape /\ Connected /\ Deleted /\ Entries /\ Watchers /\ Arriving
            /\ BothTracksJoin /\ NoForwardFromClosed /\ ProcessSurvives
            /\ MemberIsFound

`Connected` says when each report has been made: without it a connection could be
reported closed twice and `OnClose` would have more than two calls to account for.
`Deleted` says that who is leaving is marked `isDel`, which is what keeps a late
watcher out (`NoForwardFromClosed`). `Entries` says that only who was added is in the
map, and only with both tracks, so that a watcher never gets a nil track
(`ProcessSurvives`). `Watchers` ties the lists of listeners to the watchers' states.
`Arriving` says that who has not been added has the current room or one swept
meanwhile; it makes `MemberIsFound` inductive.

### FlvMedia_proofs and FlvPlayer_proofs

The player in the page, for all streams, all ways the network cuts them, all orders of
the callbacks, and any number of loads, requests and errors, under
`StreamsAssumption` and `PlayerAssumption`. A callback is one function on the whole
player, and the invariant is one on that record, of a player that is at work:

    Running == Buffers /\ Order /\ Beginning /\ Reading /\ Resting /\ Over /\ Lined
    IInv    == TypeInv /\ Requests /\ Timed /\ (a player is at work => Running) /\ ...

* `Requests`: which loader is the player's, and that every other is unbound and, if its
  request still runs, told to stop.
* `Buffers`: which SourceBuffer is busy with what waits for it; removals that wait have an
  operation ahead of them, segments that wait have one in either buffer or no room.
* `Order`: a track's media comes behind an initialization segment, in the microtasks, the
  queues or the buffer.
* `Beginning`: before the file header is read there is nothing anywhere.
* `Reading`: the bytes received are read or kept, and those kept are the next of the stream;
  or the request was resumed, the server has begun anew and the demuxer is deaf.
* `Resting`: what the demuxer has queued between two chunks. It has taken everything when
  the last tag was a frame; when it was metadata or a configuration, it has not.
* `Over`: the end of the stream is told after all data, with nothing held back
  or by a resumed request.
* `Lined`: the numbers of the frames rise from the buffer over the segments and
  microtasks to what remuxer and demuxer hold, and are those of the tags of that
  type read so far.
* `Timed`: a frame that waits has the time of its tag, and one in a segment, wherever the
  segment is, has it on the remuxer's clock: its base time and the durations before it, silence
  counted, add up to it. Before the clock has begun nothing has gone out.

`FlvMedia_proofs` has what the functions do to a player's parts, one lemma for each:
`ParseTag` and `ParseTags`, the two remuxers, `DispatchFrames` and `ParseChunks`;
`AppendInitSegment`, `DoAppendSegments`, `DoRemoveRanges`, the cleanup, the seek and
the opening of the MediaSource. A lemma's conclusion is a named relation of before and after
(`Dispatched`, `Chunked`, `Removed`, `Appended`, `Cleaned`, `Sought`, `Opening`), so that those
of the callbacks in `FlvPlayer_proofs` compose them. For the frames there are sets of numbers:
`Marks` are those in a sequence, `Rises` says that they ascend, `Supplies` that a step of the
demuxer adds the tags it has read and no others, `Feeds` that a step of the controller
neither loses one nor takes one from ahead of another. `WholeLineIs` comes back from those
sets to the one sequence of which `EveryFrameOnce` speaks.

That `Timed` is kept is a matter of the remuxer: a batch is moved by the distance of its
first frame from where the last segment ended (`DtsCorrection`), and a frame that is moved
is late or early for ever after. `Steady` says why none is: while the player may still hear
an answer (`Hearing`), a track's segments have ended where the frame begins that it holds
back, that frame is the first of the next batch, and so the correction is nil. Flushing
the last frame breaks that, and by then no data can follow; a request that is
resumed begins with `insertDiscontinuity`, and a track that has forgotten where it was is not
corrected either. The lemmas are in three layers: the durations of a
run of samples and their sums (`OnTime`, `AddsIs`, `OnTimeCat`), a segment, whose
gaps the silence fills exactly (`SilentTime`, `FilledUpTime`, `SegmentTime`), and a step of
the demuxer or remuxer, which `Ticks`. A segment keeps its times on its way through the controller because
nothing there writes to it (`StaysTimed`, `Holds`).

`RequestsEnd`, `QueuesMove`, `EndIsLast`, `FramesOnce` and `FramesInTime` are five of the six
invariants of the run, `TypeCorrect` its type invariant.

Attempts that failed changed the model. `EosComesLast` did not hold after
every behaviour: frames queued before a last tag that is none are taken by the remuxer
when a request is resumed past the end, hence its exception. `DoAppendSegments` went on to the
second type after an error in the first, on a player that the page has by then destroyed.
An append to a MediaSource that has ended opens it, which the model had left out, and with it
the updateend of a player that has seen its end. And a script tag that names a track is now
any choice of the two tracks.

### Induction over data

The induction theorems of the library take an operator as a parameter and cannot be
instantiated here. `StreamCache_proofs`, `Hls_proofs` and `FlvMedia_proofs` have the
principle in the form of sets instead: `Least` says that a nonempty set of numbers has a
least one, and `SetInduction` that a set of numbers with 0 and the successor of each
member has all of them. A fact about sequences is proved as a set of lengths. That is how
`FlattenSeq` and `Layout` are reasoned about, and in the player the loop over the tags,
the sum of a segment's durations and the initialization segments that a MediaSource takes
when it opens. `SelectSeq` is defined by a recursion within the library that this does not
reach, and the definitions that needed its value state it otherwise: `Kept` in `TsCache`
by rank, `GapFree` and `SegmentsDecode` by position.

### Only model-checked

Liveness (in `packet_writer`, `relay`, `p2p_room` and `hls_writer`): the prover has no
rules for fairness and ENABLED. Of the browser player, one invariant.
`ConfigReachesBrowser` compares what the parsers find with what an encoder wrote bit by bit;
both are recursive functions over data, and that they are inverse is an induction over the
fields of a parameter set, for which the model has five. The invariants of every other
passing run are theorems.

## 5. Not modelled, and why

*Components.* The RTMP session (handshake, commands up to publish or play) is one
goroutine that answers what it reads, in AMF; AMF is a stateless format over
recursive data. The recorder behind `/signal-video` (`webm/saver.go`) has fields that
two goroutines write without a lock and a `Close` beside them: what that does is
decided inside a library, whose block writers would have to be guessed. The server's
own H.264, AAC and MP3 parsers and the FLV tag parser are pure functions, and
what the rest sees of them is a packet's kind. `rtmp/client.go` is used by nothing.
The TURN server wraps a library, the MP4 server serves one file, the data channel demo
sends a counter. Logging, formats of file names and HTTP headers are left out.

*Abstractions.* In `PacketWriter` a packet's bytes are not modelled, nor what a late
write of an HTTP writer does to the other request whose response it may reach; that it may end
the process is in `PacketWriter` and not in the modules of the other components. In `TsCache`
encryption is not, since it changes neither whose bytes they are nor when they are
read, and the process-wide pool is modelled for one stream. `HlsWriter` has no queue
of its own: `PacketWriter` does, and here a packet comes when it comes. In `SfuRoom`
the goroutines of `sendToTrack` never end, which only lets a packet come late; a
session that is closing is open, and how it ends does not matter once its
connection is closed.

*Of the player* (the component is `partly` modelled): `flv.js` is a library bundled
with the server, and only the path of `p.html` through it is in the model. User
seeking, mp3, the workarounds for Safari and Edge, the worker, seekable streams,
the other loaders, statistics and AMF decoding are not; a script tag says what it says.
Parameter sets are taken as whole, as the encoder sent them: a truncated one
would make the parser throw within `parseChunks`. 32-bit fields that would come out
negative and rates that sixteen bits cannot hold (88.2 and 96 kHz) are not in the
instances. The sizes of frames are left out, and with them one error: `_remuxAudio` reserves
the size of the frame before a gap for each silent frame (`flv.js 10772`) and writes
`_silentUnit` (`flv.js 10829`), so that silence longer than a short frame does not fit
and the copy throws.

## 6. Plan

In this order; each with its runs and the hazards listed in `PROJECT.json`.

1. `RtmpSession`: handshake, commands, window acknowledgements, two goroutines
   on one buffered writer (`rtmp/conn.go 271`).
2. `WebmSaver`, with the library's block writers as external actions
   (`webm/saver.go 65`).
3. The relay, the writers and the cache composed: one writer of each kind in one
   instance, in place of the abstract writers of `StreamRelay`.
