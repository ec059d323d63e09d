---------------------------- MODULE StreamRelay -----------------------------
(* How a published stream reaches its writers: the process-wide map of       *)
(* publishers, each publisher's registry of writers, the publisher's loop    *)
(* that hands every packet to every writer, the handlers that look a         *)
(* publisher up and register a viewer, and shutdown. What one writer does    *)
(* with a packet is module PacketWriter; here a writer is open or closed.    *)
(*                                                                           *)
(* rtmp/registry.go, rtmp/stream.go 42-46 and 127-226, rtmp/server.go 74-86  *)
(* and 144-174, httpserver/flv.go 109-125.                                   *)
EXTENDS Naturals

CONSTANTS
  Publishers,   \* connections that publish
  RtmpViewers,  \* connections that play
  HttpViewers,  \* HTTP-FLV requests
  Own,          \* the writers a publisher registers itself: "file", "hls"
  Keys,         \* stream keys, app/name
  None,         \* no publisher, no writer, no lock holder
  Shutdown,     \* the goroutine that runs the shutdown hooks
  MaxPackets    \* bound: media packets read per publisher

Viewers == RtmpViewers \cup HttpViewers
OwnWriters == Publishers \X Own
Writers == Viewers \cup OwnWriters

ASSUME MaxPacketsAssumption == MaxPackets \in Nat
ASSUME DistinctAssumption ==
  /\ RtmpViewers \cap HttpViewers = {} /\ Viewers \cap OwnWriters = {}
  /\ None \notin Publishers \cup Writers \cup {Shutdown}
  /\ Shutdown \notin Publishers

VARIABLES
  publisherMap, \* key -> publisher, or None
  ppc,          \* where each publisher's handleConn is
  key,          \* the key each publisher asked for
  conn,         \* its connection: "up", "ended" by the peer, "closed" by us
  closed,       \* streamPublisher.closed
  vlock,        \* who holds streamPublisher's lock across close()
  regClosed,    \* writerRegistryHolder.closed
  members,      \* writerRegistryHolder.members
  count,        \* packets read so far (history)
  cacheFilled,  \* the stream cache has something to send
  todo,         \* what is left of the loop's snapshot from getMembers
  cur,          \* the writer the loop is busy with
  wstate,       \* each writer: "none", "open", "closed", or a "nil" *flv.Writer
  contacted,    \* its sendCacheOnce has run
  got,          \* the last packet number it was handed (history)
  joined,       \* the publisher whose registry took it (history)
  vpc, target,  \* each viewer's handler and the publisher it found
  spc, stodo    \* closeAllPublisher and the publishers it has left to close

pubVars == <<ppc, key, conn, count, cacheFilled, todo, cur>>
regVars == <<closed, vlock, regClosed, members>>
writerVars == <<wstate, contacted, got, joined>>
viewerVars == <<vpc, target>>
shutVars == <<spc, stodo>>
vars == <<publisherMap, pubVars, regVars, writerVars, viewerVars, shutVars>>

Init ==
  /\ publisherMap = [k \in Keys |-> None]
  /\ ppc = [p \in Publishers |-> "idle"]
  /\ key \in [Publishers -> Keys]
  /\ conn = [p \in Publishers |-> "up"]
  /\ closed = [p \in Publishers |-> FALSE]
  /\ vlock = [p \in Publishers |-> None]
  /\ regClosed = [p \in Publishers |-> FALSE]
  /\ members = [p \in Publishers |-> {}]
  /\ count = [p \in Publishers |-> 0]
  /\ cacheFilled = [p \in Publishers |-> FALSE]
  /\ todo = [p \in Publishers |-> {}]
  /\ cur = [p \in Publishers |-> None]
  /\ wstate = [w \in Writers |-> "none"]
  /\ contacted = [w \in Writers |-> FALSE]
  /\ got = [w \in Writers |-> 0]
  /\ joined = [w \in Writers |-> None]
  /\ vpc = [v \in Viewers |-> "idle"]
  /\ target = [v \in Viewers |-> None]
  /\ spc = "idle" /\ stodo = {}

PGoto(p, loc) == ppc' = [ppc EXCEPT ![p] = loc]
VGoto(v, loc) == vpc' = [vpc EXCEPT ![v] = loc]

\* Writer.Close(), idempotent through closeOnce.
ClosedBy(w) == [wstate EXCEPT ![w] = IF @ = "nil" THEN "nil" ELSE "closed"]

\* closeAllPublisher keeps pmu read-locked while it runs, so nobody writes
\* the map meanwhile.
MapUnlocked == spc # "closing"

\* Mutants of RegisterWriter: no look at the closed flags; numGen not advanced,
\* so that the new writer takes the place of the others.
RegisterWriterAlways(p, w) ==
  /\ vlock[p] = None
  /\ members' = [members EXCEPT ![p] = @ \cup {w}]
  /\ joined' = [joined EXCEPT ![w] = p]
RegisterWriterSameIndex(p, w) ==
  /\ vlock[p] = None
  /\ IF closed[p] \/ regClosed[p]
       THEN UNCHANGED <<members, joined>>
       ELSE /\ members' = [members EXCEPT ![p] = {w}]
            /\ joined' = [joined EXCEPT ![w] = p]

\* streamPublisher.Register: refused silently by a closed publisher, and by a
\* closed registry.
RegisterWriter(p, w) ==
  /\ vlock[p] = None
  /\ IF closed[p] \/ regClosed[p]
       THEN UNCHANGED <<members, joined>>
       ELSE /\ members' = [members EXCEPT ![p] = @ \cup {w}]
            /\ joined' = [joined EXCEPT ![w] = p]

-----------------------------------------------------------------------------
(* handleConn for a publishing connection.                                   *)

\* newStreamPublisher and registerPublisher: the last one to come owns the key.
RegisterPublisher(p) ==
  /\ ppc[p] = "idle" /\ MapUnlocked
  /\ publisherMap' = [publisherMap EXCEPT ![key[p]] = p]
  /\ PGoto(p, "setup")
  /\ UNCHANGED <<key, conn, count, cacheFilled, todo, cur, regVars, writerVars, viewerVars, shutVars>>

\* The FLV file and the HLS writer are made and registered before the loop.
RegisterOwn(p, o) ==
  /\ ppc[p] = "setup" /\ wstate[<<p, o>>] = "none"
  /\ wstate' = [wstate EXCEPT ![<<p, o>>] = "open"]
  /\ RegisterWriter(p, <<p, o>>)
  /\ UNCHANGED <<publisherMap, pubVars, closed, vlock, regClosed, contacted, got, viewerVars, shutVars>>

\* The file could not be opened: the stream goes on without it.
FileFails(p) ==
  /\ ppc[p] = "setup" /\ "file" \in Own /\ wstate[<<p, "file">>] = "none"
  /\ wstate' = [wstate EXCEPT ![<<p, "file">>] = "closed"]
  /\ UNCHANGED <<publisherMap, pubVars, regVars, contacted, got, joined, viewerVars, shutVars>>

StartLoop(p) ==
  /\ ppc[p] = "setup" /\ \A o \in Own : wstate[<<p, o>>] # "none"
  /\ PGoto(p, "check")
  /\ UNCHANGED <<publisherMap, key, conn, count, cacheFilled, todo, cur, regVars, writerVars, viewerVars, shutVars>>

\* start(): isClosed(), which waits for a close() in progress.
CheckClosed(p) ==
  /\ ppc[p] = "check" /\ vlock[p] = None
  /\ PGoto(p, IF closed[p] THEN "deregister" ELSE "read")
  /\ UNCHANGED <<publisherMap, key, conn, count, cacheFilled, todo, cur, regVars, writerVars, viewerVars, shutVars>>

\* read() returned a media packet; it went through cache.add, which keeps it
\* or not; then getMembers.
ReadPacket(p, keeps) ==
  /\ ppc[p] = "read" /\ conn[p] # "closed" /\ count[p] < MaxPackets
  /\ count' = [count EXCEPT ![p] = @ + 1]
  /\ cacheFilled' = [cacheFilled EXCEPT ![p] = @ \/ keeps]
  /\ PGoto(p, "members")
  /\ UNCHANGED <<publisherMap, key, conn, todo, cur, regVars, writerVars, viewerVars, shutVars>>

GetMembers(p) ==
  /\ ppc[p] = "members"
  /\ todo' = [todo EXCEPT ![p] = IF regClosed[p] THEN {} ELSE members[p]]
  /\ PGoto(p, "fanout")
  /\ UNCHANGED <<publisherMap, key, conn, count, cacheFilled, cur, regVars, writerVars, viewerVars, shutVars>>

\* Mutant of ReadEOF: every error is ignored.
ReadEOFIgnored(p) ==
  /\ ppc[p] = "read" /\ conn[p] = "ended"
  /\ PGoto(p, "check")
  /\ UNCHANGED <<publisherMap, key, conn, count, cacheFilled, todo, cur, regVars, writerVars, viewerVars, shutVars>>

ReadEOF(p) ==
  /\ ppc[p] = "read" /\ conn[p] = "ended"
  /\ PGoto(p, "deregister")
  /\ UNCHANGED <<publisherMap, key, conn, count, cacheFilled, todo, cur, regVars, writerVars, viewerVars, shutVars>>

\* Any other error, a closed connection's among them, is ignored.
ReadError(p) ==
  /\ ppc[p] = "read"
  /\ PGoto(p, "check")
  /\ UNCHANGED <<publisherMap, key, conn, count, cacheFilled, todo, cur, regVars, writerVars, viewerVars, shutVars>>

\* The next writer of the snapshot, in the map's random order.
PickWriter(p, w) ==
  /\ ppc[p] = "fanout" /\ cur[p] = None /\ w \in todo[p]
  /\ todo' = [todo EXCEPT ![p] = @ \ {w}]
  /\ cur' = [cur EXCEPT ![p] = w]
  /\ PGoto(p, IF contacted[w] THEN "write" ELSE "cache")
  /\ UNCHANGED <<publisherMap, key, conn, count, cacheFilled, regVars, writerVars, viewerVars, shutVars>>

FanoutDone(p) ==
  /\ ppc[p] = "fanout" /\ cur[p] = None /\ todo[p] = {}
  /\ PGoto(p, "check")
  /\ UNCHANGED <<publisherMap, key, conn, count, cacheFilled, todo, cur, regVars, writerVars, viewerVars, shutVars>>

\* writer.writeCache(cache), the first time this writer is met: everything
\* cached, the current packet included. A closed writer refuses the first of
\* it; an empty cache hands over nothing and cannot fail.
WriteCache(p) ==
  LET w == cur[p] IN
  /\ ppc[p] = "cache" /\ wstate[w] # "nil"
  /\ contacted' = [contacted EXCEPT ![w] = TRUE]
  /\ \/ /\ ~cacheFilled[p]
        /\ PGoto(p, "write") /\ UNCHANGED got
     \/ /\ cacheFilled[p] /\ wstate[w] = "closed"
        /\ PGoto(p, "leave") /\ UNCHANGED got
     \/ /\ cacheFilled[p] /\ wstate[w] = "open"
        /\ PGoto(p, "caching") /\ got' = [got EXCEPT ![w] = count[p]]
  /\ UNCHANGED <<publisherMap, key, conn, count, cacheFilled, todo, cur, regVars, wstate, joined, viewerVars, shutVars>>

\* All of the cache was taken ...
CacheSent(p) ==
  /\ ppc[p] = "caching"
  /\ PGoto(p, "write")
  /\ UNCHANGED <<publisherMap, key, conn, count, cacheFilled, todo, cur, regVars, writerVars, viewerVars, shutVars>>

\* ... or the writer was closed before the end of it, by its own goroutine
\* for one, and refused a packet: it is closed, deregistered, start() returns.
CacheRefused(p) ==
  /\ ppc[p] = "caching" /\ wstate[cur[p]] = "closed"
  /\ PGoto(p, "leave")
  /\ UNCHANGED <<publisherMap, key, conn, count, cacheFilled, todo, cur, regVars, writerVars, viewerVars, shutVars>>

\* writer.WritePacket(packet) is taken (or dropped from a full queue).
WriteOk(p) ==
  LET w == cur[p] IN
  /\ ppc[p] = "write" /\ wstate[w] = "open"
  /\ got' = [got EXCEPT ![w] = count[p]]
  /\ cur' = [cur EXCEPT ![p] = None]
  /\ PGoto(p, "fanout")
  /\ UNCHANGED <<publisherMap, key, conn, count, cacheFilled, todo, regVars, wstate, contacted, joined, viewerVars, shutVars>>

\* ... or refused by a closed writer, on to writer.Close() and deregister.
WriteRefused(p) ==
  /\ ppc[p] = "write" /\ wstate[cur[p]] = "closed"
  /\ PGoto(p, "drop")
  /\ UNCHANGED <<publisherMap, key, conn, count, cacheFilled, todo, cur, regVars, writerVars, viewerVars, shutVars>>

\* Mutant of Remove: the loop keeps its hand on the writer.
RemoveKeepsCur(p, loc) ==
  /\ wstate' = ClosedBy(cur[p])
  /\ members' = [members EXCEPT ![p] = @ \ {cur[p]}]
  /\ PGoto(p, loc) /\ UNCHANGED cur

\* writer.Close(); registry.deregister(i).
Remove(p, loc) ==
  /\ wstate' = ClosedBy(cur[p])
  /\ members' = [members EXCEPT ![p] = @ \ {cur[p]}]
  /\ cur' = [cur EXCEPT ![p] = None]
  /\ PGoto(p, loc)

\* Mutant of DropWriter: a break where the loop has none.
DropWriterBreaks(p) ==
  /\ ppc[p] = "drop"
  /\ Remove(p, "check")
  /\ UNCHANGED <<publisherMap, key, conn, count, cacheFilled, todo, closed, vlock, regClosed, contacted, got, joined, viewerVars, shutVars>>

\* ... and on to the next writer.
DropWriter(p) ==
  /\ ppc[p] = "drop"
  /\ Remove(p, "fanout")
  /\ UNCHANGED <<publisherMap, key, conn, count, cacheFilled, todo, closed, vlock, regClosed, contacted, got, joined, viewerVars, shutVars>>

LeaveLoop(p) ==
  /\ ppc[p] = "leave"
  /\ Remove(p, "deregister")
  /\ UNCHANGED <<publisherMap, key, conn, count, cacheFilled, todo, closed, vlock, regClosed, contacted, got, joined, viewerVars, shutVars>>

\* A nil *flv.Writer in the registry: the first method call on it panics out
\* of start(); the deferred calls run.
NilPanic(p) ==
  /\ ppc[p] \in {"cache", "write"} /\ wstate[cur[p]] = "nil"
  /\ cur' = [cur EXCEPT ![p] = None]
  /\ PGoto(p, "deregister")
  /\ UNCHANGED <<publisherMap, key, conn, count, cacheFilled, todo, regVars, writerVars, viewerVars, shutVars>>

\* Mutant of DeregisterPublisher: the deferred call is missing.
DeregisterPublisherMissing(p) ==
  /\ ppc[p] = "deregister" /\ MapUnlocked
  /\ PGoto(p, "close")
  /\ UNCHANGED <<publisherMap, key, conn, count, cacheFilled, todo, cur, regVars, writerVars, viewerVars, shutVars>>

\* deregisterPublisher(key): whoever has the key now.
DeregisterPublisher(p) ==
  /\ ppc[p] = "deregister" /\ MapUnlocked
  /\ publisherMap' = [publisherMap EXCEPT ![key[p]] = None]
  /\ PGoto(p, "close")
  /\ UNCHANGED <<key, conn, count, cacheFilled, todo, cur, regVars, writerVars, viewerVars, shutVars>>

\* The peer hangs up.
PeerLeaves(p) ==
  /\ ppc[p] # "idle" /\ conn[p] = "up"
  /\ conn' = [conn EXCEPT ![p] = "ended"]
  /\ UNCHANGED <<publisherMap, ppc, key, count, cacheFilled, todo, cur, regVars, writerVars, viewerVars, shutVars>>

-----------------------------------------------------------------------------
(* streamPublisher.close(), by the publisher's own defer or by shutdown.     *)

\* v.Lock(); closed = true; conn.Close().
BeginClose(p, thread) ==
  /\ vlock[p] = None
  /\ vlock' = [vlock EXCEPT ![p] = thread]
  /\ closed' = [closed EXCEPT ![p] = TRUE]
  /\ conn' = [conn EXCEPT ![p] = "closed"]

\* Mutant of CloseAll: the lock is kept.
CloseAllKeepsLock(p, thread) ==
  /\ vlock[p] = thread
  /\ regClosed' = [regClosed EXCEPT ![p] = TRUE]
  /\ wstate' = [w \in Writers |-> IF w \in members[p] THEN "closed" ELSE wstate[w]]
  /\ UNCHANGED vlock

\* registry.closeAll(); v.Unlock(). A nil writer among the members makes
\* Close panic on it: whichever members the map's order put before it are
\* closed and the rest is not.
CloseAll(p, thread) ==
  /\ vlock[p] = thread
  /\ vlock' = [vlock EXCEPT ![p] = None]
  /\ regClosed' = [regClosed EXCEPT ![p] = TRUE]
  /\ \E S \in SUBSET {w \in members[p] : wstate[w] # "nil"} :
       /\ (\A w \in members[p] : wstate[w] # "nil") => S = members[p]
       /\ wstate' = [w \in Writers |-> IF w \in S THEN "closed" ELSE wstate[w]]

OwnBeginClose(p) ==
  /\ ppc[p] = "close" /\ BeginClose(p, p)
  /\ PGoto(p, "closeall")
  /\ UNCHANGED <<publisherMap, key, count, cacheFilled, todo, cur, regClosed, members, writerVars, viewerVars, shutVars>>

OwnCloseAll(p) ==
  /\ ppc[p] = "closeall" /\ CloseAll(p, p)
  /\ PGoto(p, "done")
  /\ UNCHANGED <<publisherMap, key, conn, count, cacheFilled, todo, cur, closed, members, contacted, got, joined, viewerVars, shutVars>>

-----------------------------------------------------------------------------
(* A viewer's handler: handleConn for a player, handleFlvRequest.            *)

\* FindPublisher(key): without one the request is refused.
Find(v, k) ==
  /\ vpc[v] = "idle"
  /\ target' = [target EXCEPT ![v] = publisherMap[k]]
  /\ VGoto(v, IF publisherMap[k] = None THEN "gone" ELSE "found")
  /\ UNCHANGED <<publisherMap, pubVars, regVars, writerVars, shutVars>>

\* newStreamWriter / NewHttpWriter. NewHttpWriter fails when the response
\* cannot be written; the handler answers 500 and goes on with a nil writer.
NewWriter(v, state) ==
  /\ vpc[v] = "found"
  /\ state = "open" \/ (state = "nil" /\ v \in HttpViewers)
  /\ wstate' = [wstate EXCEPT ![v] = state]
  /\ VGoto(v, "register")
  /\ UNCHANGED <<publisherMap, pubVars, regVars, contacted, got, joined, target, shutVars>>

\* publisher.Register(writer). Wait() on a nil writer panics; gin recovers.
Register(v) ==
  /\ vpc[v] = "register" /\ RegisterWriter(target[v], v)
  /\ VGoto(v, IF wstate[v] = "nil" THEN "gone" ELSE "watching")
  /\ UNCHANGED <<publisherMap, pubVars, closed, vlock, regClosed, wstate, contacted, got, target, shutVars>>

\* writer.Start() or Wait() returns once the writer is closed.
StopWatching(v) ==
  /\ vpc[v] = "watching" /\ wstate[v] = "closed"
  /\ VGoto(v, "gone")
  /\ UNCHANGED <<publisherMap, pubVars, regVars, writerVars, target, shutVars>>

\* The writer's own goroutine closes it when a write fails: it needs a packet
\* to write to notice that the viewer has left or the disk is full.
WriterFails(w) ==
  /\ wstate[w] = "open" /\ got[w] > 0
  /\ wstate' = ClosedBy(w)
  /\ UNCHANGED <<publisherMap, pubVars, regVars, contacted, got, joined, viewerVars, shutVars>>

-----------------------------------------------------------------------------
(* The shutdown hooks.                                                       *)

\* closeAllPublisher: pmu.RLock(), then close() on every publisher in the map.
BeginShutdown ==
  /\ spc = "idle"
  /\ spc' = "closing"
  /\ stodo' = {publisherMap[k] : k \in Keys} \ {None}
  /\ UNCHANGED <<publisherMap, pubVars, regVars, writerVars, viewerVars>>

ShutdownBeginClose(p) ==
  /\ spc = "closing" /\ p \in stodo
  /\ \A q \in Publishers : vlock[q] # Shutdown
  /\ BeginClose(p, Shutdown)
  /\ UNCHANGED <<publisherMap, ppc, key, count, cacheFilled, todo, cur, regClosed, members, writerVars, viewerVars, shutVars>>

\* A panic in closeAll ends the iteration; the deferred unlocks run.
ShutdownCloseAll(p) ==
  /\ spc = "closing" /\ CloseAll(p, Shutdown)
  /\ stodo' = IF \E w \in members[p] : wstate[w] = "nil" THEN {} ELSE stodo \ {p}
  /\ UNCHANGED <<publisherMap, pubVars, closed, members, contacted, got, joined, viewerVars, spc>>

EndShutdown ==
  /\ spc = "closing" /\ stodo = {} /\ \A q \in Publishers : vlock[q] # Shutdown
  /\ spc' = "done"
  /\ UNCHANGED <<publisherMap, pubVars, regVars, writerVars, viewerVars, stodo>>

\* The hooks flv.newWriter and hls.NewStreamWriter add for their own writer.
HookCloses(w) ==
  /\ spc # "idle" /\ w \in HttpViewers \cup OwnWriters /\ wstate[w] = "open"
  /\ wstate' = ClosedBy(w)
  /\ UNCHANGED <<publisherMap, pubVars, regVars, contacted, got, joined, viewerVars, shutVars>>

-----------------------------------------------------------------------------
PublisherStep(p) ==
  \/ RegisterPublisher(p) \/ StartLoop(p) \/ CheckClosed(p)
  \/ \E o \in Own : RegisterOwn(p, o)
  \/ FileFails(p)
  \/ \E keeps \in BOOLEAN : ReadPacket(p, keeps)
  \/ GetMembers(p) \/ ReadEOF(p) \/ ReadError(p)
  \/ \E w \in Writers : PickWriter(p, w)
  \/ FanoutDone(p) \/ WriteCache(p) \/ CacheSent(p) \/ CacheRefused(p)
  \/ WriteOk(p) \/ WriteRefused(p)
  \/ DropWriter(p) \/ LeaveLoop(p) \/ NilPanic(p)
  \/ DeregisterPublisher(p) \/ OwnBeginClose(p) \/ OwnCloseAll(p)
  \/ PeerLeaves(p)

ViewerStep(v) ==
  \/ \E k \in Keys : Find(v, k)
  \/ \E state \in {"open", "nil"} : NewWriter(v, state)
  \/ Register(v) \/ StopWatching(v)

ShutdownStep ==
  \/ BeginShutdown \/ EndShutdown
  \/ \E p \in Publishers : ShutdownBeginClose(p) \/ ShutdownCloseAll(p)

Next ==
  \/ \E p \in Publishers : PublisherStep(p)
  \/ \E v \in Viewers : ViewerStep(v)
  \/ \E w \in Writers : WriterFails(w) \/ HookCloses(w)
  \/ ShutdownStep

Spec == Init /\ [][Next]_vars

\* The Go scheduler runs what can run and a mutex is handed on. A peer may
\* keep its connection without sending or reading, so neither a packet, an
\* end of stream, nor a write into a full queue is promised; a read from a
\* connection that was closed returns, one from a connection that has ended
\* comes to its end (what the peer sent before it left is finite: strong
\* fairness of ReadEOF), and a write to a closed writer returns.
Unblocked(p) ==
  \/ RegisterPublisher(p) \/ StartLoop(p) \/ CheckClosed(p)
  \/ \E o \in Own : RegisterOwn(p, o)
  \/ GetMembers(p) \/ ReadEOF(p)
  \/ (conn[p] = "closed" /\ ReadError(p))
  \/ \E w \in Writers : PickWriter(p, w)
  \/ FanoutDone(p) \/ WriteCache(p) \/ CacheRefused(p) \/ WriteRefused(p)
  \/ DropWriter(p) \/ LeaveLoop(p) \/ NilPanic(p)
  \/ DeregisterPublisher(p) \/ OwnBeginClose(p) \/ OwnCloseAll(p)

Fairness ==
  /\ \A p \in Publishers : WF_vars(ppc[p] # "idle" /\ Unblocked(p))
  /\ \A p \in Publishers : SF_vars(ReadEOF(p))
  /\ \A v \in Viewers : WF_vars(vpc[v] # "idle" /\ ViewerStep(v))
  /\ \A p \in Publishers : WF_vars(ShutdownBeginClose(p) \/ ShutdownCloseAll(p))
  /\ WF_vars(EndShutdown)

FairSpec == Spec /\ Fairness

\* Every viewer reads what it is sent, so that no queue stays full.
ViewersRead == \A p \in Publishers : WF_vars(CacheSent(p) \/ WriteOk(p))

-----------------------------------------------------------------------------
(* Properties.                                                               *)

Locations == {"idle", "setup", "check", "read", "members", "fanout", "cache",
              "caching", "write", "drop", "leave", "deregister", "close",
              "closeall", "done"}
Serving == {"cache", "caching", "write", "drop", "leave"}
InLoop == {"check", "read", "members", "fanout"} \cup Serving

\* Shape of the state.
TypeOK ==
  /\ publisherMap \in [Keys -> Publishers \cup {None}]
  /\ ppc \in [Publishers -> Locations] /\ key \in [Publishers -> Keys]
  /\ conn \in [Publishers -> {"up", "ended", "closed"}]
  /\ closed \in [Publishers -> BOOLEAN] /\ regClosed \in [Publishers -> BOOLEAN]
  /\ vlock \in [Publishers -> Publishers \cup {Shutdown, None}]
  /\ members \in [Publishers -> SUBSET Writers]
  /\ todo \in [Publishers -> SUBSET Writers]
  /\ cur \in [Publishers -> Writers \cup {None}]
  /\ \A p \in Publishers : (cur[p] # None) = (ppc[p] \in Serving)
  /\ count \in [Publishers -> Nat] /\ cacheFilled \in [Publishers -> BOOLEAN]
  /\ wstate \in [Writers -> {"none", "open", "closed", "nil"}]
  /\ contacted \in [Writers -> BOOLEAN] /\ got \in [Writers -> Nat]
  /\ joined \in [Writers -> Publishers \cup {None}]
  /\ vpc \in [Viewers -> {"idle", "found", "register", "watching", "gone"}]
  /\ target \in [Viewers -> Publishers \cup {None}]
  /\ spc \in {"idle", "closing", "done"} /\ stodo \in SUBSET Publishers

NilMember(p) == \E w \in members[p] : wstate[w] = "nil"

\* Once a publisher's closeAll has run, whoever ran it, every writer in its
\* registry is closed, and no later Register adds an open one: both closed
\* flags are set before the locks are released (rtmp/stream.go 146-156 and
\* 220-226, rtmp/registry.go 80-91 and 112-119). A nil writer breaks it.
ClosedRegistryIsClosed ==
  \A p \in Publishers :
    regClosed[p] /\ ~NilMember(p) => \A w \in members[p] : wstate[w] = "closed"

\* A writer the registry has taken and given up again is closed: start()
\* closes before it deregisters, so nothing that could still be written to,
\* no file and no viewer, is forgotten open (rtmp/stream.go 174-184).
NoneForgotten ==
  \A w \in Writers :
    joined[w] # None /\ w \notin members[joined[w]] => wstate[w] = "closed"

\* Nothing that could still be written to, no file and no viewer, is left
\* open behind the publisher's back, neither by a closed registry nor by a
\* writer's removal from one that is in use.
NothingLeftOpen == ClosedRegistryIsClosed /\ NoneForgotten

\* A viewer whose handler waits on an open writer is in the registry of its
\* publisher, unless it came too late: it found the publisher in the map and
\* registered after the publisher was closed, which Register ignores without
\* telling (rtmp/stream.go 152-154). That viewer waits for ever.
WaitingMeansRegistered ==
  \A v \in Viewers :
    vpc[v] = "watching" /\ wstate[v] = "open" =>
      v \in members[target[v]] \/ closed[target[v]]

\* The map never leads to a publisher that has closed itself: the deferred
\* calls deregister first and close second (rtmp/server.go 151-153).
MapLeadsToRunning ==
  \A k \in Keys :
    publisherMap[k] # None =>
      ppc[publisherMap[k]] \in {"setup", "deregister"} \cup InLoop

\* Between two packets every writer of the registry that the loop has met and
\* that is still open has been handed the newest packet: snapshots, failing
\* writers dropped in the middle of a round and viewers joining during it
\* never make the loop skip one (rtmp/stream.go 173-184).
NobodySkipped ==
  \A p \in Publishers, w \in Writers :
    ppc[p] \in {"check", "read"} /\ w \in members[p] /\ contacted[w]
    /\ wstate[w] = "open" /\ ~regClosed[p] => got[w] = count[p]

\* "rtmp push: http-flv, hls and saving are supported" (readme.md 5): while a
\* publisher is in its loop, its key leads to a publisher.
StreamingIsFindable ==
  \A p \in Publishers : ppc[p] \in InLoop => publisherMap[key[p]] # None

\* "init failed" (httpserver/flv.go 121) answers one request: nobody else's
\* writer stays open when the stream ends.
RefusedRequestHurtsNobody ==
  \A p \in Publishers : ppc[p] = "done" => \A w \in members[p] : wstate[w] # "open"

\* With viewers that read, the end of the publisher's connection ends its
\* loop and closes every writer in its registry.
EndReachesEveryWriter ==
  ViewersRead =>
    \A p \in Publishers :
      (conn[p] = "ended") ~>
        (ppc[p] = "done" /\ (NilMember(p) \/ \A w \in members[p] : wstate[w] = "closed"))

\* Closing gets through everything. Closing a publisher ends its goroutine,
\* even one blocked on a viewer that never reads: closeAll closes that
\* viewer's queue under it. The shutdown hook gets through all publishers:
\* the map's lock, the publishers' locks and their registries' locks are never
\* taken in a circle, although publishers, viewers and writers come and go
\* meanwhile (rtmp/registry.go 30-36 and 112-119, rtmp/stream.go 220-226).
CloseGetsThrough ==
  /\ \A p \in Publishers : closed[p] ~> (ppc[p] = "done" \/ NilMember(p))
  /\ (spc = "closing") ~> (spc = "done")
=============================================================================
