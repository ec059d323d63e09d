-------------------------- MODULE FlvPlayer_proofs --------------------------
(* The player in the browser: requests that have been given up end, nothing  *)
(* waits for ever in the controller's queues, the end of the stream comes    *)
(* last and every frame is in the player once and shown at its own time, for *)
(* every stream, every way the network cuts it and every order of the        *)
(* callbacks.                                                                *)
EXTENDS FlvMedia_proofs

-----------------------------------------------------------------------------
(* The invariant, part by part.                                              *)

\* A loader that waits for its response, and one that has been given up.
Waiting(loader) == loader.conn \in {"asked", "open"}
GivenUp(loader) == ~loader.bound /\ ~Working(loader) /\ (Waiting(loader) => loader.abort)

\* Requests that are not the player's any more, and the one that is.
Requests(p) ==
  LET cur == Len(p.reqs) IN
  /\ \A n \in 1 .. cur : n < cur \/ ~p.io.alive => GivenUp(p.reqs[n])
  /\ \A n \in 1 .. cur : Working(p.reqs[n]) => Waiting(p.reqs[n])
  /\ p.io.alive => /\ cur # 0 /\ p.page.player /\ p.reqs[cur].bound
                   /\ Waiting(p.reqs[cur]) => Working(p.reqs[cur])
                   /\ p.io.paused => p.io.stash = <<>> /\ (Waiting(p.reqs[cur]) => p.reqs[cur].abort)
  /\ p.page.player => ~p.page.timer

\* Types.
TypeInv ==
  /\ Player \in Players
  /\ stream \in Streams /\ loads \in Nat /\ faults \in Nat

\* Media comes behind its initialization segment; before the first tag there is
\* nothing.
Order(p) == Headed(p.tasks, p.mux.tracks, Known(p.mse))
Beginning(p) ==
  /\ p.io.init => p.mux.demux.first
  /\ p.mux.demux.first => /\ Fresh(p.mux) /\ OnlyNotes(p.tasks) /\ Blank(p.mse)
                          /\ ~p.page.checker /\ ~p.io.paused

\* A request that the player listens to, from where its data are in the file, and
\* one that was resumed, and begun anew by the server. What has been received is
\* read or kept.
Attending(p) == p.io.alive /\ ~p.io.paused /\ Waiting(p.reqs[Len(p.reqs)])
From(p) == IF p.io.stash = <<>> THEN p.reqs[Len(p.reqs)].from + p.reqs[Len(p.reqs)].received
           ELSE p.io.start
Resumed(p) ==
  LET r == p.reqs[Len(p.reqs)] IN
  ~p.mux.demux.first /\ IF p.io.stash = <<>> THEN r.received = 0 ELSE p.io.stash[1] = <<0, 1>>
Reading(p, s, l) ==
  /\ l # 0 /\ p.mux.parsed <= Len(s)
  /\ Attending(p) =>
        \/ /\ Live(s, p.mux, p.io.stash, From(p))
           /\ p.reqs[Len(p.reqs)].received = Taken(p.mux) + Len(p.io.stash)
        \/ Resumed(p) /\ Len(p.reqs) > l

\* The end of the stream.
EndTold(s) == \E i \in DOMAIN s : s[i].ev = "loading_complete"
Ending(p) == EndTold(p.tasks) \/ p.mse.eos \/ p.mse.state = "ended"
EndLast(s) == \A i, j \in DOMAIN s : i < j /\ s[i].ev = "loading_complete" => s[j].ev # "init"
Over(p, s, l) ==
  /\ Ending(p) => /\ Attending(p) => Resumed(p)
                  /\ Emptied(p.mux) \/ (Len(p.reqs) > l /\ LastIsNone(p.mux, s))
  /\ p.mse.eos \/ p.mse.state = "ended" => NoInits(p.tasks)
  /\ EndLast(p.tasks)

\* Every frame is in its place.
Lined(p, s) == InLine(p.mse, p.tasks, p.mux, s)

\* A request whose answer the player may still hear.
Hearing(p) == p.io.alive /\ Waiting(p.reqs[Len(p.reqs)])

\* Whatever is under way, and whatever has arrived, is shown at its own time on the
\* remuxer's clock, or, when that has not begun, on any; and while data may come
\* the remuxer goes on where the frame that it holds back begins.
Early(x) == x.demux.first => x.base = Unset
Paced(m, ts, x, s) ==
  \A b \in Clocks(x) : /\ ts \in Seq(Punctual(s, b))
                       /\ \A t \in Types : Holds(m.done[t], Upcoming(m, t), s, b)
Timed(p, s) ==
  /\ InTime(s, p.mux) /\ Early(p.mux) /\ Paced(p.mse, p.tasks, p.mux, s)
  /\ Hearing(p) => Steadies(p.mux)

\* Of a player at work.
Running(p, s, l) ==
  /\ Buffers(p.mse) /\ Order(p) /\ Beginning(p) /\ Reading(p, s, l)
  /\ Resting(p.mux, s) /\ Over(p, s, l) /\ Lined(p, s)

\* The inductive invariant.
IInv ==
  /\ TypeInv
  /\ Requests(Player) /\ loads <= Current /\ mse.said = "nothing" /\ mux.out = <<>>
  /\ page.checker => page.player
  /\ Timed(Player, stream)
  /\ page.player => Running(Player, stream, loads)

-----------------------------------------------------------------------------
(* The player.                                                               *)

PInv(p, s, l) ==
  /\ p \in Players
  /\ Requests(p) /\ l <= Len(p.reqs) /\ p.mse.said = "nothing" /\ p.mux.out = <<>>
  /\ p.page.checker => p.page.player
  /\ Timed(p, s)
  /\ p.page.player => Running(p, s, l)

\* What is asked of a player when something else may still be said.
Before(p, s, l) ==
  /\ p \in Players /\ Requests(p) /\ l <= Len(p.reqs) /\ p.mux.out = <<>> /\ p.page.player
  /\ p.mse.said # "error" => Running(p, s, l) /\ Timed(p, s)
  /\ p.mse.said = "full" => ~p.mux.demux.first

\* What a handler of the controller does keeps to the clock.
LEMMA PacedFeeds ==
  ASSUME NEW m, NEW y, Feeds(m, y), NEW ts, NEW x, NEW s, Paced(m, ts, x, s)
  PROVE  Paced(y, ts, x, s)
BY DEF Paced, Feeds, FeedsOn, StaysTimed

\* The first event is taken; nothing of it goes to the controller.
LEMMA PacedTail ==
  ASSUME NEW ts \in Seq(Events), ts # <<>>, NEW m, NEW x, NEW s, Paced(m, ts, x, s)
  PROVE  Paced(m, Tail(ts), x, s)
<1>1. ASSUME NEW b, ts \in Seq(Punctual(s, b)) PROVE Tail(ts) \in Seq(Punctual(s, b))
  BY <1>1, TailIs
<1> QED BY <1>1 DEF Paced

\* It goes there, behind what waits.
LEMMA PacedTakes ==
  ASSUME NEW ts \in Seq(Events), ts # <<>>, NEW e \in Segments, e = ts[1], NEW m, NEW y, Takes(m, y, e),
         NEW x, NEW s, Paced(m, ts, x, s)
  PROVE  Paced(y, Tail(ts), x, s)
<1>1. ASSUME NEW b \in Clocks(x) PROVE Tail(ts) \in Seq(Punctual(s, b)) /\ e \in Punctual(s, b)
  <2>1. PICK G : G = Punctual(s, b)
    OBVIOUS
  <2>2. ts \in Seq(G)
    BY <2>1 DEF Paced
  <2>3. Tail(ts) \in Seq(G) /\ ts[1] \in G
    <3>1. Len(ts) \in Nat /\ Len(ts) # 0
      BY EmptySeq, LenProperties
    <3>2. 1 \in 1 .. Len(ts)
      BY <3>1
    <3> QED BY <2>2, <3>2, TailIs, ElementOfSeq
  <2> QED BY <2>1, <2>3
<1>2. ASSUME NEW b \in Clocks(x), NEW t \in Types PROVE Holds(y.done[t], Upcoming(y, t), s, b)
  <2>1. PICK G, u : G = Punctual(s, b) /\ u = Upcoming(m, t)
    OBVIOUS
  <2>2. Holds(m.done[t], u, s, b)
    BY <2>1 DEF Paced
  <2>3. u \in Seq(G) /\ e \in G
    BY <1>1, <2>1, <2>2 DEF Holds
  <2>4. Append(u, e) \in Seq(G)
    BY <2>3, AppendProperties
  <2>5. y.done[t] = m.done[t] /\ (Upcoming(y, t) = u \/ Upcoming(y, t) = Append(u, e))
    BY <2>1 DEF Takes
  <2> QED BY <2>1, <2>2, <2>3, <2>4, <2>5 DEF Holds
<1> QED BY <1>1, <1>2 DEF Paced

\* A player whose demuxer, remuxer, events and controller are as they were.
LEMMA TimedSame ==
  ASSUME NEW p, NEW q, NEW s, Timed(p, s), q.mux = p.mux, q.tasks = p.tasks, q.mse = p.mse, Hearing(q) => Hearing(p)
  PROVE  Timed(q, s)
BY DEF Timed

\* Its frames have moved, or events have been taken.
LEMMA TimedMoves ==
  ASSUME NEW p, NEW q, NEW s, Timed(p, s), q.mux = p.mux,
         Paced(p.mse, p.tasks, p.mux, s) => Paced(q.mse, q.tasks, p.mux, s), Hearing(q) => Hearing(p)
  PROVE  Timed(q, s)
BY DEF Timed

\* One that is new.
LEMMA TimedNew ==
  ASSUME NEW q, NEW s, q.mux = NewTransmuxer, q.tasks = <<>>, q.mse = NewController
  PROVE  Timed(q, s)
<1>1. PICK m, x : m = NewController /\ x = NewTransmuxer
  OBVIOUS
<1>2. InTime(s, x) /\ Steadies(x) /\ x.base = Unset
  BY <1>1, NewTime DEF Clocked
<1>3. \A t \in Types : m.done[t] = <<>> /\ Upcoming(m, t) = <<>>
  <2> TAKE t \in Types
  <2>1. m.done[t] = <<>> /\ m.segs[t] = <<>> /\ m.busy[t] = <<>>
    BY <1>1 DEF NewController
  <2>2. Cutting(m, t) = <<>>
    BY <2>1 DEF Cutting, Updating
  <2>3. <<>> \o <<>> = <<>>
    OBVIOUS
  <2> QED BY <2>1, <2>2, <2>3 DEF Upcoming
<1>4. \A G : <<>> \in Seq(G)
  OBVIOUS
<1>5. Paced(m, <<>>, x, s)
  BY <1>3, <1>4 DEF Paced, Holds
<1> QED BY <1>1, <1>2, <1>5 DEF Timed, Early

\* Data have been read or the remuxer emptied: what it has emitted is among the
\* events.
Sends(s, ts, x, us, y) ==
  Clocked(s, x) /\ Early(x) =>
     /\ InTime(s, y) /\ Early(y) /\ Clocks(y) \subseteq Clocks(x)
     /\ \A b \in Clocks(y) : ts \in Seq(Punctual(s, b)) => us \in Seq(Punctual(s, b))

\* The remuxer goes on where it holds back.
Calms(s, x, y) == Clocked(s, x) /\ Early(x) => Steadies(y)

\* Both the player before and after it.
LEMMA SentTimed ==
  ASSUME NEW p, NEW q, NEW s, Timed(p, s), Steadies(p.mux), Sends(s, p.tasks, p.mux, q.tasks, q.mux),
         q.mse = p.mse, Hearing(q) => Steadies(q.mux)
  PROVE  Timed(q, s)
<1>1. /\ InTime(s, q.mux) /\ Early(q.mux) /\ Clocks(q.mux) \subseteq Clocks(p.mux)
      /\ \A b \in Clocks(q.mux) : p.tasks \in Seq(Punctual(s, b)) => q.tasks \in Seq(Punctual(s, b))
  BY DEF Timed, Sends, Clocked
<1>2. Paced(p.mse, p.tasks, p.mux, s)
  BY DEF Timed
<1>3. Paced(q.mse, q.tasks, q.mux, s)
  BY <1>1, <1>2 DEF Paced
<1> QED BY <1>1, <1>3 DEF Timed

\* Notes are added to the events.
LEMMA PacedNote ==
  ASSUME NEW m, NEW ts \in Seq(Events), NEW e \in Events, e.ev # "media", NEW us, us = Append(ts, e), NEW x, NEW s
  PROVE  /\ Paced(m, ts, x, s) => Paced(m, us, x, s)
         /\ \A b : ts \in Seq(Punctual(s, b)) => us \in Seq(Punctual(s, b))
<1>1. ASSUME NEW b, ts \in Seq(Punctual(s, b)) PROVE us \in Seq(Punctual(s, b))
  <2>1. PICK G : G = Punctual(s, b)
    OBVIOUS
  <2>2. ts \in Seq(G) /\ e \in G
    BY <1>1, <2>1, NotePunctual
  <2> QED BY <2>1, <2>2, AppendProperties
<1> QED BY <1>1 DEF Paced

\* One loader changes.
Exchanged(u, w, n, loader) ==
  /\ w \in Seq(Loaders) /\ Len(w) = Len(u) /\ w[n] = loader
  /\ \A i \in 1 .. Len(u) : i # n => w[i] = u[i]

\* One loader is replaced.
LEMMA ExchangedIs ==
  ASSUME NEW u \in Seq(Loaders), NEW n \in 1 .. Len(u), NEW loader \in Loaders,
         NEW w, w = [u EXCEPT ![n] = loader]
  PROVE  Exchanged(u, w, n, loader)
<1>1. Len(u) \in Nat /\ u \in [1 .. Len(u) -> Loaders]
  BY LenProperties
<1>2. w \in [1 .. Len(u) -> Loaders] /\ w[n] = loader /\ \A i \in 1 .. Len(u) : i # n => w[i] = u[i]
  BY <1>1
<1>3. w \in Seq(Loaders) /\ Len(w) = Len(u)
  BY <1>1, <1>2, LenProperties
<1> QED BY <1>2, <1>3 DEF Exchanged

\* A loader that is given up.
Stopped(r, w) ==
  /\ w \in Loaders /\ ~w.bound /\ w.status = "idle" /\ w.conn = r.conn
  /\ r.abort \/ Working(r) => w.abort

\* A loader destroyed has been told to stop if its request still runs.
LEMMA DestroyLoaderIs ==
  ASSUME NEW r \in Loaders, NEW w, w = DestroyLoader(StopLoader(r)) \/ w = DestroyLoader(r)
  PROVE  Stopped(r, w)
<1>1. PICK a : a = StopLoader(r)
  OBVIOUS
<1>2. a \in Loaders /\ a.conn = r.conn /\ (r.abort \/ Working(r) => a.abort) /\ a.status = r.status
  BY <1>1 DEF StopLoader, AbortLoader, Loaders
<1>3. PICK b : b = StopLoader(a)
  OBVIOUS
<1>4. b \in Loaders /\ b.conn = a.conn /\ (a.abort => b.abort)
  BY <1>2, <1>3 DEF StopLoader, AbortLoader, Loaders
<1>5. w = [b EXCEPT !.status = "idle", !.bound = FALSE] \/ w = [a EXCEPT !.status = "idle", !.bound = FALSE]
  BY <1>1, <1>3 DEF DestroyLoader, Unbind
<1> QED BY <1>2, <1>4, <1>5 DEF Stopped, Loaders

\* The player gives its request up.
Aborted(p, q) ==
  /\ q \in Players /\ q.mux = p.mux /\ q.tasks = p.tasks /\ q.mse = p.mse /\ q.page = p.page
  /\ ~q.io.alive /\ q.io.init = p.io.init /\ q.io.paused = p.io.paused /\ Len(q.reqs) = Len(p.reqs)
  /\ \A n \in 1 .. Len(q.reqs) : GivenUp(q.reqs[n])

\* _internalAbort destroys the IOController, if it is there.
LEMMA InternalAbortIs ==
  ASSUME NEW p \in Players, Requests(p), NEW q, q = InternalAbort(p)
  PROVE  Aborted(p, q)
<1>0. /\ p.reqs \in Seq(Loaders) /\ p.io \in Controls /\ p.mux \in Muxes /\ p.tasks \in Seq(Events)
      /\ p.mse \in Controllers /\ p.page \in Pages /\ p.head \in Int
  BY DEF Players
<1>1. CASE ~p.io.alive
  <2>1. q = p
    BY <1>1 DEF InternalAbort
  <2>2. \A n \in 1 .. Len(p.reqs) : GivenUp(p.reqs[n])
    BY <1>1 DEF Requests
  <2> QED BY <1>1, <2>1, <2>2 DEF Aborted
<1>2. CASE p.io.alive
  <2> DEFINE cur == Len(p.reqs)
             control == [p.io EXCEPT !.alive = FALSE, !.stash = <<>>]
             loader == DestroyLoader(StopLoader(p.reqs[cur]))
             reqs1 == [p.reqs EXCEPT ![cur] = loader]
  <2>1. cur \in Nat /\ cur # 0 /\ (Waiting(p.reqs[cur]) => Working(p.reqs[cur]))
        /\ \A n \in 1 .. cur : n < cur => GivenUp(p.reqs[n])
    BY <1>0, <1>2, LenProperties DEF Requests
  <2>2. cur \in 1 .. cur /\ p.reqs[cur] \in Loaders
    BY <1>0, <2>1, ElementOfSeq
  <2>3. Stopped(p.reqs[cur], loader)
    BY <2>2, DestroyLoaderIs
  <2>4. <<>> \in Seq(Pieces)
    OBVIOUS
  <2>5. control \in Controls /\ ~control.alive /\ control.init = p.io.init /\ control.paused = p.io.paused
    BY <1>0, <2>4 DEF Controls
  <2>6. q = [p EXCEPT !.io = control, !.reqs = reqs1]
    <3>1. q = [p EXCEPT !.io.alive = FALSE, !.io.stash = <<>>, !.reqs[Len(p.reqs)] = DestroyLoader(StopLoader(@))]
      BY <1>2 DEF InternalAbort, DestroyIO, CurrentOf
    <3> QED BY <3>1 DEF Players
  <2> HIDE DEF loader, control
  <2>7. Exchanged(p.reqs, reqs1, cur, loader)
    BY <1>0, <2>2, <2>3, ExchangedIs DEF Stopped
  <2> HIDE DEF reqs1
  <2>8. reqs1 \in Seq(Loaders) /\ Len(reqs1) = cur /\ reqs1[cur] = loader
        /\ \A i \in 1 .. cur : i # cur => reqs1[i] = p.reqs[i]
    BY <2>7 DEF Exchanged
  <2>9. GivenUp(loader)
    BY <2>1, <2>3 DEF Stopped, GivenUp, Working, Waiting
  <2>10. \A n \in 1 .. cur : GivenUp(reqs1[n])
    <3>1. \A n \in 1 .. cur : n = cur \/ n < cur
      BY <2>1
    <3> QED BY <2>1, <2>8, <2>9, <3>1
  <2>11. q \in Players /\ q.mux = p.mux /\ q.tasks = p.tasks /\ q.mse = p.mse /\ q.page = p.page
         /\ q.io = control /\ q.reqs = reqs1
    BY <1>0, <2>5, <2>6, <2>8 DEF Players
  <2> QED BY <2>5, <2>8, <2>10, <2>11 DEF Aborted
<1> QED BY <1>1, <1>2

\* A player without requests of its own.
LEMMA AbortedRequests ==
  ASSUME NEW p, NEW q, Aborted(p, q), p.page.player => ~p.page.timer
  PROVE  Requests(q)
<1>1. \A n \in 1 .. Len(q.reqs) : GivenUp(q.reqs[n])
  BY DEF Aborted
<1>2. \A n \in 1 .. Len(q.reqs) : ~Working(q.reqs[n])
  BY <1>1 DEF GivenUp
<1> QED BY <1>1, <1>2 DEF Requests, Aborted

\* What is new is of the right kind.
LEMMA NewOnes ==
  /\ NewController \in Controllers /\ NewTransmuxer \in Muxes /\ NewPage \in Pages /\ NewIO \in Controls
  /\ NewLoader \in Loaders
<1>0. <<>> \in Seq(Segments) /\ <<>> \in Seq(Ranges) /\ <<>> \in Seq(Jobs) /\ <<>> \in Seq(Shown)
      /\ <<>> \in Seq(Inits) /\ <<>> \in Seq(Frames) /\ <<>> \in Seq(Events) /\ <<>> \in Seq(Pieces)
  OBVIOUS
<1>1. NewController \in Controllers
  <2>1. /\ [t \in Types |-> <<>>] \in [Types -> Seq(Segments)]
        /\ [t \in Types |-> <<>>] \in [Types -> Seq(Ranges)]
        /\ [t \in Types |-> <<>>] \in [Types -> Seq(Jobs)]
        /\ [t \in Types |-> <<>>] \in [Types -> Seq(Shown)]
    BY <1>0
  <2>2. [t \in Types |-> FALSE] \in Flags
    BY DEF Flags
  <2>3. [t \in Types |-> NoRange] \in [Types -> Ranges]
    BY DEF NoRange, Ranges
  <2> QED BY <1>0, <2>1, <2>2, <2>3 DEF NewController, Controllers
<1>2. NewTransmuxer \in Muxes
  <2>1. NewDemuxer \in Demuxers
    BY DEF NewDemuxer, Demuxers, Flags
  <2>2. NewTrack \in Tracks
    BY <1>0 DEF NewTrack, Tracks, Unset, NoMeta
  <2>3. [t \in Types |-> NewTrack] \in [Types -> Tracks]
    BY <2>2
  <2> QED BY <1>0, <2>1, <2>3 DEF NewTransmuxer, Muxes, Unset
<1>3. NewPage \in Pages /\ NewIO \in Controls /\ NewLoader \in Loaders
  BY <1>0 DEF NewPage, Pages, NewIO, Controls, NewLoader, Loaders
<1> QED BY <1>1, <1>2, <1>3

\* The page destroys the player and sets its timer.
LEMMA ReloadKeeps ==
  ASSUME NEW p \in Players, Requests(p), NEW s, NEW l, l <= Len(p.reqs), NEW q, q = ReloadPlayer(p)
  PROVE  PInv(q, s, l)
<1>0. /\ p.reqs \in Seq(Loaders) /\ p.io \in Controls /\ p.mux \in Muxes /\ p.tasks \in Seq(Events)
      /\ p.mse \in Controllers /\ p.page \in Pages /\ p.head \in Int
  BY DEF Players
<1>1. PICK a : a = [p EXCEPT !.mse = SeekBuffers(@)]
  OBVIOUS
<1>2. a \in Players /\ a.reqs = p.reqs /\ a.io = p.io /\ a.page = p.page
  <2>1. PICK m : m = SeekBuffers(p.mse)
    OBVIOUS
  <2>2. PICK y : Sought(p.mse, y) /\ m = DoRemoveRanges(y)
    BY <1>0, <2>1, SoughtIs
  <2>3. y \in Controllers
    BY <2>2 DEF Sought
  <2>4. m \in Controllers
    BY <2>2, <2>3, DoRemoveRangesIs DEF Removed
  <2>5. a = [p EXCEPT !.mse = m]
    BY <1>1, <2>1
  <2> QED BY <2>4, <2>5 DEF Players
<1>3. Requests(a)
  BY <1>2 DEF Requests
<1>4. PICK b : b = InternalAbort(a)
  OBVIOUS
<1>5. Aborted(a, b)
  BY <1>2, <1>3, <1>4, InternalAbortIs
<1>6. b \in Players /\ ~b.io.alive /\ Len(b.reqs) = Len(p.reqs)
  BY <1>2, <1>5 DEF Aborted
<1>7. q = [b EXCEPT !.mux = NewTransmuxer, !.tasks = <<>>, !.mse = NewController,
                    !.page = [NewPage EXCEPT !.timer = TRUE]]
  <2>1. InternalAbort(b) = b
    BY <1>6 DEF InternalAbort
  <2>2. Unload(p) = [[b EXCEPT !.mux = NewTransmuxer] EXCEPT !.tasks = <<>>]
    BY <1>1, <1>4, <2>1 DEF Unload, DestroyTransmuxer, DestroyController
  <2>3. \A m : DestroyMse(DetachMediaSource(m)) = NewController
    <3>1. PICK k \in Controllers : k = NewController
      BY NewOnes
    <3>2. k.eos = FALSE
      BY <3>1 DEF NewController
    <3>3. \A e : [[k EXCEPT !.eos = e] EXCEPT !.eos = FALSE] = k
      BY <3>2 DEF Controllers
    <3>4. \A m : DestroyMse(DetachMediaSource(m)) = [[k EXCEPT !.eos = DetachMediaSource(m).eos] EXCEPT !.eos = FALSE]
      BY <3>1, Zenon DEF DestroyMse, DetachMediaSource
    <3> QED BY <3>1, <3>3, <3>4, Zenon
  <2>4. PICK u : u = Unload(p)
    OBVIOUS
  <2>5. q = [[[u EXCEPT !.mse = NewController] EXCEPT !.page = NewPage] EXCEPT !.page.timer = TRUE]
    BY <2>3, <2>4 DEF ReloadPlayer, DestroyPlayer, DetachMediaElement
  <2>6. u = [[b EXCEPT !.mux = NewTransmuxer] EXCEPT !.tasks = <<>>]
    BY <2>2, <2>4
  <2>7. PICK c, x : c = NewController /\ x = NewTransmuxer
    OBVIOUS
  <2>8. u = [[b EXCEPT !.mux = x] EXCEPT !.tasks = <<>>]
        /\ q = [[[u EXCEPT !.mse = c] EXCEPT !.page = NewPage] EXCEPT !.page.timer = TRUE]
    BY <2>5, <2>6, <2>7
  <2>9. q = [b EXCEPT !.mux = x, !.tasks = <<>>, !.mse = c, !.page = [NewPage EXCEPT !.timer = TRUE]]
    BY <1>6, <2>8 DEF Players, Pages, NewPage
  <2> QED BY <2>7, <2>9
<1>8. PICK c, x, g : c = NewController /\ x = NewTransmuxer /\ g = [NewPage EXCEPT !.timer = TRUE]
  OBVIOUS
<1>9. /\ c \in Controllers /\ c.said = "nothing" /\ x \in Muxes /\ x.out = <<>> /\ g \in Pages
      /\ ~g.checker /\ ~g.player
  <2>1. c.said = "nothing" /\ x.out = <<>>
    BY <1>8 DEF NewController, NewTransmuxer
  <2>2. g \in Pages /\ ~g.checker /\ ~g.player
    BY <1>8 DEF NewPage, Pages
  <2> QED BY <1>8, <2>1, <2>2, NewOnes
<1>10. q = [b EXCEPT !.mux = x, !.tasks = <<>>, !.mse = c, !.page = g]
  BY <1>7, <1>8
<1>11. /\ q \in Players /\ q.reqs = b.reqs /\ q.io = b.io /\ q.mux = x /\ q.mse = c /\ q.page = g
  <2>1. <<>> \in Seq(Events)
    OBVIOUS
  <2> QED BY <1>6, <1>9, <1>10, <2>1 DEF Players
<1>12. \A n \in 1 .. Len(q.reqs) : GivenUp(q.reqs[n]) /\ ~Working(q.reqs[n])
  BY <1>5, <1>11 DEF Aborted, GivenUp
<1>13. Requests(q)
  BY <1>6, <1>9, <1>11, <1>12 DEF Requests
<1>14. Timed(q, s)
  <2>1. <<>> \in Seq(Events)
    OBVIOUS
  <2>2. q.tasks = <<>>
    BY <1>6, <1>9, <1>10, <2>1 DEF Players
  <2> QED BY <1>8, <1>11, <2>2, TimedNew
<1> QED BY <1>6, <1>9, <1>11, <1>13, <1>14 DEF PInv

\* When no data is expected any more, what is needed of a player stays.
LEMMA RunningStill ==
  ASSUME NEW p, NEW q, NEW s, NEW l, Running(p, s, l), q.mux = p.mux, q.tasks = p.tasks, q.mse = p.mse,
         q.io.init = p.io.init, Len(q.reqs) = Len(p.reqs), ~Attending(q),
         p.mux.demux.first => ~q.page.checker /\ ~q.io.paused
  PROVE  Running(q, s, l)
<1>1. Buffers(q.mse) /\ Order(q) /\ Resting(q.mux, s)
  BY DEF Running, Order
<1>2. Beginning(q)
  BY DEF Running, Beginning
<1>3. Reading(q, s, l)
  BY DEF Running, Reading
<1>4. Over(q, s, l)
  BY DEF Running, Over, Ending
<1>5. Lined(q, s)
  BY DEF Running, Lined
<1> QED BY <1>1, <1>2, <1>3, <1>4, <1>5 DEF Running

\* The request is left, to be resumed.
Halted(p, q) ==
  /\ q \in Players /\ q.mux = p.mux /\ q.tasks = p.tasks /\ q.mse = p.mse /\ q.page = p.page
  /\ q.io.init = p.io.init /\ Len(q.reqs) = Len(p.reqs) /\ Requests(q) /\ ~Attending(q)
  /\ Hearing(q) => Hearing(p)

\* TransmuxingController.pause tells the loader to stop and drops the stash.
LEMMA PauseIs ==
  ASSUME NEW p \in Players, Requests(p), NEW q, q = PauseTransmuxing(p)
  PROVE  Halted(p, q)
<1>0. /\ p.reqs \in Seq(Loaders) /\ p.io \in Controls /\ p.mux \in Muxes /\ p.tasks \in Seq(Events)
      /\ p.mse \in Controllers /\ p.page \in Pages /\ p.head \in Int
  BY DEF Players
<1>1. CASE ~(p.io.alive /\ IsWorking(p))
  <2>1. q = p
    BY <1>1 DEF PauseTransmuxing
  <2>2. ~Attending(p)
    BY <1>1 DEF Attending, Requests, IsWorking, CurrentOf
  <2> QED BY <2>1, <2>2 DEF Halted
<1>2. CASE p.io.alive /\ IsWorking(p)
  <2> DEFINE cur == Len(p.reqs)
             loader == AbortLoader(p.reqs[cur])
             reqs1 == [p.reqs EXCEPT ![cur] = loader]
  <2>1. /\ cur \in Nat /\ cur # 0 /\ p.reqs[cur].bound /\ Working(p.reqs[cur]) /\ ~p.io.paused
        /\ \A n \in 1 .. cur : n < cur => GivenUp(p.reqs[n])
        /\ \A n \in 1 .. cur : Working(p.reqs[n]) => Waiting(p.reqs[n])
        /\ p.page.player /\ ~p.page.timer
    BY <1>0, <1>2, LenProperties DEF Requests, IsWorking, CurrentOf
  <2>2. cur \in 1 .. cur /\ p.reqs[cur] \in Loaders
    BY <1>0, <2>1, ElementOfSeq
  <2>3. loader \in Loaders /\ loader.abort /\ loader.bound = p.reqs[cur].bound
        /\ loader.status = p.reqs[cur].status /\ loader.conn = p.reqs[cur].conn
    BY <2>2 DEF AbortLoader, Loaders
  <2>4. \E control \in Controls :
           /\ control.alive /\ control.init = p.io.init /\ control.paused /\ control.stash = <<>>
           /\ q = [p EXCEPT !.reqs = reqs1, !.io = control]
    <3>0. PICK none : none = <<>> /\ none \in Seq(Pieces)
      <4>1. <<>> \in Seq(Pieces)
        OBVIOUS
      <4> QED BY <4>1, Zenon
    <3>1. PICK u : u = [p EXCEPT !.reqs = reqs1, !.io.paused = TRUE, !.io.stash = none, !.io.start = 0]
      OBVIOUS
    <3>2. \/ q = [u EXCEPT !.io.resumeFrom = p.io.start, !.io.to = p.io.start - 1]
          \/ q = [u EXCEPT !.io.resumeFrom = p.io.to + 1]
      BY <1>2, <3>0, <3>1 DEF PauseTransmuxing, PauseIO, CurrentOf
    <3>3. p.io.start \in Int /\ p.io.start - 1 \in Int /\ p.io.to + 1 \in Int
      BY <1>0 DEF Controls
    <3>4. PICK a, b, c \in Int : a = p.io.start /\ b = p.io.start - 1 /\ c = p.io.to + 1
      BY <3>3
    <3>5. PICK k, h : /\ k = [p.io EXCEPT !.paused = TRUE, !.stash = none, !.start = 0, !.resumeFrom = a, !.to = b]
                      /\ h = [p.io EXCEPT !.paused = TRUE, !.stash = none, !.start = 0, !.resumeFrom = c]
      OBVIOUS
    <3>6. /\ k \in Controls /\ k.alive /\ k.init = p.io.init /\ k.paused /\ k.stash = <<>>
          /\ h \in Controls /\ h.alive /\ h.init = p.io.init /\ h.paused /\ h.stash = <<>>
      <4>0. none \in Seq(Pieces) /\ a \in Int /\ b \in Int /\ c \in Int
        BY <3>0
      <4>1. PICK io0 \in Controls : io0 = p.io
        BY <1>0
      <4>2. io0.alive
        BY <1>2, <4>1
      <4>3. /\ k = [io0 EXCEPT !.paused = TRUE, !.stash = none, !.start = 0, !.resumeFrom = a, !.to = b]
            /\ h = [io0 EXCEPT !.paused = TRUE, !.stash = none, !.start = 0, !.resumeFrom = c]
        BY <3>5, <4>1
      <4>4. k \in Controls /\ k.alive = io0.alive /\ k.init = io0.init /\ k.paused /\ k.stash = none
        <5>1. k = [alive |-> io0.alive, init |-> io0.init, paused |-> TRUE, stash |-> none,
                   start |-> 0, to |-> b, resumeFrom |-> a]
          BY <4>3 DEF Controls
        <5>2. io0.alive \in BOOLEAN /\ io0.init \in BOOLEAN /\ io0.to \in Int /\ 0 \in Int
          BY DEF Controls
        <5> QED BY <4>0, <5>1, <5>2 DEF Controls
      <4>5. h \in Controls /\ h.alive = io0.alive /\ h.init = io0.init /\ h.paused /\ h.stash = none
        <5>1. h = [alive |-> io0.alive, init |-> io0.init, paused |-> TRUE, stash |-> none,
                   start |-> 0, to |-> io0.to, resumeFrom |-> c]
          BY <4>3 DEF Controls
        <5>2. io0.alive \in BOOLEAN /\ io0.init \in BOOLEAN /\ io0.to \in Int /\ 0 \in Int
          BY DEF Controls
        <5> QED BY <4>0, <5>1, <5>2 DEF Controls
      <4> QED BY <3>0, <4>1, <4>2, <4>4, <4>5
    <3> HIDE DEF reqs1
    <3>7. \/ q = [u EXCEPT !.io.resumeFrom = a, !.io.to = b] \/ q = [u EXCEPT !.io.resumeFrom = c]
      BY <3>2, <3>4
    <3>8. q = [p EXCEPT !.reqs = reqs1, !.io = k] \/ q = [p EXCEPT !.reqs = reqs1, !.io = h]
      BY <1>0, <3>1, <3>5, <3>7 DEF Players, Controls
    <3> QED BY <3>6, <3>8
  <2>5. PICK control \in Controls :
           /\ control.alive /\ control.init = p.io.init /\ control.paused /\ control.stash = <<>>
           /\ q = [p EXCEPT !.reqs = reqs1, !.io = control]
    BY <2>4
  <2> HIDE DEF loader
  <2>6. Exchanged(p.reqs, reqs1, cur, loader)
    BY <1>0, <2>2, <2>3, ExchangedIs
  <2> HIDE DEF reqs1
  <2>7. reqs1 \in Seq(Loaders) /\ Len(reqs1) = cur /\ reqs1[cur] = loader
        /\ \A i \in 1 .. cur : i # cur => reqs1[i] = p.reqs[i]
    BY <2>6 DEF Exchanged
  <2>8. /\ q \in Players /\ q.mux = p.mux /\ q.tasks = p.tasks /\ q.mse = p.mse /\ q.page = p.page
        /\ q.io = control /\ q.reqs = reqs1
    BY <1>0, <2>5, <2>7 DEF Players
  <2>9. Requests(q)
    <3>1. \A n \in 1 .. cur : n < cur => GivenUp(reqs1[n])
      BY <2>1, <2>7
    <3>2. \A n \in 1 .. cur : Working(reqs1[n]) => Waiting(reqs1[n])
      <4>1. Working(loader) => Waiting(loader)
        BY <2>1, <2>2, <2>3 DEF Working, Waiting
      <4> QED BY <2>1, <2>7, <4>1
    <3>3. Working(loader)
      BY <2>1, <2>3 DEF Working
    <3> QED BY <2>1, <2>3, <2>5, <2>7, <2>8, <3>1, <3>2, <3>3 DEF Requests
  <2>10. ~Attending(q)
    BY <2>5, <2>8 DEF Attending
  <2>11. Hearing(q) => Hearing(p)
    <3>1. q.reqs[Len(q.reqs)] = loader
      BY <2>7, <2>8
    <3> QED BY <1>2, <2>3, <3>1 DEF Hearing, Waiting
  <2> QED BY <2>5, <2>7, <2>8, <2>9, <2>10, <2>11 DEF Halted
<1> QED BY <1>1, <1>2

\* The browser has no room: the player pauses its request and looks every
\* second whether it may be resumed.
LEMMA SuspendKeeps ==
  ASSUME NEW p, NEW s, NEW l, PInv(p, s, l), p.page.player, ~p.mux.demux.first, NEW q, q = Suspend(p)
  PROVE  PInv(q, s, l)
<1>1. /\ p \in Players /\ Requests(p) /\ l <= Len(p.reqs) /\ p.mse.said = "nothing" /\ p.mux.out = <<>>
      /\ Running(p, s, l) /\ Timed(p, s)
  BY DEF PInv
<1>2. CASE p.page.checker
  BY <1>2 DEF Suspend
<1>3. CASE ~p.page.checker
  <2>1. PICK u : u = PauseTransmuxing(p)
    OBVIOUS
  <2>2. Halted(p, u)
    BY <1>1, <2>1, PauseIs
  <2>3. q = [u EXCEPT !.page.checker = TRUE]
    BY <1>3, <2>1 DEF Suspend
  <2>4. /\ u \in Players /\ u.mux = p.mux /\ u.tasks = p.tasks /\ u.mse = p.mse /\ u.page = p.page
        /\ u.io.init = p.io.init /\ Len(u.reqs) = Len(p.reqs) /\ Requests(u) /\ ~Attending(u)
        /\ Hearing(u) => Hearing(p)
    BY <2>2 DEF Halted
  <2>5. /\ q \in Players /\ q.mux = p.mux /\ q.tasks = p.tasks /\ q.mse = p.mse /\ q.io = u.io /\ q.reqs = u.reqs
        /\ q.page.player /\ q.page.timer = p.page.timer
    BY <2>3, <2>4 DEF Players, Pages
  <2>6. ~Attending(q)
    BY <2>4, <2>5 DEF Attending
  <2>7. Requests(q)
    BY <2>4, <2>5 DEF Requests
  <2>8. Running(q, s, l)
    BY <1>1, <2>4, <2>5, <2>6, RunningStill
  <2>9. Timed(q, s)
    <3>1. Hearing(q) => Hearing(p)
      BY <2>4, <2>5 DEF Hearing
    <3> QED BY <1>1, <2>5, <3>1, TimedSame
  <2> QED BY <1>1, <2>4, <2>5, <2>7, <2>8, <2>9 DEF PInv
<1> QED BY <1>2, <1>3

\* What the controller says is heard.
LEMMA SaysKeeps ==
  ASSUME NEW p, NEW s, NEW l, Before(p, s, l), NEW q, q = MseSays(p)
  PROVE  PInv(q, s, l)
<1>1. /\ p \in Players /\ Requests(p) /\ l <= Len(p.reqs) /\ p.mux.out = <<>> /\ p.page.player
      /\ p.mse.said # "error" => Running(p, s, l) /\ Timed(p, s)
      /\ p.mse.said = "full" => ~p.mux.demux.first
      /\ p.mse.said \in {"nothing", "full", "error"}
  BY DEF Before, Players, Controllers
<1>2. CASE p.mse.said = "error"
  <2>1. q = ReloadPlayer(p)
    BY <1>2 DEF MseSays
  <2> QED BY <1>1, <2>1, ReloadKeeps
<1>3. CASE p.mse.said = "nothing"
  <2>1. q = p
    BY <1>3 DEF MseSays
  <2> QED BY <1>1, <1>3, <2>1 DEF PInv
<1>4. CASE p.mse.said = "full"
  <2>1. PICK u : u = [p EXCEPT !.mse.said = "nothing"]
    OBVIOUS
  <2>2. q = Suspend(u)
    BY <1>4, <2>1 DEF MseSays
  <2>3. PICK m : m = [p.mse EXCEPT !.said = "nothing"]
    OBVIOUS
  <2>4. /\ m \in Controllers /\ m.said = "nothing" /\ m.made = p.mse.made /\ m.segs = p.mse.segs
        /\ m.inits = p.mse.inits /\ m.busy = p.mse.busy /\ m.removals = p.mse.removals
        /\ m.state = p.mse.state /\ m.full = p.mse.full /\ m.eos = p.mse.eos /\ m.done = p.mse.done
    BY <1>1, <2>3 DEF Players, Controllers
  <2>5. u = [p EXCEPT !.mse = m]
    BY <1>1, <2>1, <2>3 DEF Players
  <2>6. /\ u \in Players /\ u.mse = m /\ u.reqs = p.reqs /\ u.io = p.io /\ u.mux = p.mux
        /\ u.tasks = p.tasks /\ u.page = p.page
    BY <1>1, <2>4, <2>5 DEF Players
  <2>7. Known(m) = Known(p.mse) /\ \A t \in Types : Expected(m, t) <=> Expected(p.mse, t)
    BY <2>4, KnownIs DEF Expected
  <2>8. Buffers(m)
    <3>1. AnyUpdating(m) <=> AnyUpdating(p.mse)
      BY <2>4 DEF AnyUpdating, Updating
    <3>2. Wired(m)
      BY <1>1, <1>4, <2>4, <2>7 DEF Running, Buffers, Wired
    <3>3. Removing(m) /\ Quiet(m)
      BY <1>1, <1>4, <2>4, <3>1 DEF Running, Buffers, Removing, Quiet
    <3>4. m.state # "closed" => m.inits = <<>> /\ Fed(m)
      BY <1>1, <1>4, <2>4, <3>1 DEF Running, Buffers, Fed
    <3> QED BY <3>2, <3>3, <3>4 DEF Buffers
  <2>9. Requests(u) /\ u.page.player
    BY <1>1, <2>6 DEF Requests
  <2>10. Running(u, s, l)
    <3>1. Running(p, s, l)
      BY <1>1, <1>4
    <3>2. Order(u) /\ Resting(u.mux, s)
      BY <2>6, <2>7, <3>1 DEF Running, Order
    <3>3. Beginning(u)
      BY <1>1, <1>4, <2>6, <3>1 DEF Running, Beginning
    <3>4. Attending(u) = Attending(p) /\ Resumed(u) = Resumed(p) /\ From(u) = From(p)
      BY <2>6 DEF Attending, Resumed, From
    <3>5. Reading(u, s, l)
      BY <2>6, <3>1, <3>4 DEF Running, Reading
    <3>6. Over(u, s, l)
      BY <2>4, <2>6, <3>1, <3>4 DEF Running, Over, Ending
    <3>7. Lined(u, s)
      <4>1. Feeds(p.mse, m)
        BY <2>4, KeepsSame, FeedsTwice
      <4>2. InLine(p.mse, p.tasks, p.mux, s)
        BY <3>1 DEF Running, Lined
      <4>3. InLine(m, p.tasks, p.mux, s)
        BY <4>1, <4>2, InLineFeeds
      <4> QED BY <2>6, <4>3 DEF Lined
    <3> QED BY <2>6, <2>8, <3>2, <3>3, <3>5, <3>6, <3>7 DEF Running
  <2>13. Timed(u, s)
    <3>1. Timed(p, s) /\ (Hearing(u) => Hearing(p))
      BY <1>1, <1>4, <2>6 DEF Hearing
    <3>2. Feeds(p.mse, m)
      BY <2>4, KeepsSame, FeedsTwice
    <3>3. Paced(p.mse, p.tasks, p.mux, s) => Paced(m, p.tasks, p.mux, s)
      BY <3>2, PacedFeeds
    <3> QED BY <2>6, <3>1, <3>3, TimedMoves
  <2>11. PInv(u, s, l)
    BY <1>1, <2>4, <2>6, <2>9, <2>10, <2>13 DEF PInv
  <2>12. ~u.mux.demux.first
    BY <1>1, <1>4, <2>6
  <2> QED BY <2>2, <2>9, <2>11, <2>12, SuspendKeeps
<1> QED BY <1>1, <1>2, <1>3, <1>4

\* The page is told of an error that makes the player stop reading.
LEMMA AbortKeeps ==
  ASSUME NEW p, NEW s, NEW l, PInv(p, s, l), p.page.player, NEW q, q = InternalAbort(p)
  PROVE  PInv(q, s, l)
<1>1. /\ p \in Players /\ Requests(p) /\ l <= Len(p.reqs) /\ p.mse.said = "nothing" /\ p.mux.out = <<>>
      /\ Running(p, s, l) /\ Timed(p, s)
  BY DEF PInv
<1>2. Aborted(p, q)
  BY <1>1, InternalAbortIs
<1>3. Requests(q)
  BY <1>1, <1>2, AbortedRequests DEF Requests
<1>4. /\ q \in Players /\ q.mux = p.mux /\ q.tasks = p.tasks /\ q.mse = p.mse /\ q.page = p.page
      /\ ~q.io.alive /\ q.io.init = p.io.init /\ q.io.paused = p.io.paused /\ Len(q.reqs) = Len(p.reqs)
  BY <1>2 DEF Aborted
<1>5. Running(q, s, l)
  <2>1. ~Attending(q)
    BY <1>4 DEF Attending
  <2>2. p.mux.demux.first => ~q.page.checker /\ ~q.io.paused
    BY <1>1, <1>4 DEF Running, Beginning
  <2> QED BY <1>1, <1>4, <2>1, <2>2, RunningStill
<1>6. Timed(q, s)
  <2>1. ~Hearing(q)
    BY <1>4 DEF Hearing
  <2> QED BY <1>1, <1>4, <2>1, TimedSame
<1> QED BY <1>1, <1>3, <1>4, <1>5, <1>6 DEF PInv

\* More types are known.
LEMMA HeadedGrows ==
  ASSUME NEW s, NEW tracks, NEW K, NEW L, K \subseteq L, Headed(s, tracks, K)
  PROVE  Headed(s, tracks, L)
BY DEF Headed, Ordered, Knows

\* The first event is taken.
LEMMA HeadedTail ==
  ASSUME NEW s \in Seq(Events), s # <<>>, NEW tracks, NEW K, NEW L, K \subseteq L, Headed(s, tracks, K),
         s[1].ev = "init" => s[1].type \in L
  PROVE  /\ Tail(s) \in Seq(Events) /\ Headed(Tail(s), tracks, L)
         /\ \A i \in DOMAIN Tail(s) : i + 1 \in DOMAIN s /\ Tail(s)[i] = s[i + 1] /\ i \in Nat \ {0}
<1>1. /\ Tail(s) \in Seq(Events)
      /\ \A i \in DOMAIN Tail(s) : i + 1 \in DOMAIN s /\ Tail(s)[i] = s[i + 1]
  BY TailIs
<1>2. /\ DOMAIN Tail(s) = 1 .. Len(Tail(s)) /\ Len(Tail(s)) \in Nat /\ Len(Tail(s)) = Len(s) - 1
      /\ DOMAIN s = 1 .. Len(s) /\ Len(s) \in Nat /\ 1 \in DOMAIN s
  BY <1>1
<1>3. PICK w : w = Tail(s)
  OBVIOUS
<1>4. PICK n \in Nat : n = Len(s) /\ n # 0
  <2>1. Len(s) \in Nat /\ Len(s) # 0
    BY <1>2
  <2> QED BY <2>1, Zenon
<1>5. DOMAIN w = 1 .. n - 1 /\ DOMAIN s = 1 .. n /\ \A i \in 1 .. n - 1 : w[i] = s[i + 1]
  BY <1>1, <1>2, <1>3, <1>4
<1>6. \A j \in 1 .. n : j = 1 \/ (j - 1 \in 1 .. n - 1 /\ j - 1 + 1 = j)
  BY <1>4
<1>7. ASSUME NEW j \in 1 .. n, NEW t \in Types, InitOf(s[j], t)
      PROVE  t \in L \/ (j - 1 \in 1 .. n - 1 /\ InitOf(w[j - 1], t))
  <2>1. CASE j = 1
    BY <1>7, <2>1 DEF InitOf
  <2>2. CASE j # 1
    <3>1. j - 1 \in 1 .. n - 1 /\ j - 1 + 1 = j
      BY <1>6, <2>2
    <3>2. w[j - 1] = s[j]
      BY <1>5, <3>1
    <3> QED BY <1>7, <3>1, <3>2
  <2> QED BY <2>1, <2>2
<1>8. Ordered(w, L)
  <2> SUFFICES ASSUME NEW i \in 1 .. n - 1, w[i].ev = "media" PROVE w[i].type \in L \/ Ahead(w, i, w[i].type)
    BY <1>5 DEF Ordered
  <2>1. i + 1 \in 1 .. n /\ w[i] = s[i + 1]
    BY <1>4, <1>5
  <2>2. w[i].type \in K \/ Ahead(s, i + 1, w[i].type)
    BY <1>5, <2>1 DEF Headed, Ordered
  <2>3. ASSUME NEW j \in 1 .. i + 1 - 1, InitOf(s[j], w[i].type) PROVE w[i].type \in L \/ Ahead(w, i, w[i].type)
    <3>1. j \in 1 .. n
      BY <1>4
    <3>2. w[i].type \in Types
      <4>1. s[i + 1] \in Events
        BY <1>5, <2>1, ElementOfSeq
      <4>2. w[i] \in Media
        BY <2>1, <4>1 DEF Events, Segments, Inits, Notes
      <4> QED BY <4>2 DEF Media
    <3>3. w[i].type \in L \/ (j - 1 \in 1 .. n - 1 /\ InitOf(w[j - 1], w[i].type))
      BY <1>7, <2>3, <3>1, <3>2
    <3>4. j - 1 \in 1 .. n - 1 => j - 1 \in 1 .. i - 1
      BY <1>4
    <3> QED BY <3>3, <3>4 DEF Ahead
  <2> QED BY <2>2, <2>3 DEF Ahead
<1>9. \A t \in Types : t \in Knows(s, K) => t \in Knows(w, L)
  BY <1>5, <1>7 DEF Knows, Inited
<1>10. Headed(w, tracks, L)
  BY <1>8, <1>9 DEF Headed
<1>11. \A i \in 1 .. n - 1 : i \in Nat \ {0}
  OBVIOUS
<1> QED BY <1>1, <1>3, <1>5, <1>10, <1>11

\* The frames after a handler of the controller, when the events "ts" are left.
Moves(p, r, ts) ==
  r.said # "error" => \A s : /\ InLine(p.mse, p.tasks, p.mux, s) => InLine(r, ts, p.mux, s)
                             /\ Paced(p.mse, p.tasks, p.mux, s) => Paced(r, ts, p.mux, s)

\* A handler of the controller has run; some events are still to come.
Delivered(p, r, ts) ==
  /\ r \in Controllers /\ ts \in Seq(Events) /\ Moves(p, r, ts)
  /\ r.said # "error" => Buffers(r) /\ Headed(ts, p.mux.tracks, Known(r))
  /\ EndTold(ts) => EndTold(p.tasks)
  /\ r.eos \/ r.state = "ended" => Ending(p) /\ NoInits(ts)
  /\ EndLast(ts)
  /\ p.mux.demux.first => OnlyNotes(ts) /\ Blank(r) /\ r.said # "full"

\* A microtask delivered leaves the player as it was but for the controller.
LEMMA DeliveredKeeps ==
  ASSUME NEW p, NEW s, NEW l, PInv(p, s, l), p.page.player, NEW r, NEW ts, Delivered(p, r, ts),
         NEW q, q = [p EXCEPT !.tasks = ts, !.mse = r]
  PROVE  Before(q, s, l)
<1>1. /\ p \in Players /\ Requests(p) /\ l <= Len(p.reqs) /\ p.mux.out = <<>> /\ Running(p, s, l) /\ Timed(p, s)
  BY DEF PInv
<1>2. /\ r \in Controllers /\ ts \in Seq(Events) /\ Moves(p, r, ts)
      /\ r.said # "error" => Buffers(r) /\ Headed(ts, p.mux.tracks, Known(r))
      /\ EndTold(ts) => EndTold(p.tasks)
      /\ r.eos \/ r.state = "ended" => Ending(p) /\ NoInits(ts)
      /\ EndLast(ts)
      /\ p.mux.demux.first => OnlyNotes(ts) /\ Blank(r) /\ r.said # "full"
  BY DEF Delivered
<1>3. /\ q \in Players /\ q.mux = p.mux /\ q.tasks = ts /\ q.mse = r /\ q.page = p.page
      /\ q.io = p.io /\ q.reqs = p.reqs
  BY <1>1, <1>2 DEF Players
<1>4. Attending(q) = Attending(p) /\ Resumed(q) = Resumed(p) /\ From(q) = From(p)
  BY <1>3 DEF Attending, Resumed, From
<1>5. ASSUME r.said # "error" PROVE Running(q, s, l)
  <2>1. Order(q) /\ Buffers(q.mse) /\ Resting(q.mux, s)
    BY <1>1, <1>2, <1>3, <1>5 DEF Running, Order
  <2>2. Beginning(q)
    BY <1>1, <1>2, <1>3 DEF Running, Beginning
  <2>3. Reading(q, s, l)
    BY <1>1, <1>3, <1>4 DEF Running, Reading
  <2>4. Ending(q) => Ending(p)
    BY <1>2, <1>3 DEF Ending
  <2>5. Over(q, s, l)
    BY <1>1, <1>2, <1>3, <1>4, <2>4 DEF Running, Over
  <2>6. Lined(q, s)
    <3>1. InLine(p.mse, p.tasks, p.mux, s)
      BY <1>1 DEF Running, Lined
    <3>2. InLine(r, ts, p.mux, s)
      BY <1>2, <1>5, <3>1 DEF Moves
    <3> QED BY <1>3, <3>2 DEF Lined
  <2> QED BY <2>1, <2>2, <2>3, <2>5, <2>6 DEF Running
<1>6. Requests(q)
  BY <1>1, <1>3 DEF Requests
<1>7. ASSUME r.said # "error" PROVE Timed(q, s)
  <2>1. Paced(p.mse, p.tasks, p.mux, s) => Paced(r, ts, p.mux, s)
    BY <1>2, <1>7 DEF Moves
  <2>2. Hearing(q) => Hearing(p)
    BY <1>3 DEF Hearing
  <2> QED BY <1>1, <1>3, <2>1, <2>2, TimedMoves
<1> QED BY <1>1, <1>2, <1>3, <1>5, <1>6, <1>7 DEF Before

\* Only the controller has changed.
LEMMA AnsweredKeeps ==
  ASSUME NEW p, NEW s, NEW l, PInv(p, s, l), p.page.player, NEW r, Follows(p.mse, r), Feeds(p.mse, r),
         p.mux.demux.first => Blank(r) /\ r.said # "full", NEW q, q = MseSays([p EXCEPT !.mse = r])
  PROVE  PInv(q, s, l)
<1>1. p \in Players /\ Running(p, s, l)
  BY DEF PInv
<1>2. PICK ts : ts = p.tasks
  OBVIOUS
<1>3. ts \in Seq(Events)
  BY <1>1, <1>2 DEF Players
<1>4. r \in Controllers /\ (r.said = "error" \/ (Buffers(r) /\ Known(p.mse) \subseteq Known(r)))
      /\ (r.eos \/ r.state = "ended" => p.mse.eos \/ p.mse.state = "ended")
  BY DEF Follows
<1>5. r.said # "error" => Headed(ts, p.mux.tracks, Known(r))
  <2>1. Headed(ts, p.mux.tracks, Known(p.mse))
    BY <1>1, <1>2 DEF Running, Order
  <2> QED BY <1>4, <2>1, HeadedGrows
<1>6. /\ r.eos \/ r.state = "ended" => Ending(p) /\ NoInits(ts)
      /\ EndLast(ts)
  BY <1>1, <1>2, <1>4 DEF Running, Over, Ending
<1>7. p.mux.demux.first => OnlyNotes(ts)
  BY <1>1, <1>2 DEF Running, Beginning
<1>12. Moves(p, r, ts)
  BY <1>2, InLineFeeds, PacedFeeds DEF Moves
<1>8. Delivered(p, r, ts)
  BY <1>12, <1>2, <1>3, <1>4, <1>5, <1>6, <1>7 DEF Delivered
<1>9. PICK u : u = [p EXCEPT !.mse = r]
  OBVIOUS
<1>10. u = [p EXCEPT !.tasks = ts, !.mse = r]
  BY <1>1, <1>2, <1>9 DEF Players
<1>11. Before(u, s, l)
  BY <1>8, <1>10, DeliveredKeeps
<1> QED BY <1>9, <1>11, SaysKeeps

\* In a new player no frame is on its way.
LEMMA NobodyInLine ==
  ASSUME NEW s
  PROVE  InLine(NewController, <<>>, NewTransmuxer, s)
<1>1. PICK m, x : m = NewController /\ x = NewTransmuxer
  OBVIOUS
<1>2. ASSUME NEW t \in Types
      PROVE  /\ m.done[t] = <<>> /\ Upcoming(m, t) = <<>>
             /\ x.out = <<>> /\ x.parsed = 0 /\ Backlog(x.tracks[t]) = <<>>
  <2>1. m.done[t] = <<>> /\ m.segs[t] = <<>> /\ m.busy[t] = <<>>
    BY <1>1 DEF NewController
  <2>2. Cutting(m, t) = <<>>
    BY <2>1 DEF Cutting, Updating
  <2>3. x.out = <<>> /\ x.parsed = 0 /\ x.tracks[t].stash = <<>> /\ x.tracks[t].queue = <<>>
    BY <1>1 DEF NewTransmuxer, NewTrack
  <2>4. <<>> \o <<>> = <<>>
    OBVIOUS
  <2> QED BY <2>1, <2>2, <2>3, <2>4 DEF Upcoming, Backlog
<1>3. ASSUME NEW t \in Types PROVE Placed(<<>>, <<>>, <<>>, x, s, t)
  <2>1. PICK e : e \in Events
    <3>1. [ev |-> "abort"] \in Events
      BY DEF Events, Notes
    <3> QED BY <3>1
  <2>2. /\ Marks(<<>>, OfShown) = {} /\ Marks(<<>>, OfFrame) = {}
        /\ Rises(<<>>, OfShown) /\ Rises(<<>>, OfFrame)
    BY MarksOne
  <2>3. Marks(<<>>, OfEvent(t)) = {} /\ Tidy(<<>>, t)
    BY <2>1, TidyOne
  <2>4. x.out = <<>> /\ x.parsed = 0 /\ Backlog(x.tracks[t]) = <<>>
    BY <1>2
  <2>5. MuxTags(x, t) = {} /\ MuxInOrder(x, t)
    BY <2>2, <2>3, <2>4 DEF MuxTags, MuxInOrder, Below
  <2>6. FedTags(<<>>, <<>>, t) = {} /\ RestTags(<<>>, x, t) = {}
    BY <2>2, <2>3, <2>5 DEF FedTags, RestTags
  <2>7. Kin(s, 0, x.parsed, t) = {}
    <3>1. 0 + 1 .. 0 = {}
      OBVIOUS
    <3> QED BY <2>4, <3>1 DEF Kin
  <2>8. FedInOrder(<<>>, <<>>, t) /\ RestInOrder(<<>>, x, t)
    <3>1. DOMAIN <<>> = {}
      OBVIOUS
    <3> QED BY <2>2, <2>3, <2>5, <3>1 DEF FedInOrder, OfType, RestInOrder, Below
  <2> QED BY <2>6, <2>7, <2>8 DEF Placed, Below
<1>4. ASSUME NEW t \in Types PROVE Placed(m.done[t], Upcoming(m, t), <<>>, x, s, t)
  <2>1. m.done[t] = <<>> /\ Upcoming(m, t) = <<>>
    BY <1>2
  <2> QED BY <1>3, <2>1
<1> QED BY <1>1, <1>4 DEF InLine

\* Of a new player nothing is wrong.
LEMMA LoadKeeps ==
  ASSUME NEW p, NEW s \in Seq(Tags), NEW l \in Nat, PInv(p, s, l), p.page.timer, p.tasks = <<>>,
         NEW q, q = [LoadPlayer(AttachMediaElement(p)) EXCEPT !.page = [NewPage EXCEPT !.player = TRUE]]
  PROVE  PInv(q, s, l + 1)
<1>0. /\ p \in Players /\ Requests(p) /\ l <= Len(p.reqs)
      /\ p.reqs \in Seq(Loaders) /\ Len(p.reqs) \in Nat
  BY LenProperties DEF PInv, Players
<1> DEFINE loader == [[NewLoader EXCEPT !.bound = TRUE] EXCEPT !.status = "connecting", !.conn = "asked", !.from = 0]
           control == [NewIO EXCEPT !.to = -1]
           g == [NewPage EXCEPT !.player = TRUE]
           reqs1 == Append(p.reqs, loader)
<1>1. q = [p EXCEPT !.reqs = reqs1, !.io = control, !.mux = NewTransmuxer, !.mse = NewController, !.page = g,
                    !.head = 0]
  <2>1. AttachMediaSource(NewController) = NewController
    <3>1. PICK k \in Controllers : k = NewController
      BY NewOnes
    <3>2. k.state = "closed"
      BY <3>1 DEF NewController
    <3>3. [k EXCEPT !.state = "closed"] = k
      BY <3>2 DEF Controllers
    <3> QED BY <3>1, <3>3, Zenon DEF AttachMediaSource
  <2>2. PICK c, x, i0, n0 : c = NewController /\ x = NewTransmuxer /\ i0 = NewIO /\ n0 = NewLoader
    OBVIOUS
  <2>3. PICK a : a = [p EXCEPT !.mse = c, !.head = 0]
    OBVIOUS
  <2>4. PICK b : b = [[a EXCEPT !.mux = x] EXCEPT !.io = i0]
    OBVIOUS
  <2>5. PICK d : d = [b EXCEPT !.reqs = Append(@, [n0 EXCEPT !.bound = TRUE])]
    OBVIOUS
  <2>6. PICK e : e = [d EXCEPT !.io.to = -1,
                               !.reqs[Len(d.reqs)] = [@ EXCEPT !.status = "connecting", !.conn = "asked", !.from = 0]]
    OBVIOUS
  <2>7. q = [e EXCEPT !.page = g]
    BY <2>1, <2>2, <2>3, <2>4, <2>5, <2>6, Zenon
       DEF LoadPlayer, AttachMediaElement, LoadSegment, CreateLoader, OpenIO, OpenLoader, CurrentOf
  <2>8. PICK w : w = [n0 EXCEPT !.bound = TRUE]
    OBVIOUS
  <2>9. PICK z \in Loaders : z = [w EXCEPT !.status = "connecting", !.conn = "asked", !.from = 0] /\ w \in Loaders
    <3>1. w \in Loaders
      BY <2>2, <2>8, NewOnes DEF Loaders
    <3>2. [w EXCEPT !.status = "connecting", !.conn = "asked", !.from = 0] \in Loaders
      <4>1. PICK z : z = [w EXCEPT !.status = "connecting", !.conn = "asked", !.from = 0]
        OBVIOUS
      <4>2. z = [status |-> "connecting", abort |-> w.abort, bound |-> w.bound, conn |-> "asked",
                 from |-> 0, received |-> w.received]
        BY <3>1, <4>1 DEF Loaders
      <4>3. w.abort \in BOOLEAN /\ w.bound \in BOOLEAN /\ w.received \in Nat
        BY <3>1 DEF Loaders
      <4>4. z \in Loaders
        BY <4>2, <4>3 DEF Loaders
      <4> QED BY <4>1, <4>4
    <3> QED BY <3>1, <3>2
  <2>10. PICK u \in Seq(Loaders) : u = Append(p.reqs, w) /\ Len(u) = Len(p.reqs) + 1
    <3>1. Append(p.reqs, w) \in Seq(Loaders) /\ Len(Append(p.reqs, w)) = Len(p.reqs) + 1
      BY <1>0, <2>9, AppendProperties
    <3> QED BY <3>1
  <2>11. [u EXCEPT ![Len(u)] = [@ EXCEPT !.status = "connecting", !.conn = "asked", !.from = 0]] = Append(p.reqs, z)
    <3>1. PICK n \in Nat : n = Len(p.reqs)
      BY <1>0
    <3>2. /\ DOMAIN u = 1 .. n + 1 /\ u[n + 1] = w /\ Len(u) = n + 1
          /\ \A i \in 1 .. n : u[i] = p.reqs[i]
      BY <1>0, <2>9, <2>10, <3>1, AppendProperties, LenProperties
    <3>3. PICK v : v = Append(p.reqs, z)
      OBVIOUS
    <3>4. /\ v \in Seq(Loaders) /\ DOMAIN v = 1 .. n + 1 /\ v[n + 1] = z
          /\ \A i \in 1 .. n : v[i] = p.reqs[i]
      BY <1>0, <2>9, <3>1, <3>3, AppendProperties, LenProperties
    <3>5. PICK y : y = [u EXCEPT ![n + 1] = z]
      OBVIOUS
    <3>6. n + 1 \in 1 .. n + 1 /\ \A i \in 1 .. n + 1 : i = n + 1 \/ (i \in 1 .. n /\ i # n + 1)
      OBVIOUS
    <3>7. y = v
      <4>1. u = [i \in 1 .. n + 1 |-> u[i]] /\ v = [i \in 1 .. n + 1 |-> v[i]]
        BY <2>10, <3>2, <3>4
      <4>2. y = [i \in 1 .. n + 1 |-> y[i]]
        BY <3>2, <3>5, <4>1
      <4>3. \A i \in 1 .. n + 1 : y[i] = v[i]
        BY <3>2, <3>4, <3>5, <3>6
      <4> QED BY <4>1, <4>2, <4>3
    <3>8. [u EXCEPT ![Len(u)] = [@ EXCEPT !.status = "connecting", !.conn = "asked", !.from = 0]] = y
      BY <2>9, <3>2, <3>5
    <3> QED BY <3>3, <3>7, <3>8
  <2>12. d.reqs = u /\ d = [p EXCEPT !.mse = c, !.head = 0, !.mux = x, !.io = i0, !.reqs = u]
    BY <1>0, <2>3, <2>4, <2>5, <2>8, <2>10 DEF Players
  <2>13. e = [p EXCEPT !.mse = c, !.head = 0, !.mux = x, !.io = [i0 EXCEPT !.to = -1], !.reqs = Append(p.reqs, z)]
    BY <1>0, <2>6, <2>11, <2>12 DEF Players
  <2>14. q = [p EXCEPT !.mse = c, !.head = 0, !.mux = x, !.io = [i0 EXCEPT !.to = -1], !.reqs = Append(p.reqs, z), !.page = g]
    BY <2>7, <2>13
  <2>15. z = loader
    BY <2>2, <2>8, <2>9
  <2> HIDE DEF g, loader
  <2> QED BY <1>0, <2>2, <2>14, <2>15 DEF Players
<1>2. /\ loader \in Loaders /\ loader.bound /\ loader.conn = "asked" /\ loader.status = "connecting"
      /\ loader.from = 0 /\ loader.received = 0
  BY NewOnes DEF NewLoader, Loaders
<1>3. /\ control \in Controls /\ control.alive /\ control.init /\ ~control.paused /\ control.stash = <<>>
      /\ control.start = 0
  BY NewOnes DEF NewIO, Controls
<1>4. g \in Pages /\ g.player /\ ~g.timer /\ ~g.checker
  BY DEF NewPage, Pages
<1> HIDE DEF loader, control, g
<1>5. /\ reqs1 \in Seq(Loaders) /\ Len(reqs1) = Len(p.reqs) + 1 /\ reqs1[Len(reqs1)] = loader
      /\ \A i \in 1 .. Len(p.reqs) : reqs1[i] = p.reqs[i]
  BY <1>0, <1>2, AppendProperties
<1> HIDE DEF reqs1
<1>6. /\ q \in Players /\ q.reqs = reqs1 /\ q.io = control /\ q.mux = NewTransmuxer /\ q.mse = NewController
      /\ q.page = g /\ q.tasks = <<>>
  <2>1. PICK c, x : c = NewController /\ x = NewTransmuxer
    OBVIOUS
  <2>2. q = [reqs |-> reqs1, io |-> control, mux |-> x, tasks |-> p.tasks, mse |-> c, page |-> g, head |-> 0]
    BY <1>0, <1>1, <2>1 DEF Players
  <2>3. c \in Controllers /\ x \in Muxes /\ p.tasks \in Seq(Events) /\ 0 \in Int
    BY <1>0, <2>1, NewOnes DEF Players
  <2>4. q \in Players
    <3>1. /\ reqs1 \in Seq(Loaders) /\ control \in Controls /\ x \in Muxes /\ p.tasks \in Seq(Events)
          /\ c \in Controllers /\ g \in Pages /\ 0 \in Int
      BY <1>3, <1>4, <1>5, <2>3
    <3>2. [reqs |-> reqs1, io |-> control, mux |-> x, tasks |-> p.tasks, mse |-> c, page |-> g, head |-> 0] \in Players
      BY <3>1 DEF Players
    <3> QED BY <2>2, <3>2
  <2> QED BY <2>1, <2>2, <2>4
<1>7. \A n \in 1 .. Len(reqs1) : n < Len(reqs1) => n \in 1 .. Len(p.reqs)
  BY <1>0, <1>5
<1>8. \A n \in 1 .. Len(p.reqs) : GivenUp(p.reqs[n])
  BY <1>0 DEF Requests
<1>9. Requests(q)
  <2>1. \A n \in 1 .. Len(reqs1) : n < Len(reqs1) => GivenUp(reqs1[n])
    BY <1>5, <1>7, <1>8
  <2>2. \A n \in 1 .. Len(reqs1) : n < Len(reqs1) \/ n = Len(reqs1)
    BY <1>0, <1>5
  <2>3. \A n \in 1 .. Len(reqs1) : Working(reqs1[n]) => Waiting(reqs1[n])
    BY <1>2, <1>5, <2>1, <2>2 DEF GivenUp, Waiting
  <2>4. Working(loader)
    BY <1>2 DEF Working
  <2>5. Len(reqs1) # 0
    BY <1>0, <1>5
  <2> QED BY <1>2, <1>3, <1>4, <1>5, <1>6, <2>1, <2>3, <2>4, <2>5 DEF Requests
<1>10. /\ NewController.state = "closed" /\ ~NewController.eos /\ NewController.said = "nothing"
       /\ \A t \in Types : /\ ~NewController.made[t] /\ NewController.busy[t] = <<>> /\ NewController.segs[t] = <<>>
                           /\ NewController.removals[t] = <<>>
       /\ NewController.inits = <<>>
  BY DEF NewController
<1>11. DOMAIN <<>> = {}
  OBVIOUS
<1>12. Buffers(NewController) /\ Blank(NewController)
  <2>1. Wired(NewController) /\ Removing(NewController) /\ Quiet(NewController)
    <3>1. PICK c : c = NewController
      OBVIOUS
    <3>2. /\ c.state = "closed"
          /\ \A t \in Types : ~c.made[t] /\ c.busy[t] = <<>> /\ c.segs[t] = <<>> /\ c.removals[t] = <<>>
      BY <1>10, <3>1
    <3>3. Wired(c) /\ Removing(c) /\ Quiet(c)
      BY <1>11, <3>2 DEF Wired, Removing, Quiet, OnlyInits
    <3> QED BY <3>1, <3>3
  <2>2. Blank(NewController)
    BY <1>10, <1>11 DEF Blank, Expected
  <2> QED BY <1>10, <2>1, <2>2 DEF Buffers
<1>13. /\ NewTransmuxer.out = <<>> /\ NewTransmuxer.parsed = 0 /\ NewTransmuxer.demux.first
       /\ ~NewTransmuxer.demux.dispatch
       /\ \A t \in Types : /\ NewTransmuxer.tracks[t].queue = <<>> /\ NewTransmuxer.tracks[t].stash = <<>>
                           /\ NewTransmuxer.tracks[t].meta = NoMeta
  BY DEF NewTransmuxer, NewDemuxer, NewTrack
<1>14. Order(q)
  <2>1. \A t \in Types : Held(NewTransmuxer.tracks[t])
    BY <1>13 DEF Held
  <2>2. Ordered(<<>>, Known(NewController))
    BY <1>11 DEF Ordered
  <2> QED BY <1>6, <1>13, <2>1, <2>2 DEF Order, Headed
<1>15. Beginning(q)
  BY <1>3, <1>4, <1>6, <1>11, <1>12, <1>13 DEF Beginning, Fresh, OnlyNotes
<1>16. Reading(q, s, l + 1)
  <2>1. Taken(NewTransmuxer) = 0
    BY <1>13 DEF Taken
  <2>2. From(q) = 0
    BY <1>2, <1>3, <1>5, <1>6 DEF From
  <2>3. Len(<<>>) = 0 /\ Len(Units(s)) \in Nat /\ Len(s) \in Nat
    BY UnitsAre
  <2>4. Cut(s, 0, 0 + 0) = <<>>
    BY UnitsAre, PartIs DEF Cut
  <2>5. Live(s, NewTransmuxer, <<>>, 0)
    BY <2>1, <2>3, <2>4 DEF Live
  <2>6. l + 1 # 0
    OBVIOUS
  <2>7. q.mux.parsed <= Len(s)
    BY <1>6, <1>13, <2>3
  <2>8. Live(s, q.mux, q.io.stash, From(q))
    BY <1>2, <1>3, <1>5, <1>6, <2>2, <2>5
  <2>9. q.reqs[Len(q.reqs)].received = Taken(q.mux) + Len(q.io.stash)
    BY <1>2, <1>3, <1>5, <1>6, <2>1, <2>3
  <2> QED BY <2>6, <2>7, <2>8, <2>9 DEF Reading
<1>17. Resting(NewTransmuxer, s)
  <2>1. AtRest(NewTransmuxer) /\ NoFrames(NewTransmuxer)
    BY <1>13 DEF AtRest, NoFrames
  <2> QED BY <2>1 DEF Resting
<1>18. Over(q, s, l + 1)
  <2>1. ~EndTold(<<>>) /\ EndLast(<<>>)
    BY <1>11 DEF EndTold, EndLast
  <2>2. ~Ending(q)
    BY <1>6, <1>10, <2>1 DEF Ending
  <2> QED BY <1>6, <1>10, <2>1, <2>2 DEF Over
<1>21. Lined(q, s)
  BY <1>6, NobodyInLine DEF Lined
<1>19. Running(q, s, l + 1)
  BY <1>6, <1>12, <1>14, <1>15, <1>16, <1>17, <1>18, <1>21 DEF Running
<1>20. l + 1 <= Len(reqs1)
  BY <1>0, <1>5
<1>22. Timed(q, s)
  BY <1>6, TimedNew
<1> QED BY <1>4, <1>6, <1>9, <1>10, <1>13, <1>19, <1>20, <1>22 DEF PInv

\* What has come of data that were read from the first unit on.
Digested(p, q, data, start) ==
  /\ q \in Players /\ q.reqs = p.reqs /\ q.page = p.page /\ q.mse = p.mse
  /\ q.io.alive = p.io.alive /\ q.io.paused = p.io.paused
  /\ q.mux.out = <<>> /\ q.mux.parsed <= Len(stream) /\ Resting(q.mux, stream) /\ NoEnd(q.tasks)
  /\ Supplies(stream, p.tasks, p.mux, q.tasks, q.mux)
  /\ Sends(stream, p.tasks, p.mux, q.tasks, q.mux) /\ Calms(stream, p.mux, q.mux)
  /\ q.io.init => q.mux.demux.first
  /\ q.mux.demux.first => p.mux.demux.first /\ Fresh(q.mux) /\ OnlyNotes(q.tasks)
  /\ \A K : Headed(<<>>, p.mux.tracks, K) => Headed(q.tasks, q.mux.tracks, K)
  /\ Live(stream, p.mux, data, start) =>
        /\ Live(stream, q.mux, q.io.stash, q.io.start)
        /\ Taken(p.mux) + Len(data) = Taken(q.mux) + Len(q.io.stash)
  /\ Deaf(p.mux, data) => /\ ~q.mux.demux.first /\ q.mux.parsed = p.mux.parsed /\ q.io.stash = data
                          /\ NoInits(q.tasks) /\ (AtRest(p.mux) => q.mux.tracks = p.mux.tracks)

\* A player that is given data.
Hungry(p, data, start) ==
  /\ p \in Players /\ p.tasks = <<>> /\ p.mux.out = <<>> /\ Resting(p.mux, stream)
  /\ p.mux.parsed <= Len(stream) /\ (p.io.init => p.mux.demux.first) /\ (p.mux.demux.first => Fresh(p.mux))
  /\ data \in Seq(Pieces) /\ data # <<>> /\ start \in Int
  /\ Live(stream, p.mux, data, start) \/ Deaf(p.mux, data)

\* What the consumer has left over is kept, if it could make anything of it.
LEMMA RejectedIs ==
  ASSUME NEW data, NEW start, NEW p, Hungry(p, data, start), p.io.init, NEW q,
         q = KeepRest([p |-> Told(Told([p EXCEPT !.io.to = start + Len(data) - 1], "abort"), "demux_error"),
                       consumed |-> 0], data, start)
  PROVE  Digested(p, q, data, start)
<1>0. /\ p \in Players /\ p.tasks = <<>> /\ p.mux.out = <<>> /\ Resting(p.mux, stream)
      /\ p.mux.parsed <= Len(stream) /\ p.mux.demux.first /\ Fresh(p.mux)
      /\ data \in Seq(Pieces) /\ data # <<>> /\ start \in Int /\ Len(data) \in Nat
  BY LenProperties DEF Hungry
<1>1. /\ p.reqs \in Seq(Loaders) /\ p.io \in Controls /\ p.mux \in Muxes /\ p.mse \in Controllers
      /\ p.page \in Pages /\ p.head \in Int
  BY <1>0 DEF Players
<1>2. PICK c : c = [p |-> Told(Told([p EXCEPT !.io.to = start + Len(data) - 1], "abort"), "demux_error"), consumed |-> 0]
  OBVIOUS
<1>3. c.consumed = 0 /\ SubSeq(data, 0 + 1, Len(data)) = data /\ start + 0 = start
  <2>1. Rest(data, c) = data /\ c.consumed = 0
    BY <1>0, <1>2, AllIsLeft
  <2> QED BY <1>0, <2>1 DEF Rest
<1>4. PICK n \in Int : n = start + Len(data) - 1
  BY <1>0
<1>5. PICK a, d : a = [ev |-> "abort"] /\ d = [ev |-> "demux_error"]
  OBVIOUS
<1>6. a \in Events /\ d \in Events /\ a.ev = "abort" /\ d.ev = "demux_error"
  BY <1>5 DEF Events, Notes
<1>7. c.p = [p EXCEPT !.io.to = n, !.tasks = Append(Append(<<>>, a), d)]
  BY <1>0, <1>2, <1>4, <1>5 DEF Told, Players
<1>8. PICK us, ts : us = Append(<<>>, a) /\ ts = Append(us, d)
  OBVIOUS
<1>10. /\ ts \in Seq(Events) /\ NoEnd(ts) /\ OnlyNotes(ts) /\ NoInits(ts)
  <2>1. <<>> \in Seq(Events) /\ DOMAIN <<>> = {}
    OBVIOUS
  <2>2. us \in Seq(Events) /\ ts \in Seq(Events)
    BY <1>6, <1>8, <2>1, AppendProperties
  <2>3. OneMore(us, <<>>, a) /\ OneMore(ts, us, d)
    BY <1>6, <1>8, <2>1, <2>2, AppendedIs
  <2>4. \A i \in DOMAIN ts : ts[i] = a \/ ts[i] = d
    BY <2>1, <2>3 DEF OneMore
  <2> QED BY <1>6, <2>2, <2>4 DEF NoEnd, OnlyNotes, NoInits
<1>11. q = [c.p EXCEPT !.io.stash = data, !.io.start = start]
  BY <1>2, <1>3 DEF KeepRest
<1>12. PICK k : k = [p.io EXCEPT !.to = n, !.stash = data, !.start = start]
  OBVIOUS
<1>13. k \in Controls /\ k.alive = p.io.alive /\ k.paused = p.io.paused /\ k.init = p.io.init
       /\ k.stash = data /\ k.start = start
  BY <1>0, <1>1, <1>4, <1>12 DEF Controls
<1>14. q = [p EXCEPT !.io = k, !.tasks = ts]
  <2>1. PICK e : e = c.p
    OBVIOUS
  <2>2. e = [p EXCEPT !.io.to = n, !.tasks = ts] /\ q = [e EXCEPT !.io.stash = data, !.io.start = start]
    BY <1>7, <1>8, <1>11, <2>1, Zenon
  <2>3. e = [p EXCEPT !.io = [p.io EXCEPT !.to = n], !.tasks = ts]
    BY <1>0, <2>2 DEF Players
  <2>4. q = [e EXCEPT !.io = [e.io EXCEPT !.stash = data, !.start = start]]
    BY <1>0, <1>1, <2>2, <2>3 DEF Players, Controls
  <2> QED BY <1>0, <1>1, <1>12, <2>3, <2>4 DEF Players, Controls
<1>15. /\ q \in Players /\ q.io = k /\ q.tasks = ts /\ q.mux = p.mux /\ q.reqs = p.reqs /\ q.page = p.page
       /\ q.mse = p.mse
  BY <1>0, <1>10, <1>13, <1>14 DEF Players
<1>16. ASSUME NEW K, Headed(<<>>, p.mux.tracks, K) PROVE Headed(ts, p.mux.tracks, K)
  <2>1. \A i \in DOMAIN ts : ts[i].ev # "media"
    BY <1>10 DEF OnlyNotes
  <2>2. Knows(<<>>, K) \subseteq Knows(ts, K)
    <3>1. DOMAIN <<>> = {}
      OBVIOUS
    <3> QED BY <3>1 DEF Knows, Inited
  <2> QED BY <1>16, <2>1, <2>2 DEF Headed, Ordered
<1>17. ~Deaf(p.mux, data)
  BY <1>0 DEF Deaf
<1>18. Supplies(stream, p.tasks, p.mux, q.tasks, q.mux)
  <2>1. <<>> \in Seq(Events)
    OBVIOUS
  <2>2. us \in Seq(Events)
    BY <1>6, <1>8, <2>1, AppendProperties
  <2>3. Supplies(stream, <<>>, p.mux, us, p.mux)
    BY <1>0, <1>1, <1>6, <1>8, <2>1, NoteSupplies
  <2>4. Supplies(stream, us, p.mux, ts, p.mux)
    BY <1>0, <1>1, <1>6, <1>8, <2>2, NoteSupplies
  <2>5. Supplies(stream, <<>>, p.mux, ts, p.mux)
    BY <1>1, <2>3, <2>4, SuppliesTwice
  <2> QED BY <1>0, <1>15, <2>5
<1>19. Sends(stream, p.tasks, p.mux, q.tasks, q.mux) /\ Calms(stream, p.mux, q.mux)
  <2>1. ASSUME NEW b, <<>> \in Seq(Punctual(stream, b)) PROVE ts \in Seq(Punctual(stream, b))
    <3>1. PICK none \in Seq(Events) : none = <<>>
      <4>1. <<>> \in Seq(Events)
        OBVIOUS
      <4> QED BY <4>1, Zenon
    <3>2. us = Append(none, a) /\ us \in Seq(Events)
      BY <1>6, <1>8, <3>1, AppendProperties
    <3>3. none \in Seq(Punctual(stream, b)) => us \in Seq(Punctual(stream, b))
      BY <1>6, <3>2, PacedNote
    <3>4. us \in Seq(Punctual(stream, b)) => ts \in Seq(Punctual(stream, b))
      BY <1>6, <1>8, <3>2, PacedNote
    <3> QED BY <2>1, <3>1, <3>3, <3>4
  <2>2. q.mux = p.mux /\ q.tasks = ts /\ p.tasks = <<>>
    BY <1>0, <1>15
  <2> QED BY <2>1, <2>2 DEF Sends, Calms, Clocked
<1> QED BY <1>0, <1>10, <1>13, <1>15, <1>16, <1>17, <1>18, <1>19 DEF Digested

\* The demuxer has read what it could.
LEMMA ParsedIs ==
  ASSUME stream \in Seq(Tags), Sound(stream), NEW data, NEW start, NEW p, Hungry(p, data, start),
         NEW x, x = IF p.io.init THEN NewTransmuxer ELSE p.mux, NEW q,
         q = KeepRest(Parsed([p EXCEPT !.io.to = start + Len(data) - 1], ParseChunks(x, stream, data, start)), data, start)
  PROVE  Digested(p, q, data, start)
<1>0. /\ p \in Players /\ p.tasks = <<>> /\ p.mux.out = <<>> /\ Resting(p.mux, stream)
      /\ p.mux.parsed <= Len(stream) /\ (p.io.init => p.mux.demux.first) /\ (p.mux.demux.first => Fresh(p.mux))
      /\ data \in Seq(Pieces) /\ data # <<>> /\ start \in Int /\ Len(data) \in Nat
      /\ Live(stream, p.mux, data, start) \/ Deaf(p.mux, data)
  BY LenProperties DEF Hungry
<1>1. /\ p.reqs \in Seq(Loaders) /\ p.io \in Controls /\ p.mux \in Muxes /\ p.mse \in Controllers
      /\ p.page \in Pages /\ p.head \in Int
  BY <1>0 DEF Players
<1>2. /\ x \in Muxes /\ x.out = <<>> /\ Resting(x, stream) /\ x.parsed <= Len(stream)
      /\ x.demux.first => Fresh(x) /\ p.mux.demux.first
      /\ \A K : Headed(<<>>, p.mux.tracks, K) => Headed(<<>>, x.tracks, K)
      /\ Live(stream, p.mux, data, start) => Live(stream, x, data, start) /\ Taken(x) = Taken(p.mux)
      /\ Deaf(p.mux, data) => x = p.mux
  <2>1. CASE ~p.io.init
    BY <1>0, <1>1, <2>1
  <2>2. CASE p.io.init
    <3>1. x = NewTransmuxer /\ x \in Muxes
      BY <2>2, NewOnes
    <3>2. /\ x.out = <<>> /\ x.parsed = 0 /\ x.demux.first /\ ~x.demux.dispatch
          /\ \A t \in Types : /\ x.tracks[t].queue = <<>> /\ x.tracks[t].stash = <<>>
                              /\ x.tracks[t].meta = NoMeta
      BY <3>1 DEF NewTransmuxer, NewDemuxer, NewTrack
    <3>3. Fresh(x) /\ Resting(x, stream)
      BY <3>2 DEF Fresh, Resting, NoFrames, AtRest
    <3>4. Len(stream) \in Nat /\ x.parsed <= Len(stream)
      BY <3>2, LenProperties
    <3>5. ASSUME NEW K, Headed(<<>>, p.mux.tracks, K) PROVE Headed(<<>>, x.tracks, K)
      BY <3>2, <3>5 DEF Headed, Held
    <3>6. Taken(x) = 0 /\ Taken(p.mux) = 0
      BY <1>0, <2>2, <3>2 DEF Taken
    <3>7. Live(stream, p.mux, data, start) => Live(stream, x, data, start)
      BY <1>0, <2>2, <3>6 DEF Live
    <3>8. ~Deaf(p.mux, data)
      BY <1>0, <2>2 DEF Deaf
    <3> QED BY <1>0, <2>2, <3>1, <3>2, <3>3, <3>4, <3>5, <3>6, <3>7, <3>8
  <2> QED BY <2>1, <2>2
<1>3. PICK r : r = ParseChunks(x, stream, data, start)
  OBVIOUS
<1>4. Live(stream, x, data, start) \/ Deaf(x, data)
  BY <1>0, <1>2
<1>5. Chunked(x, stream, data, start, r)
  BY <1>0, <1>2, <1>3, <1>4, ParseChunksDoes
<1>6. /\ r.mux \in Muxes /\ r.mux.parsed <= Len(stream) /\ r.consumed \in Nat /\ Rest(data, r) \in Seq(Pieces)
      /\ r.mux.demux.first => r.mux = x
      /\ \A K : Headed(<<>>, x.tracks, K) => Headed(r.mux.out, r.mux.tracks, K)
      /\ Resting(r.mux, stream) /\ NoEnd(r.mux.out)
      /\ Live(stream, x, data, start) => /\ Live(stream, r.mux, Rest(data, r), start + r.consumed)
                                         /\ Taken(x) + Len(data) = Taken(r.mux) + Len(Rest(data, r))
      /\ Deaf(x, data) => /\ ~r.mux.demux.first /\ r.mux.parsed = x.parsed
                          /\ r.consumed = 0 /\ Rest(data, r) = data
                          /\ NoInits(r.mux.out) /\ (AtRest(x) => r.mux.tracks = x.tracks)
  BY <1>5 DEF Chunked
<1>7. PICK y, w, v, n : y = r.mux /\ w = Rest(data, r) /\ v = start + r.consumed /\ n = start + Len(data) - 1
  OBVIOUS
<1>8. y \in Muxes /\ w \in Seq(Pieces) /\ v \in Int /\ n \in Int /\ y.out \in Seq(Events)
  BY <1>0, <1>6, <1>7 DEF Muxes
<1>9. PICK z : z = [y EXCEPT !.out = <<>>]
  OBVIOUS
<1>10. z \in Muxes /\ z.out = <<>> /\ z.tracks = y.tracks /\ z.demux = y.demux /\ z.parsed = y.parsed
  <2>1. <<>> \in Seq(Events)
    OBVIOUS
  <2> QED BY <1>8, <1>9, <2>1 DEF Muxes
<1>11. PICK k : k = [p.io EXCEPT !.to = n, !.init = FALSE, !.stash = w, !.start = v]
  OBVIOUS
<1>12. k \in Controls /\ k.alive = p.io.alive /\ k.paused = p.io.paused /\ ~k.init /\ k.stash = w /\ k.start = v
  <2>1. k = [p.io EXCEPT !.to = n, !.init = FALSE, !.stash = w, !.start = v] /\ p.io \in Controls
    BY <1>1, <1>11
  <2>2. k = [alive |-> p.io.alive, init |-> FALSE, paused |-> p.io.paused, stash |-> w, start |-> v,
             to |-> n, resumeFrom |-> p.io.resumeFrom]
    BY <2>1 DEF Controls
  <2>3. p.io.alive \in BOOLEAN /\ p.io.paused \in BOOLEAN /\ p.io.resumeFrom \in Int
    BY <1>1 DEF Controls
  <2> QED BY <1>8, <2>2, <2>3 DEF Controls
<1>13. q = [p EXCEPT !.io = k, !.mux = z, !.tasks = y.out]
  <2>1. PICK a : a = [p EXCEPT !.io.to = n]
    OBVIOUS
  <2>2. PICK b : b = [a EXCEPT !.io.init = FALSE, !.mux = y]
    OBVIOUS
  <2>3. PICK c : c = Parsed(a, r)
    OBVIOUS
  <2>4. c.p = Emitted(b) /\ c.consumed = r.consumed
    BY <1>7, <2>2, <2>3 DEF Parsed
  <2>5. b = [p EXCEPT !.io.to = n, !.io.init = FALSE, !.mux = y] /\ b.tasks = <<>> /\ b.mux = y
    BY <1>0, <2>1, <2>2 DEF Players
  <2>6. Emitted(b) = [b EXCEPT !.tasks = <<>> \o y.out, !.mux.out = <<>>]
    BY <2>5 DEF Emitted
  <2>7. <<>> \o y.out = y.out
    BY <1>8
  <2>8. q = [c.p EXCEPT !.io.stash = SubSeq(data, c.consumed + 1, Len(data)), !.io.start = start + c.consumed]
    BY <1>3, <1>7, <2>1, <2>3, Zenon DEF KeepRest
  <2>9. SubSeq(data, c.consumed + 1, Len(data)) = w /\ start + c.consumed = v
    BY <1>7, <2>4 DEF Rest
  <2>10. q = [Emitted(b) EXCEPT !.io.stash = w, !.io.start = v]
    BY <2>4, <2>8, <2>9, Zenon
  <2>11. PICK d : d = Emitted(b)
    OBVIOUS
  <2>12. d = [b EXCEPT !.tasks = y.out, !.mux.out = <<>>]
    BY <2>6, <2>7, <2>11
  <2>13. d = [p EXCEPT !.io = [p.io EXCEPT !.to = n, !.init = FALSE], !.mux = z, !.tasks = y.out]
    BY <1>0, <1>1, <1>9, <2>5, <2>12 DEF Players
  <2>14. q = [d EXCEPT !.io.stash = w, !.io.start = v]
    BY <2>10, <2>11
  <2> QED BY <1>0, <1>1, <1>11, <2>13, <2>14 DEF Players
<1>14. /\ q \in Players /\ q.io = k /\ q.tasks = y.out /\ q.mux = z /\ q.reqs = p.reqs /\ q.page = p.page
       /\ q.mse = p.mse
  BY <1>0, <1>8, <1>10, <1>12, <1>13 DEF Players
<1>15. Resting(z, stream) /\ Taken(z) = Taken(y) /\ (AtRest(y) <=> AtRest(z))
  BY <1>6, <1>7, <1>10 DEF Resting, AtRest, NoFrames, LastIsNone, Taken
<1>16. Live(stream, y, w, v) => Live(stream, z, w, v)
  BY <1>10, <1>15 DEF Live
<1>17. z.demux.first => /\ p.mux.demux.first /\ Fresh(z) /\ OnlyNotes(y.out)
  <2>1. ASSUME z.demux.first PROVE p.mux.demux.first /\ Fresh(z) /\ OnlyNotes(y.out)
    <3>1. y = x
      BY <1>6, <1>7, <1>10, <2>1
    <3>2. Fresh(y) /\ p.mux.demux.first /\ y.out = <<>>
      BY <1>2, <1>10, <2>1, <3>1
    <3>3. DOMAIN <<>> = {}
      OBVIOUS
    <3> QED BY <1>10, <3>2, <3>3 DEF Fresh, OnlyNotes
  <2> QED BY <2>1
<1>18. \A K : Headed(<<>>, p.mux.tracks, K) => Headed(y.out, z.tracks, K)
  BY <1>2, <1>6, <1>7, <1>10
<1>19. Live(stream, p.mux, data, start) => /\ Live(stream, z, w, v)
                                           /\ Taken(p.mux) + Len(data) = Taken(z) + Len(w)
  BY <1>2, <1>6, <1>7, <1>15, <1>16
<1>20. Deaf(p.mux, data) => /\ ~z.demux.first /\ z.parsed = p.mux.parsed /\ w = data
                            /\ NoInits(y.out) /\ (AtRest(p.mux) => z.tracks = p.mux.tracks)
  BY <1>2, <1>6, <1>7, <1>10
<1>21. Supplies(stream, p.tasks, p.mux, q.tasks, q.mux)
  <2>1. ReadsOn(stream, x, y)
    BY <1>0, <1>2, <1>3, <1>4, <1>7, ChunkReads
  <2>2. ReadsOn(stream, p.mux, y)
    <3>1. CASE ~p.io.init
      BY <2>1, <3>1
    <3>2. CASE p.io.init
      <4>1. x = NewTransmuxer /\ Fresh(p.mux)
        BY <1>0, <3>2
      <4>2. ReadsOn(stream, p.mux, x)
        BY <1>0, <1>1, <4>1, NewReads
      <4> QED BY <1>1, <1>2, <1>8, <2>1, <4>2, ReadsTwice
    <3> QED BY <3>1, <3>2
  <2>3. <<>> \in Seq(Events) /\ y.out = <<>> \o y.out
    BY <1>8
  <2>4. Supplies(stream, <<>>, p.mux, y.out, z)
    BY <1>1, <1>8, <1>10, <2>2, <2>3, EmitsSupply
  <2> QED BY <1>0, <1>14, <2>4
<1>22. Sends(stream, p.tasks, p.mux, q.tasks, q.mux) /\ Calms(stream, p.mux, q.mux)
  <2>1. SUFFICES ASSUME Clocked(stream, p.mux), Early(p.mux)
                 PROVE  /\ InTime(stream, z) /\ Early(z) /\ Clocks(z) \subseteq Clocks(p.mux) /\ Steadies(z)
                        /\ \A b \in Clocks(z) : y.out \in Seq(Punctual(stream, b))
    <3>1. q.mux = z /\ q.tasks = y.out
      BY <1>14
    <3> QED BY <3>1 DEF Sends, Calms
  <2>2. Clocked(stream, x) /\ Clocks(x) \subseteq Clocks(p.mux) /\ Early(x)
    <3>1. CASE ~p.io.init
      BY <2>1, <3>1
    <3>2. CASE p.io.init
      <4>1. x = NewTransmuxer
        BY <3>2
      <4>2. Clocked(stream, x) /\ x.base = Unset
        BY <4>1, NewTime
      <4>3. p.mux.base = Unset
        BY <1>0, <2>1, <3>2 DEF Early
      <4> QED BY <4>2, <4>3 DEF Clocks, Early
    <3> QED BY <3>1, <3>2
  <2>3. Ticks(stream, x, y) /\ (y = x \/ ~y.demux.first)
    BY <1>0, <1>2, <1>3, <1>4, <1>7, ChunkTime
  <2>4. Clocked(stream, y) /\ Clocks(y) \subseteq Clocks(p.mux) /\ Early(y)
    BY <2>2, <2>3 DEF Ticks, Early
  <2>5. z.base = y.base /\ z.tracks = y.tracks /\ z.demux = y.demux /\ z.out = <<>>
    BY <1>8, <1>9, <1>10 DEF Muxes
  <2>6. Clocks(z) = Clocks(y) /\ Early(z)
    BY <2>4, <2>5 DEF Clocks, Early
  <2>7. \A b \in Clocks(z) : y.out \in Seq(Punctual(stream, b))
    BY <2>4, <2>6 DEF Clocked, InTime, Clear
  <2>8. Clear(stream, z)
    <3>1. \A G : <<>> \in Seq(G)
      OBVIOUS
    <3> QED BY <2>5, <3>1 DEF Clear
  <2>9. Stamps(stream, z) /\ (z.base = Unset => Emptied(z)) /\ Steadies(z)
    BY <2>4, <2>5 DEF Clocked, InTime, Stamps, Emptied, Steadies
  <2> QED BY <2>4, <2>6, <2>7, <2>8, <2>9 DEF InTime
<1> QED BY <1>6, <1>7, <1>10, <1>12, <1>14, <1>15, <1>17, <1>18, <1>19, <1>20, <1>21, <1>22 DEF Digested

\* What a chunk makes of the player.
LEMMA DispatchChunksIs ==
  ASSUME stream \in Seq(Tags), Sound(stream), NEW data, NEW start, NEW p, Hungry(p, data, start),
         NEW q, q = DispatchChunks(p, data, start)
  PROVE  Digested(p, q, data, start)
<1>1. PICK a : a = [p EXCEPT !.io.to = start + Len(data) - 1]
  OBVIOUS
<1>2. a.io.init = p.io.init /\ a.mux = p.mux
  BY <1>1 DEF Hungry, Players, Controls
<1>3. q = KeepRest(Consume(a, data, start), data, start)
  BY <1>1 DEF DispatchChunks
<1>4. CASE p.io.init /\ ~Probe(data)
  <2>1. q = KeepRest([p |-> Told(Told(a, "abort"), "demux_error"), consumed |-> 0], data, start)
    BY <1>2, <1>3, <1>4 DEF Consume
  <2> QED BY <1>1, <1>4, <2>1, RejectedIs
<1>5. CASE ~(p.io.init /\ ~Probe(data))
  <2>1. PICK x : x = IF p.io.init THEN NewTransmuxer ELSE p.mux
    OBVIOUS
  <2>2. q = KeepRest(Parsed(a, ParseChunks(x, stream, data, start)), data, start)
    BY <1>2, <1>3, <1>5, <2>1 DEF Consume
  <2> QED BY <1>1, <2>1, <2>2, ParsedIs
<1> QED BY <1>4, <1>5

\* A loader of the player changes.
Rewired(p, q, n, loader) ==
  /\ q \in Players /\ Exchanged(p.reqs, q.reqs, n, loader) /\ q.io = p.io /\ q.mux = p.mux
  /\ q.tasks = p.tasks /\ q.mse = p.mse /\ q.page = p.page /\ q.head = p.head

\* One request changes and nothing else.
LEMMA RewiredIs ==
  ASSUME NEW p \in Players, NEW n \in 1 .. Len(p.reqs), NEW loader \in Loaders,
         NEW q, q = [p EXCEPT !.reqs[n] = loader]
  PROVE  Rewired(p, q, n, loader)
<1>0. /\ p.reqs \in Seq(Loaders) /\ p.io \in Controls /\ p.mux \in Muxes /\ p.tasks \in Seq(Events)
      /\ p.mse \in Controllers /\ p.page \in Pages /\ p.head \in Int
  BY DEF Players
<1>1. PICK w : w = [p.reqs EXCEPT ![n] = loader]
  OBVIOUS
<1>2. Exchanged(p.reqs, w, n, loader)
  BY <1>0, <1>1, ExchangedIs
<1>3. w \in Seq(Loaders)
  BY <1>2 DEF Exchanged
<1>4. q = [p EXCEPT !.reqs = w]
  BY <1>1 DEF Players
<1> QED BY <1>0, <1>2, <1>3, <1>4 DEF Rewired, Players

\* The player goes on when its own request is where it was.
LEMMA RunningSame ==
  ASSUME NEW p, NEW q, NEW s, NEW l, Running(p, s, l), q.mux = p.mux, q.tasks = p.tasks, q.mse = p.mse,
         q.io = p.io, q.page = p.page, Len(q.reqs) = Len(p.reqs),
         Waiting(q.reqs[Len(q.reqs)]) <=> Waiting(p.reqs[Len(p.reqs)]),
         q.reqs[Len(q.reqs)].from = p.reqs[Len(p.reqs)].from,
         q.reqs[Len(q.reqs)].received = p.reqs[Len(p.reqs)].received
  PROVE  Running(q, s, l)
<1>1. Buffers(q.mse) /\ Order(q) /\ Resting(q.mux, s) /\ Beginning(q)
  BY DEF Running, Order, Beginning
<1>2. (Attending(q) <=> Attending(p)) /\ (Resumed(q) <=> Resumed(p)) /\ From(q) = From(p)
  BY DEF Attending, Resumed, From
<1>3. Reading(q, s, l)
  <2>1. Reading(p, s, l)
    BY DEF Running
  <2> QED BY <1>2, <2>1 DEF Reading
<1>4. Over(q, s, l)
  <2>1. Over(p, s, l)
    BY DEF Running
  <2>2. Ending(q) <=> Ending(p)
    BY DEF Ending
  <2> QED BY <1>2, <2>1, <2>2 DEF Over
<1>5. Lined(q, s)
  BY DEF Running, Lined
<1> QED BY <1>1, <1>3, <1>4, <1>5 DEF Running

\* A loader has come to its end.
Gone(r, loader) ==
  loader \in Loaders /\ loader.bound = r.bound /\ ~Waiting(loader) /\ ~Working(loader)

\* A request that ends without a listener disturbs nothing.
LEMMA EndedKeeps ==
  ASSUME NEW p, NEW s, NEW l, PInv(p, s, l), NEW n \in 1 .. Len(p.reqs), NEW loader,
         Gone(p.reqs[n], loader), NEW q, q = [p EXCEPT !.reqs[n] = loader]
  PROVE  PInv(q, s, l)
<1>1. /\ p \in Players /\ Requests(p) /\ l <= Len(p.reqs) /\ p.mse.said = "nothing" /\ p.mux.out = <<>>
      /\ p.page.checker => p.page.player
      /\ p.page.player => Running(p, s, l)
      /\ Timed(p, s)
  BY DEF PInv
<1>2. loader \in Loaders /\ loader.bound = p.reqs[n].bound /\ ~Waiting(loader) /\ ~Working(loader)
  BY DEF Gone
<1>3. Rewired(p, q, n, loader)
  BY <1>1, <1>2, RewiredIs
<1>4. PICK cur \in Nat : cur = Len(p.reqs)
  <2>1. p.reqs \in Seq(Loaders)
    BY <1>1 DEF Players
  <2> QED BY <2>1, LenProperties
<1>5. /\ q \in Players /\ q.io = p.io /\ q.mux = p.mux /\ q.tasks = p.tasks /\ q.mse = p.mse /\ q.page = p.page
      /\ Len(q.reqs) = cur /\ q.reqs[n] = loader /\ \A i \in 1 .. cur : i # n => q.reqs[i] = p.reqs[i]
  BY <1>3, <1>4 DEF Rewired, Exchanged
<1>6. Requests(q)
  <2>1. \A i \in 1 .. cur : i < cur \/ ~p.io.alive => GivenUp(q.reqs[i])
    <3>1. ASSUME n < cur \/ ~p.io.alive PROVE GivenUp(loader)
      <4>1. GivenUp(p.reqs[n])
        BY <1>1, <1>4, <3>1 DEF Requests
      <4> QED BY <1>2, <4>1 DEF GivenUp
    <3>2. \A i \in 1 .. cur : i < cur \/ ~p.io.alive => GivenUp(p.reqs[i])
      BY <1>1, <1>4 DEF Requests
    <3> QED BY <1>5, <3>1, <3>2
  <2>2. \A i \in 1 .. cur : Working(q.reqs[i]) => Waiting(q.reqs[i])
    <3>1. \A i \in 1 .. cur : Working(p.reqs[i]) => Waiting(p.reqs[i])
      BY <1>1, <1>4 DEF Requests
    <3> QED BY <1>2, <1>5, <3>1
  <2>3. p.io.alive => /\ cur # 0 /\ p.page.player /\ q.reqs[cur].bound
                      /\ Waiting(q.reqs[cur]) => Working(q.reqs[cur])
                      /\ p.io.paused => p.io.stash = <<>> /\ (Waiting(q.reqs[cur]) => q.reqs[cur].abort)
    <3>1. p.io.alive => /\ cur # 0 /\ p.page.player /\ p.reqs[cur].bound
                        /\ Waiting(p.reqs[cur]) => Working(p.reqs[cur])
                        /\ p.io.paused => p.io.stash = <<>> /\ (Waiting(p.reqs[cur]) => p.reqs[cur].abort)
      BY <1>1, <1>4 DEF Requests
    <3>2. CASE n = cur
      BY <1>2, <1>5, <3>1, <3>2
    <3>3. CASE n # cur
      <4>1. cur # 0 => q.reqs[cur] = p.reqs[cur]
        BY <1>4, <1>5, <3>3
      <4> QED BY <3>1, <4>1
    <3> QED BY <3>2, <3>3
  <2>4. p.page.player => ~p.page.timer
    BY <1>1 DEF Requests
  <2> QED BY <1>5, <2>1, <2>2, <2>3, <2>4 DEF Requests
<1>7. ASSUME p.page.player PROVE Running(q, s, l)
  <2>1. Running(p, s, l)
    BY <1>1, <1>7
  <2>2. CASE n = cur
    <3>1. ~Attending(q)
      BY <1>2, <1>5, <2>2 DEF Attending
    <3>2. p.mux.demux.first => ~q.page.checker /\ ~q.io.paused
      BY <1>5, <2>1 DEF Running, Beginning
    <3> QED BY <1>4, <1>5, <2>1, <3>1, <3>2, RunningStill
  <2>3. CASE n # cur
    <3>1. cur \in 1 .. cur
      BY <1>4
    <3>2. q.reqs[cur] = p.reqs[cur]
      BY <1>5, <2>3, <3>1
    <3>3. /\ Len(q.reqs) = Len(p.reqs)
          /\ Waiting(q.reqs[Len(q.reqs)]) <=> Waiting(p.reqs[Len(p.reqs)])
          /\ q.reqs[Len(q.reqs)].from = p.reqs[Len(p.reqs)].from
          /\ q.reqs[Len(q.reqs)].received = p.reqs[Len(p.reqs)].received
      BY <1>4, <1>5, <3>2
    <3> QED BY <1>5, <2>1, <3>3, RunningSame
  <2> QED BY <2>2, <2>3
<1>8. Timed(q, s)
  <2>1. ASSUME Hearing(q) PROVE Hearing(p)
    <3>1. p.io.alive /\ Waiting(q.reqs[cur])
      BY <1>5, <2>1 DEF Hearing
    <3>2. n # cur
      BY <1>2, <1>5, <3>1
    <3>3. cur # 0
      BY <1>1, <1>4, <3>1 DEF Requests
    <3>4. cur \in 1 .. cur
      BY <1>4, <3>3
    <3>5. q.reqs[cur] = p.reqs[cur]
      BY <1>5, <3>2, <3>4
    <3> QED BY <1>4, <3>1, <3>5 DEF Hearing
  <2> QED BY <1>1, <1>5, <2>1, TimedSame
<1> QED BY <1>1, <1>4, <1>5, <1>6, <1>7, <1>8 DEF PInv

\* The response begins.
LEMMA AnswerKeeps ==
  ASSUME NEW p, NEW s, NEW l, PInv(p, s, l), NEW n \in 1 .. Len(p.reqs), p.reqs[n].conn = "asked",
         ~p.reqs[n].abort, NEW q, q = [p EXCEPT !.reqs[n] = [p.reqs[n] EXCEPT !.conn = "open"]]
  PROVE  PInv(q, s, l)
<1>1. /\ p \in Players /\ Requests(p) /\ l <= Len(p.reqs) /\ p.mse.said = "nothing" /\ p.mux.out = <<>>
      /\ p.page.checker => p.page.player
      /\ p.page.player => Running(p, s, l)
      /\ Timed(p, s)
  BY DEF PInv
<1>2. p.reqs \in Seq(Loaders) /\ p.reqs[n] \in Loaders
  <2>1. p.reqs \in Seq(Loaders)
    BY <1>1 DEF Players
  <2> QED BY <2>1, ElementOfSeq
<1>3. PICK loader : loader = [p.reqs[n] EXCEPT !.conn = "open"]
  OBVIOUS
<1>4. /\ loader \in Loaders /\ loader.bound = p.reqs[n].bound /\ loader.status = p.reqs[n].status
      /\ loader.abort = p.reqs[n].abort /\ loader.conn = "open" /\ loader.from = p.reqs[n].from
      /\ loader.received = p.reqs[n].received
  BY <1>2, <1>3 DEF Loaders
<1>5. q = [p EXCEPT !.reqs[n] = loader]
  BY <1>3
<1>6. Rewired(p, q, n, loader)
  BY <1>1, <1>4, <1>5, RewiredIs
<1>7. PICK cur \in Nat : cur = Len(p.reqs)
  BY <1>2, LenProperties
<1>8. /\ q \in Players /\ q.io = p.io /\ q.mux = p.mux /\ q.tasks = p.tasks /\ q.mse = p.mse /\ q.page = p.page
      /\ Len(q.reqs) = cur /\ q.reqs[n] = loader /\ \A i \in 1 .. cur : i # n => q.reqs[i] = p.reqs[i]
  BY <1>6, <1>7 DEF Rewired, Exchanged
<1>9. n = cur /\ p.io.alive
  <2>1. \A i \in 1 .. cur : i < cur \/ ~p.io.alive => GivenUp(p.reqs[i])
    BY <1>1, <1>7 DEF Requests
  <2>2. ~GivenUp(p.reqs[n])
    BY DEF GivenUp, Waiting
  <2>3. ~(n < cur) /\ p.io.alive
    BY <1>7, <2>1, <2>2
  <2> QED BY <1>7, <2>3
<1>10. Waiting(loader) /\ Waiting(p.reqs[n]) /\ (Working(loader) <=> Working(p.reqs[n]))
  BY <1>4 DEF Waiting, Working
<1>11. Requests(q)
  <2>1. \A i \in 1 .. cur : i < cur => GivenUp(q.reqs[i])
    <3>1. \A i \in 1 .. cur : i < cur => GivenUp(p.reqs[i])
      BY <1>1, <1>7 DEF Requests
    <3> QED BY <1>8, <1>9, <3>1
  <2>2. \A i \in 1 .. cur : Working(q.reqs[i]) => Waiting(q.reqs[i])
    <3>1. \A i \in 1 .. cur : Working(p.reqs[i]) => Waiting(p.reqs[i])
      BY <1>1, <1>7 DEF Requests
    <3> QED BY <1>8, <1>10, <3>1
  <2>3. /\ cur # 0 /\ p.page.player /\ p.reqs[cur].bound
        /\ Waiting(p.reqs[cur]) => Working(p.reqs[cur])
        /\ p.io.paused => p.io.stash = <<>> /\ (Waiting(p.reqs[cur]) => p.reqs[cur].abort)
        /\ p.page.player => ~p.page.timer
    BY <1>1, <1>7, <1>9 DEF Requests
  <2> QED BY <1>4, <1>8, <1>9, <1>10, <2>1, <2>2, <2>3 DEF Requests
<1>12. ASSUME p.page.player PROVE Running(q, s, l)
  <2>1. /\ Len(q.reqs) = Len(p.reqs)
        /\ Waiting(q.reqs[Len(q.reqs)]) <=> Waiting(p.reqs[Len(p.reqs)])
        /\ q.reqs[Len(q.reqs)].from = p.reqs[Len(p.reqs)].from
        /\ q.reqs[Len(q.reqs)].received = p.reqs[Len(p.reqs)].received
    BY <1>4, <1>7, <1>8, <1>9, <1>10
  <2>2. Running(p, s, l)
    BY <1>1, <1>12
  <2> QED BY <1>8, <2>1, <2>2, RunningSame
<1>13. Timed(q, s)
  <2>1. Hearing(p)
    BY <1>7, <1>9, <1>10 DEF Hearing
  <2> QED BY <1>1, <1>8, <2>1, TimedSame
<1> QED BY <1>1, <1>7, <1>8, <1>11, <1>12, <1>13 DEF PInv

\* What a resumed request sends is not what was missing.
LEMMA ResumedLate ==
  ASSUME NEW s \in Seq(Tags), NEW p \in Players, NEW l, Attending(p), Resumed(p), Reading(p, s, l)
  PROVE  Len(p.reqs) > l
<1>1. /\ ~p.mux.demux.first /\ p.mux \in Muxes /\ p.mux.parsed \in Nat /\ p.io.stash \in Seq(Pieces)
      /\ Len(p.io.stash) \in Nat
  <2>1. p.mux \in Muxes /\ p.io \in Controls
    BY DEF Players
  <2> QED BY <2>1, LenProperties DEF Muxes, Controls, Resumed
<1>2. SUFFICES ASSUME Live(s, p.mux, p.io.stash, From(p)),
                      p.reqs[Len(p.reqs)].received = Taken(p.mux) + Len(p.io.stash)
               PROVE  FALSE
  BY DEF Reading
<1>3. CASE p.io.stash = <<>>
  <2>1. p.reqs[Len(p.reqs)].received = 0
    BY <1>3 DEF Resumed
  <2>2. Taken(p.mux) = 2 + 2 * p.mux.parsed
    BY <1>1 DEF Taken
  <2>3. PICK a, b \in Nat : a = p.mux.parsed /\ b = Len(p.io.stash)
    BY <1>1
  <2>4. 0 = 2 + 2 * a + b
    BY <1>2, <2>1, <2>2, <2>3
  <2> QED BY <2>3, <2>4
<1>4. CASE p.io.stash # <<>>
  <2>1. p.io.stash[1] = <<0, 1>>
    BY <1>4 DEF Resumed
  <2>2. PICK x, w, f : x = p.mux /\ w = p.io.stash /\ f = From(p)
    OBVIOUS
  <2>3. x \in Muxes /\ w \in Seq(Pieces) /\ Live(s, x, w, f) /\ ~x.demux.first /\ w # <<>> /\ w[1] = <<0, 1>>
    BY <1>1, <1>2, <1>4, <2>1, <2>2
  <2> QED BY <2>3, LiveOrDeaf, Zenon
<1> QED BY <1>3, <1>4

\* All that is asked of a player but how it goes on reading.
Almost(p, q, data, l) ==
  /\ q \in Players /\ q.mux.out = <<>> /\ Buffers(q.mse) /\ Order(q) /\ Beginning(q)
  /\ Lined(q, stream) /\ l # 0
  /\ q.mux.parsed <= Len(stream) /\ Resting(q.mux, stream) /\ EndLast(q.tasks)
  /\ Ending(q) => /\ Deaf(p.mux, data) /\ Len(p.reqs) > l
                  /\ Emptied(q.mux) \/ LastIsNone(q.mux, stream)
  /\ q.mse.eos \/ q.mse.state = "ended" => NoInits(q.tasks)
  /\ Timed(q, stream) /\ Steadies(q.mux)

\* Data handed to the demuxer keeps the order of the events that come of it.
LEMMA DigestedKeeps ==
  ASSUME stream \in Seq(Tags), NEW p, NEW l, PInv(p, stream, l), p.page.player, p.tasks = <<>>, Attending(p),
         NEW data, NEW start, Resumed(p) => Deaf(p.mux, data),
         NEW u, u.mux = p.mux, u.tasks = p.tasks, u.mse = p.mse, u.page = p.page, u.io = p.io,
         NEW q, Digested(u, q, data, start)
  PROVE  Almost(p, q, data, l)
<1>1. /\ p \in Players /\ p.mse.said = "nothing" /\ p.mux.out = <<>> /\ Running(p, stream, l)
  BY DEF PInv
<1>2. /\ q \in Players /\ q.page = p.page /\ q.mse = p.mse
      /\ q.io.alive = p.io.alive /\ q.io.paused = p.io.paused
      /\ q.mux.out = <<>> /\ q.mux.parsed <= Len(stream) /\ Resting(q.mux, stream) /\ NoEnd(q.tasks)
      /\ q.io.init => q.mux.demux.first
      /\ q.mux.demux.first => p.mux.demux.first /\ Fresh(q.mux) /\ OnlyNotes(q.tasks)
      /\ \A K : Headed(<<>>, p.mux.tracks, K) => Headed(q.tasks, q.mux.tracks, K)
      /\ Deaf(p.mux, data) => /\ q.mux.parsed = p.mux.parsed /\ NoInits(q.tasks)
                              /\ (AtRest(p.mux) => q.mux.tracks = p.mux.tracks)
  BY DEF Digested
<1>3. Buffers(q.mse)
  BY <1>1, <1>2 DEF Running
<1>4. Order(q)
  <2>1. Headed(<<>>, p.mux.tracks, Known(p.mse))
    BY <1>1 DEF Running, Order
  <2> QED BY <1>2, <2>1 DEF Order
<1>5. Beginning(q)
  BY <1>1, <1>2 DEF Running, Beginning
<1>6. EndLast(q.tasks) /\ ~EndTold(q.tasks)
  BY <1>2 DEF EndLast, EndTold, NoEnd
<1>7. ASSUME Ending(q)
      PROVE  /\ Deaf(p.mux, data) /\ Len(p.reqs) > l
             /\ Emptied(q.mux) \/ LastIsNone(q.mux, stream)
  <2>1. Ending(p)
    BY <1>2, <1>6, <1>7 DEF Ending
  <2>2. Resumed(p) /\ (Emptied(p.mux) \/ LastIsNone(p.mux, stream))
    BY <1>1, <2>1 DEF Running, Over
  <2>3. Len(p.reqs) > l
    BY <1>1, <2>2, ResumedLate DEF Running
  <2>4. Deaf(p.mux, data)
    BY <2>2
  <2>5. LastIsNone(p.mux, stream) => LastIsNone(q.mux, stream)
    BY <1>2, <2>4 DEF LastIsNone
  <2>6. CASE ~AtRest(p.mux)
    BY <1>1, <2>3, <2>4, <2>5, <2>6 DEF Running, Resting
  <2>7. CASE AtRest(p.mux)
    <3>1. Emptied(p.mux) => Emptied(q.mux)
      BY <1>2, <2>4, <2>7 DEF Emptied
    <3> QED BY <2>2, <2>3, <2>4, <2>5, <3>1
  <2> QED BY <2>6, <2>7
<1>8. q.mse.eos \/ q.mse.state = "ended" => NoInits(q.tasks)
  BY <1>2, <1>7 DEF Ending
<1>9. Lined(q, stream)
  <2>1. InLine(p.mse, p.tasks, p.mux, stream) /\ p.mux \in Muxes
    BY <1>1 DEF Running, Lined, Players
  <2>2. Supplies(stream, p.tasks, p.mux, q.tasks, q.mux) /\ q.mux \in Muxes
    BY <1>2 DEF Digested, Players
  <2>3. InLine(p.mse, q.tasks, q.mux, stream)
    BY <2>1, <2>2, InLineSupplied
  <2> QED BY <1>2, <2>3 DEF Lined
<1>10. l # 0
  BY <1>1 DEF Running, Reading
<1>11. Timed(q, stream) /\ Steadies(q.mux)
  <2>1. Timed(p, stream) /\ Steadies(p.mux)
    <3>1. Timed(p, stream) /\ Hearing(p)
      BY DEF PInv, Attending, Hearing
    <3> QED BY <3>1 DEF Timed
  <2>2. Sends(stream, p.tasks, p.mux, q.tasks, q.mux) /\ Calms(stream, p.mux, q.mux)
    BY DEF Digested
  <2>3. Steadies(q.mux)
    BY <2>1, <2>2 DEF Calms, Timed, Clocked
  <2> QED BY <1>2, <2>1, <2>2, <2>3, SentTimed
<1> QED BY <1>2, <1>3, <1>4, <1>5, <1>6, <1>7, <1>8, <1>9, <1>10, <1>11 DEF Almost

\* The loader has read a chunk.
ReadingOn(r, w, size) ==
  /\ w \in Loaders /\ w.status = "buffering" /\ w.received = r.received + size /\ w.bound = r.bound
  /\ w.abort = r.abort /\ w.conn = r.conn /\ w.from = r.from

\* What it hands on.
Handed(p, r, size, data, l) ==
  /\ data \in Seq(Pieces) /\ data # <<>> /\ Len(data) = Len(p.io.stash) + size
  /\ \/ Live(stream, p.mux, data, From(p)) /\ r.received = Taken(p.mux) + Len(p.io.stash)
     \/ Deaf(p.mux, data) /\ Len(p.reqs) > l /\ data[1] = <<0, 1>>
  /\ Resumed(p) => Deaf(p.mux, data)

\* The stash and the chunk are what of the stream comes next, or are no tags.
LEMMA ChunkIs ==
  ASSUME stream \in Seq(Tags), NEW p \in Players, NEW l, Attending(p), Reading(p, stream, l),
         NEW size \in Nat, size # 0, NEW r \in Loaders, r = p.reqs[Len(p.reqs)],
         r.received + size <= Len(Units(stream)), NEW data,
         data = p.io.stash \o SubSeq(Units(stream), r.received + 1, r.received + size)
  PROVE  Handed(p, r, size, data, l)
<1>1. /\ p.mux \in Muxes /\ p.mux.parsed \in Nat /\ p.io.stash \in Seq(Pieces) /\ r.received \in Nat
      /\ Len(p.io.stash) \in Nat
  <2>1. p.mux \in Muxes /\ p.io \in Controls
    BY DEF Players
  <2> QED BY <2>1, LenProperties DEF Muxes, Controls, Loaders
<1>2. PICK a, b, n \in Nat : a = r.received /\ b = Len(p.io.stash) /\ n = Len(Units(stream))
  <2>1. Len(Units(stream)) \in Nat
    BY UnitsAre
  <2> QED BY <1>1, <2>1
<1>0. a + size <= n
  BY <1>2
<1>3. PICK w : w = Units(stream)
  OBVIOUS
<1>4. w \in Seq(Pieces) /\ w[1] = <<0, 1>>
  <2>1. 0 \in 0 .. Len(stream) /\ 2 * 0 + 1 = 1
    BY UnitsAre
  <2>2. Units(stream)[2 * 0 + 1] = <<0, 1>>
    BY <2>1, UnitsAre
  <2> QED BY <1>3, <2>1, <2>2, UnitsAre
<1>5. PICK chunk : chunk = SubSeq(w, a + 1, a + size)
  OBVIOUS
<1>6. /\ chunk \in Seq(Pieces) /\ Len(chunk) = size
      /\ \A i \in 1 .. size : chunk[i] = w[a + i]
  <2>1. a <= a + size /\ a + size \in Nat /\ a + size <= n /\ a + size - a = size
    BY <1>0
  <2>2. n = Len(w)
    BY <1>2, <1>3
  <2> QED BY <1>4, <1>5, <2>1, <2>2, PartIs
<1>7. PICK stash \in Seq(Pieces) : stash = p.io.stash /\ Len(stash) = b
  BY <1>1, <1>2
<1>8. data = stash \o chunk
  BY <1>2, <1>3, <1>5, <1>7
<1>9. /\ data \in Seq(Pieces) /\ Len(data) = b + size
      /\ \A i \in 1 .. b : data[i] = stash[i]
      /\ \A i \in 1 .. size : data[b + i] = chunk[i]
  <2>1. /\ data \in Seq(Pieces) /\ Len(data) = b + size
        /\ \A i \in 1 .. b + size : data[i] = IF i <= b THEN stash[i] ELSE chunk[i - b]
    <3>1. stash \in Seq(Pieces) /\ chunk \in Seq(Pieces)
      BY <1>6, <1>7
    <3>2. PICK y : y = stash \o chunk
      OBVIOUS
    <3>3. /\ y \in Seq(Pieces) /\ Len(y) = Len(stash) + Len(chunk)
          /\ \A i \in 1 .. Len(stash) + Len(chunk) :
                y[i] = IF i <= Len(stash) THEN stash[i] ELSE chunk[i - Len(stash)]
      BY <3>1, <3>2, ConcatProperties
    <3>4. y = data
      BY <1>8, <3>2
    <3> QED BY <1>6, <1>7, <3>3, <3>4
  <2>2. \A i \in 1 .. b : i \in 1 .. b + size /\ i <= b
    OBVIOUS
  <2>3. \A i \in 1 .. size : b + i \in 1 .. b + size /\ ~(b + i <= b) /\ b + i - b = i
    OBVIOUS
  <2>4. \A i \in 1 .. b : data[i] = stash[i]
    BY <2>1, <2>2
  <2>5. ASSUME NEW i \in 1 .. size PROVE data[b + i] = chunk[i]
    <3>1. PICK j : j = b + i
      OBVIOUS
    <3>2. j \in 1 .. b + size /\ ~(j <= b) /\ j - b = i
      BY <2>3, <3>1
    <3>3. data[j] = chunk[j - b]
      BY <2>1, <3>2
    <3> QED BY <3>1, <3>2, <3>3
  <2> QED BY <2>1, <2>4, <2>5
<1>10. data # <<>>
  <2>1. b + size # 0
    OBVIOUS
  <2> QED BY <1>9, <2>1, EmptySeq
<1>11. ASSUME Live(stream, p.mux, p.io.stash, From(p)), r.received = Taken(p.mux) + Len(p.io.stash)
       PROVE  Live(stream, p.mux, data, From(p))
  <2>1. PICK k \in Nat : k = Taken(p.mux) /\ a = k + b
    BY <1>1, <1>2, <1>11, LiveIs
  <2>2. \A i \in 1 .. b : stash[i] = w[k + i]
    BY <1>1, <1>2, <1>3, <1>7, <1>11, <2>1, LiveIs
  <2>3. k + (b + size) <= n /\ k <= k + (b + size) /\ k + (b + size) - k = b + size
    <3>1. \A k0 \in Nat : a = k0 + b =>
             k0 + (b + size) <= n /\ k0 <= k0 + (b + size) /\ k0 + (b + size) - k0 = b + size
      BY <1>0
    <3> QED BY <2>1, <3>1
  <2>4. PICK c : c = SubSeq(w, k + 1, k + (b + size))
    OBVIOUS
  <2>5. c \in Seq(Pieces) /\ Len(c) = b + size /\ \A i \in 1 .. b + size : c[i] = w[k + i]
    <3>1. k + (b + size) \in Nat /\ k + (b + size) <= Len(w)
      <4>1. k + (b + size) \in Nat
        BY <2>3
      <4>2. Len(w) = n
        BY <1>2, <1>3
      <4> QED BY <2>3, <4>1, <4>2
    <3>2. PICK e \in Nat : e = k + (b + size)
      BY <3>1
    <3>3. k <= e /\ e <= Len(w) /\ e - k = b + size /\ c = SubSeq(w, k + 1, e)
      BY <2>3, <2>4, <3>1, <3>2
    <3>4. c \in Seq(Pieces) /\ Len(c) = e - k /\ \A i \in 1 .. e - k : c[i] = w[k + i]
      <4>1. w \in Seq(Pieces) /\ k <= e /\ e <= Len(w) /\ c = SubSeq(w, k + 1, e)
        BY <1>4, <3>3
      <4> QED BY <4>1, PartIs
    <3> QED BY <3>3, <3>4
  <2>6. ASSUME NEW i \in 1 .. b + size PROVE c[i] = data[i]
    <3>1. CASE i <= b
      <4>1. i \in 1 .. b
        BY <3>1
      <4> QED BY <1>9, <2>2, <2>5, <4>1
    <3>2. CASE ~(i <= b)
      <4>1. PICK j \in 1 .. size : i = b + j
        <5>1. i - b \in 1 .. size /\ i = b + (i - b)
          BY <3>2
        <5> QED BY <5>1
      <4>2. data[i] = w[a + j]
        BY <1>6, <1>9, <4>1
      <4>3. a + j = k + i
        BY <2>1, <4>1
      <4> QED BY <2>5, <4>2, <4>3
    <3> QED BY <3>1, <3>2
  <2>7. c = data
    BY <1>9, <2>5, <2>6, SeqEqual
  <2>8. data = Cut(stream, Taken(p.mux), Taken(p.mux) + Len(data))
    BY <1>3, <1>9, <2>1, <2>4, <2>7 DEF Cut
  <2>9. Taken(p.mux) + Len(data) <= Len(Units(stream))
    BY <1>2, <1>9, <2>1, <2>3
  <2> QED BY <1>11, <2>8, <2>9 DEF Live
<1>12. ASSUME Resumed(p) PROVE Deaf(p.mux, data) /\ data[1] = <<0, 1>>
  <2>1. CASE p.io.stash = <<>>
    <3>1. a = 0 /\ b = 0
      BY <1>2, <1>7, <1>12, <2>1 DEF Resumed
    <3>2. 1 \in 1 .. size /\ a + 1 = 1 /\ b + 1 = 1
      BY <3>1
    <3>3. data[1] = w[1]
      <4>1. data[b + 1] = chunk[1] /\ chunk[1] = w[a + 1]
        BY <1>6, <1>9, <3>2
      <4> QED BY <3>2, <4>1
    <3> QED BY <1>4, <1>10, <1>12, <3>3 DEF Resumed, Deaf
  <2>2. CASE p.io.stash # <<>>
    <3>1. b # 0
      BY <1>7, <2>2, EmptySeq
    <3>2. 1 \in 1 .. b
      BY <3>1
    <3>3. data[1] = <<0, 1>>
      BY <1>7, <1>9, <1>12, <2>2, <3>2 DEF Resumed
    <3> QED BY <1>10, <1>12, <3>3 DEF Resumed, Deaf
  <2> QED BY <2>1, <2>2
<1>13. \/ Live(stream, p.mux, p.io.stash, From(p)) /\ r.received = Taken(p.mux) + Len(p.io.stash)
       \/ Resumed(p) /\ Len(p.reqs) > l
  BY DEF Reading
<1>14. Len(data) = Len(p.io.stash) + size
  BY <1>2, <1>9
<1> QED BY <1>9, <1>10, <1>11, <1>12, <1>13, <1>14 DEF Handed

\* A player that has nothing on its way may be given more.
LEMMA HungryIs ==
  ASSUME NEW p, NEW l, PInv(p, stream, l), p.page.player, p.tasks = <<>>, NEW data \in Seq(Pieces),
         data # <<>>, NEW start \in Int, Live(stream, p.mux, data, start) \/ Deaf(p.mux, data),
         NEW u \in Players, u.io = p.io, u.mux = p.mux, u.tasks = p.tasks
  PROVE  Hungry(u, data, start)
<1>1. p.mux.out = <<>> /\ Running(p, stream, l)
  BY DEF PInv
<1>2. Resting(p.mux, stream) /\ p.mux.parsed <= Len(stream) /\ (p.io.init => p.mux.demux.first)
      /\ (p.mux.demux.first => Fresh(p.mux))
  BY <1>1 DEF Running, Reading, Beginning
<1> QED BY <1>1, <1>2 DEF Hungry

\* What a chunk that has been read makes of the player.
LEMMA ReadDone ==
  ASSUME stream \in Seq(Tags), NEW p, NEW l, PInv(p, stream, l), p.page.player, p.tasks = <<>>,
         NEW cur \in Nat, cur = Len(p.reqs), p.io.alive, ~p.io.paused, NEW r \in Loaders, r = p.reqs[cur],
         r.conn = "open", NEW size \in Nat, size # 0, NEW loader, ReadingOn(r, loader, size), NEW data,
         Handed(p, r, size, data, l), NEW start \in Int, start = From(p), NEW u, Rewired(p, u, cur, loader),
         NEW q, Digested(u, q, data, start)
  PROVE  PInv(q, stream, l)
<1>1. /\ p \in Players /\ Requests(p) /\ l <= Len(p.reqs) /\ p.mse.said = "nothing" /\ p.mux.out = <<>>
      /\ Running(p, stream, l) /\ p.io \in Controls /\ p.reqs \in Seq(Loaders)
  BY DEF PInv, Players
<1>2. cur \in 1 .. Len(p.reqs)
  <2>1. cur # 0
    BY <1>1 DEF Requests
  <2> QED BY <2>1
<1>4. /\ loader \in Loaders /\ loader.status = "buffering" /\ loader.received = r.received + size
      /\ loader.bound = r.bound /\ loader.abort = r.abort /\ loader.conn = r.conn /\ loader.from = r.from
  BY DEF ReadingOn
<1>6. /\ u \in Players /\ u.io = p.io /\ u.mux = p.mux /\ u.tasks = p.tasks /\ u.mse = p.mse /\ u.page = p.page
      /\ Len(u.reqs) = cur /\ u.reqs[cur] = loader /\ \A i \in 1 .. cur : i # cur => u.reqs[i] = p.reqs[i]
  BY DEF Rewired, Exchanged
<1>7. Attending(p) /\ Reading(p, stream, l)
  BY <1>1 DEF Attending, Waiting, Running
<1>9. /\ data \in Seq(Pieces) /\ data # <<>> /\ Len(data) = Len(p.io.stash) + size
      /\ \/ Live(stream, p.mux, data, From(p)) /\ r.received = Taken(p.mux) + Len(p.io.stash)
         \/ Deaf(p.mux, data) /\ Len(p.reqs) > l /\ data[1] = <<0, 1>>
      /\ Resumed(p) => Deaf(p.mux, data)
  BY DEF Handed
<1>14. Almost(p, q, data, l)
  BY <1>6, <1>7, <1>9, DigestedKeeps
<1>15. /\ q \in Players /\ q.reqs = u.reqs /\ q.page = p.page /\ q.mse = p.mse
       /\ q.io.alive = p.io.alive /\ q.io.paused = p.io.paused
       /\ Live(stream, p.mux, data, start) =>
             /\ Live(stream, q.mux, q.io.stash, q.io.start)
             /\ Taken(p.mux) + Len(data) = Taken(q.mux) + Len(q.io.stash)
       /\ Deaf(p.mux, data) => ~q.mux.demux.first /\ q.io.stash = data
  <2>1. /\ q \in Players /\ q.reqs = u.reqs /\ q.page = u.page /\ q.mse = u.mse
        /\ q.io.alive = u.io.alive /\ q.io.paused = u.io.paused
        /\ Live(stream, u.mux, data, start) =>
              /\ Live(stream, q.mux, q.io.stash, q.io.start)
              /\ Taken(u.mux) + Len(data) = Taken(q.mux) + Len(q.io.stash)
        /\ Deaf(u.mux, data) => ~q.mux.demux.first /\ q.io.stash = data
    BY DEF Digested
  <2>2. u.mux = p.mux
    BY <1>6
  <2>3. /\ Live(stream, p.mux, data, start) =>
              /\ Live(stream, q.mux, q.io.stash, q.io.start)
              /\ Taken(p.mux) + Len(data) = Taken(q.mux) + Len(q.io.stash)
        /\ Deaf(p.mux, data) => ~q.mux.demux.first /\ q.io.stash = data
    BY <2>1, <2>2, Zenon
  <2> QED BY <1>6, <2>1, <2>3, Zenon
<1>16. /\ Lined(q, stream) /\ l # 0
       /\ q.mux.out = <<>> /\ Buffers(q.mse) /\ Order(q) /\ Beginning(q)
       /\ q.mux.parsed <= Len(stream) /\ Resting(q.mux, stream) /\ EndLast(q.tasks)
       /\ Ending(q) => /\ Deaf(p.mux, data) /\ Len(p.reqs) > l
                       /\ Emptied(q.mux) \/ LastIsNone(q.mux, stream)
       /\ q.mse.eos \/ q.mse.state = "ended" => NoInits(q.tasks)
  BY <1>14 DEF Almost
<1>17. /\ q.reqs[Len(q.reqs)] = loader /\ Len(q.reqs) = Len(p.reqs)
       /\ Len(q.reqs) = cur /\ q.reqs[cur] = loader /\ \A i \in 1 .. cur : i # cur => q.reqs[i] = p.reqs[i]
  <2>1. q.reqs = u.reqs
    BY <1>15
  <2> QED BY <1>6, <2>1, Zenon
<1>18. ASSUME Deaf(p.mux, data) PROVE Resumed(q)
  <2>1. data[1] = <<0, 1>>
    BY <1>18 DEF Deaf
  <2> QED BY <1>9, <1>15, <1>18, <2>1 DEF Resumed
<1>19. Reading(q, stream, l)
  <2>1. CASE Live(stream, p.mux, data, From(p)) /\ r.received = Taken(p.mux) + Len(p.io.stash)
    <3>1. PICK x, y, rest : x = p.mux /\ y = q.mux /\ rest = q.io.stash
      OBVIOUS
    <3>2. /\ Live(stream, y, rest, q.io.start) /\ Taken(x) + Len(data) = Taken(y) + Len(rest)
          /\ x \in Muxes /\ y \in Muxes /\ rest \in Seq(Pieces)
      BY <1>1, <1>15, <2>1, <3>1 DEF Players, Controls
    <3>3. PICK a, b, c, d, e \in Nat : /\ a = Taken(x) /\ b = Taken(y) /\ c = Len(rest) /\ d = Len(data)
                                       /\ e = Len(p.io.stash)
      <4>1. Taken(x) \in Nat /\ Taken(y) \in Nat
        <5>1. x.parsed \in Nat /\ y.parsed \in Nat
          BY <3>2 DEF Muxes
        <5>2. PICK i, j \in Nat : i = x.parsed /\ j = y.parsed
          BY <5>1
        <5>3. Taken(x) \in {0, 2 + 2 * i} /\ Taken(y) \in {0, 2 + 2 * j}
          BY <5>2 DEF Taken
        <5> QED BY <5>2, <5>3
      <4>2. Len(rest) \in Nat /\ Len(data) \in Nat /\ Len(p.io.stash) \in Nat
        BY <1>1, <1>9, <3>2, LenProperties DEF Controls
      <4> QED BY <4>1, <4>2
    <3>4. a + d = b + c /\ d = e + size
      BY <1>9, <3>2, <3>3
    <3>5. loader.received = Taken(y) + Len(rest)
      <4>1. a \in Nat /\ b \in Nat /\ c \in Nat /\ d \in Nat /\ e \in Nat
        BY <3>3
      <4>2. a + e + size = b + c
        BY <3>4, <4>1
      <4>3. r.received = a + e /\ loader.received = r.received + size
        BY <1>4, <2>1, <3>1, <3>3
      <4>4. loader.received = b + c
        BY <4>2, <4>3
      <4> QED BY <3>3, <4>4
    <3>6. Live(stream, y, rest, From(q))
      <4>1. CASE rest # <<>>
        <5>1. From(q) = q.io.start
          BY <3>1, <4>1 DEF From
        <5> QED BY <3>2, <5>1
      <4>2. CASE rest = <<>>
        <5>1. c = 0
          BY <3>3, <4>2, EmptySeq
        <5>2. b # 0
          <6>1. \A i \in Nat : e + size = i => i # 0
            BY <3>3
          <6>2. d # 0
            BY <3>3, <3>4, <6>1
          <6>3. \A i, j \in Nat : a + d = i + j /\ j = 0 => i # 0
            BY <3>3, <6>2
          <6> QED BY <3>3, <3>4, <5>1, <6>3
        <5>3. ~y.demux.first
          BY <3>3, <5>2 DEF Taken
        <5> QED BY <3>2, <5>3 DEF Live
      <4> QED BY <4>1, <4>2
    <3> QED BY <1>16, <1>17, <3>1, <3>5, <3>6 DEF Reading
  <2>2. CASE Deaf(p.mux, data) /\ Len(p.reqs) > l
    <3>1. Resumed(q)
      BY <1>18, <2>2
    <3> QED BY <1>16, <1>17, <2>2, <3>1 DEF Reading
  <2> QED BY <1>9, <2>1, <2>2
<1>20. Over(q, stream, l)
  BY <1>16, <1>17, <1>18 DEF Over
<1>21. Requests(q)
  <2>1. \A i \in 1 .. cur : i < cur => GivenUp(q.reqs[i])
    <3>1. \A i \in 1 .. cur : i < cur => GivenUp(p.reqs[i])
      BY <1>1 DEF Requests
    <3>2. \A i \in 1 .. cur : i < cur => i # cur
      BY <1>2
    <3> QED BY <1>17, <3>1, <3>2
  <2>2. Working(loader) /\ Waiting(loader)
    BY <1>4 DEF Working, Waiting
  <2>3. \A i \in 1 .. cur : Working(q.reqs[i]) => Waiting(q.reqs[i])
    <3>1. \A i \in 1 .. cur : Working(p.reqs[i]) => Waiting(p.reqs[i])
      BY <1>1 DEF Requests
    <3> QED BY <1>17, <2>2, <3>1, Zenon
  <2>4. cur # 0 /\ r.bound /\ (p.page.player => ~p.page.timer)
    BY <1>1 DEF Requests
  <2>5. loader.bound /\ q.io.alive /\ ~q.io.paused /\ q.page.player /\ ~q.page.timer
    <3>1. loader.bound /\ ~q.io.paused /\ q.io.alive
      BY <1>4, <1>15, <2>4, Zenon
    <3>2. q.page.player /\ ~q.page.timer
      BY <1>15, <2>4, Zenon
    <3> QED BY <3>1, <3>2
  <2> QED BY <1>17, <2>1, <2>2, <2>3, <2>4, <2>5 DEF Requests
<1>22. Running(q, stream, l)
  BY <1>16, <1>19, <1>20 DEF Running
<1>23. /\ q \in Players /\ q.mse.said = "nothing" /\ q.mux.out = <<>> /\ (q.page.checker => q.page.player)
       /\ l <= Len(q.reqs)
  <2>1. q.mse.said = "nothing" /\ (q.page.checker => q.page.player)
    BY <1>1, <1>15, Zenon
  <2>2. l <= Len(q.reqs)
    BY <1>1, <1>17, Zenon
  <2> QED BY <1>15, <1>16, <2>1, <2>2
<1>24. Timed(q, stream)
  BY <1>14 DEF Almost
<1> QED BY <1>21, <1>22, <1>23, <1>24 DEF PInv

\* The player reads a chunk.
LEMMA ReadKeeps ==
  ASSUME stream \in Seq(Tags), Sound(stream), NEW p, NEW l, PInv(p, stream, l), p.page.player, p.tasks = <<>>,
         NEW cur, cur = Len(p.reqs), p.io.alive, ~p.io.paused, NEW r, r = p.reqs[cur], r.conn = "open",
         NEW size \in Nat, size # 0, r.received + size <= Len(Units(stream)),
         NEW loader, loader = [r EXCEPT !.status = "buffering", !.received = @ + size],
         NEW u, u = [p EXCEPT !.reqs[cur] = loader], NEW q,
         q = LoaderChunkArrival(u, SubSeq(Units(stream), r.received + 1, r.received + size), r.from + r.received)
  PROVE  PInv(q, stream, l)
<1>1. /\ p \in Players /\ Requests(p) /\ l <= Len(p.reqs) /\ p.mse.said = "nothing" /\ p.mux.out = <<>>
      /\ Running(p, stream, l) /\ p.io \in Controls /\ p.reqs \in Seq(Loaders)
  BY DEF PInv, Players
<1>2. cur \in 1 .. Len(p.reqs) /\ r \in Loaders /\ cur \in Nat
  <2>1. cur \in Nat /\ cur # 0
    BY <1>1, LenProperties DEF Requests
  <2>2. cur \in 1 .. Len(p.reqs)
    BY <2>1
  <2> QED BY <1>1, <2>1, <2>2, ElementOfSeq
<1>3. ReadingOn(r, loader, size)
  <2>1. r.received + size \in Nat
    BY <1>2 DEF Loaders
  <2>2. PICK n \in Nat : n = r.received + size
    BY <2>1
  <2>3. loader = [r EXCEPT !.status = "buffering", !.received = n]
    BY <2>2
  <2> QED BY <1>2, <2>2, <2>3 DEF ReadingOn, Loaders
<1>4. /\ loader \in Loaders /\ loader.status = "buffering" /\ loader.received = r.received + size
      /\ loader.bound = r.bound /\ loader.abort = r.abort /\ loader.conn = r.conn /\ loader.from = r.from
  BY <1>3 DEF ReadingOn
<1>5. Rewired(p, u, cur, loader)
  BY <1>1, <1>2, <1>4, RewiredIs
<1>6. /\ u \in Players /\ u.io = p.io /\ u.mux = p.mux /\ u.tasks = p.tasks /\ u.mse = p.mse /\ u.page = p.page
      /\ Len(u.reqs) = cur /\ u.reqs[cur] = loader /\ \A i \in 1 .. cur : i # cur => u.reqs[i] = p.reqs[i]
  BY <1>5 DEF Rewired, Exchanged
<1>7. Attending(p) /\ Reading(p, stream, l)
  BY <1>1 DEF Attending, Waiting, Running
<1>8. PICK data : data = p.io.stash \o SubSeq(Units(stream), r.received + 1, r.received + size)
  OBVIOUS
<1>9. /\ data \in Seq(Pieces) /\ data # <<>> /\ Len(data) = Len(p.io.stash) + size
      /\ \/ Live(stream, p.mux, data, From(p)) /\ r.received = Taken(p.mux) + Len(p.io.stash)
         \/ Deaf(p.mux, data) /\ Len(p.reqs) > l /\ data[1] = <<0, 1>>
      /\ Resumed(p) => Deaf(p.mux, data)
  <2>1. Handed(p, r, size, data, l)
    BY <1>1, <1>2, <1>7, <1>8, ChunkIs
  <2> QED BY <2>1 DEF Handed
<1>10. PICK start \in Int : start = From(p)
  <2>1. r.from + r.received \in Int /\ p.io.start \in Int
    BY <1>1, <1>2 DEF Loaders, Controls
  <2> QED BY <2>1 DEF From
<1>11. q = DispatchChunks(u, data, start)
  <2>1. PICK chunk, first : chunk = SubSeq(Units(stream), r.received + 1, r.received + size) /\ first = r.from + r.received
    OBVIOUS
  <2>2. q = LoaderChunkArrival(u, chunk, first) /\ data = u.io.stash \o chunk /\ ~u.io.paused
    BY <1>6, <1>8, <2>1
  <2>3. CASE p.io.stash = <<>>
    <3>1. start = first
      BY <1>10, <2>1, <2>3 DEF From
    <3> QED BY <1>6, <2>2, <2>3, <3>1 DEF LoaderChunkArrival
  <2>4. CASE p.io.stash # <<>>
    <3>1. start = p.io.start
      BY <1>10, <2>4 DEF From
    <3> QED BY <1>6, <2>2, <2>4, <3>1 DEF LoaderChunkArrival
  <2> QED BY <2>3, <2>4
<1>12. Hungry(u, data, start)
  <2>1. Live(stream, p.mux, data, start) \/ Deaf(p.mux, data)
    BY <1>9, <1>10
  <2> QED BY <1>6, <1>9, <2>1, HungryIs
<1>13. Digested(u, q, data, start)
  BY <1>11, <1>12, DispatchChunksIs
<1>14. Handed(p, r, size, data, l) /\ r = p.reqs[Len(p.reqs)] /\ r.conn = "open"
  BY <1>1, <1>2, <1>7, <1>8, ChunkIs
<1> QED BY <1>2, <1>3, <1>5, <1>10, <1>13, <1>14, ReadDone

\* The request is over, and with it what was kept.
Emptying(v, q) ==
  /\ q \in Players /\ q.reqs = v.reqs /\ q.mux = v.mux /\ q.tasks = v.tasks /\ q.mse = v.mse /\ q.page = v.page
  /\ q.io.alive = v.io.alive /\ q.io.paused = v.io.paused /\ q.io.init = v.io.init

\* flushStash empties the stash or leaves it.
LEMMA EmptyingIs ==
  ASSUME NEW v \in Players, NEW drop, NEW q, q = Flushed(v, drop)
  PROVE  Emptying(v, q)
<1>1. CASE q = v
  BY <1>1 DEF Emptying
<1>2. CASE q # v
  <2>1. q = [v EXCEPT !.io.stash = <<>>, !.io.start = 0]
    BY <1>2 DEF Flushed
  <2>2. PICK none : none = <<>> /\ none \in Seq(Pieces)
    <3>1. <<>> \in Seq(Pieces)
      OBVIOUS
    <3> QED BY <3>1, Zenon
  <2>3. PICK k : k = [v.io EXCEPT !.stash = none, !.start = 0]
    OBVIOUS
  <2>4. q = [v EXCEPT !.io = k]
    BY <2>1, <2>2, <2>3 DEF Players, Controls
  <2>5. v.io \in Controls
    BY DEF Players
  <2>6. k \in Controls /\ k.alive = v.io.alive /\ k.paused = v.io.paused /\ k.init = v.io.init
    <3>1. PICK io0 \in Controls : io0 = v.io
      BY <2>5
    <3>2. k = [io0 EXCEPT !.stash = none, !.start = 0]
      BY <2>3, <3>1
    <3>3. k = [alive |-> io0.alive, init |-> io0.init, paused |-> io0.paused, stash |-> none,
               start |-> 0, to |-> io0.to, resumeFrom |-> io0.resumeFrom]
      BY <3>2 DEF Controls
    <3>4. /\ io0.alive \in BOOLEAN /\ io0.init \in BOOLEAN /\ io0.paused \in BOOLEAN /\ io0.to \in Int
          /\ io0.resumeFrom \in Int /\ none \in Seq(Pieces)
      BY <2>2 DEF Controls
    <3>5. k \in Controls
      BY <3>3, <3>4 DEF Controls
    <3> QED BY <3>1, <3>3, <3>5
  <2> QED BY <2>4, <2>6 DEF Emptying, Players
<1> QED BY <1>1, <1>2

\* flushStash keeps the invariant of a player whose request has ended.
LEMMA EmptyingKeeps ==
  ASSUME NEW p, NEW l, PInv(p, stream, l), p.page.player, NEW u, PInv(u, stream, l), u.page = p.page,
         ~Waiting(u.reqs[Len(u.reqs)]), Len(u.reqs) = Len(p.reqs), u.io.alive, ~u.io.paused,
         NEW data, NEW start, NEW v, Digested(u, v, data, start), Almost(p, v, data, l),
         NEW q, Emptying(v, q)
  PROVE  PInv(q, stream, l) /\ ~Attending(q) /\ q.page = p.page /\ ~Hearing(q) /\ Steadies(q.mux)
<1>1. Requests(u) /\ l <= Len(u.reqs) /\ u.mse.said = "nothing" /\ (u.page.checker => u.page.player)
  BY DEF PInv
<1>2. /\ v.reqs = u.reqs /\ v.page = u.page /\ v.mse = u.mse
      /\ v.io.alive = u.io.alive /\ v.io.paused = u.io.paused
  BY DEF Digested
<1>3. /\ q \in Players /\ q.reqs = v.reqs /\ q.mux = v.mux /\ q.tasks = v.tasks /\ q.mse = v.mse /\ q.page = v.page
      /\ q.io.alive = v.io.alive /\ q.io.paused = v.io.paused /\ q.io.init = v.io.init
  BY DEF Emptying
<1>4. /\ Lined(v, stream) /\ l # 0
      /\ v.mux.out = <<>> /\ Buffers(v.mse) /\ Order(v) /\ Beginning(v)
      /\ v.mux.parsed <= Len(stream) /\ Resting(v.mux, stream) /\ EndLast(v.tasks)
      /\ Ending(v) => /\ Len(p.reqs) > l
                      /\ Emptied(v.mux) \/ LastIsNone(v.mux, stream)
      /\ v.mse.eos \/ v.mse.state = "ended" => NoInits(v.tasks)
  BY DEF Almost
<1>5. q.reqs = u.reqs /\ q.page = u.page /\ q.mse = u.mse /\ q.io.alive /\ ~q.io.paused
  <2>1. q.io.alive /\ ~q.io.paused
    BY <1>2, <1>3, Zenon
  <2> QED BY <1>2, <1>3, <2>1
<1>6. ~Attending(q)
  BY <1>5 DEF Attending
<1>7. Beginning(q)
  BY <1>3, <1>4 DEF Beginning
<1>8. Over(q, stream, l)
  <2>1. Ending(q) => Ending(v)
    BY <1>3 DEF Ending
  <2>2. Len(q.reqs) = Len(p.reqs)
    BY <1>5
  <2> QED BY <1>3, <1>4, <1>6, <2>1, <2>2 DEF Over
<1>9. /\ Order(q) /\ Buffers(q.mse) /\ Reading(q, stream, l) /\ Resting(q.mux, stream)
      /\ Lined(q, stream)
  BY <1>3, <1>4, <1>6 DEF Order, Reading, Lined
<1>10. Running(q, stream, l)
  BY <1>7, <1>8, <1>9 DEF Running
<1>11. Requests(q)
  BY <1>1, <1>5 DEF Requests
<1>12. l <= Len(q.reqs) /\ q.mse.said = "nothing" /\ (q.page.checker => q.page.player)
  BY <1>1, <1>5
<1>13. ~Hearing(q)
  BY <1>5 DEF Hearing
<1>14. Timed(q, stream) /\ Steadies(q.mux)
  <2>1. Timed(v, stream) /\ Steadies(v.mux)
    BY DEF Almost
  <2> QED BY <1>3, <1>13, <2>1, TimedSame
<1> QED BY <1>3, <1>4, <1>6, <1>10, <1>11, <1>12, <1>5, <1>13, <1>14 DEF PInv

\* The player is as before but for a request that is over.
Stays(p, v, l) ==
  PInv(v, stream, l) /\ ~Attending(v) /\ v.page = p.page /\ ~Hearing(v) /\ Steadies(v.mux)

\* What is kept is given to the demuxer once more.
LEMMA FlushKeeps ==
  ASSUME stream \in Seq(Tags), Sound(stream), NEW p, NEW l, PInv(p, stream, l), p.page.player, p.tasks = <<>>,
         NEW cur, cur = Len(p.reqs), p.io.alive, Waiting(p.reqs[cur]), NEW loader, Gone(p.reqs[cur], loader),
         NEW u, u = [p EXCEPT !.reqs[cur] = loader], NEW drop, NEW q, q = FlushStash(u, drop)
  PROVE  Stays(p, q, l)
<1>1. /\ p \in Players /\ Requests(p) /\ Running(p, stream, l) /\ p.io \in Controls /\ p.reqs \in Seq(Loaders)
  BY DEF PInv, Players
<1>2. cur \in 1 .. Len(p.reqs) /\ cur \in Nat
  <2>1. cur \in Nat /\ cur # 0
    BY <1>1, LenProperties DEF Requests
  <2> QED BY <2>1
<1>3. PInv(u, stream, l)
  BY <1>2, EndedKeeps
<1>4. Rewired(p, u, cur, loader)
  BY <1>1, <1>2, RewiredIs DEF Gone
<1>5. /\ u \in Players /\ u.io = p.io /\ u.mux = p.mux /\ u.tasks = p.tasks /\ u.mse = p.mse /\ u.page = p.page
      /\ Len(u.reqs) = cur /\ u.reqs[cur] = loader /\ Len(u.reqs) = Len(p.reqs)
  BY <1>4 DEF Rewired, Exchanged
<1>6. ~Waiting(u.reqs[Len(u.reqs)]) /\ ~Attending(u)
  BY <1>5 DEF Gone, Attending
<1>7. CASE p.io.stash = <<>>
  <2>1. q = u
    BY <1>5, <1>7 DEF FlushStash
  <2>2. ~Hearing(u)
    BY <1>6 DEF Hearing
  <2>3. Steadies(p.mux)
    <3>1. Timed(p, stream) /\ Hearing(p)
      BY DEF PInv, Hearing
    <3> QED BY <3>1 DEF Timed
  <2> QED BY <1>3, <1>5, <1>6, <2>1, <2>2, <2>3 DEF Stays
<1>8. CASE p.io.stash # <<>>
  <2>1. ~p.io.paused
    BY <1>1, <1>8 DEF Requests
  <2>2. Attending(p) /\ Reading(p, stream, l)
    BY <1>1, <2>1 DEF Attending, Running
  <2>3. PICK data \in Seq(Pieces), start \in Int : data = p.io.stash /\ start = p.io.start
    BY <1>1 DEF Controls
  <2>4. From(p) = start /\ (Resumed(p) => Deaf(p.mux, data)) /\ data # <<>>
    BY <1>8, <2>3 DEF From, Resumed, Deaf
  <2>5. Live(stream, p.mux, data, start) \/ Deaf(p.mux, data)
    BY <2>2, <2>3, <2>4 DEF Reading
  <2>6. PICK v : v = DispatchChunks(u, data, start)
    OBVIOUS
  <2>7. q = Flushed(v, drop)
    BY <1>5, <1>8, <2>3, <2>6 DEF FlushStash
  <2>8. Hungry(u, data, start)
    BY <1>5, <2>4, <2>5, HungryIs
  <2>9. Digested(u, v, data, start)
    BY <2>6, <2>8, DispatchChunksIs
  <2>10. Almost(p, v, data, l)
    BY <1>5, <2>2, <2>4, <2>9, DigestedKeeps
  <2>11. Emptying(v, q)
    BY <2>7, <2>10, EmptyingIs DEF Almost
  <2>12. u.io.alive /\ ~u.io.paused
    BY <1>5, <2>1
  <2>13. PInv(q, stream, l) /\ ~Attending(q) /\ q.page = p.page /\ ~Hearing(q) /\ Steadies(q.mux)
    BY <1>3, <1>5, <1>6, <2>9, <2>10, <2>11, <2>12, EmptyingKeeps
  <2> QED BY <2>13 DEF Stays
<1> QED BY <1>7, <1>8

\* An error of the network is on its way to the page.
LEMMA ToldKeeps ==
  ASSUME NEW p, NEW s, NEW l, PInv(p, s, l), p.page.player, NEW q, q = OnIOException(p)
  PROVE  PInv(q, s, l)
<1>1. /\ p \in Players /\ Requests(p) /\ l <= Len(p.reqs) /\ p.mse.said = "nothing" /\ p.mux.out = <<>>
      /\ Running(p, s, l) /\ p.tasks \in Seq(Events) /\ Timed(p, s)
  BY DEF PInv, Players
<1>2. PICK e : e = [ev |-> "io_error"]
  OBVIOUS
<1>3. e \in Events /\ e.ev = "io_error"
  BY <1>2 DEF Events, Notes
<1>4. PICK ts : ts = Append(p.tasks, e)
  OBVIOUS
<1>5. ts \in Seq(Events)
  BY <1>1, <1>3, <1>4, AppendProperties
<1>6. OneMore(ts, p.tasks, e)
  BY <1>1, <1>3, <1>4, AppendedIs
<1>7. q = [p EXCEPT !.tasks = ts]
  BY <1>2, <1>4 DEF OnIOException, Told
<1>8. /\ q \in Players /\ q.reqs = p.reqs /\ q.io = p.io /\ q.mux = p.mux /\ q.tasks = ts /\ q.mse = p.mse
      /\ q.page = p.page
  BY <1>1, <1>5, <1>7 DEF Players
<1>9. \A i \in DOMAIN ts : (i \in DOMAIN p.tasks /\ ts[i] = p.tasks[i]) \/ ts[i].ev = "io_error"
  BY <1>3, <1>6 DEF OneMore
<1>10. Order(q)
  <2>2. Headed(p.tasks, p.mux.tracks, Known(p.mse))
    BY <1>1 DEF Running, Order
  <2>1. TakeMeta(e, p.mux.tracks, p.mux.tracks)
    BY <2>2 DEF TakeMeta, Headed
  <2>4. e.ev # "media"
    BY <1>3
  <2>5. PICK tracks, K : tracks = p.mux.tracks /\ K = Known(p.mse)
    OBVIOUS
  <2>6. Headed(p.tasks, tracks, K) /\ TakeMeta(e, tracks, tracks)
    BY <2>1, <2>2, <2>5
  <2>7. Headed(ts, tracks, K)
    BY <1>1, <1>3, <1>4, <2>4, <2>6, HeadedOne, Zenon
  <2>3. Headed(ts, p.mux.tracks, Known(p.mse))
    BY <2>5, <2>7
  <2> QED BY <1>8, <2>3 DEF Order
<1>11. Beginning(q)
  <2>1. OnlyNotes(p.tasks) => OnlyNotes(ts)
    BY <1>9 DEF OnlyNotes
  <2> QED BY <1>1, <1>8, <2>1 DEF Running, Beginning
<1>12. (Attending(q) <=> Attending(p)) /\ (Resumed(q) <=> Resumed(p)) /\ From(q) = From(p)
  BY <1>8 DEF Attending, Resumed, From
<1>13. Reading(q, s, l)
  <2>1. Reading(p, s, l)
    BY <1>1 DEF Running
  <2> QED BY <1>8, <1>12, <2>1 DEF Reading
<1>14. Over(q, s, l)
  <2>1. Over(p, s, l)
    BY <1>1 DEF Running
  <2>2. EndTold(ts) => EndTold(p.tasks)
    BY <1>9 DEF EndTold
  <2>3. NoInits(p.tasks) => NoInits(ts)
    BY <1>9 DEF NoInits
  <2>4. EndLast(ts)
    BY <1>9, <2>1 DEF Over, EndLast
  <2>5. Ending(q) => Ending(p)
    BY <1>8, <2>2 DEF Ending
  <2> QED BY <1>8, <1>12, <2>1, <2>3, <2>4, <2>5 DEF Over
<1>15. Requests(q)
  BY <1>1, <1>8 DEF Requests
<1>16. Buffers(q.mse) /\ Resting(q.mux, s)
  BY <1>1, <1>8 DEF Running
<1>19. Lined(q, s)
  <2>1. InLine(p.mse, p.tasks, p.mux, s) /\ p.mux \in Muxes
    BY <1>1 DEF Running, Lined, Players
  <2>2. Supplies(s, p.tasks, p.mux, ts, p.mux)
    BY <1>1, <1>3, <1>4, <2>1, NoteSupplies
  <2>3. InLine(p.mse, ts, p.mux, s)
    BY <2>1, <2>2, InLineSupplied
  <2> QED BY <1>8, <2>3 DEF Lined
<1>17. Running(q, s, l)
  BY <1>10, <1>11, <1>13, <1>14, <1>16, <1>19 DEF Running
<1>18. l <= Len(q.reqs) /\ q.mse.said = "nothing" /\ q.mux.out = <<>> /\ q.page.player
  BY <1>1, <1>8
<1>20. Timed(q, s)
  <2>1. e.ev # "media"
    BY <1>3
  <2>2. Paced(p.mse, p.tasks, p.mux, s) => Paced(p.mse, ts, p.mux, s)
    BY <1>1, <1>3, <1>4, <2>1, PacedNote
  <2>3. Hearing(q) => Hearing(p)
    BY <1>8 DEF Hearing
  <2> QED BY <1>1, <1>8, <2>2, <2>3, TimedMoves
<1> QED BY <1>8, <1>15, <1>17, <1>18, <1>20 DEF PInv

\* The end of the response: the frames that were held back go out, and then the
\* end is told.
Concluded(p, q, new, e) ==
  /\ q \in Players /\ q.reqs = p.reqs /\ q.io = p.io /\ q.mse = p.mse /\ q.page = p.page
  /\ q.tasks = Append(p.tasks \o new, e) /\ q.mux.out = <<>> /\ q.mux.parsed = p.mux.parsed
  /\ q.mux.demux = p.mux.demux /\ Emptied(q.mux)
  /\ \A t \in Types : /\ q.mux.tracks[t].queue = p.mux.tracks[t].queue
                      /\ q.mux.tracks[t].meta = p.mux.tracks[t].meta
  /\ KeepMeta(p.mux.tracks, q.mux.tracks) /\ OfTracks(new, p.mux.tracks)
  /\ \A s : Supplies(s, p.tasks, p.mux, q.tasks, q.mux) /\ Sends(s, p.tasks, p.mux, q.tasks, q.mux)

\* _onIOComplete: what the remuxer holds back goes out, then the end is told.
LEMMA ConcludedIs ==
  ASSUME NEW p \in Players, p.mux.out = <<>>, \A t \in Types : Held(p.mux.tracks[t]),
         NEW q, q = Told(Emitted([p EXCEPT !.mux = FlushStashedSamples(@)]), "loading_complete"),
         NEW e \in Events, e = [ev |-> "loading_complete"]
  PROVE  \E new \in Seq(Media) : Concluded(p, q, new, e)
<1>1. p.mux \in Muxes /\ p.tasks \in Seq(Events)
  BY DEF Players
<1>2. PICK y : y = FlushStashedSamples(p.mux)
  OBVIOUS
<1>3. /\ Passed(p.mux, y)
      /\ \A t \in Types : y.tracks[t].stash = <<>> /\ y.tracks[t].queue = p.mux.tracks[t].queue
  BY <1>1, <1>2, FlushIs
<1>4. PICK new \in Seq(Media) : y.out = p.mux.out \o new /\ \A i \in DOMAIN new : p.mux.tracks[new[i].type].meta # NoMeta
  BY <1>3 DEF Passed
<1>5. y.out = new
  <2>1. new \in Seq(Media) /\ y.out = <<>> \o new
    BY <1>4
  <2> QED BY <2>1
<1>6. /\ y \in Muxes /\ y.demux = p.mux.demux /\ y.parsed = p.mux.parsed
      /\ \A t \in Types : /\ y.tracks[t].meta = p.mux.tracks[t].meta
                          /\ Held(p.mux.tracks[t]) => Held(y.tracks[t])
  BY <1>3 DEF Passed
<1>7. PICK z : z = [y EXCEPT !.out = <<>>]
  OBVIOUS
<1>8. z \in Muxes /\ z.out = <<>> /\ z.tracks = y.tracks /\ z.demux = y.demux /\ z.parsed = y.parsed
  <2>1. <<>> \in Seq(Events)
    OBVIOUS
  <2> QED BY <1>6, <1>7, <2>1 DEF Muxes
<1>9. PICK ts : ts = Append(p.tasks \o new, e)
  OBVIOUS
<1>10. ts \in Seq(Events)
  <2>1. new \in Seq(Events)
    BY SeqMonotonic DEF Events, Segments
  <2>2. p.tasks \o new \in Seq(Events)
    BY <1>1, <2>1, ConcatProperties
  <2> QED BY <1>9, <2>2, AppendProperties
<1>11. q = [p EXCEPT !.mux = z, !.tasks = ts]
  <2>1. PICK a : a = [p EXCEPT !.mux = y]
    OBVIOUS
  <2>2. a.tasks = p.tasks /\ a.mux = y
    BY <2>1 DEF Players
  <2>3. Emitted(a) = [a EXCEPT !.tasks = p.tasks \o new, !.mux.out = <<>>]
    BY <1>5, <2>2 DEF Emitted
  <2>4. PICK b : b = Emitted(a)
    OBVIOUS
  <2>5. b = [p EXCEPT !.mux = z, !.tasks = p.tasks \o new]
    BY <1>7, <2>1, <2>3, <2>4 DEF Players
  <2>6. q = [b EXCEPT !.tasks = Append(@, e)]
    BY <1>2, <2>1, <2>4 DEF Told
  <2> QED BY <1>9, <2>5, <2>6 DEF Players
<1>12. /\ q \in Players /\ q.mux = z /\ q.tasks = ts /\ q.reqs = p.reqs /\ q.io = p.io /\ q.mse = p.mse
       /\ q.page = p.page
  BY <1>8, <1>10, <1>11 DEF Players
<1>13. Emptied(z) /\ KeepMeta(p.mux.tracks, z.tracks)
  BY <1>3, <1>6, <1>8 DEF Emptied, KeepMeta
<1>14. OfTracks(new, p.mux.tracks)
  BY <1>4 DEF OfTracks
<1>15. \A t \in Types : /\ z.tracks[t].queue = p.mux.tracks[t].queue
                        /\ z.tracks[t].meta = p.mux.tracks[t].meta
  BY <1>3, <1>6, <1>8
<1>17. ASSUME NEW s PROVE Supplies(s, p.tasks, p.mux, q.tasks, q.mux)
  <2>1. PICK us : us = p.tasks \o y.out
    OBVIOUS
  <2>2. us \in Seq(Events) /\ ts = Append(us, e)
    <3>1. new \in Seq(Events)
      BY SeqMonotonic DEF Events, Segments
    <3>2. p.tasks \o new \in Seq(Events)
      BY <1>1, <3>1, ConcatProperties
    <3> QED BY <1>5, <1>9, <2>1, <3>2
  <2>3. Ships(p.mux, y)
    BY <1>1, <1>2, FlushShips
  <2>4. ReadsOn(s, p.mux, y)
    BY <1>1, <1>6, <2>3, ShipsReads
  <2>5. Supplies(s, p.tasks, p.mux, us, z)
    BY <1>1, <1>6, <1>8, <2>1, <2>4, EmitsSupply
  <2>6. e.ev # "media"
    OBVIOUS
  <2>7. Supplies(s, us, z, ts, z)
    BY <1>8, <2>2, <2>6, NoteSupplies
  <2>8. Supplies(s, p.tasks, p.mux, ts, z)
    BY <1>1, <1>8, <2>5, <2>7, SuppliesTwice
  <2> QED BY <1>12, <2>8
<1>18. ASSUME NEW s PROVE Sends(s, p.tasks, p.mux, q.tasks, q.mux)
  <2>1. SUFFICES ASSUME Clocked(s, p.mux), Early(p.mux)
                 PROVE  /\ InTime(s, z) /\ Early(z) /\ Clocks(z) \subseteq Clocks(p.mux)
                        /\ \A b \in Clocks(z) : p.tasks \in Seq(Punctual(s, b)) => ts \in Seq(Punctual(s, b))
    BY <1>12 DEF Sends
  <2>2. InTime(s, y) /\ y.base = p.mux.base
    BY <1>1, <1>2, <2>1, FlushTime
  <2>3. z.base = y.base /\ z.tracks = y.tracks /\ z.demux = p.mux.demux /\ z.out = <<>>
    BY <1>6, <1>7, <1>8 DEF Muxes
  <2>4. Clocks(z) = Clocks(p.mux) /\ Clocks(z) = Clocks(y) /\ Early(z)
    BY <2>1, <2>2, <2>3 DEF Clocks, Early
  <2>5. InTime(s, z)
    <3>1. \A G : <<>> \in Seq(G)
      OBVIOUS
    <3>2. Clear(s, z)
      BY <2>3, <3>1 DEF Clear
    <3>3. Stamps(s, z) /\ Emptied(z)
      BY <1>13, <2>2, <2>3 DEF InTime, Stamps
    <3> QED BY <3>2, <3>3 DEF InTime
  <2>6. ASSUME NEW b \in Clocks(z), p.tasks \in Seq(Punctual(s, b)) PROVE ts \in Seq(Punctual(s, b))
    <3>1. PICK G : G = Punctual(s, b)
      OBVIOUS
    <3>2. new \in Seq(G) /\ p.tasks \in Seq(G) /\ e \in G
      <4>1. new \in Seq(G)
        BY <1>5, <2>2, <2>4, <3>1 DEF InTime, Clear
      <4>2. e \in G
        BY <3>1, NotePunctual
      <4> QED BY <2>6, <3>1, <4>1, <4>2
    <3>3. p.tasks \o new \in Seq(G)
      BY <3>2, ConcatProperties
    <3>4. ts \in Seq(G)
      BY <1>9, <3>2, <3>3, AppendProperties
    <3> QED BY <3>1, <3>4
  <2> QED BY <2>4, <2>5, <2>6
<1>16. Concluded(p, q, new, e)
  BY <1>6, <1>8, <1>9, <1>12, <1>13, <1>14, <1>15, <1>17, <1>18 DEF Concluded
<1> QED BY <1>16

\* _onIOComplete keeps the invariant.
LEMMA ConcludedKeeps ==
  ASSUME NEW p, NEW s, NEW l, PInv(p, s, l), p.page.player, ~Attending(p), ~Hearing(p), Steadies(p.mux), NEW new \in Seq(Media),
         NEW e \in Events, e.ev = "loading_complete", NEW q, Concluded(p, q, new, e)
  PROVE  PInv(q, s, l)
<1>1. /\ p \in Players /\ Requests(p) /\ l <= Len(p.reqs) /\ p.mse.said = "nothing" /\ p.mux.out = <<>>
      /\ Running(p, s, l) /\ p.tasks \in Seq(Events)
  BY DEF PInv, Players
<1>2. /\ q \in Players /\ q.reqs = p.reqs /\ q.io = p.io /\ q.mse = p.mse /\ q.page = p.page
      /\ q.tasks = Append(p.tasks \o new, e) /\ q.mux.out = <<>> /\ q.mux.parsed = p.mux.parsed
      /\ q.mux.demux = p.mux.demux /\ Emptied(q.mux)
      /\ \A t \in Types : /\ q.mux.tracks[t].queue = p.mux.tracks[t].queue
                          /\ q.mux.tracks[t].meta = p.mux.tracks[t].meta
      /\ KeepMeta(p.mux.tracks, q.mux.tracks) /\ OfTracks(new, p.mux.tracks)
  BY DEF Concluded
<1>3. PICK us, ts : us = p.tasks \o new /\ ts = Append(us, e)
  OBVIOUS
<1>4. q.tasks = ts
  BY <1>2, <1>3
<1>5. new \in Seq(Events) /\ \A i \in DOMAIN new : new[i].ev = "media" /\ new[i].type \in Types
  <2>1. \A i \in DOMAIN new : new[i] \in Media
    BY ElementOfSeq
  <2>2. \A i \in DOMAIN new : new[i].ev = "media" /\ new[i].type \in Types
    BY <2>1 DEF Media
  <2> QED BY <2>2, SeqMonotonic DEF Events, Segments
<1>6. /\ us \in Seq(Events)
      /\ \A i \in DOMAIN us : \/ i \in DOMAIN p.tasks /\ us[i] = p.tasks[i]
                              \/ us[i].ev = "media" /\ ~(i \in DOMAIN p.tasks)
  <2>1. /\ us \in Seq(Events)
        /\ \A i \in DOMAIN p.tasks : i \in DOMAIN us /\ us[i] = p.tasks[i]
        /\ \A i \in DOMAIN us : \/ i \in DOMAIN p.tasks
                                \/ i - Len(p.tasks) \in DOMAIN new /\ us[i] = new[i - Len(p.tasks)]
    BY <1>1, <1>3, <1>5, Behind
  <2> QED BY <1>5, <2>1
<1>7. ts \in Seq(Events) /\ OneMore(ts, us, e)
  BY <1>3, <1>6, AppendProperties, AppendedIs
<1>8. \A i \in DOMAIN ts : \/ i \in DOMAIN p.tasks /\ ts[i] = p.tasks[i]
                           \/ ts[i].ev \in {"media", "loading_complete"}
  BY <1>6, <1>7 DEF OneMore
<1>9. Order(q)
  <2>1. Headed(p.tasks, p.mux.tracks, Known(p.mse))
    BY <1>1 DEF Running, Order
  <2>2. PICK tracks, after, K : tracks = p.mux.tracks /\ after = q.mux.tracks /\ K = Known(p.mse)
    OBVIOUS
  <2>3. Headed(p.tasks, tracks, K) /\ OfTracks(new, tracks) /\ KeepMeta(tracks, after)
    BY <1>2, <2>1, <2>2
  <2>4. Headed(us, after, K)
    BY <1>1, <1>3, <2>3, HeadedMedia, Zenon
  <2>5. TakeMeta(e, after, after) /\ e.ev # "media"
    BY <2>4 DEF TakeMeta, Headed
  <2>6. Headed(ts, after, K)
    BY <1>3, <1>6, <2>4, <2>5, HeadedOne, Zenon
  <2> QED BY <1>2, <1>4, <2>2, <2>6 DEF Order
<1>10. Beginning(q)
  <2>1. ASSUME q.mux.demux.first
        PROVE  Fresh(q.mux) /\ OnlyNotes(ts) /\ Blank(q.mse) /\ ~q.page.checker /\ ~q.io.paused
    <3>1. Fresh(p.mux) /\ OnlyNotes(p.tasks) /\ Blank(p.mse) /\ ~p.page.checker /\ ~p.io.paused
      BY <1>1, <1>2, <2>1 DEF Running, Beginning
    <3>2. Fresh(q.mux)
      BY <1>2, <3>1 DEF Fresh, Emptied
    <3>3. DOMAIN new = {}
      BY <1>2, <1>5, <3>1 DEF OfTracks, Fresh
    <3>4. new = <<>>
      BY <1>5, <3>3
    <3>5. us = p.tasks
      BY <1>1, <1>3, <3>4
    <3>6. OnlyNotes(ts)
      BY <1>7, <3>1, <3>5 DEF OnlyNotes, OneMore
    <3> QED BY <1>2, <3>1, <3>2, <3>6
  <2>2. q.io.init => q.mux.demux.first
    BY <1>1, <1>2 DEF Running, Beginning
  <2> QED BY <1>4, <2>1, <2>2 DEF Beginning
<1>11. ~Attending(q)
  BY <1>2 DEF Attending
<1>12. Reading(q, s, l)
  BY <1>1, <1>2, <1>11 DEF Running, Reading
<1>13. Resting(q.mux, s)
  <2>1. Resting(p.mux, s)
    BY <1>1 DEF Running
  <2>2. NoFrames(p.mux) => NoFrames(q.mux)
    BY <1>2 DEF NoFrames
  <2>3. LastIsNone(p.mux, s) => LastIsNone(q.mux, s)
    BY <1>2 DEF LastIsNone
  <2>4. AtRest(p.mux) => AtRest(q.mux)
    <3>1. PICK d : d = p.mux.demux /\ d = q.mux.demux
      BY <1>2
    <3>2. InitialMetadataDispatched(q.mux.demux) => InitialMetadataDispatched(p.mux.demux)
      BY <3>1, Zenon
    <3> QED BY <1>2, <3>2 DEF AtRest
  <2>5. ~q.mux.demux.dispatch => ~p.mux.demux.dispatch
    BY <1>2
  <2> QED BY <2>1, <2>2, <2>3, <2>4, <2>5 DEF Resting
<1>14. Over(q, s, l)
  <2>1. Over(p, s, l)
    BY <1>1 DEF Running
  <2>2. NoInits(p.tasks) => NoInits(ts)
    BY <1>8 DEF NoInits
  <2>3. EndLast(ts)
    <3>1. SUFFICES ASSUME NEW i \in DOMAIN ts, NEW j \in DOMAIN ts, i < j, ts[i].ev = "loading_complete"
                   PROVE  ts[j].ev # "init"
      BY DEF EndLast
    <3>2. CASE j \notin DOMAIN p.tasks
      BY <1>8, <3>2
    <3>3. CASE j \in DOMAIN p.tasks /\ ts[j] = p.tasks[j]
      <4>1. PICK n \in Nat : n = Len(p.tasks)
        BY <1>1, LenProperties
      <4>2. DOMAIN p.tasks = 1 .. n
        BY <1>1, <4>1, LenProperties
      <4>3. PICK m \in Nat : DOMAIN ts = 1 .. m
        BY <1>7, LenProperties
      <4>4. i \in DOMAIN p.tasks
        BY <3>1, <3>3, <4>2, <4>3
      <4>5. ts[i] = p.tasks[i]
        <5>1. us[i] = p.tasks[i] /\ i \in DOMAIN us
          BY <1>1, <1>3, <1>5, <4>4, Behind
        <5> QED BY <1>3, <1>6, <5>1, AppendProperties
      <4> QED BY <2>1, <3>1, <3>3, <4>4, <4>5 DEF Over, EndLast
    <3> QED BY <1>8, <3>2, <3>3
  <2>4. q.mse.eos \/ q.mse.state = "ended" => NoInits(ts)
    BY <1>2, <2>1, <2>2 DEF Over
  <2> QED BY <1>2, <1>4, <1>11, <2>3, <2>4 DEF Over
<1>15. Requests(q)
  BY <1>1, <1>2 DEF Requests
<1>18. Lined(q, s)
  <2>1. InLine(p.mse, p.tasks, p.mux, s) /\ p.mux \in Muxes /\ q.mux \in Muxes
    BY <1>1, <1>2 DEF Running, Lined, Players
  <2>2. Supplies(s, p.tasks, p.mux, q.tasks, q.mux)
    BY DEF Concluded
  <2>3. InLine(p.mse, q.tasks, q.mux, s)
    BY <2>1, <2>2, InLineSupplied
  <2> QED BY <1>2, <2>3 DEF Lined
<1>16. Running(q, s, l)
  BY <1>1, <1>2, <1>9, <1>10, <1>12, <1>13, <1>14, <1>18 DEF Running
<1>17. l <= Len(q.reqs) /\ q.mse.said = "nothing" /\ q.mux.out = <<>> /\ q.page.player
  BY <1>1, <1>2
<1>19. Timed(q, s)
  <2>1. Timed(p, s) /\ Sends(s, p.tasks, p.mux, q.tasks, q.mux)
    BY DEF PInv, Concluded
  <2>2. ~Hearing(q)
    BY <1>2 DEF Hearing
  <2> QED BY <1>2, <2>1, <2>2, SentTimed
<1> QED BY <1>2, <1>15, <1>16, <1>17, <1>19 DEF PInv

\* The connection breaks, or there is none.
LEMMA FailsKeeps ==
  ASSUME stream \in Seq(Tags), Sound(stream), NEW p, NEW l, PInv(p, stream, l), p.page.player, p.tasks = <<>>,
         NEW cur, cur = Len(p.reqs), p.io.alive, Waiting(p.reqs[cur]), NEW loader, Gone(p.reqs[cur], loader),
         NEW u, u = [p EXCEPT !.reqs[cur] = loader], NEW q, q = LoaderError(u)
  PROVE  PInv(q, stream, l)
<1>1. PICK v, drop : v = FlushStash(u, drop) /\ drop = FALSE
  OBVIOUS
<1>5. v = FlushStash(u, drop)
  BY <1>1
<1>2. PInv(v, stream, l) /\ v.page = p.page
  <2>1. Stays(p, v, l)
    BY <1>5, FlushKeeps
  <2> QED BY <2>1 DEF Stays
<1>3. q = OnIOException(v)
  BY <1>1 DEF LoaderError
<1>4. v.page.player
  BY <1>2
<1> QED BY <1>2, <1>3, <1>4, ToldKeeps

\* The server has ended the response.
LEMMA CompletesKeeps ==
  ASSUME stream \in Seq(Tags), Sound(stream), NEW p, NEW l, PInv(p, stream, l), p.page.player, p.tasks = <<>>,
         NEW cur, cur = Len(p.reqs), p.io.alive, Waiting(p.reqs[cur]), NEW loader, Gone(p.reqs[cur], loader),
         NEW u, u = [p EXCEPT !.reqs[cur] = loader], NEW q, q = LoaderComplete(u)
  PROVE  PInv(q, stream, l)
<1>1. PICK v, drop : v = FlushStash(u, drop) /\ drop = TRUE
  OBVIOUS
<1>6. v = FlushStash(u, drop)
  BY <1>1
<1>2. PInv(v, stream, l) /\ ~Attending(v) /\ v.page = p.page /\ ~Hearing(v) /\ Steadies(v.mux)
  <2>1. Stays(p, v, l)
    BY <1>6, FlushKeeps
  <2> QED BY <2>1 DEF Stays
<1>3. q = OnIOComplete(v) /\ v.page.player
  BY <1>1, <1>2 DEF LoaderComplete
<1>4. CASE v.io.init
  <2>1. q = OnIOException(v)
    BY <1>3, <1>4 DEF OnIOComplete
  <2> QED BY <1>2, <1>3, <2>1, ToldKeeps
<1>5. CASE ~v.io.init
  <2>1. q = Told(Emitted([v EXCEPT !.mux = FlushStashedSamples(@)]), "loading_complete")
    BY <1>3, <1>5 DEF OnIOComplete
  <2>2. PICK e \in Events : e = [ev |-> "loading_complete"] /\ e.ev = "loading_complete"
    <3>1. [ev |-> "loading_complete"] \in Events
      BY DEF Events, Notes
    <3> QED BY <3>1
  <2>3. v \in Players /\ v.mux.out = <<>> /\ Running(v, stream, l)
    BY <1>2, <1>3 DEF PInv
  <2>4. \A t \in Types : Held(v.mux.tracks[t])
    BY <2>3 DEF Running, Order, Headed
  <2>5. PICK new \in Seq(Media) : Concluded(v, q, new, e)
    BY <2>1, <2>2, <2>3, <2>4, ConcludedIs
  <2> QED BY <1>2, <1>3, <2>2, <2>5, ConcludedKeeps
<1> QED BY <1>4, <1>5

\* A request that was left is taken up by another one.
TakenUp(p, q, old, loader) ==
  /\ q \in Players /\ q.tasks = p.tasks /\ q.mse = p.mse /\ q.page = p.page
  /\ q.io.alive = p.io.alive /\ q.io.init = p.io.init /\ ~q.io.paused /\ q.io.stash = p.io.stash
  /\ q.mux.out = p.mux.out /\ q.mux.parsed = p.mux.parsed /\ q.mux.demux = p.mux.demux
  /\ q.mux.base = p.mux.base /\ Steadies(q.mux)
  /\ \A t \in Types : /\ q.mux.tracks[t].queue = p.mux.tracks[t].queue
                      /\ q.mux.tracks[t].stash = p.mux.tracks[t].stash
                      /\ q.mux.tracks[t].meta = p.mux.tracks[t].meta
  /\ Len(q.reqs) = Len(p.reqs) + 1 /\ q.reqs[Len(p.reqs)] = old /\ q.reqs[Len(p.reqs) + 1] = loader
  /\ \A n \in 1 .. Len(p.reqs) : n # Len(p.reqs) => q.reqs[n] = p.reqs[n]

\* A request that has just been sent.
Asked(loader) ==
  /\ loader \in Loaders /\ loader.bound /\ loader.status = "connecting" /\ loader.conn = "asked"
  /\ loader.received = 0

\* What the discontinuity changes.
LEMMA DiscontinuityIs ==
  ASSUME NEW x \in Muxes, NEW y, y = InsertDiscontinuity(x)
  PROVE  /\ y \in Muxes /\ y.out = x.out /\ y.parsed = x.parsed /\ y.demux = x.demux /\ y.base = x.base /\ Steadies(y)
         /\ \A t \in Types : /\ y.tracks[t].queue = x.tracks[t].queue /\ y.tracks[t].stash = x.tracks[t].stash
                             /\ y.tracks[t].meta = x.tracks[t].meta
<1>1. x.tracks \in [Types -> Tracks]
  BY DEF Muxes
<1>2. PICK tracks : tracks = [t \in Types |-> [x.tracks[t] EXCEPT !.next = Unset]]
  OBVIOUS
<1>3. ASSUME NEW t \in Types
      PROVE  /\ tracks[t] \in Tracks
             /\ tracks[t].queue = x.tracks[t].queue /\ tracks[t].stash = x.tracks[t].stash
             /\ tracks[t].meta = x.tracks[t].meta /\ ~(tracks[t].next > 0)
  <2>1. PICK k \in Tracks : k = x.tracks[t]
    BY <1>1
  <2>2. tracks[t] = [k EXCEPT !.next = Unset]
    BY <1>2, <2>1
  <2>3. Unset \in Int
    BY DEF Unset
  <2>4. ~(Unset > 0)
    BY DEF Unset
  <2> QED BY <2>1, <2>2, <2>3, <2>4 DEF Tracks
<1>4. tracks \in [Types -> Tracks]
  BY <1>2, <1>3
<1>5. y = [x EXCEPT !.tracks = tracks]
  BY <1>2 DEF InsertDiscontinuity
<1>6. y.tracks = tracks
  BY <1>5 DEF Muxes
<1>7. Steadies(y)
  BY <1>3, <1>6 DEF Steadies, Steady
<1> QED BY <1>3, <1>4, <1>5, <1>7 DEF Muxes

SentAfter(w, v) ==
  /\ v \in Seq(Loaders) /\ Len(v) = Len(w) + 1 /\ Asked(v[Len(w) + 1])
  /\ \A i \in 1 .. Len(w) : v[i] = w[i]

\* A new loader behind the others.
LEMMA LoaderOpened ==
  ASSUME NEW w \in Seq(Loaders), NEW from \in Int, NEW fresh, fresh = [NewLoader EXCEPT !.bound = TRUE],
         NEW u, u = Append(w, fresh), NEW v, v = [u EXCEPT ![Len(u)] = OpenLoader(@, from)]
  PROVE  SentAfter(w, v)
<1>1. /\ fresh \in Loaders /\ fresh.bound /\ fresh.received = 0 /\ ~fresh.abort
  BY NewOnes DEF NewLoader, Loaders
<1>2. PICK loader : loader = OpenLoader(fresh, from)
  OBVIOUS
<1>3. Asked(loader)
  <2>1. loader = [fresh EXCEPT !.status = "connecting", !.conn = "asked", !.from = from]
    BY <1>2 DEF OpenLoader
  <2>2. loader = [status |-> "connecting", abort |-> fresh.abort, bound |-> fresh.bound, conn |-> "asked",
                  from |-> from, received |-> fresh.received]
    BY <1>1, <2>1 DEF Loaders
  <2>3. fresh.abort \in BOOLEAN /\ fresh.bound \in BOOLEAN /\ fresh.received \in Nat
    BY <1>1 DEF Loaders
  <2>4. loader \in Loaders
    BY <2>2, <2>3 DEF Loaders
  <2> QED BY <1>1, <2>2, <2>4 DEF Asked
<1>4. PICK n \in Nat : n = Len(w)
  BY LenProperties
<1>5. u \in Seq(Loaders) /\ Len(u) = n + 1 /\ u[n + 1] = fresh /\ \A i \in 1 .. n : u[i] = w[i]
  BY <1>1, <1>4, AppendProperties
<1>6. PICK m \in Nat : m = n + 1 /\ m \in 1 .. m /\ \A i \in 1 .. n : i # m /\ i \in 1 .. m
  <2>1. n + 1 \in 1 .. n + 1 /\ n + 1 \in Nat /\ \A i \in 1 .. n : i # n + 1 /\ i \in 1 .. n + 1
    BY <1>4
  <2> QED BY <2>1
<1>7. Len(u) = m /\ u[m] = fresh
  BY <1>5, <1>6
<1>8. v = [u EXCEPT ![m] = loader]
  BY <1>2, <1>7
<1>9. m \in 1 .. Len(u) /\ loader \in Loaders
  BY <1>3, <1>6, <1>7 DEF Asked
<1>10. Exchanged(u, v, m, loader)
  BY <1>5, <1>8, <1>9, ExchangedIs
<1>11. v \in Seq(Loaders) /\ Len(v) = m /\ v[m] = loader /\ \A i \in 1 .. m : i # m => v[i] = u[i]
  BY <1>7, <1>10 DEF Exchanged
<1>12. \A i \in 1 .. n : v[i] = w[i]
  BY <1>5, <1>6, <1>11
<1>13. Len(v) = Len(w) + 1 /\ Asked(v[Len(w) + 1])
  BY <1>3, <1>4, <1>6, <1>11
<1> QED BY <1>4, <1>11, <1>12, <1>13 DEF SentAfter

Leaving(w, n, a, b) == a = [w EXCEPT ![n] = StopLoader(@)] /\ b = [a EXCEPT ![n] = DestroyLoader(@)]

\* The request that was paused is told to stop and destroyed.
LEMMA LeftBehind ==
  ASSUME NEW w \in Seq(Loaders), NEW n \in 1 .. Len(w), NEW a, NEW b, Leaving(w, n, a, b)
  PROVE  /\ a \in Seq(Loaders) /\ Len(a) = Len(w)
         /\ \E old : Stopped(w[n], old) /\ Exchanged(w, b, n, old)
<1>1. PICK r \in Loaders : r = w[n]
  BY ElementOfSeq
<1>2. PICK stopped : stopped = StopLoader(r)
  OBVIOUS
<1>3. stopped \in Loaders
  BY <1>2 DEF StopLoader, AbortLoader, Loaders
<1>4. PICK old : old = DestroyLoader(stopped)
  OBVIOUS
<1>5. old = DestroyLoader(StopLoader(r))
  BY <1>2, <1>4
<1>6. Stopped(r, old)
  BY <1>5, DestroyLoaderIs
<1>7. a = [w EXCEPT ![n] = stopped]
  BY <1>1, <1>2 DEF Leaving
<1>8. Exchanged(w, a, n, stopped)
  BY <1>3, <1>7, ExchangedIs
<1>9. a \in Seq(Loaders) /\ Len(a) = Len(w) /\ a[n] = stopped /\ \A i \in 1 .. Len(w) : i # n => a[i] = w[i]
  BY <1>8 DEF Exchanged
<1>10. b = [a EXCEPT ![n] = old] /\ old \in Loaders
  BY <1>4, <1>6, <1>9 DEF Stopped, Leaving
<1>11. Exchanged(a, b, n, old)
  BY <1>9, <1>10, ExchangedIs
<1>12. Exchanged(w, b, n, old)
  BY <1>9, <1>11 DEF Exchanged
<1> QED BY <1>1, <1>6, <1>9, <1>12

Continuing(io0, a, b) ==
  a = [io0 EXCEPT !.paused = FALSE, !.resumeFrom = 0] /\ b = [a EXCEPT !.to = -1]

\* IOController of a player that goes on.
LEMMA GoesOn ==
  ASSUME NEW io0 \in Controls, NEW a, NEW b, Continuing(io0, a, b)
  PROVE  /\ a \in Controls /\ a.stash = io0.stash /\ b \in Controls
         /\ b.alive = io0.alive /\ b.init = io0.init /\ ~b.paused /\ b.stash = io0.stash
<1>1. a = [alive |-> io0.alive, init |-> io0.init, paused |-> FALSE, stash |-> io0.stash,
           start |-> io0.start, to |-> io0.to, resumeFrom |-> 0]
  BY DEF Continuing, Controls
<1>2. b = [alive |-> io0.alive, init |-> io0.init, paused |-> FALSE, stash |-> io0.stash,
           start |-> io0.start, to |-> -1, resumeFrom |-> 0]
  BY <1>1 DEF Continuing
<1>3. /\ io0.alive \in BOOLEAN /\ io0.init \in BOOLEAN /\ io0.to \in Int
      /\ io0.start \in Int /\ io0.stash \in Seq(Pieces)
  BY DEF Controls
<1>4. a \in Controls /\ b \in Controls
  BY <1>1, <1>2, <1>3 DEF Controls
<1> QED BY <1>1, <1>2, <1>4

\* IOController.resume: the old loader is destroyed and a new one opened.
LEMMA TakenUpIs ==
  ASSUME NEW p \in Players, NEW cur, cur = Len(p.reqs), cur \in 1 .. cur, p.io.stash = <<>>, NEW q, q = ResumeIO(p)
  PROVE  \E old, loader : TakenUp(p, q, old, loader) /\ Stopped(p.reqs[cur], old) /\ Asked(loader)
<1>0. /\ p.reqs \in Seq(Loaders) /\ p.io \in Controls /\ p.mux \in Muxes /\ p.tasks \in Seq(Events)
      /\ p.mse \in Controllers /\ p.page \in Pages /\ p.head \in Int
  BY DEF Players
<1>1. PICK a, b : /\ a = [p.io EXCEPT !.paused = FALSE, !.resumeFrom = 0]
                  /\ b = [a EXCEPT !.to = -1]
  OBVIOUS
<1>2. /\ a \in Controls /\ a.stash = <<>> /\ b \in Controls
      /\ b.alive = p.io.alive /\ b.init = p.io.init /\ ~b.paused /\ b.stash = p.io.stash
  <2>1. Continuing(p.io, a, b)
    BY <1>1 DEF Continuing
  <2> QED BY <1>0, <2>1, GoesOn
<1>3. PICK c, d : c = [p.reqs EXCEPT ![cur] = StopLoader(@)] /\ d = [c EXCEPT ![cur] = DestroyLoader(@)]
  OBVIOUS
<1>4. c \in Seq(Loaders) /\ Len(c) = Len(p.reqs) /\ \E old : Stopped(p.reqs[cur], old) /\ Exchanged(p.reqs, d, cur, old)
  <2>1. Leaving(p.reqs, cur, c, d) /\ cur \in 1 .. Len(p.reqs)
    BY <1>3 DEF Leaving
  <2> QED BY <1>0, <2>1, LeftBehind
<1>5. PICK old : Stopped(p.reqs[cur], old) /\ Exchanged(p.reqs, d, cur, old)
  BY <1>4
<1>6. d \in Seq(Loaders) /\ Len(d) = cur /\ d[cur] = old /\ \A i \in 1 .. cur : i # cur => d[i] = p.reqs[i]
  BY <1>5 DEF Exchanged
<1>7. PICK fresh, e : fresh = [NewLoader EXCEPT !.bound = TRUE] /\ e = Append(d, fresh)
  OBVIOUS
<1>26. PICK from \in Int : from = p.io.resumeFrom
  BY <1>0 DEF Controls
<1>8. PICK f : f = [e EXCEPT ![Len(e)] = OpenLoader(@, from)]
  OBVIOUS
<1>9. /\ f \in Seq(Loaders) /\ Len(f) = cur + 1 /\ Asked(f[cur + 1])
      /\ \A i \in 1 .. cur : f[i] = d[i]
  <2>1. d \in Seq(Loaders)
    BY <1>6
  <2>2. /\ f \in Seq(Loaders) /\ Len(f) = Len(d) + 1 /\ Asked(f[Len(d) + 1])
        /\ \A i \in 1 .. Len(d) : f[i] = d[i]
    <3>1. SentAfter(d, f)
      BY <1>7, <1>8, <2>1, LoaderOpened
    <3> QED BY <3>1 DEF SentAfter
  <2>3. Len(d) = cur
    BY <1>6
  <2> QED BY <2>2, <2>3
<1>10. PICK y : y = InsertDiscontinuity(p.mux)
  OBVIOUS
<1>11. /\ y \in Muxes /\ y.out = p.mux.out /\ y.parsed = p.mux.parsed /\ y.demux = p.mux.demux
       /\ y.base = p.mux.base /\ Steadies(y)
       /\ \A t \in Types : /\ y.tracks[t].queue = p.mux.tracks[t].queue /\ y.tracks[t].stash = p.mux.tracks[t].stash
                           /\ y.tracks[t].meta = p.mux.tracks[t].meta
  BY <1>0, <1>10, DiscontinuityIs
<1>12. PICK stopped : stopped = [p EXCEPT !.io.paused = FALSE, !.io.resumeFrom = 0, !.reqs[cur] = StopLoader(@)]
  OBVIOUS
<1>13. stopped = [p EXCEPT !.io = a, !.reqs = c]
  BY <1>1, <1>3, <1>12 DEF Players, Controls
<1>14. PICK drop : drop = TRUE
  OBVIOUS
<1>15. FlushStash(stopped, drop) = stopped
  <2>1. stopped.io.stash = <<>>
    BY <1>0, <1>2, <1>13 DEF Players
  <2> QED BY <2>1 DEF FlushStash
<1>16. PICK flushed : flushed = [FlushStash(stopped, drop) EXCEPT !.reqs[cur] = DestroyLoader(@)]
  OBVIOUS
<1>17. flushed = [p EXCEPT !.io = a, !.reqs = d]
  BY <1>3, <1>13, <1>15, <1>16 DEF Players
<1>18. q = OnIOSeeked(OpenIO(CreateLoader(flushed), from))
  BY <1>26, <1>12, <1>14, <1>16 DEF ResumeIO, CurrentOf
<1>19. PICK g : g = CreateLoader(flushed)
  OBVIOUS
<1>20. g = [p EXCEPT !.io = a, !.reqs = e]
  BY <1>7, <1>17, <1>19 DEF CreateLoader, Players
<1>21. PICK h : h = OpenIO(g, from)
  OBVIOUS
<1>22. h = [p EXCEPT !.io = b, !.reqs = f]
  BY <1>1, <1>8, <1>20, <1>21 DEF OpenIO, CurrentOf, Players
<1>23. q = [p EXCEPT !.io = b, !.reqs = f, !.mux = y]
  BY <1>10, <1>18, <1>19, <1>21, <1>22 DEF OnIOSeeked, Players
<1>24. /\ q \in Players /\ q.io = b /\ q.reqs = f /\ q.mux = y /\ q.tasks = p.tasks /\ q.mse = p.mse
       /\ q.page = p.page
  BY <1>0, <1>2, <1>9, <1>11, <1>23 DEF Players
<1>25. TakenUp(p, q, old, f[cur + 1])
  <2>1. cur \in 1 .. cur
    OBVIOUS
  <2>2. q.reqs[cur] = old /\ \A n \in 1 .. cur : n # cur => q.reqs[n] = p.reqs[n]
    BY <1>6, <1>9, <1>24, <2>1
  <2>3. Len(q.reqs) = cur + 1 /\ q.reqs[cur + 1] = f[cur + 1]
    BY <1>9, <1>24
  <2> QED BY <1>2, <1>11, <1>24, <2>2, <2>3 DEF TakenUp
<1> QED BY <1>5, <1>9, <1>25

\* The new request starts the stream anew, behind the old ones.
LEMMA TakenUpKeeps ==
  ASSUME NEW p, NEW s, NEW l \in Nat, PInv(p, s, l), p.page.player, p.io.alive, p.io.paused,
         NEW q, NEW old, NEW loader, TakenUp(p, q, old, loader), Stopped(p.reqs[Len(p.reqs)], old), Asked(loader)
  PROVE  PInv(q, s, l)
<1>1. /\ p \in Players /\ Requests(p) /\ l <= Len(p.reqs) /\ p.mse.said = "nothing" /\ p.mux.out = <<>>
      /\ p.page.checker => p.page.player
      /\ Running(p, s, l) /\ Timed(p, s)
  BY DEF PInv
<1>2. PICK cur \in Nat : cur = Len(p.reqs)
  <2>1. p.reqs \in Seq(Loaders)
    BY <1>1 DEF Players
  <2> QED BY <2>1, LenProperties
<1>3. /\ q \in Players /\ q.tasks = p.tasks /\ q.mse = p.mse /\ q.page = p.page
      /\ q.io.alive = p.io.alive /\ q.io.init = p.io.init /\ ~q.io.paused /\ q.io.stash = p.io.stash
      /\ q.mux.out = p.mux.out /\ q.mux.parsed = p.mux.parsed /\ q.mux.demux = p.mux.demux
  BY DEF TakenUp
<1>4. \A t \in Types : /\ q.mux.tracks[t].queue = p.mux.tracks[t].queue
                       /\ q.mux.tracks[t].stash = p.mux.tracks[t].stash
                       /\ q.mux.tracks[t].meta = p.mux.tracks[t].meta
  BY DEF TakenUp
<1>5. /\ Len(q.reqs) = cur + 1 /\ q.reqs[cur] = old /\ q.reqs[cur + 1] = loader
      /\ \A n \in 1 .. cur : n # cur => q.reqs[n] = p.reqs[n]
  BY <1>2 DEF TakenUp
<1>6. p.io.stash = <<>> /\ (Waiting(p.reqs[cur]) => p.reqs[cur].abort)
  BY <1>1, <1>2 DEF Requests
<1>7. GivenUp(old)
  <2>1. /\ ~old.bound /\ old.status = "idle" /\ old.conn = p.reqs[cur].conn
        /\ p.reqs[cur].abort => old.abort
    BY <1>2 DEF Stopped
  <2> QED BY <1>6, <2>1 DEF GivenUp, Waiting, Working
<1>8. /\ loader.bound /\ loader.status = "connecting" /\ loader.conn = "asked" /\ loader.received = 0
      /\ Waiting(loader) /\ Working(loader)
  BY DEF Asked, Waiting, Working
<1>9. \A n \in 1 .. cur : GivenUp(q.reqs[n])
  <2>1. \A n \in 1 .. cur : n < cur => GivenUp(p.reqs[n])
    BY <1>1, <1>2 DEF Requests
  <2>2. \A n \in 1 .. cur : n = cur \/ (n # cur /\ n < cur)
    BY <1>2
  <2> QED BY <1>5, <1>7, <2>1, <2>2
<1>10. Requests(q)
  <2>1. \A n \in 1 .. cur + 1 : n = cur + 1 \/ n \in 1 .. cur
    BY <1>2
  <2>2. \A n \in 1 .. cur + 1 : n < cur + 1 => n \in 1 .. cur
    BY <1>2
  <2>3. \A n \in 1 .. cur + 1 : n < cur + 1 \/ ~q.io.alive => GivenUp(q.reqs[n])
    BY <1>3, <1>9, <2>2
  <2>4. \A n \in 1 .. cur + 1 : Working(q.reqs[n]) => Waiting(q.reqs[n])
    <3>1. \A n \in 1 .. cur : ~Working(q.reqs[n])
      BY <1>9 DEF GivenUp
    <3> QED BY <1>5, <1>8, <2>1, <3>1
  <2>5. cur + 1 # 0
    BY <1>2
  <2>6. q.page.player => ~q.page.timer
    BY <1>1, <1>3 DEF Requests
  <2> QED BY <1>3, <1>5, <1>8, <2>3, <2>4, <2>5, <2>6 DEF Requests
<1>11. Order(q)
  <2>1. Headed(p.tasks, p.mux.tracks, Known(p.mse))
    BY <1>1 DEF Running, Order
  <2>2. \A t \in Types : Held(p.mux.tracks[t]) => Held(q.mux.tracks[t])
    BY <1>4 DEF Held
  <2> QED BY <1>3, <1>4, <2>1, <2>2 DEF Order, Headed
<1>12. ~q.mux.demux.first
  BY <1>1, <1>3 DEF Running, Beginning
<1>13. Beginning(q)
  <2>1. ~q.io.init
    BY <1>1, <1>3, <1>12 DEF Running, Beginning
  <2> QED BY <1>12, <2>1 DEF Beginning
<1>14. Resumed(q)
  BY <1>3, <1>5, <1>6, <1>8, <1>12 DEF Resumed
<1>15. l < cur + 1 /\ l <= cur + 1 /\ cur + 1 > l
  <2>1. PICK j \in Nat : j = l
    OBVIOUS
  <2>2. j <= cur
    BY <1>1, <1>2, <2>1
  <2>3. cur \in Nat
    BY <1>2
  <2>4. j < cur + 1 /\ j <= cur + 1 /\ cur + 1 > j
    BY <2>2, <2>3
  <2> QED BY <2>1, <2>4
<1>16. Reading(q, s, l)
  BY <1>1, <1>3, <1>5, <1>14, <1>15 DEF Reading, Running
<1>17. Resting(q.mux, s)
  <2>1. Resting(p.mux, s)
    BY <1>1 DEF Running
  <2>2. (AtRest(q.mux) <=> AtRest(p.mux)) /\ (NoFrames(q.mux) <=> NoFrames(p.mux))
        /\ (LastIsNone(q.mux, s) <=> LastIsNone(p.mux, s))
    BY <1>3, <1>4 DEF AtRest, NoFrames, LastIsNone
  <2> QED BY <1>3, <2>1, <2>2 DEF Resting
<1>18. Over(q, s, l)
  <2>1. Over(p, s, l)
    BY <1>1 DEF Running
  <2>2. Ending(q) <=> Ending(p)
    BY <1>3 DEF Ending
  <2>3. (Emptied(q.mux) <=> Emptied(p.mux)) /\ (LastIsNone(q.mux, s) <=> LastIsNone(p.mux, s))
    BY <1>3, <1>4 DEF Emptied, LastIsNone
  <2> QED BY <1>3, <1>5, <1>14, <1>15, <2>1, <2>2, <2>3 DEF Over
<1>20. Lined(q, s)
  <2>1. InLine(p.mse, p.tasks, p.mux, s)
    BY <1>1 DEF Running, Lined
  <2>2. \A t \in Types : /\ RestTags(p.tasks, q.mux, t) = RestTags(p.tasks, p.mux, t)
                         /\ RestInOrder(p.tasks, q.mux, t) <=> RestInOrder(p.tasks, p.mux, t)
    BY <1>3, <1>4 DEF RestTags, RestInOrder, MuxTags, MuxInOrder, Backlog
  <2>3. InLine(p.mse, p.tasks, q.mux, s)
    BY <1>3, <2>1, <2>2 DEF InLine, Placed
  <2> QED BY <1>3, <2>3 DEF Lined
<1>19. Running(q, s, l)
  BY <1>1, <1>3, <1>11, <1>13, <1>16, <1>17, <1>18, <1>20 DEF Running
<1>21. Timed(q, s)
  <2>1. q.mux.base = p.mux.base /\ Steadies(q.mux)
    BY DEF TakenUp
  <2>2. Clocks(q.mux) = Clocks(p.mux) /\ Early(q.mux)
    BY <1>1, <1>3, <2>1 DEF Clocks, Early, Timed
  <2>3. InTime(s, q.mux)
    <3>1. Clear(s, p.mux) /\ Stamps(s, p.mux) /\ (p.mux.base = Unset => Emptied(p.mux))
      BY <1>1 DEF Timed, InTime
    <3>2. Clear(s, q.mux)
      BY <1>3, <2>2, <3>1 DEF Clear
    <3>3. Stamps(s, q.mux)
      BY <1>4, <3>1 DEF Stamps, Backlog
    <3>4. q.mux.base = Unset => Emptied(q.mux)
      BY <1>4, <2>1, <3>1 DEF Emptied
    <3> QED BY <3>2, <3>3, <3>4 DEF InTime
  <2>4. Paced(q.mse, q.tasks, q.mux, s)
    BY <1>1, <1>3, <2>2 DEF Paced, Timed
  <2> QED BY <2>1, <2>2, <2>3, <2>4 DEF Timed
<1> QED BY <1>1, <1>3, <1>5, <1>10, <1>15, <1>19, <1>21 DEF PInv

\* The transmuxer is resumed, if it was paused.
LEMMA ResumeKeeps ==
  ASSUME NEW p, NEW s, NEW l \in Nat, PInv(p, s, l), p.page.player, NEW q, q = ResumeTransmuxing(p)
  PROVE  PInv(q, s, l)
<1>1. CASE p.io.alive /\ p.io.paused
  <2>1. q = ResumeIO(p)
    BY <1>1 DEF ResumeTransmuxing
  <2>2. p \in Players /\ p.reqs \in Seq(Loaders) /\ p.io.stash = <<>> /\ Len(p.reqs) # 0
    BY <1>1 DEF PInv, Requests, Players
  <2>3. PICK cur \in Nat : cur = Len(p.reqs)
    BY <2>2, LenProperties
  <2>4. cur \in 1 .. cur
    BY <2>2, <2>3
  <2>5. PICK old, loader : TakenUp(p, q, old, loader) /\ Stopped(p.reqs[cur], old) /\ Asked(loader)
    BY <2>1, <2>2, <2>3, <2>4, TakenUpIs
  <2> QED BY <1>1, <2>3, <2>5, TakenUpKeeps
<1>2. CASE ~(p.io.alive /\ p.io.paused)
  BY <1>2 DEF ResumeTransmuxing
<1> QED BY <1>1, <1>2

\* What the page looks at does not matter to the player.
Looked(p, q) ==
  /\ q \in Players /\ q.reqs = p.reqs /\ q.io = p.io /\ q.mux = p.mux /\ q.tasks = p.tasks /\ q.mse = p.mse
  /\ q.page.player = p.page.player /\ q.page.timer = p.page.timer
  /\ q.page.checker => p.page.checker

\* The head and the progress checker change and nothing else.
LEMMA LookedKeeps ==
  ASSUME NEW p, NEW s, NEW l, PInv(p, s, l), NEW q, Looked(p, q)
  PROVE  PInv(q, s, l)
<1>1. /\ p \in Players /\ Requests(p) /\ l <= Len(p.reqs) /\ p.mse.said = "nothing" /\ p.mux.out = <<>>
      /\ p.page.checker => p.page.player
      /\ p.page.player => Running(p, s, l)
      /\ Timed(p, s)
  BY DEF PInv
<1>2. /\ q \in Players /\ q.reqs = p.reqs /\ q.io = p.io /\ q.mux = p.mux /\ q.tasks = p.tasks /\ q.mse = p.mse
      /\ q.page.player = p.page.player /\ q.page.timer = p.page.timer
      /\ q.page.checker => p.page.checker
  BY DEF Looked
<1>3. Requests(q)
  BY <1>1, <1>2 DEF Requests
<1>4. ASSUME p.page.player PROVE Running(q, s, l)
  <2>1. Running(p, s, l)
    BY <1>1, <1>4
  <2>2. (Attending(q) <=> Attending(p)) /\ (Resumed(q) <=> Resumed(p)) /\ From(q) = From(p)
        /\ (Ending(q) <=> Ending(p))
    BY <1>2 DEF Attending, Resumed, From, Ending
  <2>3. Buffers(q.mse) /\ Order(q) /\ Resting(q.mux, s) /\ Beginning(q)
    BY <1>2, <2>1 DEF Running, Order, Beginning
  <2>4. Reading(q, s, l) /\ Over(q, s, l)
    BY <1>2, <2>1, <2>2 DEF Running, Reading, Over
  <2>5. Lined(q, s)
    BY <1>2, <2>1 DEF Running, Lined
  <2> QED BY <2>3, <2>4, <2>5 DEF Running
<1>5. Timed(q, s)
  <2>1. Hearing(q) => Hearing(p)
    BY <1>2 DEF Hearing
  <2> QED BY <1>1, <1>2, <2>1, TimedSame
<1> QED BY <1>1, <1>2, <1>3, <1>4, <1>5 DEF PInv

\* The page stops looking.
LEMMA UncheckedIs ==
  ASSUME NEW p \in Players, NEW q, q = [p EXCEPT !.page.checker = FALSE]
  PROVE  Looked(p, q) /\ ~q.page.checker
<1>1. p.page \in Pages
  BY DEF Players
<1>2. PICK k : k = [p.page EXCEPT !.checker = FALSE]
  OBVIOUS
<1>3. k \in Pages /\ k.player = p.page.player /\ k.timer = p.page.timer /\ ~k.checker
  BY <1>1, <1>2 DEF Pages
<1>4. q = [p EXCEPT !.page = k]
  BY <1>2 DEF Players
<1> QED BY <1>3, <1>4 DEF Looked, Players

\* The page moves the picture.
LEMMA MovedIs ==
  ASSUME NEW p \in Players, NEW now \in Int, NEW q, q = [p EXCEPT !.head = now]
  PROVE  Looked(p, q)
BY DEF Looked, Players

\* There is room again.
LEMMA ResumeLoadingKeeps ==
  ASSUME NEW p, NEW s, NEW l \in Nat, PInv(p, s, l), p.page.player, NEW q, q = ResumeLoading(p)
  PROVE  PInv(q, s, l)
<1>1. PICK u : u = [p EXCEPT !.page.checker = FALSE]
  OBVIOUS
<1>2. p \in Players
  BY DEF PInv
<1>3. Looked(p, u)
  BY <1>1, <1>2, UncheckedIs
<1>4. PInv(u, s, l) /\ u.page.player
  <2>1. u.page.player
    BY <1>3 DEF Looked
  <2> QED BY <1>3, <2>1, LookedKeeps
<1>5. q = ResumeTransmuxing(u)
  BY <1>1 DEF ResumeLoading
<1> QED BY <1>4, <1>5, ResumeKeeps

\* The smaller of two integers is an integer.
LEMMA MinPair ==
  ASSUME NEW a \in Int, NEW b \in Int
  PROVE  Min({a, b}) \in Int
<1>1. \E x \in {a, b} : \A y \in {a, b} : x <= y
  <2>1. CASE a <= b
    BY <2>1
  <2>2. CASE ~(a <= b)
    <3>1. b <= a /\ b <= b
      BY <2>2
    <3> QED BY <3>1
  <2> QED BY <2>1, <2>2
<1>2. Min({a, b}) \in {a, b}
  BY <1>1 DEF Min
<1> QED BY <1>2

\* There are two types at most.
LEMMA TwoAtMost ==
  ASSUME NEW f \in [Types -> Int], NEW T \in SUBSET Types, T # {}
  PROVE  \E a, b \in Int : {f[t] : t \in T} = {a, b}
<1>1. T = {"video"} \/ T = {"audio"} \/ T = {"video", "audio"}
  BY TypesAre
<1>2. f["video"] \in Int /\ f["audio"] \in Int
  BY TypesAre
<1>3. CASE T = {"video"}
  <2>1. {f[t] : t \in T} = {f["video"], f["video"]}
    BY <1>3
  <2> QED BY <1>2, <2>1
<1>4. CASE T = {"audio"}
  <2>1. {f[t] : t \in T} = {f["audio"], f["audio"]}
    BY <1>4
  <2> QED BY <1>2, <2>1
<1>5. CASE T = {"video", "audio"}
  <2>1. {f[t] : t \in T} = {f["video"], f["audio"]}
    BY <1>5
  <2> QED BY <1>2, <2>1
<1> QED BY <1>1, <1>3, <1>4, <1>5

\* What the media element has buffered.
LEMMA BufferedIs ==
  ASSUME mse \in Controllers
  PROVE  Buffered \in Ranges /\ (Buffered # NoRange => \E t \in Types : mse.made[t])
<1>1. PICK held \in [Types -> Ranges] : held = mse.held
  BY DEF Controllers
<1>2. PICK made : made = {t \in Types : mse.made[t]}
  OBVIOUS
<1>3. CASE made = {}
  <2>1. Buffered = NoRange
    BY <1>2, <1>3 DEF Buffered
  <2> QED BY <2>1 DEF NoRange, Ranges
<1>4. CASE made # {}
  <2>1. made \in SUBSET Types
    BY <1>2
  <2>2. PICK f \in [Types -> Int], g \in [Types -> Int] :
           \A t \in Types : f[t] = held[t].from /\ g[t] = held[t].to
    <3>1. \A t \in Types : held[t].from \in Int /\ held[t].to \in Int
      BY <1>1 DEF Ranges
    <3>2. /\ [t \in Types |-> held[t].from] \in [Types -> Int]
          /\ [t \in Types |-> held[t].to] \in [Types -> Int]
      BY <3>1
    <3> QED BY <3>2
  <2>3. PICK a \in Int, b \in Int : {f[t] : t \in made} = {a, b}
    BY <1>4, <2>1, TwoAtMost
  <2>4. PICK c \in Int, d \in Int : {g[t] : t \in made} = {c, d}
    BY <1>4, <2>1, TwoAtMost
  <2>5. {mse.held[t].from : t \in made} = {a, b} /\ {mse.held[t].to : t \in made} = {c, d}
    <3>1. \A t \in made : f[t] = mse.held[t].from /\ g[t] = mse.held[t].to
      BY <1>1, <2>1, <2>2
    <3>2. {mse.held[t].from : t \in made} = {f[t] : t \in made}
      BY <3>1
    <3>3. {mse.held[t].to : t \in made} = {g[t] : t \in made}
      BY <3>1
    <3> QED BY <2>3, <2>4, <3>2, <3>3
  <2>6. PICK m \in Int, n \in Int : m = Max({a, b}) /\ n = Min({c, d})
    BY MaxPair, MinPair
  <2>7. [from |-> m, to |-> n] \in Ranges /\ NoRange \in Ranges
    BY DEF Ranges, NoRange
  <2>8. Buffered = NoRange \/ Buffered = [from |-> m, to |-> n]
    BY <1>2, <2>5, <2>6, Zenon DEF Buffered
  <2>9. \E t \in Types : mse.made[t]
    BY <1>2, <1>4
  <2> QED BY <2>7, <2>8, <2>9
<1> QED BY <1>3, <1>4

\* Where something is buffered the first tag has been read.
LEMMA MadeLate ==
  ASSUME NEW p, NEW s, NEW l, PInv(p, s, l), p.page.player, NEW t \in Types, p.mse.made[t]
  PROVE  ~p.mux.demux.first
BY DEF PInv, Running, Beginning, Blank, Expected

\* The picture is moved.
LEMMA SeekKeeps ==
  ASSUME Buffered \in Ranges, NEW p, NEW s, NEW l \in Nat, PInv(p, s, l), p.page.player, ~p.mux.demux.first,
         NEW target \in Int, NEW q, q = InternalSeek(p, target)
  PROVE  PInv(q, s, l)
<1>0. p \in Players /\ p.mse \in Controllers /\ Buffers(p.mse) /\ p.mse.said = "nothing" /\ Buffered.from \in Int
  BY DEF PInv, Running, Players, Ranges
<1>1. CASE q = [p EXCEPT !.head = Buffered.from]
  <2>1. Looked(p, q)
    BY <1>0, <1>1, MovedIs
  <2> QED BY <2>1, LookedKeeps
<1>2. CASE q = [p EXCEPT !.mse = SeekBuffers(@), !.page.checker = FALSE]
  <2>1. PICK r : r = SeekBuffers(p.mse)
    OBVIOUS
  <2>2. Follows(p.mse, r) /\ r.said = "nothing"
    <3>1. p.mse.said # "error"
      BY <1>0
    <3> QED BY <1>0, <2>1, <3>1, SeekFollows
  <2>3. PICK v : v = [p EXCEPT !.mse = r]
    OBVIOUS
  <2>4. v.mse = r /\ v.page = p.page
    BY <1>0, <2>3 DEF Players
  <2>5. MseSays(v) = v
    BY <2>2, <2>4 DEF MseSays
  <2>6. MseSays([p EXCEPT !.mse = r]) = v
    BY <2>3, <2>5
  <2>11. Feeds(p.mse, r)
    BY <1>0, <2>1, SeekTrail
  <2>7. PInv(v, s, l)
    BY <2>2, <2>6, <2>11, AnsweredKeeps
  <2>8. q = [v EXCEPT !.page.checker = FALSE]
    BY <1>0, <1>2, <2>1, <2>3 DEF Players
  <2>9. v \in Players
    BY <2>7 DEF PInv
  <2>10. Looked(v, q)
    BY <2>8, <2>9, UncheckedIs
  <2> QED BY <2>7, <2>10, LookedKeeps
<1>3. PICK there : there = [p EXCEPT !.head = target]
  OBVIOUS
<1>4. Looked(p, there)
  BY <1>0, <1>3, MovedIs
<1>5. PInv(there, s, l) /\ there.page.player
  <2>1. there.page.player
    BY <1>4 DEF Looked
  <2> QED BY <1>4, <2>1, LookedKeeps
<1>6. CASE q = there
  BY <1>5, <1>6
<1>7. CASE q = ResumeLoading(there)
  BY <1>5, <1>7, ResumeLoadingKeeps
<1> QED BY <1>1, <1>2, <1>3, <1>6, <1>7 DEF InternalSeek

-----------------------------------------------------------------------------
(* The steps.                                                                *)

\* The invariant of the player in the page, in one word.
Good == PInv(Player, stream, loads) /\ stream \in Streams /\ loads \in Nat /\ faults \in Nat

PlayerFields(p) ==
  /\ p.reqs = reqs /\ p.io = io /\ p.mux = mux /\ p.tasks = tasks /\ p.mse = mse /\ p.page = page /\ p.head = head

\* The record of the player has the variables as its fields.
LEMMA FieldsAre == PlayerFields(Player)
BY DEF PlayerFields, Player

\* The invariant in terms of the record.
LEMMA GoodIs == IInv <=> Good
<1>1. /\ Player.reqs = reqs /\ Player.io = io /\ Player.mux = mux /\ Player.tasks = tasks
      /\ Player.mse = mse /\ Player.page = page
  BY FieldsAre DEF PlayerFields
<1>2. PICK p : p = Player
  OBVIOUS
<1>3. p.reqs = reqs /\ p.mux = mux /\ p.mse = mse /\ p.page = page
  BY <1>1, <1>2
<1>4. Good <=> /\ p \in Players /\ Requests(p) /\ loads <= Len(reqs) /\ mse.said = "nothing" /\ mux.out = <<>>
               /\ page.checker => page.player
               /\ Timed(p, stream)
               /\ page.player => Running(p, stream, loads)
               /\ stream \in Streams /\ loads \in Nat /\ faults \in Nat
  BY <1>2, <1>3 DEF Good, PInv
<1>5. IInv <=> /\ p \in Players /\ Requests(p) /\ loads <= Len(reqs) /\ mse.said = "nothing" /\ mux.out = <<>>
               /\ page.checker => page.player
               /\ Timed(p, stream)
               /\ page.player => Running(p, stream, loads)
               /\ stream \in Streams /\ loads \in Nat /\ faults \in Nat
  BY <1>2 DEF IInv, TypeInv, Current
<1> QED BY <1>4, <1>5

\* The new state is that of the player computed.
LEMMA BecomesIs ==
  ASSUME NEW q \in Players, Becomes(q)
  PROVE  Player' = q
<1>1. /\ reqs' = q.reqs /\ io' = q.io /\ mux' = q.mux /\ tasks' = q.tasks
      /\ mse' = q.mse /\ page' = q.page /\ head' = q.head
  BY DEF Becomes
<1>2. q = [reqs |-> q.reqs, io |-> q.io, mux |-> q.mux, tasks |-> q.tasks, mse |-> q.mse, page |-> q.page,
           head |-> q.head]
  BY DEF Players
<1> QED BY <1>1, <1>2 DEF Player

\* A step is judged by the record it makes.
LEMMA StepKeeps ==
  ASSUME Good, NEW q, Becomes(q), PInv(q, stream, loads'), stream' = stream, loads' \in Nat, faults' \in Nat
  PROVE  Good'
<1>1. q \in Players
  BY DEF PInv
<1>2. Player' = q
  BY <1>1, BecomesIs
<1>3. PInv(Player', stream', loads')
  BY <1>2
<1>4. stream' \in Streams
  BY DEF Good
<1> QED BY <1>3, <1>4 DEF Good

\* What the assumptions say of the stream.
LEMMA StreamIs ==
  ASSUME Good
  PROVE  stream \in Seq(Tags) /\ Sound(stream)
BY StreamsAssumption DEF Good, Sound

\* A loader of the player changes.
LEMMA WithIs ==
  ASSUME NEW n, NEW loader, NEW p, p = Player
  PROVE  With(n, loader) = [p EXCEPT !.reqs[n] = loader]
BY DEF With

\* What is known of the player and of one of its requests.
Requested(p, n, r) ==
  /\ PInv(p, stream, loads) /\ p \in Players /\ r \in Loaders /\ r = p.reqs[n] /\ n \in 1 .. Len(p.reqs)
  /\ Waiting(r) => /\ ~r.abort => r.bound /\ ~p.io.paused
                   /\ r.bound => n = Len(p.reqs) /\ p.io.alive /\ p.page.player

\* What the invariant says of any one request.
LEMMA RequestedIs ==
  ASSUME Good, NEW n \in 1 .. Current, NEW p, p = Player, NEW r, r = reqs[n]
  PROVE  Requested(p, n, r)
<1>1. PInv(p, stream, loads) /\ p.reqs = reqs /\ p.io = io
  BY FieldsAre DEF Good, PlayerFields
<1>2. p \in Players /\ p.reqs \in Seq(Loaders) /\ Requests(p)
  BY <1>1 DEF PInv, Players
<1>3. n \in 1 .. Len(p.reqs) /\ r = p.reqs[n]
  BY <1>1 DEF Current
<1>4. r \in Loaders
  BY <1>2, <1>3, ElementOfSeq
<1>5. PICK cur \in Nat : cur = Len(p.reqs)
  BY <1>2, LenProperties
<1>6. n < cur \/ n = cur
  BY <1>3, <1>5
<1>7. n < cur \/ ~p.io.alive => GivenUp(r)
  BY <1>2, <1>3, <1>5 DEF Requests
<1>8. Waiting(r) /\ ~r.abort => n = cur /\ p.io.alive
  BY <1>6, <1>7 DEF GivenUp
<1>9. Waiting(r) /\ r.bound => n = cur /\ p.io.alive
  BY <1>6, <1>7 DEF GivenUp
<1>10. p.io.alive => p.page.player /\ p.reqs[cur].bound /\ (p.io.paused => (Waiting(p.reqs[cur]) => p.reqs[cur].abort))
  BY <1>2, <1>5 DEF Requests
<1> QED BY <1>1, <1>2, <1>3, <1>4, <1>5, <1>8, <1>9, <1>10 DEF Requested, Waiting

\* A request has come to an end that nobody hears of.
LEMMA EndsUnheard ==
  ASSUME Good, NEW n \in 1 .. Current, NEW loader, Gone(reqs[n], loader), Becomes(With(n, loader)),
         UNCHANGED <<stream, loads>>, faults' \in Nat
  PROVE  Good'
<1>1. PICK p : p = Player
  OBVIOUS
<1>2. PICK q : q = With(n, loader)
  OBVIOUS
<1>3. q = [p EXCEPT !.reqs[n] = loader]
  BY <1>1, <1>2, WithIs
<1>4. Requested(p, n, reqs[n])
  BY <1>1, RequestedIs
<1>5. PInv(p, stream, loads) /\ n \in 1 .. Len(p.reqs) /\ reqs[n] = p.reqs[n]
  BY <1>4 DEF Requested
<1>6. PInv(q, stream, loads)
  BY <1>3, <1>5, EndedKeeps
<1>7. loads \in Nat
  BY DEF Good
<1> QED BY <1>2, <1>6, <1>7, StepKeeps

\* The player's own request has come to an end, and the player hears of it.
Listening(p, cur, r) ==
  /\ PInv(p, stream, loads) /\ p.page.player /\ p.tasks = <<>> /\ cur = Len(p.reqs) /\ p.io.alive
  /\ r = p.reqs[cur] /\ Waiting(r) /\ r \in Loaders /\ (~r.abort => ~p.io.paused)

\* A loader that is bound and waits is the current one's.
LEMMA ListeningIs ==
  ASSUME Good, tasks = <<>>, NEW n \in 1 .. Current, NEW r, r = reqs[n], Waiting(r), r.bound, NEW p, p = Player
  PROVE  Listening(p, n, r)
<1>1. Requested(p, n, r)
  BY RequestedIs
<1>2. p.tasks = <<>>
  BY FieldsAre DEF PlayerFields
<1> QED BY <1>1, <1>2 DEF Requested, Listening

\* It has broken.
LEMMA BreaksKeeps ==
  ASSUME Good, tasks = <<>>, NEW n \in 1 .. Current, Waiting(reqs[n]), NEW loader, Gone(reqs[n], loader),
         NEW q, q = IF loader.bound THEN LoaderError(With(n, loader)) ELSE With(n, loader),
         Becomes(q), UNCHANGED <<stream, loads>>, faults' \in Nat
  PROVE  Good'
<1>1. CASE ~loader.bound
  BY <1>1, EndsUnheard
<1>2. CASE loader.bound
  <2>1. PICK p : p = Player
    OBVIOUS
  <2>2. reqs[n].bound
    BY <1>2 DEF Gone
  <2>3. Listening(p, n, reqs[n])
    BY <2>1, <2>2, ListeningIs
  <2>4. PICK u : u = With(n, loader)
    OBVIOUS
  <2>5. u = [p EXCEPT !.reqs[n] = loader]
    BY <2>1, <2>4, WithIs
  <2>6. q = LoaderError(u)
    BY <1>2, <2>4
  <2>7. stream \in Seq(Tags) /\ Sound(stream)
    BY StreamIs
  <2>8. /\ PInv(p, stream, loads) /\ p.page.player /\ p.tasks = <<>> /\ n = Len(p.reqs) /\ p.io.alive
        /\ Waiting(p.reqs[n]) /\ Gone(p.reqs[n], loader)
    BY <2>3 DEF Listening
  <2>9. PInv(q, stream, loads)
    BY <2>5, <2>6, <2>7, <2>8, FailsKeeps
  <2>10. loads \in Nat
    BY DEF Good
  <2> QED BY <2>9, <2>10, StepKeeps
<1> QED BY <1>1, <1>2

\* The server has ended it.
LEMMA EndsKeeps ==
  ASSUME Good, tasks = <<>>, NEW n \in 1 .. Current, Waiting(reqs[n]), NEW loader, Gone(reqs[n], loader),
         NEW q, q = IF loader.bound THEN LoaderComplete(With(n, loader)) ELSE With(n, loader),
         Becomes(q), UNCHANGED <<stream, loads>>, faults' \in Nat
  PROVE  Good'
<1>1. CASE ~loader.bound
  BY <1>1, EndsUnheard
<1>2. CASE loader.bound
  <2>1. PICK p : p = Player
    OBVIOUS
  <2>2. reqs[n].bound
    BY <1>2 DEF Gone
  <2>3. Listening(p, n, reqs[n])
    BY <2>1, <2>2, ListeningIs
  <2>4. PICK u : u = With(n, loader)
    OBVIOUS
  <2>5. u = [p EXCEPT !.reqs[n] = loader]
    BY <2>1, <2>4, WithIs
  <2>6. q = LoaderComplete(u)
    BY <1>2, <2>4
  <2>7. stream \in Seq(Tags) /\ Sound(stream)
    BY StreamIs
  <2>8. /\ PInv(p, stream, loads) /\ p.page.player /\ p.tasks = <<>> /\ n = Len(p.reqs) /\ p.io.alive
        /\ Waiting(p.reqs[n]) /\ Gone(p.reqs[n], loader)
    BY <2>3 DEF Listening
  <2>9. PInv(q, stream, loads)
    BY <2>5, <2>6, <2>7, <2>8, CompletesKeeps
  <2>10. loads \in Nat
    BY DEF Good
  <2> QED BY <2>9, <2>10, StepKeeps
<1> QED BY <1>1, <1>2

\* What the loaders become.
LEMMA LoaderEnds ==
  ASSUME NEW r \in Loaders, NEW status \in {"idle", "complete", "error"}, NEW abort \in {r.abort, FALSE},
         NEW conn \in {"unread", "over"}, NEW q,
         q = [r EXCEPT !.abort = abort, !.status = status, !.conn = conn] \/ q = [r EXCEPT !.status = status, !.conn = conn]
  PROVE  Gone(r, q)
<1>1. /\ r.abort \in BOOLEAN /\ r.bound \in BOOLEAN /\ r.from \in Int /\ r.received \in Nat
      /\ abort \in BOOLEAN
  BY DEF Loaders
<1>2. \/ q = [status |-> status, abort |-> abort, bound |-> r.bound, conn |-> conn, from |-> r.from, received |-> r.received]
      \/ q = [status |-> status, abort |-> r.abort, bound |-> r.bound, conn |-> conn, from |-> r.from, received |-> r.received]
  BY DEF Loaders
<1>3. q \in Loaders /\ q.bound = r.bound /\ q.status = status /\ q.conn = conn
  BY <1>1, <1>2 DEF Loaders
<1> QED BY <1>3 DEF Gone, Waiting, Working

\* The counters are naturals.
LEMMA FaultsNat ==
  ASSUME Good
  PROVE  faults \in Nat /\ faults + 1 \in Nat /\ loads \in Nat /\ loads + 1 \in Nat
BY DEF Good

\* The request of a player, one of its own loaders.
LEMMA LoaderOf ==
  ASSUME Good, NEW n \in 1 .. Current
  PROVE  reqs[n] \in Loaders
<1>1. PICK p : p = Player
  OBVIOUS
<1>2. Requested(p, n, reqs[n])
  BY <1>1, RequestedIs
<1> QED BY <1>2 DEF Requested

\* The response begins.
LEMMA FetchAnswersKeeps ==
  ASSUME Good, NEW n \in 1 .. Current, FetchAnswers(n)
  PROVE  Good'
<1>1. reqs[n].conn = "asked" /\ UNCHANGED <<stream, loads, faults>>
  BY DEF FetchAnswers
<1>2. PICK r \in Loaders : r = reqs[n]
  BY LoaderOf
<1>3. faults' \in Nat /\ loads' \in Nat /\ UNCHANGED <<stream, loads>>
  BY <1>1, FaultsNat
<1>4. CASE r.abort
  <2>1. PICK abort, loader : abort = FALSE /\ loader = [r EXCEPT !.abort = abort, !.status = "idle", !.conn = "unread"]
    OBVIOUS
  <2>2. Gone(r, loader)
    <3>1. abort \in {r.abort, FALSE} /\ "idle" \in {"idle", "complete", "error"} /\ "unread" \in {"unread", "over"}
      BY <2>1
    <3> QED BY <2>1, <3>1, LoaderEnds
  <2>3. Becomes(With(n, loader))
    BY <1>2, <1>4, <2>1 DEF FetchAnswers
  <2> QED BY <1>2, <1>3, <2>2, <2>3, EndsUnheard
<1>5. CASE ~r.abort
  <2>1. PICK p, q, loader : p = Player /\ loader = [r EXCEPT !.conn = "open"] /\ q = With(n, loader)
    OBVIOUS
  <2>2. Becomes(q)
    BY <1>2, <1>5, <2>1 DEF FetchAnswers
  <2>3. Requested(p, n, r)
    BY <1>2, <2>1, RequestedIs
  <2>4. q = [p EXCEPT !.reqs[n] = [p.reqs[n] EXCEPT !.conn = "open"]]
    <3>1. q = [p EXCEPT !.reqs[n] = loader]
      BY <2>1, WithIs
    <3>2. r = p.reqs[n]
      BY <2>3 DEF Requested
    <3> QED BY <2>1, <3>1, <3>2
  <2>5. PInv(p, stream, loads) /\ n \in 1 .. Len(p.reqs) /\ p.reqs[n].conn = "asked" /\ ~p.reqs[n].abort
    BY <1>1, <1>2, <1>5, <2>3 DEF Requested
  <2>6. PInv(q, stream, loads)
    BY <2>4, <2>5, AnswerKeeps
  <2> QED BY <1>3, <2>2, <2>6, StepKeeps
<1> QED BY <1>4, <1>5

\* The loader of a request that fails.
LEMMA FailedIs ==
  ASSUME Good, NEW n \in 1 .. Current
  PROVE  Gone(reqs[n], Failed(n))
<1>1. PICK r \in Loaders : r = reqs[n]
  BY LoaderOf
<1>2. PICK loader : loader = Failed(n)
  OBVIOUS
<1>3. loader = [r EXCEPT !.status = "error", !.conn = "over"]
  BY <1>1, <1>2 DEF Failed
<1>4. PICK abort : abort = FALSE /\ abort \in {r.abort, FALSE}
  OBVIOUS
<1>5. "error" \in {"idle", "complete", "error"} /\ "over" \in {"unread", "over"}
  OBVIOUS
<1> QED BY <1>1, <1>2, <1>3, <1>4, <1>5, LoaderEnds

\* There is no such stream, or the connection breaks.
LEMMA FaultKeeps ==
  ASSUME Good, tasks = <<>>, NEW n \in 1 .. Current, FetchFails(n) \/ ConnectionBreaks(n)
  PROVE  Good'
<1>1. PICK loader : loader = Failed(n)
  OBVIOUS
<1>2. reqs[n].conn \in {"asked", "open"} /\ faults' = faults + 1
  BY DEF FetchFails, ConnectionBreaks
<1>3. Reports(n, loader, LoaderError(With(n, loader)))
  BY <1>1 DEF FetchFails, ConnectionBreaks
<1>4. PICK q : q = IF loader.bound THEN LoaderError(With(n, loader)) ELSE With(n, loader)
  OBVIOUS
<1>5. Becomes(q) /\ UNCHANGED <<stream, loads>>
  BY <1>3, <1>4 DEF Reports
<1>6. Gone(reqs[n], loader) /\ Waiting(reqs[n]) /\ faults' \in Nat
  BY <1>1, <1>2, FailedIs, FaultsNat DEF Waiting
<1> QED BY <1>4, <1>5, <1>6, BreaksKeeps

\* The response ends.
LEMMA ResponseEndsKeeps ==
  ASSUME Good, tasks = <<>>, NEW n \in 1 .. Current, ResponseEnds(n)
  PROVE  Good'
<1>1. PICK r \in Loaders : r = reqs[n]
  BY LoaderOf
<1>2. PICK status \in {"idle", "complete", "error"} : status = IF io.init THEN "error" ELSE "complete"
  OBVIOUS
<1>3. PICK loader : loader = [r EXCEPT !.status = status, !.conn = "over"]
  OBVIOUS
<1>4. loader = [reqs[n] EXCEPT !.status = IF io.init THEN "error" ELSE "complete", !.conn = "over"]
  BY <1>1, <1>2, <1>3
<1>5. reqs[n].conn = "open" /\ faults' = faults /\ Reports(n, loader, LoaderComplete(With(n, loader)))
  BY <1>4 DEF ResponseEnds
<1>6. PICK q : q = IF loader.bound THEN LoaderComplete(With(n, loader)) ELSE With(n, loader)
  OBVIOUS
<1>7. Becomes(q) /\ UNCHANGED <<stream, loads>>
  BY <1>5, <1>6 DEF Reports
<1>8. Gone(r, loader)
  <2>1. PICK abort : abort = FALSE /\ abort \in {r.abort, FALSE}
    OBVIOUS
  <2>2. "over" \in {"unread", "over"}
    OBVIOUS
  <2> QED BY <1>3, <2>1, <2>2, LoaderEnds
<1>9. Waiting(reqs[n]) /\ faults' \in Nat /\ Gone(reqs[n], loader)
  BY <1>1, <1>5, <1>8, FaultsNat DEF Waiting
<1> QED BY <1>6, <1>7, <1>9, EndsKeeps

\* A chunk arrives.
LEMMA ChunkArrivesKeeps ==
  ASSUME Good, tasks = <<>>, NEW n \in 1 .. Current, NEW size \in Nat, size # 0, ChunkArrives(n, size)
  PROVE  Good'
<1>1. PICK r \in Loaders : r = reqs[n]
  BY LoaderOf
<1>2. PICK p : p = Player
  OBVIOUS
<1>3. r.conn = "open" /\ r.received + size <= Len(Units(stream)) /\ faults' = faults /\ Waiting(r)
  BY <1>1 DEF ChunkArrives, Waiting
<1>4. Requested(p, n, r)
  BY <1>1, <1>2, RequestedIs
<1>5. faults' \in Nat /\ loads \in Nat
  BY <1>3, FaultsNat
<1>6. CASE r.abort
  <2>1. PICK abort, loader : abort = FALSE /\ loader = [r EXCEPT !.abort = abort, !.status = "complete", !.conn = "over"]
    OBVIOUS
  <2>2. Gone(r, loader)
    <3>1. abort \in {r.abort, FALSE} /\ "complete" \in {"idle", "complete", "error"} /\ "over" \in {"unread", "over"}
      BY <2>1
    <3> QED BY <2>1, <3>1, LoaderEnds
  <2>3. Reports(n, loader, With(n, loader))
    BY <1>1, <1>6, <2>1 DEF ChunkArrives
  <2>4. Becomes(With(n, loader)) /\ UNCHANGED <<stream, loads>>
    BY <2>3 DEF Reports
  <2> QED BY <1>1, <1>5, <2>2, <2>4, EndsUnheard
<1>7. CASE ~r.abort
  <2>1. PICK loader : loader = [r EXCEPT !.status = "buffering", !.received = @ + size]
    OBVIOUS
  <2>2. PICK u : u = With(n, loader)
    OBVIOUS
  <2>3. PICK q : q = LoaderChunkArrival(u, SubSeq(Units(stream), r.received + 1, r.received + size), r.from + r.received)
    OBVIOUS
  <2>4. Reports(n, loader, q)
    BY <1>1, <1>7, <2>1, <2>2, <2>3 DEF ChunkArrives
  <2>5. r.bound /\ ~p.io.paused
    BY <1>3, <1>4, <1>7 DEF Requested
  <2>6. loader.bound
    BY <2>1, <2>5 DEF Loaders
  <2>7. Becomes(q) /\ UNCHANGED <<stream, loads>>
    BY <2>4, <2>6 DEF Reports
  <2>8. u = [p EXCEPT !.reqs[n] = loader]
    BY <1>2, <2>2, WithIs
  <2>9. Listening(p, n, r)
    BY <1>1, <1>2, <1>3, <2>5, ListeningIs
  <2>10. /\ PInv(p, stream, loads) /\ p.page.player /\ p.tasks = <<>> /\ n = Len(p.reqs) /\ p.io.alive
         /\ r = p.reqs[n]
    BY <2>9 DEF Listening
  <2>11. stream \in Seq(Tags) /\ Sound(stream)
    BY StreamIs
  <2>12. PInv(q, stream, loads)
    BY <1>3, <2>1, <2>3, <2>5, <2>8, <2>10, <2>11, ReadKeeps
  <2> QED BY <1>5, <2>7, <2>12, StepKeeps
<1> QED BY <1>6, <1>7

\* The network.
LEMMA NetworkKeeps ==
  ASSUME Good, tasks = <<>>, NEW n \in 1 .. Current, Network(n)
  PROVE  Good'
<1>1. CASE FetchAnswers(n)
  BY <1>1, FetchAnswersKeeps
<1>2. CASE FetchFails(n) \/ ConnectionBreaks(n)
  BY <1>2, FaultKeeps
<1>3. CASE ResponseEnds(n)
  BY <1>3, ResponseEndsKeeps
<1>4. ASSUME NEW size \in FirstSizes \cup ChunkSizes, ChunkArrives(n, size) PROVE Good'
  <2>1. size \in Nat /\ size # 0
    BY PlayerAssumption
  <2> QED BY <1>4, <2>1, ChunkArrivesKeeps
<1> QED BY <1>1, <1>2, <1>3, <1>4 DEF Network

\* What the controller has answered the browser.
LEMMA AnswersKeeps ==
  ASSUME Good, page.player, NEW r, Follows(mse, r), Feeds(mse, r), mux.demux.first => Blank(r) /\ r.said # "full", NEW o, Answers(r, o)
  PROVE  Good'
<1>1. PICK p : p = Player
  OBVIOUS
<1>2. PInv(p, stream, loads) /\ p.page = page /\ p.mse = mse /\ p.mux = mux
  BY <1>1, FieldsAre DEF Good, PlayerFields
<1>3. PICK q : q = MseSays([p EXCEPT !.mse = r])
  OBVIOUS
<1>4. Becomes(q) /\ UNCHANGED <<stream, loads>> /\ faults' = faults + FaultsOf(o)
  BY <1>1, <1>3 DEF Answers
<1>5. p.page.player /\ Follows(p.mse, r) /\ Feeds(p.mse, r) /\ (p.mux.demux.first => Blank(r) /\ r.said # "full")
  BY <1>2
<1>6. PInv(q, stream, loads)
  BY <1>2, <1>3, <1>5, AnsweredKeeps
<1>7. loads \in Nat /\ faults + FaultsOf(o) \in Nat
  <2>1. FaultsOf(o) = 0 \/ FaultsOf(o) = 1
    BY Zenon DEF FaultsOf
  <2>2. faults \in Nat /\ loads \in Nat
    BY FaultsNat
  <2> QED BY <2>1, <2>2
<1> QED BY <1>4, <1>6, <1>7, StepKeeps

\* What holds of the controller.
LEMMA ControllerIs ==
  ASSUME Good, page.player
  PROVE  /\ mse \in Controllers /\ Buffers(mse) /\ mse.said # "error"
         /\ mux.demux.first => Blank(mse)
         /\ mse.said = "nothing" /\ Buffered \in Ranges
<1>1. PICK p : p = Player
  OBVIOUS
<1>2. PInv(p, stream, loads) /\ p.page = page /\ p.mse = mse /\ p.mux = mux
  BY <1>1, FieldsAre DEF Good, PlayerFields
<1>3. p \in Players /\ p.mse.said = "nothing" /\ Running(p, stream, loads)
  BY <1>2 DEF PInv
<1>4. Buffers(mse) /\ (mux.demux.first => Blank(mse))
  BY <1>2, <1>3 DEF Running, Beginning
<1>5. mse \in Controllers
  BY <1>2, <1>3 DEF Players
<1>6. Buffered \in Ranges
  BY <1>5, BufferedIs
<1> QED BY <1>2, <1>3, <1>4, <1>5, <1>6

\* A SourceBuffer that has been made.
LEMMA NotFirst ==
  ASSUME Good, page.player, NEW t \in Types, mse.made[t]
  PROVE  ~mux.demux.first
BY ControllerIs DEF Blank, Expected

\* SourceOpen keeps the invariant: _onSourceOpen takes up what has waited for it.
LEMMA SourceOpenKeeps ==
  ASSUME Good, SourceOpen
  PROVE  Good'
<1>1. page.player /\ mse.state = "closed"
  BY DEF SourceOpen
<1>2. PICK o, r : r = OnSourceOpen(mse, o) /\ Answers(r, o)
  BY DEF SourceOpen
<1>3. mse \in Controllers /\ Buffers(mse) /\ mse.said = "nothing" /\ (mux.demux.first => Blank(mse)) /\ mse.said # "error"
  BY <1>1, ControllerIs
<1>4. Follows(mse, r) /\ (Blank(mse) => Blank(r) /\ r.said = mse.said)
  BY <1>1, <1>2, <1>3, SourceOpenFollows
<1>5. mux.demux.first => Blank(r) /\ r.said # "full"
  BY <1>3, <1>4
<1>6. Feeds(mse, r)
  BY <1>1, <1>2, <1>3, SourceOpenTrail
<1> QED BY <1>1, <1>2, <1>4, <1>5, <1>6, AnswersKeeps

\* UpdateEnd keeps the invariant: removals, then segments, then the end.
LEMMA UpdateEndKeeps ==
  ASSUME Good, NEW t \in Types, UpdateEnd(t)
  PROVE  Good'
<1>1. page.player /\ Updating(mse, t)
  BY DEF UpdateEnd
<1>2. PICK o, r : r = OnUpdateEnd(mse, t, o) /\ Answers(r, o)
  BY DEF UpdateEnd
<1>3. mse \in Controllers /\ Buffers(mse) /\ mse.said # "error"
  BY <1>1, ControllerIs
<1>4. Follows(mse, r)
  BY <1>1, <1>2, <1>3, UpdateEndFollows
<1>5. mse.made[t]
  BY <1>1, <1>3 DEF Buffers, Wired, Updating
<1>6. ~mux.demux.first
  BY <1>1, <1>5, NotFirst
<1>7. Feeds(mse, r)
  BY <1>1, <1>2, <1>3, UpdateEndTrail
<1> QED BY <1>1, <1>2, <1>4, <1>6, <1>7, AnswersKeeps

\* The picture goes on.
LEMMA PlaysKeeps ==
  ASSUME Good, Plays
  PROVE  Good'
<1>1. page.player /\ UNCHANGED <<stream, reqs, io, mux, tasks, mse, page, loads, faults>>
  BY DEF Plays
<1>2. PICK p : p = Player
  OBVIOUS
<1>3. PInv(p, stream, loads) /\ PlayerFields(p) /\ p \in Players
  BY <1>2, FieldsAre DEF Good, PInv
<1>4. head' \in Int
  <2>1. Buffered.from \in Int
    BY <1>1, ControllerIs DEF Ranges
  <2>2. head \in Int
    BY <1>3 DEF PlayerFields, Players
  <2> QED BY <2>1, <2>2 DEF Plays
<1>5. PICK q : q = [p EXCEPT !.head = head']
  OBVIOUS
<1>6. Looked(p, q)
  BY <1>3, <1>4, <1>5, MovedIs
<1>7. PInv(q, stream, loads)
  BY <1>3, <1>6, LookedKeeps
<1>8. Becomes(q)
  BY <1>1, <1>3, <1>5 DEF Becomes, PlayerFields, Players
<1> QED BY <1>1, <1>7, <1>8, StepKeeps, FaultsNat

\* The picture has come to the end.
LEMMA EndedStep ==
  ASSUME Good, Ended
  PROVE  Good'
<1>1. PICK p, q : p = Player /\ q = ReloadPlayer(p)
  OBVIOUS
<1>2. Becomes(q) /\ UNCHANGED <<stream, loads, faults>>
  BY <1>1 DEF Ended
<1>3. PInv(p, stream, loads)
  BY <1>1 DEF Good
<1>4. p \in Players /\ Requests(p) /\ loads <= Len(p.reqs)
  BY <1>3 DEF PInv
<1>5. PInv(q, stream, loads)
  BY <1>1, <1>4, ReloadKeeps
<1> QED BY <1>2, <1>5, StepKeeps, FaultsNat

\* The page's timers.
LEMMA LoadStep ==
  ASSUME Good, tasks = <<>>, Load
  PROVE  Good'
<1>1. PICK p, q : p = Player /\ q = [LoadPlayer(AttachMediaElement(p)) EXCEPT !.page = [NewPage EXCEPT !.player = TRUE]]
  OBVIOUS
<1>2. page.timer /\ Becomes(q) /\ UNCHANGED <<stream, faults>> /\ loads' = loads + 1
  BY <1>1 DEF Load
<1>3. PInv(p, stream, loads) /\ p.page = page /\ p.tasks = tasks
  BY <1>1, FieldsAre DEF Good, PlayerFields
<1>4. stream \in Seq(Tags) /\ loads \in Nat /\ loads + 1 \in Nat /\ faults \in Nat
  BY StreamIs, FaultsNat
<1>5. p.page.timer /\ p.tasks = <<>>
  BY <1>2, <1>3
<1>6. PInv(q, stream, loads + 1)
  BY <1>1, <1>3, <1>4, <1>5, LoadKeeps
<1> QED BY <1>2, <1>4, <1>6, StepKeeps

\* CheckProgress keeps the invariant: a new request is sent for the rest.
LEMMA CheckProgressKeeps ==
  ASSUME Good, CheckProgress
  PROVE  Good'
<1>1. PICK p, q : p = Player /\ q = ResumeLoading(p)
  OBVIOUS
<1>2. page.player /\ Becomes(q) /\ UNCHANGED <<stream, loads, faults>>
  BY <1>1 DEF CheckProgress
<1>3. PInv(p, stream, loads) /\ p.page = page
  BY <1>1, FieldsAre DEF Good, PlayerFields
<1>4. loads \in Nat /\ faults \in Nat /\ p.page.player
  BY <1>2, <1>3, FaultsNat
<1>5. PInv(q, stream, loads)
  BY <1>1, <1>3, <1>4, ResumeLoadingKeeps
<1> QED BY <1>2, <1>4, <1>5, StepKeeps

\* JumpToEnd keeps the invariant, whether what it jumps to is buffered or not.
LEMMA JumpToEndKeeps ==
  ASSUME Good, JumpToEnd
  PROVE  Good'
<1>1. page.player /\ Buffered # NoRange /\ UNCHANGED <<stream, loads, faults>>
  BY DEF JumpToEnd
<1>2. mse \in Controllers /\ Buffered \in Ranges
  BY <1>1, ControllerIs
<1>3. PICK target \in Int : target = Buffered.to - JumpBack
  <2>1. Buffered.to \in Int /\ JumpBack \in Int
    BY <1>2, PlayerAssumption DEF Ranges
  <2> QED BY <2>1
<1>4. PICK p, q : p = Player /\ q = InternalSeek(p, target)
  OBVIOUS
<1>5. Becomes(q)
  BY <1>3, <1>4 DEF JumpToEnd
<1>6. PInv(p, stream, loads) /\ p.page = page /\ p.mux = mux
  BY <1>4, FieldsAre DEF Good, PlayerFields
<1>7. ~mux.demux.first
  <2>1. PICK t \in Types : mse.made[t]
    BY <1>1, <1>2, BufferedIs
  <2> QED BY <1>1, <2>1, NotFirst
<1>8. loads \in Nat /\ faults \in Nat /\ p.page.player /\ ~p.mux.demux.first
  BY <1>1, <1>6, <1>7, FaultsNat
<1>9. PInv(q, stream, loads)
  BY <1>2, <1>3, <1>4, <1>6, <1>8, SeekKeeps
<1> QED BY <1>1, <1>5, <1>8, <1>9, StepKeeps

\* The events behind the first one.
Behindhand(s, ts) ==
  /\ ts \in Seq(Events)
  /\ EndTold(ts) => EndTold(s)
  /\ NoInits(s) => NoInits(ts)
  /\ EndLast(s) => EndLast(ts)
  /\ EndLast(s) /\ s[1].ev = "loading_complete" => NoInits(ts)
  /\ OnlyNotes(s) => OnlyNotes(ts) /\ s[1].ev \notin {"init", "media"}
  /\ s[1] \in Events /\ Head(s) = s[1]

\* What waits behind the first microtask is what waited behind it before.
LEMMA BehindhandIs ==
  ASSUME NEW s \in Seq(Events), s # <<>>, NEW ts, ts = Tail(s)
  PROVE  Behindhand(s, ts)
<1>1. ts \in Seq(Events) /\ \A i \in DOMAIN ts : i + 1 \in DOMAIN s /\ ts[i] = s[i + 1]
  BY TailIs
<1>2. Len(ts) \in Nat /\ DOMAIN ts = 1 .. Len(ts)
  BY <1>1, LenProperties
<1>3. Len(s) \in Nat /\ DOMAIN s = 1 .. Len(s) /\ Len(s) # 0
  BY EmptySeq, LenProperties
<1>4. 1 \in DOMAIN s /\ s[1] \in Events
  <2>1. 1 \in 1 .. Len(s)
    BY <1>3
  <2> QED BY <1>3, <2>1, ElementOfSeq
<1>5. Head(s) = s[1]
  OBVIOUS
<1>6. EndTold(ts) => EndTold(s)
  BY <1>1 DEF EndTold
<1>7. NoInits(s) => NoInits(ts)
  BY <1>1 DEF NoInits
<1>8. \A i, j \in DOMAIN ts : i < j => i + 1 < j + 1
  BY <1>2
<1>9. EndLast(s) => EndLast(ts)
  BY <1>1, <1>8 DEF EndLast
<1>10. \A j \in DOMAIN ts : 1 < j + 1
  BY <1>2
<1>11. EndLast(s) /\ s[1].ev = "loading_complete" => NoInits(ts)
  BY <1>1, <1>4, <1>10 DEF EndLast, NoInits
<1>12. OnlyNotes(s) => OnlyNotes(ts) /\ s[1].ev \notin {"init", "media"}
  BY <1>1, <1>4 DEF OnlyNotes
<1> QED BY <1>1, <1>4, <1>5, <1>6, <1>7, <1>9, <1>11, <1>12 DEF Behindhand

\* The controller has been given the first event.
Heard(p, r) ==
  /\ r \in Controllers /\ Moves(p, r, Tail(p.tasks))
  /\ r.said # "error" => /\ Buffers(r) /\ Known(p.mse) \subseteq Known(r)
                         /\ p.tasks[1].ev = "init" => p.tasks[1].type \in Known(r)
  /\ r.eos \/ r.state = "ended" => Ending(p) /\ NoInits(Tail(p.tasks))
  /\ p.mux.demux.first => Blank(r) /\ r.said # "full"

\* What a controller has heard is known when the rest is delivered.
LEMMA HeardIs ==
  ASSUME NEW p, NEW s, NEW l, PInv(p, s, l), p.page.player, p.tasks # <<>>, NEW r, Heard(p, r),
         NEW ts, ts = Tail(p.tasks)
  PROVE  Delivered(p, r, ts)
<1>1. p \in Players /\ Running(p, s, l)
  BY DEF PInv
<1>2. p.tasks \in Seq(Events) /\ Headed(p.tasks, p.mux.tracks, Known(p.mse)) /\ EndLast(p.tasks)
  BY <1>1 DEF Running, Order, Over, Players
<1>3. Behindhand(p.tasks, ts)
  BY <1>2, BehindhandIs
<1>4. /\ r \in Controllers /\ Moves(p, r, ts)
      /\ r.said # "error" => /\ Buffers(r) /\ Known(p.mse) \subseteq Known(r)
                             /\ p.tasks[1].ev = "init" => p.tasks[1].type \in Known(r)
      /\ r.eos \/ r.state = "ended" => Ending(p) /\ NoInits(ts)
      /\ p.mux.demux.first => Blank(r) /\ r.said # "full"
  BY DEF Heard
<1>5. /\ ts \in Seq(Events) /\ EndLast(ts) /\ (EndTold(ts) => EndTold(p.tasks))
      /\ OnlyNotes(p.tasks) => OnlyNotes(ts)
  BY <1>2, <1>3 DEF Behindhand
<1>6. ASSUME r.said # "error" PROVE Headed(ts, p.mux.tracks, Known(r))
  <2>1. /\ Known(p.mse) \subseteq Known(r)
        /\ p.tasks[1].ev = "init" => p.tasks[1].type \in Known(r)
    BY <1>4, <1>6
  <2> QED BY <1>2, <2>1, HeadedTail
<1>7. p.mux.demux.first => OnlyNotes(ts)
  BY <1>1, <1>5 DEF Running, Beginning
<1> QED BY <1>4, <1>5, <1>6, <1>7 DEF Delivered

\* It has answered.
LEMMA HandedOn ==
  ASSUME NEW p, NEW s, NEW l, PInv(p, s, l), p.page.player, p.tasks # <<>>, NEW r, Heard(p, r),
         NEW d, d = [p EXCEPT !.tasks = Tail(@)], NEW q, q = MseSays([d EXCEPT !.mse = r])
  PROVE  PInv(q, s, l)
<1>1. PICK ts : ts = Tail(p.tasks)
  OBVIOUS
<1>2. Delivered(p, r, ts)
  BY <1>1, HeardIs
<1>3. PICK v : v = [p EXCEPT !.tasks = ts, !.mse = r]
  OBVIOUS
<1>4. Before(v, s, l)
  BY <1>2, <1>3, DeliveredKeeps
<1>5. [d EXCEPT !.mse = r] = v
  BY <1>1, <1>3 DEF PInv, Players
<1>6. q = MseSays(v)
  BY <1>5
<1> QED BY <1>4, <1>6, SaysKeeps

\* A segment that the controller has been given is behind the others of its type.
LEMMA MovesTakes ==
  ASSUME NEW p, p.mse \in Controllers, p.tasks \in Seq(Events), p.tasks # <<>>, NEW e \in Segments, e = p.tasks[1],
         NEW r, r.said = "error" \/ Takes(p.mse, r, e)
  PROVE  Moves(p, r, Tail(p.tasks))
<1>1. PICK m, ts : m = p.mse /\ ts = p.tasks
  OBVIOUS
<1>2. ASSUME Takes(m, r, e), NEW s, InLine(m, ts, p.mux, s) PROVE InLine(r, Tail(ts), p.mux, s)
  BY <1>1, <1>2, InLineTakes
<1>3. ASSUME Takes(m, r, e), NEW s, Paced(m, ts, p.mux, s) PROVE Paced(r, Tail(ts), p.mux, s)
  BY <1>1, <1>3, PacedTakes
<1> QED BY <1>1, <1>2, <1>3 DEF Moves

\* An event that is none changes nothing.
LEMMA MovesNote ==
  ASSUME NEW p, p.tasks \in Seq(Events), p.tasks # <<>>, p.tasks[1].ev # "media", NEW r, Keeps(p.mse, r)
  PROVE  Moves(p, r, Tail(p.tasks))
<1>1. PICK m, ts : m = p.mse /\ ts = p.tasks
  OBVIOUS
<1>2. Feeds(m, r)
  BY <1>1, FeedsTwice
<1>3. ASSUME NEW s, InLine(m, ts, p.mux, s) PROVE InLine(r, Tail(ts), p.mux, s)
  <2>1. InLine(m, Tail(ts), p.mux, s)
    BY <1>1, <1>3, InLineNote
  <2> QED BY <1>2, <2>1, InLineFeeds
<1>4. ASSUME NEW s, Paced(m, ts, p.mux, s) PROVE Paced(r, Tail(ts), p.mux, s)
  <2>1. Paced(m, Tail(ts), p.mux, s)
    BY <1>1, <1>4, PacedTail
  <2> QED BY <1>2, <2>1, PacedFeeds
<1> QED BY <1>1, <1>3, <1>4 DEF Moves

\* What Follows says in a microtask.
LEMMA FollowsHeard ==
  ASSUME NEW p, NEW s, NEW l, PInv(p, s, l), p.page.player, p.tasks # <<>>, NEW r, Follows(p.mse, r), Moves(p, r, Tail(p.tasks)),
         r.said = "error" \/ (p.tasks[1].ev = "init" => p.tasks[1].type \in Known(r)),
         p.tasks[1].ev \in {"init", "media"}
  PROVE  Heard(p, r)
<1>1. p \in Players /\ Running(p, s, l)
  BY DEF PInv
<1>2. p.tasks \in Seq(Events) /\ Over(p, s, l) /\ Beginning(p)
  BY <1>1 DEF Running, Players
<1>3. Behindhand(p.tasks, Tail(p.tasks))
  BY <1>2, BehindhandIs
<1>4. ~p.mux.demux.first
  BY <1>2, <1>3 DEF Beginning, Behindhand
<1>5. p.mse.eos \/ p.mse.state = "ended" => Ending(p) /\ NoInits(Tail(p.tasks))
  BY <1>2, <1>3 DEF Over, Ending, Behindhand
<1>6. /\ r \in Controllers
      /\ r.said = "error" \/ (Buffers(r) /\ Known(p.mse) \subseteq Known(r))
      /\ r.eos \/ r.state = "ended" => p.mse.eos \/ p.mse.state = "ended"
  BY DEF Follows
<1> QED BY <1>4, <1>5, <1>6 DEF Heard

\* The controller in a microtask.
LEMMA MicrotaskIs ==
  ASSUME NEW p, NEW s, NEW l, PInv(p, s, l), p.page.player, p.tasks # <<>>, NEW e, e = p.tasks[1]
  PROVE  /\ p.mse \in Controllers /\ Buffers(p.mse) /\ p.mse.said # "error" /\ p.mse.said = "nothing"
         /\ e \in Events /\ p.tasks \in Seq(Events) /\ Behindhand(p.tasks, Tail(p.tasks))
         /\ e.ev = "init" => e \in Inits /\ p.mse.state \in {"open", "closed"}
         /\ e.ev = "media" => e \in Media /\ e.type \in Known(p.mse)
         /\ p.head \in Int /\ EndLast(p.tasks) /\ (p.mux.demux.first => Blank(p.mse))
<1>1. p \in Players /\ Running(p, s, l) /\ p.mse.said = "nothing"
  BY DEF PInv
<1>2. p.mse \in Controllers /\ p.tasks \in Seq(Events) /\ p.head \in Int
  BY <1>1 DEF Players
<1>3. Buffers(p.mse) /\ Over(p, s, l) /\ Order(p) /\ Beginning(p)
  BY <1>1 DEF Running
<1>4. Behindhand(p.tasks, Tail(p.tasks))
  BY <1>2, BehindhandIs
<1>5. e \in Events
  BY <1>4 DEF Behindhand
<1>6. 1 \in DOMAIN p.tasks /\ Len(p.tasks) \in Nat
  <2>1. Len(p.tasks) \in Nat /\ DOMAIN p.tasks = 1 .. Len(p.tasks) /\ Len(p.tasks) # 0
    BY <1>2, EmptySeq, LenProperties
  <2> QED BY <2>1
<1>7. e.ev = "init" => e \in Inits /\ p.mse.state \in {"open", "closed"}
  <2>1. e.ev = "init" => e \in Inits
    BY <1>5 DEF Events, Segments, Inits, Media, Notes
  <2>2. e.ev = "init" => ~NoInits(p.tasks)
    BY <1>6 DEF NoInits
  <2>3. p.mse.state \in {"open", "closed", "ended"}
    BY <1>2 DEF Controllers
  <2>4. p.mse.state = "ended" => NoInits(p.tasks)
    BY <1>3 DEF Over
  <2> QED BY <2>1, <2>2, <2>3, <2>4
<1>8. e.ev = "media" => e \in Media /\ e.type \in Known(p.mse)
  <2>1. e.ev = "media" => e \in Media
    BY <1>5 DEF Events, Segments, Inits, Media, Notes
  <2>2. Ordered(p.tasks, Known(p.mse))
    BY <1>3 DEF Order, Headed
  <2>3. e.ev = "media" => e.type \in Known(p.mse) \/ Ahead(p.tasks, 1, e.type)
    BY <1>6, <2>2 DEF Ordered
  <2>4. ~Ahead(p.tasks, 1, e.type)
    BY DEF Ahead
  <2> QED BY <2>1, <2>3, <2>4
<1> QED BY <1>1, <1>2, <1>3, <1>4, <1>5, <1>7, <1>8 DEF Over, Beginning

\* An initialization segment handed to the controller is known to it from then on.
LEMMA InitHanded ==
  ASSUME NEW p, NEW s, NEW l, PInv(p, s, l), p.page.player, p.tasks # <<>>, NEW e, e = p.tasks[1], e.ev = "init",
         NEW o, NEW r, r = AppendInitSegment(p.mse, e, FALSE, o)
  PROVE  Heard(p, r)
<1>1. /\ p.mse \in Controllers /\ Buffers(p.mse) /\ p.mse.said # "error" /\ e \in Inits
      /\ p.mse.state = "open" \/ p.mse.state = "closed"
  BY MicrotaskIs
<1>2. Follows(p.mse, r) /\ (r.said = "error" \/ e.type \in Known(r))
  <2>1. CASE p.mse.state = "open"
    BY <1>1, <2>1, InitOpen
  <2>2. CASE p.mse.state = "closed"
    BY <1>1, <2>2, InitClosed
  <2> QED BY <1>1, <2>1, <2>2
<1>3. p.tasks[1].ev \in {"init", "media"}
  OBVIOUS
<1>4. Moves(p, r, Tail(p.tasks))
  <2>1. p.tasks \in Seq(Events) /\ e \in Segments
    BY <1>1, MicrotaskIs DEF Segments
  <2>2. r.said = "error" \/ Takes(p.mse, r, e)
    BY <1>1, InitTrail
  <2> QED BY <1>1, <2>1, <2>2, MovesTakes
<1> QED BY <1>2, <1>3, <1>4, FollowsHeard

\* A media segment handed to the controller is of a type it knows.
LEMMA MediaHanded ==
  ASSUME NEW p, NEW s, NEW l, PInv(p, s, l), p.page.player, p.tasks # <<>>, NEW e, e = p.tasks[1], e.ev = "media",
         NEW o, NEW r, r = AppendMediaSegment(p.mse, e, p.head, o)
  PROVE  Heard(p, r)
<1>1. /\ p.mse \in Controllers /\ Buffers(p.mse) /\ p.mse.said # "error" /\ e \in Media /\ e.type \in Known(p.mse)
      /\ p.head \in Int
  BY MicrotaskIs
<1>2. Follows(p.mse, r)
  BY <1>1, MediaFollows
<1>3. p.tasks[1].ev \in {"init", "media"} /\ ~(p.tasks[1].ev = "init")
  OBVIOUS
<1>4. Moves(p, r, Tail(p.tasks))
  <2>1. p.tasks \in Seq(Events) /\ e \in Segments
    BY <1>1, MicrotaskIs DEF Segments
  <2>2. Takes(p.mse, r, e)
    BY <1>1, MediaTrail
  <2> QED BY <1>1, <2>1, <2>2, MovesTakes
<1> QED BY <1>2, <1>3, <1>4, FollowsHeard

\* The end of the stream.
LEMMA EndHanded ==
  ASSUME NEW p, NEW s, NEW l, PInv(p, s, l), p.page.player, p.tasks # <<>>, p.tasks[1].ev = "loading_complete",
         NEW r, r = EndOfStream(p.mse)
  PROVE  Heard(p, r) /\ r.said = "nothing"
<1>1. /\ p.mse \in Controllers /\ Buffers(p.mse) /\ p.mse.said = "nothing" /\ EndLast(p.tasks)
      /\ p.tasks \in Seq(Events) /\ Behindhand(p.tasks, Tail(p.tasks))
      /\ p.mux.demux.first => Blank(p.mse)
  BY MicrotaskIs
<1>2. /\ r \in Controllers /\ Buffers(r) /\ Known(r) = Known(p.mse) /\ r.said = "nothing"
      /\ Blank(p.mse) => Blank(r)
  BY <1>1, EndKeeps
<1>3. NoInits(Tail(p.tasks))
  BY <1>1 DEF Behindhand
<1>4. Ending(p)
  <2>1. Len(p.tasks) \in Nat /\ DOMAIN p.tasks = 1 .. Len(p.tasks) /\ Len(p.tasks) # 0
    BY <1>1, EmptySeq, LenProperties
  <2>2. 1 \in DOMAIN p.tasks
    BY <2>1
  <2>3. EndTold(p.tasks)
    BY <2>2 DEF EndTold
  <2> QED BY <2>3 DEF Ending
<1>5. Moves(p, r, Tail(p.tasks))
  BY <1>1, EndTrail, MovesNote
<1> QED BY <1>1, <1>2, <1>3, <1>4, <1>5 DEF Heard

\* A note that is none of the controller's.
LEMMA NoteTaken ==
  ASSUME NEW p, NEW s, NEW l, PInv(p, s, l), p.page.player, p.tasks # <<>>,
         p.tasks[1].ev \notin {"init", "media", "loading_complete"}, NEW d, d = [p EXCEPT !.tasks = Tail(@)]
  PROVE  PInv(d, s, l) /\ d.page.player
<1>1. /\ p.mse \in Controllers /\ Buffers(p.mse) /\ p.mse.said = "nothing" /\ EndLast(p.tasks)
      /\ p.tasks \in Seq(Events) /\ Behindhand(p.tasks, Tail(p.tasks))
      /\ p.mux.demux.first => Blank(p.mse)
  BY MicrotaskIs
<1>2. p \in Players /\ Over(p, s, l)
  BY DEF PInv, Running
<1>3. p.mse.eos \/ p.mse.state = "ended" => Ending(p) /\ NoInits(Tail(p.tasks))
  BY <1>1, <1>2 DEF Over, Ending, Behindhand
<1>9. Moves(p, p.mse, Tail(p.tasks))
  BY <1>1, KeepsSame, MovesNote
<1>4. Heard(p, p.mse)
  BY <1>1, <1>3, <1>9 DEF Heard
<1>5. d.mse = p.mse /\ d.page = p.page /\ [d EXCEPT !.mse = p.mse] = d
  BY <1>2 DEF Players
<1>6. MseSays(d) = d
  BY <1>1, <1>5 DEF MseSays
<1>7. d = MseSays([d EXCEPT !.mse = p.mse])
  BY <1>5, <1>6
<1>8. PInv(d, s, l)
  BY <1>4, <1>7, HandedOn
<1> QED BY <1>5, <1>8

\* One microtask.
LEMMA HandledKeeps ==
  ASSUME NEW p, NEW s, NEW l, PInv(p, s, l), p.page.player, p.tasks # <<>>, NEW e, e = p.tasks[1],
         NEW o, NEW d, d = [p EXCEPT !.tasks = Tail(@)], NEW q, q = Handled(d, e, o)
  PROVE  PInv(q, s, l)
<1>1. d.mse = p.mse /\ d.head = p.head
  BY DEF PInv, Players
<1>2. CASE e.ev = "init"
  <2>1. PICK r : r = AppendInitSegment(p.mse, e, FALSE, o)
    OBVIOUS
  <2>2. Heard(p, r)
    BY <1>2, <2>1, InitHanded
  <2>3. q = MseSays([d EXCEPT !.mse = r])
    BY <1>1, <1>2, <2>1 DEF Handled
  <2> QED BY <2>2, <2>3, HandedOn
<1>3. CASE e.ev = "media"
  <2>1. PICK r : r = AppendMediaSegment(p.mse, e, p.head, o)
    OBVIOUS
  <2>2. Heard(p, r)
    BY <1>3, <2>1, MediaHanded
  <2>3. q = MseSays([d EXCEPT !.mse = r])
    BY <1>1, <1>3, <2>1 DEF Handled
  <2> QED BY <2>2, <2>3, HandedOn
<1>4. CASE e.ev = "loading_complete"
  <2>1. PICK r : r = EndOfStream(p.mse)
    OBVIOUS
  <2>2. Heard(p, r) /\ r.said = "nothing"
    BY <1>4, <2>1, EndHanded
  <2>3. q = [d EXCEPT !.mse = r]
    BY <1>1, <1>4, <2>1 DEF Handled
  <2>4. q.mse = r
    BY <2>3 DEF PInv, Players
  <2>5. MseSays(q) = q
    BY <2>2, <2>4 DEF MseSays
  <2>6. q = MseSays([d EXCEPT !.mse = r])
    BY <2>3, <2>5
  <2> QED BY <2>2, <2>6, HandedOn
<1>5. CASE e.ev \notin {"init", "media", "loading_complete"}
  <2>1. PInv(d, s, l) /\ d.page.player
    BY <1>5, NoteTaken
  <2>2. CASE e.ev = "abort"
    <3>1. q = InternalAbort(d)
      BY <1>5, <2>2 DEF Handled
    <3> QED BY <2>1, <3>1, AbortKeeps
  <2>3. CASE e.ev # "abort"
    <3>1. q = ReloadPlayer(d)
      BY <1>5, <2>3 DEF Handled
    <3>2. d \in Players /\ Requests(d) /\ l <= Len(d.reqs)
      BY <2>1 DEF PInv
    <3> QED BY <3>1, <3>2, ReloadKeeps
  <2> QED BY <2>2, <2>3
<1> QED BY <1>2, <1>3, <1>4, <1>5

\* Deliver keeps the invariant: segments, the end of the stream and errors.
LEMMA DeliverKeeps ==
  ASSUME Good, Deliver
  PROVE  Good'
<1>1. PICK p : p = Player
  OBVIOUS
<1>2. PInv(p, stream, loads) /\ p.page = page /\ p.tasks = tasks
  BY <1>1, FieldsAre DEF Good, PlayerFields
<1>3. tasks # <<>> /\ page.player /\ UNCHANGED <<stream, loads>>
  BY DEF Deliver
<1>4. PICK o, q : q = Handled([p EXCEPT !.tasks = Tail(@)], Head(tasks), o) /\ Becomes(q) /\ faults' = faults + FaultsOf(o)
  BY <1>1 DEF Deliver
<1>5. p.page.player /\ p.tasks # <<>>
  BY <1>2, <1>3
<1>6. PICK e, d : e = p.tasks[1] /\ d = [p EXCEPT !.tasks = Tail(@)]
  OBVIOUS
<1>7. Head(tasks) = e
  BY <1>2, <1>6
<1>8. q = Handled(d, e, o)
  BY <1>4, <1>6, <1>7
<1>9. PInv(q, stream, loads)
  BY <1>2, <1>5, <1>6, <1>8, HandledKeeps
<1>10. loads \in Nat /\ faults + FaultsOf(o) \in Nat
  <2>1. FaultsOf(o) = 0 \/ FaultsOf(o) = 1
    BY Zenon DEF FaultsOf
  <2>2. faults \in Nat /\ loads \in Nat
    BY FaultsNat
  <2> QED BY <2>1, <2>2
<1> QED BY <1>3, <1>4, <1>9, <1>10, StepKeeps

-----------------------------------------------------------------------------
(* The theorems.                                                             *)

\* The page has not loaded anything yet.
LEMMA InitGood == Init => Good
<1> SUFFICES ASSUME Init PROVE Good
  OBVIOUS
<1>1. PICK p : p = Player
  OBVIOUS
<1>2. PlayerFields(p) /\ p = [reqs |-> reqs, io |-> io, mux |-> mux, tasks |-> tasks, mse |-> mse, page |-> page,
                              head |-> head]
  BY <1>1, FieldsAre DEF Player
<1>3. reqs = <<>> /\ reqs \in Seq(Loaders) /\ Len(reqs) = 0 /\ tasks \in Seq(Events)
  BY DEF Init
<1>4. io \in Controls /\ ~io.alive
  <2>1. io = [NewIO EXCEPT !.alive = FALSE]
    BY DEF Init
  <2> QED BY <2>1, NewOnes DEF Controls
<1>5. page \in Pages /\ ~page.player /\ ~page.checker
  <2>1. page = [NewPage EXCEPT !.timer = TRUE]
    BY DEF Init
  <2> QED BY <2>1 DEF NewPage, Pages
<1>6. /\ mux \in Muxes /\ mux.out = <<>> /\ mse \in Controllers /\ mse.said = "nothing"
      /\ head \in Int /\ loads = 0 /\ faults = 0 /\ stream \in Streams
  BY NewOnes DEF Init, NewTransmuxer, NewController
<1>7. p \in Players
  BY <1>2, <1>3, <1>4, <1>5, <1>6 DEF Players
<1>8. Requests(p)
  <2>1. p.reqs = reqs /\ p.io = io /\ p.page = page /\ Len(p.reqs) = 0
    BY <1>2, <1>3 DEF PlayerFields
  <2>2. \A n \in 1 .. 0 : FALSE
    OBVIOUS
  <2> QED BY <1>4, <1>5, <2>1, <2>2 DEF Requests
<1>9. PInv(p, stream, loads)
  <2>1. p.reqs = reqs /\ p.mse = mse /\ p.page = page /\ p.mux = mux
    BY <1>2 DEF PlayerFields
  <2>2. loads <= Len(reqs)
    BY <1>3, <1>6
  <2>3. Timed(p, stream)
    <3>1. p.mux = NewTransmuxer /\ p.tasks = <<>> /\ p.mse = NewController
      BY <1>2 DEF PlayerFields, Init
    <3> QED BY <3>1, TimedNew
  <2> QED BY <1>5, <1>6, <1>7, <1>8, <2>1, <2>2, <2>3 DEF PInv
<1> QED BY <1>1, <1>6, <1>9 DEF Good

\* Every step keeps the invariant.
LEMMA NextKeeps == Good /\ [Next]_vars => Good'
<1> SUFFICES ASSUME Good, [Next]_vars PROVE Good'
  OBVIOUS
<1>1. CASE Deliver
  BY <1>1, DeliverKeeps
<1>2. ASSUME tasks = <<>>, NEW n \in 1 .. Current, Network(n) PROVE Good'
  BY <1>2, NetworkKeeps
<1>3. CASE Browser
  <2>1. CASE SourceOpen
    BY <2>1, SourceOpenKeeps
  <2>2. ASSUME NEW t \in Types, UpdateEnd(t) PROVE Good'
    BY <2>2, UpdateEndKeeps
  <2>3. CASE Plays
    BY <2>3, PlaysKeeps
  <2>4. CASE Ended
    BY <2>4, EndedStep
  <2> QED BY <1>3, <2>1, <2>2, <2>3, <2>4 DEF Browser
<1>4. CASE tasks = <<>> /\ Timers
  <2>1. CASE Load
    BY <1>4, <2>1, LoadStep
  <2>2. CASE CheckProgress
    BY <2>2, CheckProgressKeeps
  <2>3. CASE JumpToEnd
    BY <2>3, JumpToEndKeeps
  <2> QED BY <1>4, <2>1, <2>2, <2>3 DEF Timers
<1>5. CASE UNCHANGED vars
  <2>1. Player' = Player /\ stream' = stream /\ loads' = loads /\ faults' = faults
    BY <1>5 DEF vars, Player
  <2> QED BY <2>1 DEF Good
<1> QED BY <1>1, <1>2, <1>3, <1>4, <1>5 DEF Next

\* The inductive invariant.
THEOREM Invariance == Spec => []IInv
<1>1. Spec => []Good
  BY InitGood, NextKeeps, PTL DEF Spec
<1> QED BY <1>1, GoodIs, PTL

\* Types.
THEOREM TypeCorrect == Spec => []TypeInv
<1>1. IInv => TypeInv
  BY DEF IInv
<1> QED BY <1>1, Invariance, PTL

\* A request that is not the player's any more has been told to stop.
THEOREM RequestsEnd == Spec => []OldRequestsEnd
<1>1. IInv => OldRequestsEnd
  <2> SUFFICES ASSUME IInv PROVE OldRequestsEnd
    OBVIOUS
  <2>1. Requests(Player) /\ Player.reqs = reqs /\ Player.io = io
    BY FieldsAre DEF IInv, PlayerFields
  <2>2. \A n \in 1 .. Current : n < Current \/ ~io.alive => GivenUp(reqs[n])
    BY <2>1 DEF Requests, Current
  <2> QED BY <2>2 DEF OldRequestsEnd, GivenUp, Waiting
<1> QED BY <1>1, Invariance, PTL

\* Whatever waits in the controller's queues will be taken up by an event.
THEOREM QueuesMove == Spec => []NothingStalls
<1>1. IInv => NothingStalls
  <2> SUFFICES ASSUME IInv, page.player, mse.state = "open", NEW t \in Types, mse.made[t]
               PROVE  /\ mse.removals[t] # <<>> => Updating(mse, t)
                      /\ mse.segs[t] # <<>> /\ ~AnyUpdating(mse) => mse.full \/ Last(mse.segs[t]).ev = "init"
    BY DEF NothingStalls
  <2>1. Buffers(mse) /\ mse \in Controllers
    BY FieldsAre DEF IInv, TypeInv, Running, PlayerFields, Players
  <2>2. mse.removals[t] # <<>> => Updating(mse, t)
    BY <2>1 DEF Buffers, Removing, Updating
  <2>3. ASSUME mse.segs[t] # <<>>, ~AnyUpdating(mse), ~mse.full PROVE Last(mse.segs[t]).ev = "init"
    <3>1. OnlyInits(mse.segs[t])
      BY <2>1, <2>3 DEF Buffers, Fed
    <3>2. mse.segs[t] \in Seq(Segments)
      BY <2>1 DEF Controllers
    <3>3. Len(mse.segs[t]) \in DOMAIN mse.segs[t]
      BY <2>3, <3>2, EmptySeq, LenProperties
    <3> QED BY <3>1, <3>3 DEF OnlyInits, Last
  <2> QED BY <2>2, <2>3
<1> QED BY <1>1, Invariance, PTL

\* The MediaSource is told of the end of the stream behind its last segment.
THEOREM EndIsLast == Spec => []EosComesLast
<1>1. IInv => EosComesLast
  <2> SUFFICES ASSUME IInv, page.player, mse.state = "ended"
               PROVE  /\ mse.full \/ \A t \in Types : \A i \in DOMAIN mse.segs[t] : mse.segs[t][i].ev = "init"
                      /\ \/ \A t \in Types : mux.tracks[t].stash = <<>>
                         \/ Current > loads /\ mux.parsed > 0 /\ stream[mux.parsed].kind \in {"meta", "aac", "avc"}
    BY DEF EosComesLast
  <2>1. PICK p : p = Player
    OBVIOUS
  <2>2. Running(p, stream, loads) /\ p \in Players /\ PlayerFields(p)
    BY <2>1, FieldsAre DEF IInv, TypeInv
  <2>3. p.mse = mse /\ p.mux = mux /\ p.reqs = reqs
    BY <2>2 DEF PlayerFields
  <2>4. Buffers(mse) /\ mse \in Controllers /\ Over(p, stream, loads)
    BY <2>2, <2>3 DEF Running, Players
  <2>5. ASSUME ~mse.full, NEW t \in Types PROVE OnlyInits(mse.segs[t])
    <3>1. CASE mse.made[t]
      BY <2>4, <2>5, <3>1 DEF Buffers, Fed, Quiet
    <3>2. CASE ~mse.made[t]
      <4>1. mse.inits = <<>>
        BY <2>4 DEF Buffers
      <4>2. ~Expected(mse, t)
        BY <2>4, <3>2, <4>1, SegmentsKnown
      <4> QED BY <2>4, <4>2 DEF Buffers, Wired
    <3> QED BY <3>1, <3>2
  <2>6. Emptied(mux) \/ (Len(reqs) > loads /\ LastIsNone(mux, stream))
    BY <2>3, <2>4 DEF Over, Ending
  <2> QED BY <2>5, <2>6 DEF OnlyInits, Emptied, LastIsNone, Current
<1> QED BY <1>1, Invariance, PTL

\* Whatever the network does and in whatever order the callbacks come, every
\* frame read so far is in the player once and in its place: queued by the
\* demuxer, held back by the remuxer (_remuxVideo, flushStashedSamples), among
\* the microtasks, in the controller's queues (_doAppendSegments), buffered or
\* dropped by a seek; and nothing of what the loader has received is lost between
\* parseChunks and IOController's stash.
THEOREM FramesOnce == Spec => []EveryFrameOnce
<1>1. ASSUME IInv, page.player, NEW t \in Types
      PROVE  LET line == Line(t)
             IN  /\ {line[i] : i \in DOMAIN line} \ {0} = {n \in 1 .. mux.parsed : stream[n].kind = t}
                 /\ \A i, j \in DOMAIN line : i < j /\ line[i] > 0 /\ line[j] > 0 => line[i] < line[j]
  <2>1. PICK p : p = Player
    OBVIOUS
  <2>2. Running(p, stream, loads) /\ p \in Players /\ PlayerFields(p)
    BY <1>1, <2>1, FieldsAre DEF IInv, TypeInv
  <2>3. p.mse = mse /\ p.mux = mux /\ p.tasks = tasks
    BY <2>2 DEF PlayerFields
  <2>4. mse \in Controllers /\ mux \in Muxes /\ tasks \in Seq(Events) /\ mux.out = <<>>
    BY <1>1, <2>2, <2>3 DEF Players, IInv
  <2>5. PICK d \in Seq(Shown) : d = mse.done[t]
    BY <1>1, <2>4 DEF Controllers
  <2>6. PICK u \in Seq(Segments) : u = Upcoming(mse, t)
    <3>1. Cutting(mse, t) \in Seq(Segments) /\ mse.segs[t] \in Seq(Segments)
      BY <1>1, <2>4, CuttingIs DEF Controllers
    <3> QED BY <3>1, ConcatProperties DEF Upcoming
  <2>7. PICK k \in Tracks : k = mux.tracks[t]
    BY <1>1, <2>4 DEF Muxes
  <2>8. Placed(d, u, tasks, mux, stream, t)
    BY <1>1, <2>2, <2>3, <2>5, <2>6 DEF Running, Lined, InLine
  <2>9. PICK w : w = u \o tasks
    OBVIOUS
  <2>10. w = Appending(t) \o mse.segs[t] \o tasks
    BY <2>6, <2>9 DEF Upcoming, Cutting, Appending
  <2>11. PICK line : line = WholeLine(d, w, k, t)
    OBVIOUS
  <2>12. line = Line(t)
    BY <2>5, <2>7, <2>10, <2>11 DEF Line, WholeLine
  <2>13. line \in Seq(Nat) /\ Marks(line, OfNumber) = Kin(stream, 0, mux.parsed, t) /\ Rises(line, OfNumber)
    <3>1. PICK x \in Muxes, ts \in Seq(Events) : x = mux /\ ts = tasks
      BY <2>4
    <3>2. PICK s : s = stream
      OBVIOUS
    <3>3. LineOf(d, u, ts, x, k, t, line)
      BY <2>4, <2>7, <2>9, <2>11, <3>1 DEF LineOf
    <3>4. Placed(d, u, ts, x, s, t)
      BY <2>8, <3>1, <3>2
    <3>5. line \in Seq(Nat) /\ Marks(line, OfNumber) = Kin(s, 0, x.parsed, t) /\ Rises(line, OfNumber)
      BY <3>3, <3>4, WholeLineIs
    <3> QED BY <3>1, <3>5, <3>2
  <2>14. PICK n : n = mux.parsed
    OBVIOUS
  <2>15. /\ {line[i] : i \in DOMAIN line} \ {0} = {i \in 1 .. n : stream[i].kind = t}
         /\ \A i, j \in DOMAIN line : i < j /\ line[i] > 0 /\ line[j] > 0 => line[i] < line[j]
    BY <2>13, <2>14, LineTells
  <2> QED BY <2>12, <2>14, <2>15
<1>2. ASSUME IInv, page.player, Current = loads, Working(reqs[Current]), ~reqs[Current].abort
      PROVE  reqs[Current].received = Len(io.stash) + (IF mux.demux.first THEN 0 ELSE 2 + 2 * mux.parsed)
  <2>1. PICK p : p = Player
    OBVIOUS
  <2>2. Running(p, stream, loads) /\ Requests(p) /\ p \in Players /\ PlayerFields(p)
    BY <1>2, <2>1, FieldsAre DEF IInv, TypeInv
  <2>3. p.reqs = reqs /\ p.io = io /\ p.mux = mux
    BY <2>2 DEF PlayerFields
  <2>4. Reading(p, stream, loads) /\ loads \in Nat /\ mux.parsed \in Nat /\ Len(io.stash) \in Nat
    <3>1. io.stash \in Seq(Pieces) /\ mux \in Muxes
      BY <2>2, <2>3 DEF Players, Controls
    <3> QED BY <1>2, <2>2, <3>1, LenProperties DEF Running, IInv, TypeInv, Muxes
  <2>5. loads # 0 /\ Len(reqs) = loads /\ loads \in 1 .. Len(reqs)
    BY <1>2, <2>4 DEF Reading, Current
  <2>6. Waiting(reqs[loads]) /\ io.alive /\ ~io.paused
    <3>1. Waiting(reqs[loads])
      BY <1>2, <2>2, <2>3, <2>5 DEF Requests
    <3>2. ~GivenUp(reqs[loads])
      BY <1>2 DEF GivenUp
    <3> QED BY <1>2, <2>2, <2>3, <2>5, <3>1, <3>2 DEF Requests
  <2>7. Attending(p)
    BY <2>3, <2>5, <2>6 DEF Attending
  <2>8. ~(Len(reqs) > loads)
    BY <2>4, <2>5
  <2>9. reqs[loads].received = Taken(mux) + Len(io.stash)
    BY <2>3, <2>4, <2>5, <2>7, <2>8 DEF Reading
  <2> QED BY <1>2, <2>4, <2>9 DEF Taken
<1>3. IInv => EveryFrameOnce
  BY <1>1, <1>2 DEF EveryFrameOnce
<1> QED BY <1>3, Invariance, PTL

\* Every frame that a SourceBuffer has is shown at its own time, on one clock for
\* sound and pictures, however often segments were cut, silence put between and
\* loading given up and resumed (_remuxAudio, _remuxVideo, _calculateDtsBase).  A
\* batch begins with the frame held back before it, which is where the last segment
\* ended, so that the correction of a batch is nil; after insertDiscontinuity there
\* is none.
THEOREM FramesInTime == Spec => []FramesKeepTime
<1>1. IInv => FramesKeepTime
  <2> SUFFICES ASSUME IInv, NEW t \in Types, NEW i \in DOMAIN mse.done[t],
                      mse.done[t][i].tag > 0, ~mse.done[t][i].lost
               PROVE  mse.done[t][i].at = stream[mse.done[t][i].tag].ts - mux.base
    BY DEF FramesKeepTime
  <2>1. Timed(Player, stream) /\ Player.mux = mux /\ Player.mse = mse
    BY FieldsAre DEF IInv, PlayerFields
  <2>2. PICK b : b = mux.base /\ b \in Clocks(mux)
    <3>1. Unset \in Int
      BY DEF Unset
    <3> QED BY <3>1 DEF Clocks
  <2>3. PICK d : d = mse.done[t]
    OBVIOUS
  <2>4. d \in Seq(Seen(stream, b))
    BY <2>1, <2>2, <2>3 DEF Timed, Paced, Holds
  <2>5. d[i] \in Seen(stream, b)
    <3>1. i \in 1 .. Len(d)
      BY <2>3, <2>4, LenProperties
    <3> QED BY <2>4, <3>1, ElementOfSeq
  <2> QED BY <2>2, <2>3, <2>5 DEF Seen
<1> QED BY <1>1, Invariance, PTL
=============================================================================
