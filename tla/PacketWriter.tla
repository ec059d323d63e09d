---------------------------- MODULE PacketWriter ----------------------------
(* One PacketWriter of a stream: the bounded packetQueue between the         *)
(* publisher's goroutine (WritePacket) and the writer's own goroutine        *)
(* (SendPacket for an RTMP player, muxPacket for an FLV file, an HTTP-FLV    *)
(* viewer and HLS), together with everyone who may call Close.               *)
(*                                                                           *)
(* rtmp/stream.go 19-121, flv/writer.go 31-196, hls/stream.go 46-170.        *)
EXTENDS Naturals, Sequences

CONSTANTS
  Modes,        \* which writers are explored, a subset of AllModes
  QueueCap,     \* capacity of packetQueue (1024 in rtmp and flv, 512 in hls)
  MaxPackets    \* bound: how many packets the publisher offers

AllModes == {"rtmp", "file", "http", "hls"}

ASSUME ModesAssumption == Modes \subseteq AllModes
ASSUME QueueCapAssumption == QueueCap \in Nat \ {0}
ASSUME MaxPacketsAssumption == MaxPackets \in Nat

\* What WritePacket tells apart: "vital" is audio, a video key frame or a
\* sequence header (IsSeq implies the key frame type); "spare" is any other
\* video frame and metadata.
Kinds == {"vital", "spare"}

VARIABLES
  mode,      \* which of the four writers this is
  log,       \* log[i] is the kind of the i-th packet offered to WritePacket
  outcome,   \* "pending", "accepted", "dropped" or "refused": what WritePacket
             \* did with the i-th packet
  queue,     \* packetQueue, as the numbers of the packets in it
  hand,      \* the packet the consumer has received and not yet written
  sent,      \* the packets written to the connection, file or segment
  pc,        \* where each thread is
  closer,    \* the thread that won closeOnce
  closeAt,   \* how many of Close's steps it has done
  sinkFailed \* the sink failed while it was still open

vars == <<mode, log, outcome, queue, hand, sent, pc, closer, closeAt,
          sinkFailed>>

\* The threads: the publisher's goroutine, the writer's goroutine, whoever
\* else closes the writer (the shutdown hook, closeAll on another goroutine),
\* and the HTTP handler parked in Wait.
Threads == {"producer", "consumer", "hook", "handler"}

\* Mutant of CloseSteps: the queue is never closed.
CloseStepsNoQueue ==
  [rtmp |-> <<"cancel", "sink">>, file |-> <<"cancel", "sink">>,
   http |-> <<"cancel">>, hls  |-> <<"cancel", "deregister">>]

\* What Close does under closeOnce, in the order each writer does it. The
\* HTTP wrapper's Close and the HLS buffers have nothing to close.
CloseSteps ==
  [rtmp |-> <<"cancel", "close", "sink">>,
   file |-> <<"cancel", "close", "sink">>,
   http |-> <<"cancel", "close">>,
   hls  |-> <<"cancel", "deregister", "close">>]

Done(step) == \E i \in 1..closeAt : CloseSteps[mode][i] = step
Cancelled == Done("cancel")       \* ctx.Err() # nil
QueueClosed == Done("close")      \* close(packetQueue) has run
SinkClosed == Done("sink")        \* conn.Close() or file.Close() has run

\* handleFlvRequest has returned and net/http has finished the response: what
\* is written now never reaches this viewer.
ResponseOver == mode = "http" /\ pc["handler"] = "gone"

\* Mutant of Blocking: file mode treated like a live viewer.
BlockingOnlyVital(kind) == kind = "vital"

\* Which packets are worth waiting for: all of them in file mode.
Blocking(kind) == mode = "file" \/ kind = "vital"

Init ==
  /\ mode \in Modes
  /\ log = <<>> /\ outcome = <<>>
  /\ queue = <<>> /\ hand = <<>> /\ sent = <<>>
  /\ pc = [t \in Threads |->
             CASE t = "consumer" -> "recv" [] t = "handler" -> "wait" [] OTHER -> "idle"]
  /\ closer = "none" /\ closeAt = 0
  /\ sinkFailed = FALSE

Goto(t, loc) == pc' = [pc EXCEPT ![t] = loc]
Current == Len(log)
Resolve(result) == outcome' = [outcome EXCEPT ![Current] = result]

-----------------------------------------------------------------------------
(* WritePacket, called by streamPublisher.start and by streamCache.send.     *)

\* The ctx check. A cancelled writer returns ctx.Err(); start() then closes
\* and deregisters the writer, so it never calls WritePacket again.
Offer(kind) ==
  /\ pc["producer"] = "idle" /\ Current < MaxPackets
  /\ log' = Append(log, kind)
  /\ IF Cancelled
       THEN outcome' = Append(outcome, "refused") /\ Goto("producer", "closing")
       ELSE /\ outcome' = Append(outcome, "pending")
            /\ Goto("producer", IF Blocking(kind) THEN "block" ELSE "try")
  /\ UNCHANGED <<mode, queue, hand, sent, closer, closeAt, sinkFailed>>

\* A send on a closed channel panics, also inside a select; RunSafe turns the
\* panic into WritePacket's error. A packet of which one copy is already in
\* the queue (rtmp only) has been taken all the same.
SendPanics ==
  /\ pc["producer"] \in {"block", "try"} /\ QueueClosed
  /\ Resolve(IF outcome[Current] = "accepted" THEN "accepted" ELSE "refused")
  /\ Goto("producer", "closing")
  /\ UNCHANGED <<mode, log, queue, hand, sent, closer, closeAt, sinkFailed>>

\* The packet's copy goes into the channel.
Enqueue ==
  /\ queue' = Append(queue, Current)
  /\ Resolve("accepted")

Room == ~QueueClosed /\ Len(queue) < QueueCap

\* Mutant of BlockingSend: every writer without the return after the send.
BlockingSendFallsThrough ==
  /\ pc["producer"] = "block" /\ Room
  /\ Enqueue
  /\ Goto("producer", "try")
  /\ UNCHANGED <<mode, log, hand, sent, closer, closeAt, sinkFailed>>

\* packetQueue <- p.Copy(), which waits for room. The rtmp writer has no
\* return after it and falls through to the select below.
BlockingSend ==
  /\ pc["producer"] = "block" /\ Room
  /\ Enqueue
  /\ Goto("producer", IF mode = "rtmp" THEN "try" ELSE "idle")
  /\ UNCHANGED <<mode, log, hand, sent, closer, closeAt, sinkFailed>>

\* select { case packetQueue <- p.Copy(): default: }
TrySend ==
  /\ pc["producer"] = "try" /\ ~QueueClosed
  /\ IF Len(queue) < QueueCap
       THEN Enqueue
       ELSE /\ Resolve(IF outcome[Current] = "accepted" THEN "accepted" ELSE "dropped")
            /\ UNCHANGED queue
  /\ Goto("producer", "idle")
  /\ UNCHANGED <<mode, log, hand, sent, closer, closeAt, sinkFailed>>

\* start() returned: publisher.close() closes every registered writer.
StreamEnds ==
  /\ pc["producer"] = "idle"
  /\ Goto("producer", "closing")
  /\ UNCHANGED <<mode, log, outcome, queue, hand, sent, closer, closeAt, sinkFailed>>

-----------------------------------------------------------------------------
(* The writer's goroutine.                                                   *)

\* The channel still hands out what it holds after close(packetQueue).
Receive ==
  /\ pc["consumer"] = "recv" /\ queue # <<>>
  /\ queue' = Tail(queue) /\ hand' = <<Head(queue)>>
  /\ Goto("consumer", "write")
  /\ UNCHANGED <<mode, log, outcome, sent, closer, closeAt, sinkFailed>>

\* !ok: closed and drained.
ReceiveClosed ==
  /\ pc["consumer"] = "recv" /\ queue = <<>> /\ QueueClosed
  /\ Goto("consumer", "closing")
  /\ UNCHANGED <<mode, log, outcome, queue, hand, sent, closer, closeAt, sinkFailed>>

\* Mutant of SeeCancel: every writer's goroutine leaves on ctx.Done().
SeeCancelInEveryMode ==
  /\ pc["consumer"] = "recv" /\ Cancelled
  /\ Goto("consumer", "closing")
  /\ UNCHANGED <<mode, log, outcome, queue, hand, sent, closer, closeAt, sinkFailed>>

\* Only SendPacket also selects on ctx.Done(), and may take it while packets
\* are waiting.
SeeCancel ==
  /\ mode = "rtmp"
  /\ pc["consumer"] = "recv" /\ Cancelled
  /\ Goto("consumer", "closing")
  /\ UNCHANGED <<mode, log, outcome, queue, hand, sent, closer, closeAt, sinkFailed>>

\* The packet reaches the connection, the response, the file or the segment.
SinkWrite ==
  /\ pc["consumer"] = "write" /\ ~SinkClosed /\ ~ResponseOver
  /\ sent' = sent \o hand /\ hand' = <<>>
  /\ Goto("consumer", "recv")
  /\ UNCHANGED <<mode, log, outcome, queue, closer, closeAt, sinkFailed>>

\* The peer is gone, the disk is full, or the packet cannot be converted.
SinkFail ==
  /\ pc["consumer"] = "write" /\ ~SinkClosed /\ ~ResponseOver
  /\ hand' = <<>> /\ sinkFailed' = TRUE
  /\ Goto("consumer", "closing")
  /\ UNCHANGED <<mode, log, outcome, queue, sent, closer, closeAt>>

\* A write on a closed connection or file returns an error at once, also when
\* it was already waiting for a peer that does not read.
WriteOnClosed ==
  /\ pc["consumer"] = "write" /\ SinkClosed
  /\ hand' = <<>>
  /\ Goto("consumer", "closing")
  /\ UNCHANGED <<mode, log, outcome, queue, sent, closer, closeAt, sinkFailed>>

\* The http writer goes on draining its queue when its handler has returned, on
\* a ResponseWriter that is no longer its own. What becomes of the packet is
\* not defined: it stays in a buffer that nobody sends or goes out in another
\* request's response; the write reports an error; or the flush panics, in a
\* goroutine that nobody recovers, and the process ends.
WriteAfterEnd ==
  /\ pc["consumer"] = "write" /\ ResponseOver
  /\ hand' = <<>>
  /\ \/ Goto("consumer", "recv")
     \/ Goto("consumer", "closing")
     \/ pc' = [t \in Threads |-> "gone"]
  /\ UNCHANGED <<mode, log, outcome, queue, sent, closer, closeAt, sinkFailed>>

-----------------------------------------------------------------------------
(* Close, under closeOnce: the first caller runs the steps, any other caller *)
(* waits for it.                                                             *)

HookFires ==
  /\ pc["hook"] = "idle"
  /\ Goto("hook", "closing")
  /\ UNCHANGED <<mode, log, outcome, queue, hand, sent, closer, closeAt, sinkFailed>>

CloseStep(t) ==
  /\ pc[t] = "closing" /\ closer \in {"none", t}
  /\ closeAt < Len(CloseSteps[mode])
  /\ closer' = t /\ closeAt' = closeAt + 1
  /\ UNCHANGED <<mode, log, outcome, queue, hand, sent, pc, sinkFailed>>

CloseReturns(t) ==
  /\ pc[t] = "closing" /\ closeAt = Len(CloseSteps[mode])
  /\ Goto(t, "gone")
  /\ UNCHANGED <<mode, log, outcome, queue, hand, sent, closer, closeAt, sinkFailed>>

\* Wait() returns, and with it the request's handler.
WaitReturns ==
  /\ mode = "http" /\ pc["handler"] = "wait" /\ Cancelled
  /\ Goto("handler", "gone")
  /\ UNCHANGED <<mode, log, outcome, queue, hand, sent, closer, closeAt, sinkFailed>>

-----------------------------------------------------------------------------
Closers == {"producer", "consumer", "hook"}

Next ==
  \/ \E kind \in Kinds : Offer(kind)
  \/ SendPanics \/ BlockingSend \/ TrySend \/ StreamEnds
  \/ Receive \/ ReceiveClosed \/ SeeCancel
  \/ SinkWrite \/ SinkFail \/ WriteOnClosed \/ WriteAfterEnd
  \/ HookFires \/ WaitReturns
  \/ \E t \in Closers : CloseStep(t) \/ CloseReturns(t)

Spec == Init /\ [][Next]_vars

\* The Go scheduler runs every goroutine that can run. Nothing makes the
\* publisher send, a stream end, or a peer read what is written to it.
Fairness ==
  /\ WF_vars(SendPanics \/ BlockingSend \/ TrySend)
  /\ WF_vars(Receive \/ ReceiveClosed \/ SeeCancel \/ WriteOnClosed)
  /\ WF_vars(WaitReturns)
  /\ \A t \in Closers : WF_vars(CloseStep(t) \/ CloseReturns(t))

\* A peer that keeps reading, or a disk: every write returns.
SinkReturns == WF_vars(SinkWrite \/ SinkFail \/ WriteAfterEnd)

FairSpec == Spec /\ Fairness

-----------------------------------------------------------------------------
(* Properties.                                                               *)

ToSetOf(s) == {s[i] : i \in DOMAIN s}
Pipeline == sent \o hand \o queue
Taken == {i \in DOMAIN outcome : outcome[i] = "accepted"}

\* What reaches the sink keeps the publisher's order, whatever is dropped and
\* whoever closes. A packet goes out once; an RTMP player can be sent an
\* audio packet or a key frame twice, back to back, because its WritePacket
\* falls through to the second send (rtmp/stream.go 63-77).
InOrder ==
  \A i, j \in DOMAIN Pipeline :
    i < j => \/ Pipeline[i] < Pipeline[j]
             \/ /\ Pipeline[i] = Pipeline[j] /\ j = i + 1
                /\ mode = "rtmp" /\ log[Pipeline[i]] = "vital"

\* No packet is lost without a reason that the code has decided on. What
\* WritePacket has taken is written, or on its way to a goroutine that still
\* runs, unless the sink failed or a Close has cut it off: an RTMP player's
\* goroutine may leave on ctx.Done with packets waiting, a file is closed
\* under its goroutine, and Wait lets an HTTP viewer's response end while
\* muxPacket still drains the queue. In the hls writer not even a Close loses
\* a packet, because muxPacket drains the closed channel (hls/stream.go
\* 130-142). Only an inter frame or metadata is thrown away on a full queue,
\* and nothing is in file mode. WritePacket fails only once a Close has begun,
\* so start() never throws out a viewer for being slow (rtmp/stream.go 180-183).
LossHasReason ==
  \A i \in DOMAIN outcome :
    /\ outcome[i] = "dropped" => log[i] = "spare" /\ mode # "file"
    /\ outcome[i] = "refused" => Cancelled
    /\ outcome[i] = "accepted" =>
         \/ i \in ToSetOf(IF pc["consumer"] \in {"recv", "write"} THEN Pipeline ELSE sent)
         \/ sinkFailed
         \/ mode = "rtmp" /\ Cancelled
         \/ mode = "file" /\ SinkClosed
         \/ ResponseOver

\* "File mode stores directly, no packet is lost" (flv/writer.go 111): when
\* the file writer is finished and the disk never failed, the file holds
\* every packet that WritePacket took.
FileKeepsEverything ==
  mode = "file" /\ pc["consumer"] = "gone" /\ ~sinkFailed
    => Taken \subseteq ToSetOf(sent)

\* Once a Close has begun, whoever began it, neither side stays behind even if
\* the peer never reads again: a publisher blocked on the full queue is let
\* go for good, and an rtmp or file goroutine stuck in a write to that peer
\* leaves, because the connection or file is closed under it
\* (rtmp/stream.go 115-121, flv/writer.go 181-187).
CloseEndsBoth ==
  /\ (closer # "none") ~> [](pc["producer"] \notin {"block", "try"})
  /\ (closer # "none" /\ mode \in {"rtmp", "file"}) ~> (pc["consumer"] = "gone")

\* With a peer that reads, what the http and hls writers have taken is written
\* in the end or the sink reports an error; for an HTTP viewer until its handler
\* has returned, for hls through any Close.
TakenIsWritten ==
  SinkReturns =>
    \A i \in 1..MaxPackets :
      (i \in Taken /\ mode \in {"http", "hls"}) ~>
         (i \in ToSetOf(sent) \/ sinkFailed \/ ResponseOver)
=============================================================================
