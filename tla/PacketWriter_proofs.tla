-------------------------- MODULE PacketWriter_proofs -------------------------
(* A packet writer keeps the order of what it was given and loses a packet   *)
(* only for the reasons the code has decided on, for every size of the       *)
(* queue, any number of packets and every one of the four writers.           *)
EXTENDS PacketWriter, SequenceTheorems, TLAPS

-----------------------------------------------------------------------------
(* The inductive invariant.                                                  *)

Outcomes == {"pending", "accepted", "dropped", "refused"}

\* Every variable has its shape; the writer's goroutine holds a packet exactly
\* while it writes.
Shape ==
  /\ mode \in AllModes
  /\ log \in Seq(Kinds) /\ outcome \in Seq(Outcomes) /\ Len(outcome) = Len(log)
  /\ queue \in Seq(Nat) /\ hand \in Seq(Nat) /\ sent \in Seq(Nat)
  /\ pc \in [Threads -> {"idle", "block", "try", "recv", "write", "wait", "closing", "gone"}]
  /\ pc["producer"] \in {"idle", "block", "try", "closing", "gone"}
  /\ pc["consumer"] \in {"recv", "write", "closing", "gone"}
  /\ IF pc["consumer"] = "write" THEN \E n \in Nat : hand = <<n>> ELSE hand = <<>>
  /\ closeAt \in 0 .. Len(CloseSteps[mode])
  /\ sinkFailed \in BOOLEAN

\* What WritePacket is doing with the newest packet. It waits with one that is
\* worth it and has not been taken; at the second send it has one that may be
\* thrown away, or, in rtmp, one of which a copy has been taken.
Undecided ==
  /\ pc["producer"] \in {"block", "try"} => log # <<>>
  /\ pc["producer"] = "block" => Blocking(log[Current]) /\ outcome[Current] = "pending"
  /\ pc["producer"] = "try" =>
       \/ log[Current] = "spare" /\ mode # "file" /\ outcome[Current] = "pending"
       \/ log[Current] = "vital" /\ mode = "rtmp" /\ outcome[Current] = "accepted"

\* Only packets that were offered are on the way; the newest one, while
\* WritePacket is at it, is there at most once, and then at the end.
Newest ==
  \A i \in DOMAIN Pipeline :
    /\ Pipeline[i] \in 1 .. Current
    /\ pc["producer"] \in {"block", "try"} /\ Pipeline[i] = Current =>
         pc["producer"] = "try" /\ outcome[Current] = "accepted" /\ i = Len(Pipeline)

\* Why the writer's goroutine has left its loop.
LeftFor ==
  pc["consumer"] \notin {"recv", "write"} =>
    \/ sinkFailed
    \/ QueueClosed
    \/ mode = "rtmp" /\ Cancelled
    \/ ResponseOver

IInv == Shape /\ Undecided /\ Newest /\ LeftFor /\ InOrder /\ LossHasReason

\* A sequence with one more at its end, and with one less somewhere.
OneMore(old, new, n) ==
  /\ Len(new) = Len(old) + 1 /\ DOMAIN new = 1 .. Len(old) + 1
  /\ new[Len(old) + 1] = n /\ \A i \in 1 .. Len(old) : new[i] = old[i]
OneLess(old, new) ==
  /\ Len(new) = Len(old) - 1 /\ DOMAIN new = 1 .. Len(old) - 1
  /\ \E k \in Nat : \A i \in 1 .. Len(old) - 1 :
       IF i <= k THEN new[i] = old[i] ELSE new[i] = old[i + 1]

\* A packet that WritePacket took is on its way or written, or there is a
\* reason why it need not be.
Saved(i) ==
  \/ i \in ToSetOf(IF pc["consumer"] \in {"recv", "write"} THEN Pipeline ELSE sent)
  \/ sinkFailed
  \/ mode = "rtmp" /\ Cancelled
  \/ mode = "file" /\ SinkClosed
  \/ ResponseOver

\* What a step does to the packets on their way: a new one is offered; the
\* newest is put at the end, by WritePacket; the one in hand is given up; or
\* they stay as they are, and WritePacket is where it was or is done with it.
Offers ==
  /\ \E kind \in Kinds : log' = Append(log, kind)
  /\ Pipeline' = Pipeline
Takes ==
  /\ pc["producer"] \in {"block", "try"} /\ log' = log
  /\ OneMore(Pipeline, Pipeline', Current)
  /\ \/ pc'["producer"] = "idle"
     \/ pc["producer"] = "block" /\ pc'["producer"] = "try" /\ outcome'[Current] = "accepted"
GivesUp ==
  /\ log' = log /\ outcome' = outcome
  /\ pc'["producer"] \in {pc["producer"], "gone"}
  /\ pc'["consumer"] \in {"closing", "gone"} \/ ResponseOver
  /\ OneLess(Pipeline, Pipeline')
StayOrLeave ==
  /\ log' = log /\ Pipeline' = Pipeline
  /\ pc'["producer"] \in {"block", "try"} =>
       pc'["producer"] = pc["producer"] /\ outcome' = outcome

-----------------------------------------------------------------------------
(* Lemmas.                                                                   *)

\* How far Close has come decides what is cancelled and closed: the context
\* first, the queue before the connection or the file.
LEMMA HowFarClosed ==
  ASSUME mode \in AllModes, closeAt \in 0 .. Len(CloseSteps[mode])
  PROVE  /\ Cancelled <=> closeAt >= 1
         /\ QueueClosed <=> closeAt >= IF mode = "hls" THEN 3 ELSE 2
         /\ SinkClosed <=> mode \in {"rtmp", "file"} /\ closeAt >= 3
<1> USE DEF Cancelled, QueueClosed, SinkClosed, Done, CloseSteps, AllModes
<1>1. CASE mode = "rtmp"
  BY <1>1
<1>2. CASE mode = "file"
  BY <1>2
<1>3. CASE mode = "http"
  BY <1>3
<1>4. CASE mode = "hls"
  BY <1>4
<1>5. QED
  BY <1>1, <1>2, <1>3, <1>4

\* The packets written, in hand and queued, in one sequence.
OnTheWay(s, h, q) == s \o h \o q

\* A packet that enters the queue is put behind all others.
LEMMA PutAtTheEnd ==
  ASSUME NEW s \in Seq(Nat), NEW h \in Seq(Nat), NEW q \in Seq(Nat), NEW n \in Nat,
         NEW more, more = Append(q, n)
  PROVE  OneMore(OnTheWay(s, h, q), OnTheWay(s, h, more), n)
<1> DEFINE longer == OnTheWay(s, h, more)
           old == OnTheWay(s, h, q)
<1> USE DEF OnTheWay
<1>1. Len(longer) = Len(old) + 1 /\ DOMAIN longer = 1 .. Len(old) + 1
  OBVIOUS
<1>2. longer[Len(old) + 1] = n
  OBVIOUS
<1>3. \A i \in 1 .. Len(old) : longer[i] = old[i]
  OBVIOUS
<1>4. QED
  BY <1>1, <1>2, <1>3 DEF OneMore

\* A packet received is still in its place.
LEMMA IntoTheHand ==
  ASSUME NEW s \in Seq(Nat), NEW q \in Seq(Nat), q # <<>>
  PROVE  OnTheWay(s, <<Head(q)>>, Tail(q)) = OnTheWay(s, <<>>, q)
<1> DEFINE received == OnTheWay(s, <<Head(q)>>, Tail(q))
           old == OnTheWay(s, <<>>, q)
<1>1. received \in Seq(Nat) /\ old \in Seq(Nat) /\ Len(received) = Len(old)
  BY DEF OnTheWay
<1>2. \A i \in 1 .. Len(received) : received[i] = old[i]
  BY DEF OnTheWay
<1> HIDE DEF received, old
<1>3. received = old
  BY <1>1, <1>2, SeqEqual
<1>4. QED
  BY <1>3 DEF received, old

\* A packet written is still in its place.
LEMMA OutOfTheHand ==
  ASSUME NEW s \in Seq(Nat), NEW h \in Seq(Nat), NEW q \in Seq(Nat)
  PROVE  OnTheWay(s \o h, <<>>, q) = OnTheWay(s, h, q)
BY ConcatProperties, ConcatEmptySeq DEF OnTheWay

\* Without the packet given up the others keep their order.
LEMMA GivenUp ==
  ASSUME NEW s \in Seq(Nat), NEW q \in Seq(Nat), NEW n \in Nat
  PROVE  OneLess(OnTheWay(s, <<n>>, q), OnTheWay(s, <<>>, q))
<1> DEFINE shorter == OnTheWay(s, <<>>, q)
           old == OnTheWay(s, <<n>>, q)
<1> USE DEF OnTheWay
<1>1. /\ Len(shorter) = Len(old) - 1 /\ DOMAIN shorter = 1 .. Len(old) - 1
      /\ \A i \in 1 .. Len(old) - 1 :
           IF i <= Len(s) THEN shorter[i] = old[i] ELSE shorter[i] = old[i + 1]
  BY ConcatEmptySeq
<1> HIDE DEF shorter, old
<1>2. Len(s) \in Nat
  OBVIOUS
<1>3. OneLess(old, shorter)
  BY <1>1, <1>2 DEF OneLess
<1>4. QED
  BY <1>3 DEF shorter, old

\* Every step keeps the shapes.
LEMMA ShapeKept == Shape /\ Undecided /\ [Next]_vars => Shape'
<1> SUFFICES ASSUME Shape, Undecided, [Next]_vars PROVE Shape'
  OBVIOUS
<1> USE DEF Shape, Goto, Threads
<1>0. log \in Seq(Kinds) /\ Current \in Nat
  BY LenProperties DEF Current
<1>1. ASSUME NEW kind \in Kinds, Offer(kind) PROVE Shape'
  <2>1. /\ Append(log, kind) \in Seq(Kinds) /\ Len(Append(log, kind)) = Len(log) + 1
        /\ \A r \in Outcomes : Append(outcome, r) \in Seq(Outcomes)
                                /\ Len(Append(outcome, r)) = Len(outcome) + 1
    BY AppendProperties
  <2>2. outcome' \in Seq(Outcomes) /\ Len(outcome') = Len(outcome) + 1
    BY <1>1, <2>1 DEF Offer, Outcomes
  <2>3. QED
    BY <1>1, <2>1, <2>2 DEF Offer
<1>2. ASSUME NEW r \in Outcomes, log # <<>>
      PROVE  /\ [outcome EXCEPT ![Current] = r] \in Seq(Outcomes)
             /\ Len([outcome EXCEPT ![Current] = r]) = Len(log)
  BY <1>2, ExceptSeq, EmptySeq, LenProperties DEF Current
<1>3. Append(queue, Current) \in Seq(Nat)
  BY <1>0, AppendProperties
<1>4. CASE SendPanics
  BY <1>2, <1>4 DEF SendPanics, Resolve, Outcomes, Undecided
<1>5. CASE BlockingSend
  BY <1>2, <1>3, <1>5 DEF BlockingSend, Enqueue, Resolve, Outcomes, Undecided
<1>6. CASE TrySend
  BY <1>2, <1>3, <1>6 DEF TrySend, Enqueue, Resolve, Outcomes, Undecided
<1>7. CASE StreamEnds
  BY <1>7 DEF StreamEnds
<1>8. CASE Receive
  <2>1. Tail(queue) \in Seq(Nat) /\ <<Head(queue)>> \in Seq(Nat) /\ Len(<<Head(queue)>>) = 1
    BY <1>8, HeadTailProperties DEF Receive
  <2>2. QED
    BY <1>8, <2>1 DEF Receive
<1>9. CASE ReceiveClosed \/ SeeCancel
  BY <1>9 DEF ReceiveClosed, SeeCancel
<1>10. CASE SinkWrite
  <2>1. sent \o hand \in Seq(Nat)
    BY ConcatProperties
  <2>2. QED
    BY <1>10, <2>1 DEF SinkWrite
<1>11. CASE SinkFail \/ WriteOnClosed \/ WriteAfterEnd
  <2>1. CASE SinkFail
    BY <2>1 DEF SinkFail
  <2>2. CASE WriteOnClosed
    BY <2>2 DEF WriteOnClosed
  <2>3. CASE WriteAfterEnd
    <3>1. /\ \A t \in Threads : pc'[t] \in {pc[t], "recv", "closing", "gone"}
          /\ pc' \in [Threads -> {"idle", "block", "try", "recv", "write", "wait", "closing", "gone"}]
          /\ pc'["producer"] \in {pc["producer"], "gone"} /\ pc'["consumer"] \in {"recv", "closing", "gone"}
      BY <2>3 DEF WriteAfterEnd
    <3>2. hand' = <<>> /\ hand' \in Seq(Nat) /\ UNCHANGED <<mode, log, outcome, queue, sent, closeAt, sinkFailed>>
      BY <2>3 DEF WriteAfterEnd
    <3>3. QED
      BY <3>1, <3>2
  <2>4. QED
    BY <1>11, <2>1, <2>2, <2>3
<1>12. CASE HookFires \/ WaitReturns
  BY <1>12 DEF HookFires, WaitReturns
<1>13. ASSUME NEW t \in Closers, CloseStep(t) \/ CloseReturns(t) PROVE Shape'
  <2>1. CASE CloseStep(t)
    BY <2>1 DEF CloseStep, CloseSteps, AllModes
  <2>2. CASE CloseReturns(t)
    BY <2>2 DEF CloseReturns, Closers
  <2>3. QED
    BY <1>13, <2>1, <2>2
<1>14. CASE UNCHANGED vars
  BY <1>14 DEF vars
<1>15. QED
  BY <1>1, <1>4, <1>5, <1>6, <1>7, <1>8, <1>9, <1>10, <1>11, <1>12, <1>13, <1>14 DEF Next

\* Every step keeps what is known of the newest packet.
LEMMA UndecidedKept == Shape /\ Undecided /\ [Next]_vars => Undecided'
<1> SUFFICES ASSUME Shape, Undecided, [Next]_vars PROVE Undecided'
  OBVIOUS
<1> USE DEF Shape, Undecided, Goto, Threads, Current, Blocking, Kinds
<1>1. ASSUME NEW kind \in Kinds, Offer(kind) PROVE Undecided'
  <2>1. log' # <<>> /\ log'[Len(log')] = kind
    BY <1>1 DEF Offer
  <2>2. pc'["producer"] \in {"block", "try"} => outcome'[Len(log')] = "pending"
    <3>1. CASE Cancelled
      <4>1. pc'["producer"] = "closing"
        BY <1>1, <3>1 DEF Offer
      <4>2. QED
        BY <4>1
    <3>2. CASE ~Cancelled
      <4>1. outcome \in Seq(Outcomes) /\ "pending" \in Outcomes /\ log \in Seq(Kinds)
        BY DEF Outcomes
      <4>2. outcome' = Append(outcome, "pending") /\ log' = Append(log, kind)
        BY <1>1, <3>2 DEF Offer
      <4>3. Len(log') = Len(outcome) + 1
        BY <1>1, <4>1, <4>2, AppendProperties
      <4>4. QED
        BY <4>1, <4>2, <4>3, AppendProperties
    <3>3. QED
      BY <3>1, <3>2
  <2>3. QED
    BY <1>1, <2>1, <2>2 DEF Offer
<1>2. CASE SendPanics \/ StreamEnds \/ (TrySend /\ pc'["producer"] = "idle")
  <2>1. pc'["producer"] \in {"closing", "idle"}
    BY <1>2 DEF SendPanics, StreamEnds, TrySend
  <2>2. QED
    BY <2>1
<1>3. CASE BlockingSend
  <2>1. outcome' = [outcome EXCEPT ![Current] = "accepted"] /\ Current \in DOMAIN outcome
    BY <1>3, LenProperties, EmptySeq DEF BlockingSend, Enqueue, Resolve
  <2>2. outcome'[Current] = "accepted"
    BY <2>1
  <2>3. QED
    BY <1>3, <2>2 DEF BlockingSend
<1>4. CASE UNCHANGED <<mode, log, outcome, pc>>
  BY <1>4
<1>5. ASSUME NEW t \in {"consumer", "hook", "handler"}, NEW loc,
             UNCHANGED <<mode, log, outcome>>, pc' = [pc EXCEPT ![t] = loc]
      PROVE  Undecided'
  BY <1>5
<1>6. CASE Receive \/ ReceiveClosed \/ SeeCancel \/ SinkWrite \/ SinkFail \/ WriteOnClosed
  BY <1>5, <1>6 DEF Receive, ReceiveClosed, SeeCancel, SinkWrite, SinkFail, WriteOnClosed
<1>7. CASE HookFires \/ WaitReturns
  BY <1>5, <1>7 DEF HookFires, WaitReturns
<1>8. ASSUME NEW t \in Closers, CloseStep(t) \/ CloseReturns(t) PROVE Undecided'
  BY <1>8 DEF CloseStep, CloseReturns, Closers
<1>9. CASE UNCHANGED vars
  BY <1>9 DEF vars
<1>10. TrySend => pc'["producer"] = "idle"
  BY DEF TrySend
<1>11. CASE WriteAfterEnd
  <2>1. CASE pc' = [t \in Threads |-> "gone"]
    BY <2>1
  <2>2. CASE pc' # [t \in Threads |-> "gone"]
    BY <1>5, <1>11, <2>2 DEF WriteAfterEnd
  <2>3. QED
    BY <2>1, <2>2
<1>12. QED
  BY <1>1, <1>2, <1>3, <1>6, <1>7, <1>8, <1>9, <1>10, <1>11 DEF Next

\* Close only goes forward.
LEMMA CloseGoesOn ==
  ASSUME Shape, Shape', [Next]_vars
  PROVE  /\ closeAt' >= closeAt /\ mode' = mode
         /\ (Cancelled => Cancelled') /\ (QueueClosed => QueueClosed') /\ (SinkClosed => SinkClosed')
         /\ (ResponseOver => ResponseOver')
<1>1. closeAt' >= closeAt /\ mode' = mode
  BY DEF Next, vars, Offer, SendPanics, BlockingSend, TrySend, StreamEnds, Receive, ReceiveClosed,
     SeeCancel, SinkWrite, SinkFail, WriteOnClosed, WriteAfterEnd, HookFires, WaitReturns, CloseStep, CloseReturns,
     Shape
<1>2. 1 .. closeAt \subseteq 1 .. closeAt'
  BY <1>1 DEF Shape
<1>3. pc["handler"] = "gone" => pc'["handler"] = "gone"
  BY DEF Next, vars, Offer, SendPanics, BlockingSend, TrySend, StreamEnds, Receive, ReceiveClosed,
     SeeCancel, SinkWrite, SinkFail, WriteOnClosed, WriteAfterEnd, HookFires, WaitReturns, CloseStep,
     CloseReturns, Closers, Goto, Shape, Threads
<1>4. QED
  BY <1>1, <1>2, <1>3 DEF Cancelled, QueueClosed, SinkClosed, ResponseOver, Done

\* Whichever of the two sends puts the newest packet into the queue, it goes to
\* the end of those on their way.
LEMMA EnqueueTakes ==
  ASSUME Shape, Undecided, pc["producer"] \in {"block", "try"}, Enqueue, UNCHANGED <<log, hand, sent>>,
         pc'["producer"] = "idle" \/ (pc["producer"] = "block" /\ pc'["producer"] = "try")
  PROVE  Takes /\ outcome'[Current] = "accepted"
<1>0. sent \in Seq(Nat) /\ hand \in Seq(Nat) /\ queue \in Seq(Nat) /\ Current \in Nat
  BY LenProperties DEF Shape, Current
<1>1. queue' = Append(queue, Current)
  BY DEF Enqueue
<1>2. outcome'[Current] = "accepted"
  BY EmptySeq, LenProperties DEF Enqueue, Resolve, Current, Shape, Undecided
<1>3. Pipeline' = OnTheWay(sent, hand, queue') /\ Pipeline = OnTheWay(sent, hand, queue)
  BY DEF Pipeline, OnTheWay
<1>4. OneMore(OnTheWay(sent, hand, queue), OnTheWay(sent, hand, queue'), Current)
  BY <1>0, <1>1, PutAtTheEnd
<1>5. QED
  BY <1>2, <1>3, <1>4 DEF Takes

\* Every step does one of the four things to the packets on their way.
LEMMA StepKinds ==
  ASSUME Shape, Undecided, [Next]_vars
  PROVE  /\ DOMAIN Pipeline = 1 .. Len(Pipeline) /\ Len(Pipeline) \in Nat /\ Current \in Nat
         /\ mode' = mode
         /\ Offers \/ Takes \/ GivesUp \/ StayOrLeave
<1>0. sent \in Seq(Nat) /\ hand \in Seq(Nat) /\ queue \in Seq(Nat)
  BY DEF Shape
<1>1. DOMAIN Pipeline = 1 .. Len(Pipeline) /\ Len(Pipeline) \in Nat /\ Current \in Nat
  BY <1>0, LenProperties DEF Shape, Pipeline, Current
<1>2. mode' = mode
  BY DEF Next, vars, Offer, SendPanics, BlockingSend, TrySend, StreamEnds, Receive, ReceiveClosed,
     SeeCancel, SinkWrite, SinkFail, WriteOnClosed, WriteAfterEnd, HookFires, WaitReturns, CloseStep, CloseReturns
<1> SUFFICES Offers \/ Takes \/ GivesUp \/ StayOrLeave
  BY <1>1, <1>2
<1>3. ASSUME NEW kind \in Kinds, Offer(kind) PROVE Offers
  BY <1>3 DEF Offer, Offers, Pipeline
<1>4. CASE SendPanics \/ StreamEnds
  BY <1>4 DEF SendPanics, StreamEnds, StayOrLeave, Pipeline, Goto, Shape, Threads
<1>6. CASE BlockingSend
  <2>1. pc'["producer"] = "idle" \/ (pc["producer"] = "block" /\ pc'["producer"] = "try")
    BY <1>6 DEF BlockingSend, Goto, Shape, Threads
  <2>2. QED
    BY <1>6, <2>1, EnqueueTakes DEF BlockingSend
<1>7. CASE TrySend
  <2>1. pc'["producer"] = "idle"
    BY <1>7 DEF TrySend, Goto, Shape, Threads
  <2>2. CASE Len(queue) < QueueCap
    BY <1>7, <2>1, <2>2, EnqueueTakes DEF TrySend
  <2>3. CASE ~(Len(queue) < QueueCap)
    BY <1>7, <2>1, <2>3 DEF TrySend, StayOrLeave, Pipeline
  <2>4. QED
    BY <2>2, <2>3
<1>8. ASSUME pc'["producer"] \in {pc["producer"], "gone"}, UNCHANGED <<log, outcome>>,
             Pipeline' = Pipeline
      PROVE  StayOrLeave
  BY <1>8 DEF StayOrLeave
<1>9. CASE Receive
  <2>1. hand = <<>> /\ queue # <<>> /\ hand' = <<Head(queue)>> /\ queue' = Tail(queue) /\ sent' = sent
    BY <1>9 DEF Receive, Shape
  <2>2. Pipeline' = Pipeline
    <3>1. /\ Pipeline' = OnTheWay(sent, <<Head(queue)>>, Tail(queue))
          /\ Pipeline = OnTheWay(sent, <<>>, queue)
      BY <2>1 DEF Pipeline, OnTheWay
    <3>2. QED
      BY <1>0, <2>1, <3>1, IntoTheHand
  <2>3. QED
    BY <1>8, <1>9, <2>2 DEF Receive, Goto, Shape, Threads
<1>10. CASE SinkWrite
  <2>1. Pipeline' = Pipeline
    <3>1. /\ Pipeline' = OnTheWay(sent \o hand, <<>>, queue)
          /\ Pipeline = OnTheWay(sent, hand, queue)
      BY <1>10 DEF SinkWrite, Pipeline, OnTheWay
    <3>2. QED
      BY <1>0, <3>1, OutOfTheHand
  <2>2. QED
    BY <1>8, <1>10, <2>1 DEF SinkWrite, Goto, Shape, Threads
<1>11. CASE SinkFail \/ WriteOnClosed \/ WriteAfterEnd
  <2>1. PICK n \in Nat : hand = <<n>>
    BY <1>11 DEF SinkFail, WriteOnClosed, WriteAfterEnd, Shape
  <2>2. /\ hand' = <<>> /\ UNCHANGED <<sent, queue, log, outcome>>
        /\ pc'["producer"] \in {pc["producer"], "gone"}
        /\ pc'["consumer"] \in {"closing", "gone"} \/ ResponseOver
    BY <1>11 DEF SinkFail, WriteOnClosed, WriteAfterEnd, Goto, Shape, Threads
  <2>3. OneLess(Pipeline, Pipeline')
    <3>1. Pipeline' = OnTheWay(sent, <<>>, queue) /\ Pipeline = OnTheWay(sent, <<n>>, queue)
      BY <2>1, <2>2 DEF Pipeline, OnTheWay
    <3>2. QED
      BY <1>0, <3>1, GivenUp
  <2>4. QED
    BY <2>2, <2>3, LenProperties DEF GivesUp, Shape
<1>12. CASE ReceiveClosed \/ SeeCancel \/ HookFires \/ WaitReturns
  BY <1>8, <1>12 DEF ReceiveClosed, SeeCancel, HookFires, WaitReturns, Goto, Shape, Threads, Pipeline
<1>13. ASSUME NEW t \in Closers, CloseStep(t) \/ CloseReturns(t) PROVE StayOrLeave
  BY <1>8, <1>13 DEF CloseStep, CloseReturns, Goto, Shape, Threads, Closers, Pipeline
<1>14. CASE UNCHANGED vars
  BY <1>8, <1>14 DEF vars, Pipeline
<1>15. QED
  BY <1>1, <1>2, <1>3, <1>4, <1>6, <1>7, <1>9, <1>10, <1>11, <1>12, <1>13, <1>14 DEF Next

\* Every step keeps the order, and the place of the newest packet.
LEMMA OrderKept ==
  ASSUME Shape, Undecided, Newest, InOrder, [Next]_vars
  PROVE  Newest' /\ InOrder'
<1>1. /\ DOMAIN Pipeline = 1 .. Len(Pipeline) /\ Len(Pipeline) \in Nat /\ Current \in Nat
      /\ mode' = mode
      /\ Offers \/ Takes \/ GivesUp \/ StayOrLeave
  BY StepKinds
<1>2. CASE Offers
  <2>1. PICK kind \in Kinds : log' = Append(log, kind)
    BY <1>2 DEF Offers
  <2>2. Len(log') = Len(log) + 1 /\ \A n \in 1 .. Len(log) : log'[n] = log[n]
    BY <2>1 DEF Shape
  <2>3. Newest'
    BY <1>1, <1>2, <2>2 DEF Offers, Newest, Current
  <2>4. InOrder'
    BY <1>1, <1>2, <2>2 DEF Offers, Newest, InOrder, Current
  <2>5. QED
    BY <2>3, <2>4
<1>3. CASE Takes
  <2>1. log # <<>> /\ Current' = Current /\ Current >= 1
    BY <1>1, <1>3, EmptySeq DEF Takes, Undecided, Shape, Current
  <2>2. /\ DOMAIN Pipeline' = 1 .. Len(Pipeline) + 1 /\ Len(Pipeline') = Len(Pipeline) + 1
        /\ Pipeline'[Len(Pipeline) + 1] = Current
        /\ \A i \in 1 .. Len(Pipeline) : Pipeline'[i] = Pipeline[i]
    BY <1>3 DEF Takes, OneMore
  <2>3. ASSUME NEW i \in 1 .. Len(Pipeline), Pipeline[i] = Current
        PROVE  i = Len(Pipeline) /\ pc["producer"] = "try" /\ mode = "rtmp" /\ log[Current] = "vital"
    BY <1>1, <1>3, <2>3 DEF Takes, Newest, Undecided
  <2>4. pc["producer"] = "try" => pc'["producer"] = "idle"
    BY <1>3 DEF Takes
  <2>5. ASSUME NEW i \in DOMAIN Pipeline'
        PROVE  /\ Pipeline'[i] \in 1 .. Current
               /\ pc'["producer"] \in {"block", "try"} /\ Pipeline'[i] = Current =>
                    pc'["producer"] = "try" /\ outcome'[Current] = "accepted" /\ i = Len(Pipeline')
    <3>1. CASE i = Len(Pipeline) + 1
      BY <1>1, <1>3, <2>1, <2>2, <3>1 DEF Takes
    <3>2. CASE i \in 1 .. Len(Pipeline)
      BY <1>1, <1>3, <2>2, <2>3, <2>4, <3>2 DEF Takes, Newest
    <3>3. QED
      BY <1>1, <2>2, <3>1, <3>2
  <2>6. ASSUME NEW i \in DOMAIN Pipeline', NEW j \in DOMAIN Pipeline', i < j
        PROVE  \/ Pipeline'[i] < Pipeline'[j]
               \/ /\ Pipeline'[i] = Pipeline'[j] /\ j = i + 1
                  /\ mode' = "rtmp" /\ log'[Pipeline'[i]] = "vital"
    <3>1. i \in 1 .. Len(Pipeline) /\ Pipeline'[i] = Pipeline[i] /\ Pipeline[i] \in 1 .. Current
      BY <1>1, <2>2, <2>6 DEF Newest
    <3>2. CASE j = Len(Pipeline) + 1
      <4>1. Pipeline'[j] = Current
        BY <2>2, <3>2
      <4>2. CASE Pipeline[i] = Current
        BY <1>1, <1>3, <2>3, <3>1, <3>2, <4>1, <4>2 DEF Takes
      <4>3. CASE Pipeline[i] # Current
        BY <1>1, <3>1, <4>1, <4>3
      <4>4. QED
        BY <4>2, <4>3
    <3>3. CASE j \in 1 .. Len(Pipeline)
      BY <1>1, <1>3, <2>2, <2>6, <3>1, <3>3 DEF Takes, InOrder
    <3>4. QED
      BY <1>1, <2>2, <3>2, <3>3
  <2>7. QED
    BY <2>1, <2>5, <2>6 DEF Newest, InOrder
<1>4. CASE GivesUp
  <2>1. PICK k \in Nat : \A i \in 1 .. Len(Pipeline) - 1 :
          IF i <= k THEN Pipeline'[i] = Pipeline[i] ELSE Pipeline'[i] = Pipeline[i + 1]
    BY <1>4 DEF GivesUp, OneLess
  <2> DEFINE old(i) == IF i <= k THEN i ELSE i + 1
  <2>2. DOMAIN Pipeline' = 1 .. Len(Pipeline) - 1 /\ Len(Pipeline') = Len(Pipeline) - 1
    BY <1>4 DEF GivesUp, OneLess
  <2>3. \A i \in 1 .. Len(Pipeline) - 1 : old(i) \in 1 .. Len(Pipeline) /\ Pipeline'[i] = Pipeline[old(i)]
    BY <1>1, <2>1
  <2>4. \A i, j \in 1 .. Len(Pipeline) - 1 :
          i < j => old(i) < old(j) /\ (old(j) = old(i) + 1 => j = i + 1)
    BY <1>1
  <2>5. ASSUME NEW i \in 1 .. Len(Pipeline) - 1, old(i) = Len(Pipeline) PROVE i = Len(Pipeline) - 1
    <3> DEFINE n == Len(Pipeline)
    <3>1. n \in Nat /\ i \in 1 .. n - 1 /\ (IF i <= k THEN i ELSE i + 1) = n
      BY <1>1, <2>5
    <3> HIDE DEF n
    <3>2. i = n - 1
      BY <3>1
    <3>3. QED
      BY <3>2 DEF n
  <2> HIDE DEF old
  <2>6. Current' = Current
    BY <1>4 DEF GivesUp, Current
  <2>7. ASSUME NEW i \in DOMAIN Pipeline'
        PROVE  /\ Pipeline'[i] \in 1 .. Current
               /\ pc'["producer"] \in {"block", "try"} /\ Pipeline'[i] = Current =>
                    pc'["producer"] = "try" /\ outcome'[Current] = "accepted" /\ i = Len(Pipeline')
    <3>1. /\ old(i) \in DOMAIN Pipeline /\ Pipeline'[i] = Pipeline[old(i)]
          /\ old(i) = Len(Pipeline) => i = Len(Pipeline')
      BY <1>1, <2>2, <2>3, <2>5
    <3>2. QED
      BY <1>4, <3>1 DEF GivesUp, Newest
  <2>8. ASSUME NEW i \in DOMAIN Pipeline', NEW j \in DOMAIN Pipeline', i < j
        PROVE  \/ Pipeline'[i] < Pipeline'[j]
               \/ /\ Pipeline'[i] = Pipeline'[j] /\ j = i + 1
                  /\ mode' = "rtmp" /\ log'[Pipeline'[i]] = "vital"
    <3>1. /\ old(i) \in DOMAIN Pipeline /\ Pipeline'[i] = Pipeline[old(i)]
          /\ old(j) \in DOMAIN Pipeline /\ Pipeline'[j] = Pipeline[old(j)]
          /\ old(i) < old(j) /\ (old(j) = old(i) + 1 => j = i + 1)
      BY <1>1, <2>2, <2>3, <2>4, <2>8
    <3>2. log' = log /\ mode' = mode
      BY <1>1, <1>4 DEF GivesUp
    <3>3. QED
      BY <3>1, <3>2 DEF InOrder
  <2>9. QED
    BY <2>6, <2>7, <2>8 DEF Newest, InOrder
<1>5. CASE StayOrLeave
  BY <1>1, <1>5 DEF StayOrLeave, Newest, InOrder, Current
<1>6. QED
  BY <1>1, <1>2, <1>3, <1>4, <1>5

\* A writer's goroutine leaves for one of three reasons.
LEMMA LeftForKept ==
  ASSUME Shape, Shape', LeftFor, [Next]_vars
  PROVE  LeftFor'
<1>0. /\ mode' = mode /\ (Cancelled => Cancelled') /\ (QueueClosed => QueueClosed')
      /\ (ResponseOver => ResponseOver')
  BY CloseGoesOn
<1>1. sinkFailed => sinkFailed'
  BY DEF Next, vars, Offer, SendPanics, BlockingSend, TrySend, StreamEnds, Receive,
     ReceiveClosed, SeeCancel, SinkWrite, SinkFail, WriteOnClosed, WriteAfterEnd, HookFires, WaitReturns,
     CloseStep, CloseReturns
<1>2. CASE pc["consumer"] \notin {"recv", "write"}
  BY <1>0, <1>1, <1>2 DEF LeftFor
<1>3. CASE pc["consumer"] \in {"recv", "write"} /\ pc'["consumer"] \notin {"recv", "write"}
  <2>1. ReceiveClosed \/ SeeCancel \/ SinkFail \/ WriteOnClosed \/ WriteAfterEnd
    BY <1>3 DEF Next, vars, Offer, SendPanics, BlockingSend, TrySend, StreamEnds, Receive,
       SinkWrite, HookFires, WaitReturns, CloseStep, CloseReturns, Goto, Shape, Threads, Closers
  <2>2. CASE ReceiveClosed
    BY <1>0, <2>2 DEF ReceiveClosed, LeftFor
  <2>3. CASE SeeCancel
    BY <1>0, <2>3 DEF SeeCancel, LeftFor
  <2>4. CASE SinkFail
    BY <2>4 DEF SinkFail, LeftFor
  <2>5. CASE WriteOnClosed
    <3>1. SinkClosed
      BY <2>5 DEF WriteOnClosed
    <3>2. QueueClosed
      BY <3>1, HowFarClosed DEF Shape
    <3>3. QED
      BY <1>0, <3>2 DEF LeftFor
  <2>6. CASE WriteAfterEnd
    BY <1>0, <2>6 DEF WriteAfterEnd, LeftFor
  <2>7. QED
    BY <2>1, <2>2, <2>3, <2>4, <2>5, <2>6
<1>4. CASE pc'["consumer"] \in {"recv", "write"}
  BY <1>4 DEF LeftFor
<1>5. QED
  BY <1>2, <1>3, <1>4

\* A packet saved stays saved, whatever the goroutines and Close do.
LEMMA SavedKept ==
  ASSUME Shape, Shape', Undecided, [Next]_vars, NEW n, Saved(n)
  PROVE  Saved(n)'
<1> DEFINE running == pc["consumer"] \in {"recv", "write"}
<1>1. /\ mode' = mode /\ (Cancelled => Cancelled') /\ (SinkClosed => SinkClosed')
      /\ (ResponseOver => ResponseOver')
  BY CloseGoesOn
<1>2. sinkFailed => sinkFailed'
  BY DEF Next, vars, Offer, SendPanics, BlockingSend, TrySend, StreamEnds, Receive,
     ReceiveClosed, SeeCancel, SinkWrite, SinkFail, WriteOnClosed, WriteAfterEnd, HookFires, WaitReturns,
     CloseStep, CloseReturns
<1>3. CASE sinkFailed \/ (mode = "rtmp" /\ Cancelled) \/ (mode = "file" /\ SinkClosed) \/ ResponseOver
  BY <1>1, <1>2, <1>3 DEF Saved
<1>4. CASE ~running /\ n \in ToSetOf(sent) /\ ~ResponseOver
  <2>1. ~running' /\ sent' = sent
    BY <1>4 DEF Next, vars, Offer, SendPanics, BlockingSend, TrySend, StreamEnds, Receive,
       ReceiveClosed, SeeCancel, SinkWrite, SinkFail, WriteOnClosed, WriteAfterEnd, HookFires, WaitReturns,
       CloseStep, CloseReturns, Goto, Shape, Threads, Closers
  <2>2. QED
    BY <1>4, <2>1 DEF Saved, ToSetOf
<1>5. CASE running /\ running' /\ n \in ToSetOf(Pipeline) /\ ~ResponseOver
  <2>1. /\ DOMAIN Pipeline = 1 .. Len(Pipeline) /\ Len(Pipeline) \in Nat
        /\ Offers \/ Takes \/ StayOrLeave
    BY <1>5, StepKinds DEF GivesUp
  <2>2. PICK i \in DOMAIN Pipeline : n = Pipeline[i]
    BY <1>5 DEF ToSetOf
  <2>3. i \in DOMAIN Pipeline' /\ Pipeline'[i] = n
    BY <2>1, <2>2 DEF Offers, Takes, StayOrLeave, OneMore
  <2>4. QED
    BY <1>5, <2>3 DEF Saved, ToSetOf
<1>6. CASE running /\ ~running' /\ n \in ToSetOf(Pipeline) /\ ~ResponseOver
  <2>1. ReceiveClosed \/ SeeCancel \/ SinkFail \/ WriteOnClosed \/ WriteAfterEnd
    BY <1>6 DEF Next, vars, Offer, SendPanics, BlockingSend, TrySend, StreamEnds, Receive,
       SinkWrite, HookFires, WaitReturns, CloseStep, CloseReturns, Goto, Shape, Threads, Closers
  <2>2. CASE ReceiveClosed
    <3>1. hand = <<>> /\ queue = <<>> /\ sent' = sent
      BY <2>2 DEF ReceiveClosed, Shape
    <3>2. Pipeline = sent
      BY <3>1, ConcatEmptySeq DEF Pipeline, Shape
    <3>3. QED
      BY <1>6, <3>1, <3>2 DEF Saved, ToSetOf
  <2>3. CASE SeeCancel
    BY <1>1, <2>3 DEF SeeCancel, Saved
  <2>4. CASE SinkFail
    BY <2>4 DEF SinkFail, Saved
  <2>5. CASE WriteOnClosed
    <3>1. SinkClosed /\ (SinkClosed => mode \in {"rtmp", "file"} /\ Cancelled)
      BY <2>5, HowFarClosed DEF WriteOnClosed, Shape
    <3>2. QED
      BY <1>1, <3>1 DEF Saved
  <2>6. CASE WriteAfterEnd
    BY <1>6, <2>6 DEF WriteAfterEnd
  <2>7. QED
    BY <2>1, <2>2, <2>3, <2>4, <2>5, <2>6
<1>7. QED
  BY <1>3, <1>4, <1>5, <1>6 DEF Saved

\* What becomes of a packet is what WritePacket decides about the newest.
LEMMA Decisions ==
  ASSUME Shape, Undecided, [Next]_vars, NEW n \in DOMAIN outcome'
  PROVE  /\ n \in DOMAIN outcome => log'[n] = log[n]
         /\ \/ n \in DOMAIN outcome /\ outcome'[n] = outcome[n]
            \/ outcome'[n] = "pending"
            \/ outcome'[n] = "refused" /\ Cancelled
            \/ outcome'[n] = "dropped" /\ log'[n] = "spare" /\ mode # "file"
            \/ outcome'[n] = "accepted" /\ n = Current /\ Takes /\ ~QueueClosed
               /\ UNCHANGED <<closeAt, sinkFailed>> /\ pc'["consumer"] = pc["consumer"]
<1>1. /\ DOMAIN outcome = 1 .. Len(log) /\ DOMAIN log = 1 .. Len(log) /\ Len(log) \in Nat
      /\ log # <<>> => Len(log) \in DOMAIN outcome
  BY EmptySeq, LenProperties DEF Shape
<1>2. ASSUME NEW kind \in Kinds, Offer(kind)
      PROVE  /\ n \in DOMAIN outcome => log'[n] = log[n] /\ outcome'[n] = outcome[n]
             /\ n \notin DOMAIN outcome =>
                  outcome'[n] = "pending" \/ (outcome'[n] = "refused" /\ Cancelled)
  <2>1. PICK r \in Outcomes : /\ outcome' = Append(outcome, r)
                              /\ r = "pending" \/ (r = "refused" /\ Cancelled)
    BY <1>2 DEF Offer, Outcomes
  <2>2. log' = Append(log, kind)
    BY <1>2 DEF Offer
  <2>3. QED
    BY <1>1, <2>1, <2>2 DEF Shape
<1>3. ASSUME NEW r, Resolve(r), log # <<>>
      PROVE  n \in DOMAIN outcome /\ outcome'[n] = IF n = Current THEN r ELSE outcome[n]
  BY <1>1, <1>3 DEF Resolve, Current
<1>4. CASE SendPanics
  <2>1. log' = log /\ log # <<>> /\ Cancelled
    BY <1>4, HowFarClosed DEF SendPanics, Undecided, Shape
  <2>2. QED
    BY <1>3, <1>4, <2>1 DEF SendPanics
<1>5. CASE BlockingSend
  <2>1. /\ log' = log /\ log # <<>> /\ ~QueueClosed /\ UNCHANGED <<closeAt, sinkFailed>>
        /\ pc'["consumer"] = pc["consumer"] /\ Resolve("accepted")
        /\ pc'["producer"] \in {"idle", "try"}
    BY <1>5 DEF BlockingSend, Room, Enqueue, Goto, Undecided, Shape, Threads
  <2>2. Takes
    BY <1>5, <2>1, EnqueueTakes DEF BlockingSend
  <2>3. QED
    BY <1>3, <2>1, <2>2
<1>6. CASE TrySend
  <2>1. /\ log' = log /\ log # <<>> /\ ~QueueClosed /\ UNCHANGED <<closeAt, sinkFailed>>
        /\ pc'["consumer"] = pc["consumer"] /\ pc'["producer"] = "idle"
    BY <1>6 DEF TrySend, Goto, Undecided, Shape, Threads
  <2>2. CASE Len(queue) < QueueCap
    <3>1. Takes /\ Resolve("accepted")
      BY <1>6, <2>1, <2>2, EnqueueTakes DEF TrySend, Enqueue
    <3>2. QED
      BY <1>3, <2>1, <3>1
  <2>3. CASE ~(Len(queue) < QueueCap)
    <3>1. Resolve(IF outcome[Current] = "accepted" THEN "accepted" ELSE "dropped")
      BY <1>6, <2>3 DEF TrySend
    <3>2. outcome[Current] # "accepted" => log[Current] = "spare" /\ mode # "file"
      BY <1>6 DEF TrySend, Undecided
    <3>3. QED
      BY <1>3, <2>1, <3>1, <3>2
  <2>4. QED
    BY <2>2, <2>3
<1>7. CASE UNCHANGED <<log, outcome>>
  BY <1>7
<1>8. QED
  BY <1>1, <1>2, <1>4, <1>5, <1>6, <1>7 DEF Next, vars, StreamEnds, Receive, ReceiveClosed,
     SeeCancel, SinkWrite, SinkFail, WriteOnClosed, WriteAfterEnd, HookFires, WaitReturns, CloseStep, CloseReturns

\* Every step keeps the reasons.
LEMMA LossKept ==
  ASSUME Shape, Shape', Undecided, LeftFor, LossHasReason, [Next]_vars
  PROVE  LossHasReason'
<1>1. \A n \in DOMAIN outcome :
        /\ outcome[n] = "dropped" => log[n] = "spare" /\ mode # "file"
        /\ outcome[n] = "refused" => Cancelled
        /\ outcome[n] = "accepted" => Saved(n)
  BY DEF LossHasReason, Saved
<1>2. mode' = mode /\ (Cancelled => Cancelled') /\ (ResponseOver => ResponseOver')
  BY CloseGoesOn
<1>3. ASSUME NEW n \in DOMAIN outcome'
      PROVE  /\ outcome'[n] = "dropped" => log'[n] = "spare" /\ mode' # "file"
             /\ outcome'[n] = "refused" => Cancelled'
  BY <1>1, <1>2, Decisions
<1>4. ASSUME NEW n \in DOMAIN outcome', outcome'[n] = "accepted"
      PROVE  Saved(n)'
  <2>1. CASE n \in DOMAIN outcome /\ outcome'[n] = outcome[n]
    BY <1>1, <1>4, <2>1, SavedKept
  <2>2. CASE /\ n = Current /\ Takes /\ ~QueueClosed
             /\ UNCHANGED <<closeAt, sinkFailed>> /\ pc'["consumer"] = pc["consumer"]
    <3>1. CASE pc["consumer"] \in {"recv", "write"}
      <4>1. Len(Pipeline) + 1 \in DOMAIN Pipeline' /\ Pipeline'[Len(Pipeline) + 1] = n
        BY <2>2, StepKinds DEF Takes, OneMore
      <4>2. QED
        BY <2>2, <3>1, <4>1 DEF Saved, ToSetOf
    <3>2. CASE pc["consumer"] \notin {"recv", "write"}
      BY <1>2, <2>2, <3>2 DEF LeftFor, Saved
    <3>3. QED
      BY <3>1, <3>2
  <2>3. QED
    BY <1>4, <2>1, <2>2, Decisions
<1>5. QED
  BY <1>3, <1>4 DEF LossHasReason, Saved

-----------------------------------------------------------------------------
(* Theorems.                                                                 *)

\* The inductive invariant of a packet writer holds in every reachable state.
THEOREM Invariance == Spec => []IInv
<1>1. Init => IInv
  <2> SUFFICES ASSUME Init PROVE IInv
    OBVIOUS
  <2>1. Shape
    <3>1. mode \in AllModes /\ closeAt \in 0 .. Len(CloseSteps[mode])
      BY ModesAssumption DEF Init, AllModes, CloseSteps
    <3>2. log \in Seq(Kinds) /\ outcome \in Seq(Outcomes) /\ Len(outcome) = Len(log)
      BY DEF Init
    <3>3. queue \in Seq(Nat) /\ hand \in Seq(Nat) /\ sent \in Seq(Nat) /\ hand = <<>>
      BY DEF Init
    <3>4. /\ pc \in [Threads -> {"idle", "block", "try", "recv", "write", "wait", "closing", "gone"}]
          /\ pc["producer"] = "idle" /\ pc["consumer"] = "recv"
      BY DEF Init, Threads
    <3>5. QED
      BY <3>1, <3>2, <3>3, <3>4 DEF Init, Shape
  <2>2. Pipeline = <<>>
    BY ConcatEmptySeq DEF Init, Pipeline
  <2>3. QED
    BY <2>1, <2>2 DEF Init, IInv, Undecided, Newest, LeftFor, InOrder, LossHasReason, Threads
<1>2. IInv /\ [Next]_vars => IInv'
  <2> SUFFICES ASSUME IInv, [Next]_vars PROVE IInv'
    OBVIOUS
  <2>1. Shape' /\ Undecided'
    BY ShapeKept, UndecidedKept DEF IInv
  <2>2. Newest' /\ InOrder'
    BY OrderKept DEF IInv
  <2>3. LeftFor' /\ LossHasReason'
    BY <2>1, LeftForKept, LossKept DEF IInv
  <2>4. QED
    BY <2>1, <2>2, <2>3 DEF IInv
<1>3. QED
  BY <1>1, <1>2, PTL DEF Spec

\* What reaches the sink keeps the publisher's order, and only an rtmp player
\* is sent a packet twice, back to back (rtmp/stream.go 63-77).
THEOREM OrderHolds == Spec => []InOrder
<1>1. IInv => InOrder
  BY DEF IInv
<1>2. QED
  BY <1>1, Invariance, PTL

\* No packet is lost but for the reasons the code has decided on, however the
\* two goroutines and Close interleave (rtmp/stream.go 53-121, flv/writer.go
\* 95-196).
THEOREM LossIsDecided == Spec => []LossHasReason
<1>1. IInv => LossHasReason
  BY DEF IInv
<1>2. QED
  BY <1>1, Invariance, PTL

=============================================================================
