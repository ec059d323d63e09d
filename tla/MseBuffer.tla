----------------------------- MODULE MseBuffer -----------------------------
(***************************************************************************)
(* MSEController of resources/flv.js: segments on their way into the       *)
(* SourceBuffers of a MediaSource.  A SourceBuffer does one thing at a     *)
(* time, an append or a removal, and says "updateend" when it has done it; *)
(* what comes meanwhile waits in the controller's queues.                  *)
(*                                                                         *)
(* Everything is a function on one record "m": what the controller keeps   *)
(* and what the browser does with it.  "done" is the history of each       *)
(* SourceBuffer: the initialization segments and frames it has been fed,   *)
(* and, marked lost, those a seek has discarded.  "o" says what the        *)
(* browser answers to addSourceBuffer and appendBuffer.                    *)
(***************************************************************************)
EXTENDS FlvRemux

CONSTANTS MaxBackward,  \* autoCleanupMaxBackwardDuration
          MinBackward,  \* autoCleanupMinBackwardDuration
          Padding       \* the three seconds around the end of a range

ASSUME CleanupAssumption ==
    MaxBackward \in Nat /\ MinBackward \in Nat /\ Padding \in Nat /\ MinBackward < MaxBackward

NoRange == [from |-> 0, to |-> 0]

NewController == [state |-> "closed",                       \* MediaSource.readyState
                  inits |-> <<>>,                           \* _pendingSourceBufferInit
                  segs  |-> [t \in Types |-> <<>>],         \* _pendingSegments
                  removals |-> [t \in Types |-> <<>>],      \* _pendingRemoveRanges
                  full  |-> FALSE,                          \* _isBufferFull
                  eos   |-> FALSE,                          \* _hasPendingEos
                  made  |-> [t \in Types |-> FALSE],        \* _sourceBuffers
                  busy  |-> [t \in Types |-> <<>>],         \* SourceBuffer.updating
                  held  |-> [t \in Types |-> NoRange],      \* SourceBuffer.buffered
                  done  |-> [t \in Types |-> <<>>],
                  said  |-> "nothing"]

\* attachMediaElement: a new MediaSource, which the browser is going to open.
AttachMediaSource(m) == [m EXCEPT !.state = "closed"]

\* detachMediaElement: whatever waits is dropped, and the SourceBuffers are
\* removed with what they hold; a pending end of stream is forgotten by
\* destroy alone.
DetachMediaSource(m) == [NewController EXCEPT !.eos = m.eos]

\* MSEController.destroy
DestroyMse(m) == [DetachMediaSource(m) EXCEPT !.eos = FALSE]

Updating(m, t) == m.busy[t] # <<>>
AnyUpdating(m) == \E t \in Types : Updating(m, t)
HasPendingSegments(m) == \E t \in Types : m.segs[t] # <<>>
HasPendingRemoveRanges(m) == \E t \in Types : m.removals[t] # <<>>

\* What a segment gives a SourceBuffer.
Contents(seg, lost) ==
    IF seg.ev = "init" THEN <<[tag |-> 0, cfg |-> seg.cfg, at |-> 0, lost |-> lost]>>
    ELSE Presented(seg, lost)

-----------------------------------------------------------------------------
\* _doRemoveRanges: every SourceBuffer that is free starts on its first range.
\* The browser opens a MediaSource that had ended.
DoRemoveRanges(m) ==
    LET free(t) == m.made[t] /\ ~Updating(m, t) /\ m.removals[t] # <<>>
    IN  [m EXCEPT !.state = IF @ = "ended" /\ \E t \in Types : free(t) THEN "open" ELSE @,
                  !.busy = [t \in Types |->
                     IF free(t) THEN <<[op |-> "remove", range |-> Head(m.removals[t])]>> ELSE @[t]],
                  !.removals = [t \in Types |-> IF free(t) THEN Tail(@[t]) ELSE @[t]]]

\* One type's turn in _doAppendSegments.  The browser opens a MediaSource that
\* had ended before it asks for the room; the page destroys a player at its
\* error, and nothing is left for the types that come after.
AppendOne(m, t, o) ==
    LET open == [m EXCEPT !.state = IF @ = "ended" THEN "open" ELSE @]
        rest == [open EXCEPT !.segs[t] = Tail(@)]
    IN  IF ~m.made[t] \/ Updating(m, t) \/ m.segs[t] = <<>> \/ m.said = "error" THEN m
        ELSE CASE o[t] = "ok"   -> [rest EXCEPT !.busy[t] = <<[op |-> "append", seg |-> Head(m.segs[t])]>>,
                                                !.full = FALSE]
               [] o[t] = "full" -> [open EXCEPT !.said = IF m.full THEN @ ELSE "full", !.full = TRUE]
               [] OTHER         -> [m EXCEPT !.said = "error"]

DoAppendSegments(m, o) == AppendOne(AppendOne(m, "video", o), "audio", o)

\* The first initialization segment of a type makes its SourceBuffer and waits
\* for a media segment; a later one is appended as soon as may be.
AppendInitSegment(m, seg, deferred, o) ==
    LET t == seg.type
        queued == [m EXCEPT !.segs[t] = IF deferred THEN @ ELSE Append(@, seg)]
    IN  IF m.state # "open"
        THEN [m EXCEPT !.inits = Append(@, seg), !.segs[t] = Append(@, seg)]
        ELSE IF m.made[t]
        THEN IF Updating(m, t) THEN queued ELSE DoAppendSegments(queued, o)
        ELSE IF o.add = "ok" THEN [queued EXCEPT !.made[t] = TRUE] ELSE [m EXCEPT !.said = "error"]

-----------------------------------------------------------------------------
\* _needCleanupSourceBuffer
NeedCleanup(m, now) ==
    \E t \in Types : m.made[t] /\ m.held[t] # NoRange /\ now - m.held[t].from >= MaxBackward

\* The part of what a SourceBuffer holds that is far enough behind.
OldRange(m, t, now) ==
    LET r == m.held[t]
    IN  IF ~m.made[t] \/ r = NoRange THEN <<>>
        ELSE IF r.from <= now /\ now < r.to + Padding
        THEN IF now - r.from >= MaxBackward THEN <<[from |-> r.from, to |-> now - MinBackward]>> ELSE <<>>
        ELSE IF r.to < now THEN <<r>> ELSE <<>>

\* Mutant: the removals wait for an updateend.
DoCleanupLater(m, now) ==
    [m EXCEPT !.removals = [t \in Types |-> @[t] \o OldRange(m, t, now)]]

DoCleanup(m, now) ==
    LET old == [t \in Types |-> OldRange(m, t, now)]
        y == [m EXCEPT !.removals = [t \in Types |-> @[t] \o old[t]]]
    IN  IF \E t \in Types : old[t] # <<>> /\ ~Updating(m, t) THEN DoRemoveRanges(y) ELSE y

AppendMediaSegment(m, seg, now, o) ==
    LET y == [m EXCEPT !.segs[seg.type] = Append(@, seg)]
        z == IF NeedCleanup(y, now) THEN DoCleanup(y, now) ELSE y
    IN  IF z.made[seg.type] /\ ~Updating(z, seg.type) /\ ~HasPendingRemoveRanges(z)
        THEN DoAppendSegments(z, o) ELSE z

\* seek: whatever is queued is dropped, and what is buffered removed.
SeekBuffers(m) ==
    LET drops(t) == m.made[t]
        cut(t) == IF Updating(m, t) /\ m.busy[t][1].op = "append" THEN <<m.busy[t][1].seg>> ELSE <<>>
        discarded(t) == FlattenSeq([i \in 1..Len(cut(t) \o m.segs[t]) |->
                                        Contents((cut(t) \o m.segs[t])[i], TRUE)])
        y == [m EXCEPT
              !.busy = [t \in Types |-> IF drops(t) /\ cut(t) # <<>> THEN <<>> ELSE @[t]],
              !.segs = [t \in Types |-> IF drops(t) THEN <<>> ELSE @[t]],
              !.done = [t \in Types |-> IF drops(t) THEN @[t] \o discarded(t) ELSE @[t]],
              !.removals = [t \in Types |-> IF drops(t) /\ m.held[t] # NoRange
                                            THEN Append(@[t], m.held[t]) ELSE @[t]]]
    IN  DoRemoveRanges(y)

EndOfStream(m) ==
    IF m.state # "open"
    THEN [m EXCEPT !.eos = @ \/ (m.state = "closed" /\ HasPendingSegments(m))]
    ELSE IF AnyUpdating(m) THEN [m EXCEPT !.eos = TRUE]
    ELSE [m EXCEPT !.eos = FALSE, !.state = "ended"]

-----------------------------------------------------------------------------
(***************************************************************************)
(* What the browser tells the controller.                                  *)
(***************************************************************************)
OnSourceOpen(m, o) ==
    LET after[n \in 0..Len(m.inits)] ==
            IF n = 0 THEN [m EXCEPT !.state = "open", !.inits = <<>>]
            ELSE AppendInitSegment(after[n - 1], m.inits[n], TRUE, o)
        y == after[Len(m.inits)]
    IN  IF HasPendingSegments(y) THEN DoAppendSegments(y, o) ELSE y

\* The range a SourceBuffer holds after an append: segments follow each other.
Grown(held, seg) ==
    IF seg.ev = "init" THEN held
    ELSE [from |-> IF held = NoRange THEN seg.base ELSE held.from, to |-> seg.base + Length(seg.run)]

Shrunk(held, range) ==
    IF range.to >= held.to THEN NoRange
    ELSE [held EXCEPT !.from = Max({@, range.to})]

Finished(m, t) ==
    LET job == m.busy[t][1]
        idle == [m EXCEPT !.busy[t] = <<>>]
    IN  IF job.op = "remove" THEN [idle EXCEPT !.held[t] = Shrunk(@, job.range)]
        ELSE [idle EXCEPT !.held[t] = Grown(@, job.seg),
                          !.done[t] = @ \o Contents(job.seg, FALSE)]

\* Mutant: the end before what is still to be appended.
OnUpdateEndEosFirst(m, t, o) ==
    LET y == Finished(m, t)
    IN  IF HasPendingRemoveRanges(y) THEN DoRemoveRanges(y)
        ELSE IF y.eos THEN EndOfStream(y)
        ELSE IF HasPendingSegments(y) THEN DoAppendSegments(y, o)
        ELSE y

\* _onSourceBufferUpdateEnd: removals first, then segments, then the end.
OnUpdateEnd(m, t, o) ==
    LET y == Finished(m, t)
    IN  IF HasPendingRemoveRanges(y) THEN DoRemoveRanges(y)
        ELSE IF HasPendingSegments(y) THEN DoAppendSegments(y, o)
        ELSE IF y.eos THEN EndOfStream(y)
        ELSE y
=============================================================================
