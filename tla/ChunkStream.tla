----------------------------- MODULE ChunkStream -----------------------------
(* The chunk layer of an RTMP connection in one direction: a sender splits   *)
(* messages into chunks, interleaving the chunk streams, and the receiver    *)
(* puts them together again. The receiver is readChunkStream. The sender is  *)
(* either writeChunk or a peer, an encoder, that compresses headers.         *)
(*                                                                           *)
(* rtmp/chunk.go 11-308, rtmp/server.go 192-222, rtmp/conn.go 182-194.      *)
EXTENDS Naturals, Sequences, FiniteSets

CONSTANTS
  Streams,      \* chunk streams (csid) of audio, video and commands
  Control,      \* the chunk stream of protocol control messages, csid 2
  Lengths,      \* lengths of messages, in units of payload
  ChunkSizes,   \* chunk sizes that are used, in the same units
  FirstSize,    \* the one both sides start with, 128 in the code
  TimeMod,      \* timestamps are numbers below TimeMod, 2^32 in the code
  ExtendedAt,   \* 0xffffff: from here on a time takes the extended field
  MaxMessages,  \* bound: messages that are begun
  MaxWire       \* bound: chunks on the wire

ASSUME ChunkAssumption ==
  /\ Control \notin Streams
  /\ Lengths \subseteq Nat /\ ChunkSizes \subseteq Nat \ {0} /\ FirstSize \in ChunkSizes
  /\ TimeMod \in Nat /\ ExtendedAt \in 1 .. TimeMod - 1
  /\ MaxMessages \in Nat /\ MaxWire \in Nat \ {0}

All == Streams \cup {Control}
Times == 0 .. TimeMod - 1
Ids == 1 .. MaxMessages

\* Content of a control message: a chunk size, or the stream of which a message
\* is aborted. Other messages have none.
NoValue == [kind |-> "media", size |-> FirstSize, of |-> Control]
SizeIs(s) == [kind |-> "size", size |-> s, of |-> Control]
AbortOf(cs) == [kind |-> "abort", size |-> FirstSize, of |-> cs]
Values == {NoValue} \cup {SizeIs(s) : s \in ChunkSizes} \cup {AbortOf(cs) : cs \in Streams}

\* A message: its bytes are told apart by the message and the place.
Messages == [cs : All, time : Times, data : Seq(Ids \X Nat), value : Values]
Payload(id, from, to) == [i \in 1 .. to - from |-> <<id, from + i>>]

\* Zero values of a chunkStream.
NoHeader == [fmt |-> 0, time |-> 0, delta |-> 0, length |-> 0, extended |-> FALSE,
             value |-> NoValue]

VARIABLES
  sender,    \* "code" or "peer"
  chunkSize, \* chunkSize of the sender
  begun,     \* messages begun
  out,       \* stream -> the header last sent, and the message under way
  wire,
  remoteChunkSize, chunks, \* netConn: chunks maps csid to its chunkStream
  sent, delivered, failed, \* the abstract channel
  aborted,   \* the sender has aborted a message (history)
  repeated   \* it has repeated an extended time within a message (history)

senderVars == <<chunkSize, begun, out, aborted, repeated>>
readerVars == <<remoteChunkSize, chunks, delivered, failed>>
chunkVars == <<sender, senderVars, readerVars, wire, sent>>

ChunkInit ==
  /\ sender \in {"code", "peer"}
  /\ chunkSize = FirstSize /\ begun = 0 /\ aborted = FALSE /\ repeated = FALSE
  /\ out = [cs \in All |-> [header |-> NoHeader, used |-> FALSE, id |-> 0, done |-> 0]]
  /\ wire = <<>>
  /\ remoteChunkSize = FirstSize
  /\ chunks = [cs \in All |-> [header |-> NoHeader, data |-> <<>>, remain |-> 0, readDone |-> FALSE]]
  /\ sent = <<>> /\ delivered = <<>> /\ failed = FALSE

Smaller(a, b) == IF a < b THEN a ELSE b

-----------------------------------------------------------------------------
(* The sender.                                                               *)

UnderWay(cs) == out[cs].id # 0
Idle == \A cs \in All : ~UnderWay(cs)

\* What a header of format f says after the one sent before it.
Delta(cs, time) == (time + TimeMod - out[cs].header.time) % TimeMod
Extends(f, cs, time) ==
  CASE f = 0 -> time >= ExtendedAt
    [] f \in {1, 2} -> Delta(cs, time) >= ExtendedAt
    [] f = 3 -> out[cs].header.extended

\* When a peer may leave fields out, as the receiver reads them: after format 0
\* a header of format 3 means the same time again.
MayCompress(f, cs, time, length) ==
  LET prev == out[cs].header IN
  \/ f = 0
  \/ f = 1 /\ out[cs].used
  \/ f = 2 /\ out[cs].used /\ length = prev.length
  \/ f = 3 /\ out[cs].used /\ length = prev.length
     /\ Delta(cs, time) = IF prev.fmt = 0 THEN 0 ELSE prev.delta

Header(f, cs, time, length, value) ==
  [fmt |-> IF f = 3 THEN out[cs].header.fmt ELSE f,
   time |-> time, delta |-> IF f = 3 THEN out[cs].header.delta ELSE Delta(cs, time),
   length |-> length, extended |-> Extends(f, cs, time), value |-> value]

\* A chunk as it is on the wire: tfmt, and what its header carries.
Chunk(f, cs, h, data) ==
  [tfmt |-> f, cs |-> cs, extended |-> h.extended,
   time |-> IF f \in {1, 2} \/ (f = 3 /\ h.fmt \in {1, 2}) THEN h.delta ELSE h.time,
   length |-> h.length, value |-> h.value, data |-> data]

Message(cs, id, h) ==
  [cs |-> cs, time |-> h.time, data |-> Payload(id, 0, h.length), value |-> h.value]

\* The first chunk of a message; the last one too if the message is short.
Begin(f, cs, time, length, value) ==
  LET h == Header(f, cs, time, length, value)
      n == Smaller(length, chunkSize)
      id == begun + 1
  IN  /\ begun < MaxMessages /\ Len(wire) < MaxWire /\ ~UnderWay(cs)
      /\ begun' = id
      /\ wire' = Append(wire, Chunk(f, cs, h, Payload(id, 0, n)))
      /\ out' = [out EXCEPT ![cs] =
           [header |-> h, used |-> TRUE, id |-> IF n = length THEN 0 ELSE id, done |-> n]]
      /\ sent' = IF n = length THEN Append(sent, Message(cs, id, h)) ELSE sent

\* Control messages are short and sent whole; the new size is used from the
\* next chunk on.
BeginMedia(cs) ==
  /\ sender = "peer" /\ cs \in Streams
  /\ \E f \in 0 .. 3, time \in Times, length \in Lengths :
       MayCompress(f, cs, time, length) /\ Begin(f, cs, time, length, NoValue)
  /\ UNCHANGED <<sender, chunkSize, aborted, repeated, readerVars>>

SetChunkSize ==
  /\ sender = "code" => Idle
  /\ \E s \in ChunkSizes : Begin(0, Control, 0, 1, SizeIs(s)) /\ chunkSize' = s
  /\ UNCHANGED <<sender, aborted, repeated, readerVars>>

\* The rest of a message under way, if the sender gives it up, is never sent.
Abort(cs) ==
  /\ sender = "peer" /\ UnderWay(cs)
  /\ begun < MaxMessages /\ Len(wire) < MaxWire
  /\ LET h == Header(0, Control, 0, 1, AbortOf(cs)) IN
     /\ wire' = Append(wire, Chunk(0, Control, h, Payload(begun + 1, 0, 1)))
     /\ out' = [out EXCEPT ![cs].id = 0, ![Control].header = h, ![Control].used = TRUE]
     /\ sent' = Append(sent, Message(Control, begun + 1, h))
  /\ begun' = begun + 1 /\ aborted' = TRUE
  /\ UNCHANGED <<sender, chunkSize, repeated, readerVars>>

\* writeHeader writes the extended time before every chunk of the message; of
\* peers some do and some do not.
RepeatsTime(h) == IF sender = "code" THEN {h.extended} ELSE {FALSE, h.extended}

\* writeChunk: the first chunk has format 0. A message without payload has
\* no chunk at all.
WriteChunk(cs) ==
  /\ sender = "code" /\ Idle /\ cs \in Streams
  /\ \E time \in Times, length \in Lengths \ {0} : Begin(0, cs, time, length, NoValue)
  /\ UNCHANGED <<sender, chunkSize, aborted, repeated, readerVars>>

\* A further chunk of a message.
Continue(cs) ==
  LET from == out[cs].done
      to == Smaller(out[cs].header.length, from + chunkSize)
      h == out[cs].header
  IN  /\ UnderWay(cs) /\ Len(wire) < MaxWire
      /\ \E again \in RepeatsTime(h) :
           /\ wire' = Append(wire, Chunk(3, cs, [h EXCEPT !.extended = again],
                                         Payload(out[cs].id, from, to)))
           /\ repeated' = (repeated \/ again)
      /\ out' = [out EXCEPT ![cs].done = to,
                            ![cs].id = IF to = h.length THEN 0 ELSE @]
      /\ sent' = IF to = h.length THEN Append(sent, Message(cs, out[cs].id, h)) ELSE sent
      /\ UNCHANGED <<sender, chunkSize, begun, aborted, readerVars>>

-----------------------------------------------------------------------------
(* The receiver.                                                             *)

\* Mutant of NewMessage: a chunk of format 3 is always a continuation.
NewMessageByFormat(r, c) == c.tfmt # 3
\* Whether a chunk starts a message: format 3 does if nothing is missing.
NewMessage(r, c) == c.tfmt # 3 \/ r.remain = 0

\* The four bytes of an extended time are read if the three bytes are
\* 0xffffff, or, with format 3, if the header before had them and the message
\* is a new one.
ReadsExtended(r, c) ==
  IF c.tfmt = 3 THEN NewMessage(r, c) /\ r.header.extended ELSE c.time >= ExtendedAt

\* Mutant of TimeRead: format 3 adds the last delta after format 0 too.
TimeReadAddsDelta(r, c) ==
  IF c.tfmt = 0 THEN c.time
  ELSE (r.header.time + (IF c.tfmt = 3 THEN r.header.delta ELSE c.time)) % TimeMod
\* c.timestamp at the start of a message, 32 bits wide. Format 3 means the last
\* delta again, or after format 0 the time again; an extended one is read anew.
TimeRead(r, c) ==
  CASE c.tfmt = 0 -> c.time
    [] c.tfmt \in {1, 2} -> (r.header.time + c.time) % TimeMod
    [] c.tfmt = 3 ->
         LET carried == IF r.header.extended THEN c.time
                        ELSE IF r.header.fmt = 0 THEN r.header.time ELSE r.header.delta
         IN  IF r.header.fmt = 0 THEN carried ELSE (r.header.time + carried) % TimeMod

\* readFmt0 to readFmt3: the fields a format leaves out stay as they were.
HeaderRead(r, c) ==
  [fmt |-> IF c.tfmt = 3 THEN r.header.fmt ELSE c.tfmt,
   time |-> TimeRead(r, c),
   delta |-> IF c.tfmt \in {1, 2} THEN c.time ELSE r.header.delta,
   length |-> IF c.tfmt \in {0, 1} THEN c.length ELSE r.header.length,
   extended |-> IF c.tfmt = 3 THEN r.header.extended ELSE ReadsExtended(r, c),
   value |-> c.value]

\* new(): an empty buffer of the message's length.
AfterNew(r, c) ==
  IF NewMessage(r, c)
    THEN [header |-> HeaderRead(r, c), data |-> <<>>, remain |-> HeaderRead(r, c).length, readDone |-> FALSE]
    ELSE r

\* readChunk, with its payload. It fails when a message is started although one
\* is under way on that stream; and it loses its place in the bytes if it
\* reads more or less of them than were written for this chunk.
ReadChunk(r, c, limit) ==
  LET h == AfterNew(r, c)
      size == Smaller(h.remain, limit)
  IN  [fails |-> \/ r.remain # 0 /\ c.tfmt # 3
                 \/ ReadsExtended(r, c) # c.extended
                 \/ size # Len(c.data),
       stream |-> [header |-> h.header, data |-> h.data \o c.data, remain |-> h.remain - size,
                   readDone |-> h.readDone \/ h.remain = size]]

\* handleUserControlMsg: an abort is not acted upon.
HandleControl(value) ==
  remoteChunkSize' = IF value.kind = "size" THEN value.size ELSE remoteChunkSize

\* readChunkStream up to the end of a chunk, and what follows when it has
\* completed a message.
Read ==
  /\ ~failed /\ wire # <<>>
  /\ LET c == Head(wire)
         read == ReadChunk(chunks[c.cs], c, remoteChunkSize)
         s == read.stream
     IN  /\ failed' = read.fails
         /\ IF read.fails
              THEN UNCHANGED <<chunks, delivered, remoteChunkSize>>
              ELSE /\ chunks' = [chunks EXCEPT ![c.cs] = s]
                   /\ IF s.readDone
                        THEN /\ delivered' = Append(delivered,
                                  [cs |-> c.cs, time |-> s.header.time, data |-> s.data, value |-> s.header.value])
                             /\ HandleControl(s.header.value)
                        ELSE UNCHANGED <<delivered, remoteChunkSize>>
  /\ wire' = Tail(wire)
  /\ UNCHANGED <<sender, senderVars, sent>>

-----------------------------------------------------------------------------
ChunkNext ==
  \/ \E cs \in Streams : BeginMedia(cs) \/ WriteChunk(cs) \/ Continue(cs) \/ Abort(cs)
  \/ SetChunkSize
  \/ Read

ChunkSpec == ChunkInit /\ [][ChunkNext]_chunkVars

-----------------------------------------------------------------------------
(* Properties.                                                               *)

\* The receiver loses its place, or refuses a chunk, only if the sender has
\* repeated an extended time within a message, as writeHeader does and readFmt3
\* does not expect, or has aborted a message, which handleUserControlMsg
\* ignores (rtmp/chunk.go 113-115 and 241-263, rtmp/conn.go 190). As long as it
\* has not, an empty wire means that everything completed has arrived, both
\* sides use one chunk size, and of a message under way the receiver has the
\* part that was sent and misses the rest (rtmp/chunk.go 265-308,
\* rtmp/server.go 192-222); nothing is promised once one has been aborted.
InSync ==
  /\ failed => aborted \/ repeated
  /\ wire = <<>> /\ ~failed /\ ~aborted =>
       /\ delivered = sent /\ remoteChunkSize = chunkSize
       /\ \A cs \in Streams : UnderWay(cs) =>
            /\ chunks[cs].data = Payload(out[cs].id, 0, out[cs].done)
            /\ chunks[cs].header.time = out[cs].header.time

Channel == INSTANCE MessageChannel

\* Messages arrive as they were sent and in the order in which they were
\* completed, with times that wrap around, headers that leave fields out, and
\* interleaved chunk streams (rtmp/chunk.go 265-308), until the sender aborts
\* one: a header of format 3 then looks like the rest of the aborted message.
ChunksCarryMessages ==
  Channel!Init /\ [][aborted' \/ Channel!Next]_<<sent, delivered, failed>>
=============================================================================
