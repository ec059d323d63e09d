------------------------------ MODULE TsMuxer -------------------------------
(* Muxer.WritePacket of hls/ts/muxer.go: how one PES packet (its header and  *)
(* the frame) is laid out in transport packets of 188 bytes. The arithmetic  *)
(* is in bytes, as in the code. Bytes have no value here: what counts is     *)
(* which byte of the PES packet lands where, and where a decoder looks.      *)
EXTENDS Integers, Sequences

Body == 184              \* tsDefaultDataLen
Packet == 188            \* tsPacketLen
Byte(x) == x % 256

PesHeader(hasDts) == IF hasDts THEN 19 ELSE 14

(* One turn of the loop, with `left` bytes of the PES packet to go. `at` is   *)
(* where the code puts them, `size` how many; `from` is where a decoder finds *)
(* the payload: behind the 4 bytes of header, or behind the adaptation field  *)
(* whose length is in byte 4. The first packet of a key frame has a field     *)
(* with the PCR, 8 bytes; stuffing then writes a second length behind it.     *)
Lay(first, key, left) ==
  LET pcr == first /\ key
      head == IF pcr THEN 12 ELSE 4
      full == left >= Body
      stuffing == IF full THEN 0 ELSE Byte(Body - left - (head - 4))
      at == Byte(head + stuffing)
      room == Packet - at
      data == IF full THEN Body - (head - 4) ELSE left
  IN [at   |-> at,
      size |-> IF room < data THEN room ELSE data,
      from |-> IF pcr THEN head ELSE at]

\* The whole loop: the packets of a PES packet of so many bytes.
Layout(key, total) ==
  LET f[left \in 0..total] ==
        IF left = 0 THEN <<>>
        ELSE LET p == Lay(left = total, key, left)
             IN <<p>> \o f[left - p.size]
  IN f[total]

\* What a decoder puts together is the PES packet: its bytes begin where the
\* decoder looks and reach to the end of each packet.
Reassembles(layout) ==
  \A i \in DOMAIN layout :
     layout[i].at = layout[i].from /\ layout[i].at + layout[i].size = Packet
=============================================================================
