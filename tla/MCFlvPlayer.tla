---------------------------- MODULE MCFlvPlayer ----------------------------
(* FlvPlayer for TLC: an encoder of parameter sets, what it has put into     *)
(* them, and six streams.                                                    *)
EXTENDS FlvPlayer

MCRef == [video |-> 2, audio |-> 1]

\* The encoder: numbers as bits, bits as bytes, and a three put where a start
\* code would be.
U(v, n) == [i \in 1..n |-> (v \div 2 ^ (n - i)) % 2]
ExpCode(v) == LET k == CHOOSE j \in 1..20 : 2 ^ (j - 1) <= v + 1 /\ v + 1 < 2 ^ j
             IN  [i \in 1..k - 1 |-> 0] \o U(v + 1, k)
Code(kind, v) == IF kind > 0 THEN U(v, kind) ELSE IF kind = UE THEN ExpCode(v)
                 ELSE ExpCode(IF v > 0 THEN 2 * v - 1 ELSE -2 * v)

Bits(syntax) == FlattenSeq([i \in DOMAIN syntax |-> Code(syntax[i][1], syntax[i][2])])
Padded(bits) == LET b == Append(bits, 1) IN b \o [i \in 1..(8 - (Len(b) % 8)) % 8 |-> 0]
Bytes(bits) == [i \in 1..Len(bits) \div 8 |-> Number(SubSeq(bits, 8 * i - 7, 8 * i))]
Escaped(bytes) ==
    FoldLeft(LAMBDA out, b : IF Len(out) > 1 /\ b <= 3 /\ out[Len(out)] = 0 /\ out[Len(out) - 1] = 0
                             THEN out \o <<3, b>> ELSE Append(out, b), <<>>, bytes)

F(n) == <<1, n>>
E(n) == <<UE, n>>
S(n) == <<SE, n>>
Head4(profile, flags, level) == <<<<8, 103>>, <<8, profile>>, <<8, flags>>, <<8, level>>, E(0)>>
Many(element, n) == [i \in 1..n |-> element]
Timing(tick, scale, fixed) == <<F(1), <<16, 0>>, <<16, tick>>, <<16, 0>>, <<16, scale>>, F(fixed)>>

\* 1: Baseline, nothing optional.  2: High, cropped, square samples, a clock.
\* 3: High 4:4:4, scaling lists, fields, everything.  4: High 4:2:2, ten bits,
\* lists, picture order of type 1.  5: monochrome, fields, cropped, 4:3.
Syntax ==
 << Head4(66, 192, 30) \o <<E(0), E(2), E(1), F(0), E(19), E(14), F(1), F(1), F(0), F(0)>>,
    Head4(100, 0, 40) \o <<E(1), E(0), E(0), F(0), F(0), E(0), E(0), E(4), E(4), F(0), E(119), E(67),
       F(1), F(1), F(1), E(0), E(0), E(0), E(4), F(1), F(1), <<8, 1>>, F(0), F(0), F(0)>>
       \o Timing(1, 50, 1) \o Many(F(0), 4),
    Head4(244, 0, 31) \o <<E(3), F(0), E(0), E(0), F(0), F(1), F(1), S(-8)>> \o Many(F(0), 5)
       \o <<F(1)>> \o Many(S(0), 20) \o <<S(-8)>> \o Many(F(0), 5)
       \o <<E(0), E(0), E(4), E(2), F(0), E(44), E(17), F(0), F(1), F(1), F(1), E(2), E(2), E(0), E(1),
       F(1), F(1), <<8, 255>>, <<16, 16>>, <<16, 15>>, F(1), F(1), F(1), <<4, 10>>, F(1), <<24, 65793>>,
       F(1), E(1), E(1)>> \o Timing(1001, 60000, 1) \o Many(F(0), 4),
    Head4(122, 0, 41) \o <<E(2), E(2), E(2), F(0), F(1), F(0), F(1), S(3), S(-3), S(-8)>> \o Many(F(0), 6)
       \o <<E(0), E(1), F(0), S(-2), S(3), E(2), S(1), S(-1), E(3), F(0), E(79), E(44), F(1), F(1), F(0),
       F(1), F(0), F(0), F(0), F(0)>> \o Timing(1, 30, 0) \o Many(F(0), 4),
    Head4(100, 0, 13) \o <<E(0), E(0), E(0), F(0), F(0), E(7), E(2), E(1), F(0), E(9), E(4), F(0), F(1), F(1),
       F(1), E(1), E(0), E(1), E(0), F(1), F(1), <<8, 14>>, F(0), F(0), F(0), F(0)>> \o Many(F(0), 4) >>

Encoded(c) == Escaped(Bytes(Padded(Bits(Syntax[c]))))
MCSps == <<Encoded(1), Encoded(2), Encoded(3), Encoded(4), Encoded(5)>>

Video(width, height, shown, depth, refs, num, den) ==
    [thrown |-> FALSE, codec_size |-> [width |-> width, height |-> height], present_width |-> shown, bit_depth |-> depth,
     ref_frames |-> refs, frame_rate |-> [num |-> num, den |-> den]]
\* The sound: AAC at 44.1 kHz, one channel at 48 kHz, HE-AAC over 22.05 kHz.
MCAsc == <<<<18, 16>>, <<17, 136>>, <<43, 146, 8>>>>
MCWritten ==
    [video |-> <<Video(320, 240, 320, 8, 1, 23976, 1000), Video(1920, 1080, 1920, 8, 4, 50, 2),
                 Video(716, 574, 764, 8, 2, 60000, 2002), Video(1280, 720, 1280, 10, 3, 23976, 1000),
                 Video(159, 158, 212, 8, 1, 23976, 1000)>>,
     audio |-> <<[rate |-> 44100, channels |-> 2], [rate |-> 48000, channels |-> 1],
                 [rate |-> 22050, channels |-> 2]>>]

Script(says) == [kind |-> "meta", ts |-> 0, cfg |-> NoMeta, says |-> says]
Config(kind, cfg) == [kind |-> kind, ts |-> 0, cfg |-> cfg]
Frame(kind, ts, cfg) == [kind |-> kind, ts |-> ts, cfg |-> cfg]

\* Sound and pictures, with a gap in the sound and a new configuration of the
\* pictures; pictures alone, as onMetaData says; a little of both; pictures
\* that begin late; sound that begins after the pictures have changed; sound
\* with a gap, so that the page jumps while pictures change.
Both == <<Config("aac", 1), Config("avc", 1), Frame("video", 5, 1), Frame("audio", 5, 1),
          Frame("video", 7, 1), Frame("audio", 8, 1), Frame("video", 9, 1), Config("avc", 2),
          Frame("audio", 9, 1), Frame("video", 11, 2), Frame("video", 13, 2)>>
Pictures == <<Script([audio |-> FALSE]), Config("avc", 3), Frame("video", 0, 3),
              Frame("video", 2, 3), Frame("video", 4, 3)>>
Brief == <<Config("aac", 2), Config("avc", 4), Frame("audio", 0, 2), Frame("video", 0, 4),
           Frame("audio", 1, 2), Frame("video", 2, 4), Frame("audio", 2, 2), Frame("video", 4, 4),
           Frame("audio", 3, 2)>>
Late == <<Config("aac", 3), Config("avc", 5), Frame("audio", 0, 3), Frame("audio", 6, 3),
          Frame("video", 4, 5), Frame("video", 5, 5), Frame("audio", 7, 3),
          [kind |-> "foreign", ts |-> 8, cfg |-> NoMeta]>>
Waits == <<Config("avc", 1), Frame("video", 0, 1), Frame("video", 2, 1), Frame("video", 4, 1),
           Config("avc", 2), Config("aac", 1), Frame("video", 6, 2), Frame("video", 8, 2)>>
Jumps == <<Config("aac", 3), Config("avc", 5), Frame("audio", 0, 3), Frame("audio", 6, 3),
           Frame("video", 4, 5), Frame("video", 5, 5), Config("avc", 4), Frame("audio", 7, 3),
           Frame("video", 7, 4), Frame("audio", 8, 3), Frame("video", 8, 4), Frame("video", 9, 4)>>
MCStreams == {Both, Pictures, Brief, Late, Waits, Jumps}
MCMaxFaults == [s \in MCStreams |-> IF s = Brief THEN 2 ELSE IF s = Jumps THEN 0 ELSE 1]
=============================================================================
