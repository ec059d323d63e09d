----------------------------- MODULE ExpGolomb -----------------------------
(***************************************************************************)
(* ExpGolomb of resources/flv.js: numbers of so many bits, and numbers in  *)
(* exponential Golomb code, read one after the other.  The reader holds a  *)
(* word of up to 32 bits and takes the next one when it runs out of them,  *)
(* so that a number may lie across two words.  When there is no next word  *)
(* it throws an exception, and nothing more is read.                       *)
(***************************************************************************)
EXTENDS Integers, Sequences, SequencesExt

\* How the next number is coded: in n bits for n > 0, or in Golomb code.
UE == 0
SE == -1

BitsOf(bytes) ==
    [i \in 1..8 * Len(bytes) |-> (bytes[(i + 7) \div 8] \div 2 ^ (7 - ((i - 1) % 8))) % 2]

Number(bits) ==
    LET upTo[i \in 0..Len(bits)] == IF i = 0 THEN 0 ELSE 2 * upTo[i - 1] + bits[i]
    IN  upTo[Len(bits)]

NewExpGolomb(bytes) == [buffer |-> bytes, word |-> <<>>, result |-> 0, thrown |-> FALSE]

FillCurrentWord(gb) ==
    LET n == Min({4, Len(gb.buffer)})
    IN  [gb EXCEPT !.word = BitsOf(SubSeq(gb.buffer, 1, n)),
                   !.buffer = SubSeq(@, n + 1, Len(@)),
                   !.thrown = n = 0]

Take(gb, n) == [gb EXCEPT !.word = SubSeq(@, n + 1, Len(@)), !.result = Number(SubSeq(gb.word, 1, n))]

\* Mutant: the bits left in the word are lost when the next one is taken.
ReadBitsAnew(gb, n) ==
    IF gb.thrown \/ n <= Len(gb.word) THEN Take(gb, n)
    ELSE Take(FillCurrentWord(gb), Min({n - Len(gb.word), Len(FillCurrentWord(gb).word)}))

\* The last word may have less than is asked for, and no more is read then.
Joined(before, next, need) ==
    [Take(next, need) EXCEPT !.result = Number(before \o SubSeq(next.word, 1, need))]

ReadBits(gb, n) ==
    LET next == FillCurrentWord(gb)
    IN  IF gb.thrown THEN gb
        ELSE IF n <= Len(gb.word) THEN Take(gb, n)
        ELSE Joined(gb.word, next, Min({n - Len(gb.word), Len(next.word)}))

\* The zeros are dropped, in the next word too if the rest of this one is all
\* zeros: no number has so many of them that it takes a third.
Zeros(word) == Min({Len(word) + 1} \cup {i \in DOMAIN word : word[i] = 1}) - 1

Skip(gb, zeros, before) == [Take(gb, zeros) EXCEPT !.result = before + zeros]

SkipLeadingZero(gb) ==
    LET next == FillCurrentWord(gb)
    IN  IF gb.thrown THEN gb
        ELSE IF Zeros(gb.word) < Len(gb.word) THEN Skip(gb, Zeros(gb.word), 0)
        ELSE Skip(next, Zeros(next.word), Len(gb.word))

Golomb(skipped) == [ReadBits(skipped, skipped.result + 1) EXCEPT !.result = @ - 1]

ReadUEG(gb) == Golomb(SkipLeadingZero(gb))

ReadSEG(gb) ==
    [ReadUEG(gb) EXCEPT !.result = IF @ % 2 = 1 THEN (@ + 1) \div 2 ELSE -(@ \div 2)]

Read(gb, kind) ==
    IF gb.thrown THEN gb ELSE IF kind = UE THEN ReadUEG(gb) ELSE IF kind = SE THEN ReadSEG(gb) ELSE ReadBits(gb, kind)
=============================================================================
