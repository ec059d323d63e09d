-------------------------- MODULE FlvMedia_proofs ---------------------------
(* What goes through the player in the browser. Demuxer and remuxer: whatever *)
(* a chunk brings, the tags that are read are the next of the stream, media   *)
(* comes behind its initialization segment and frames come out once, in their *)
(* order and on one clock. The controller: what waits in its queues is taken  *)
(* up, and the frames keep their places and their times.                      *)
EXTENDS FlvPlayer, SequenceTheorems, WellFoundedInduction, TLAPS

-----------------------------------------------------------------------------
(* What the player consists of.                                              *)

Flags == [Types -> BOOLEAN]
Frames == [tag : Nat \ {0}, dts : Nat, cfg : Nat]
Items == [tag : Nat, cfg : Nat, dur : Int]
Shown == [tag : Nat, cfg : Nat, at : Int, lost : BOOLEAN]

Inits == [ev : {"init"}, type : Types, cfg : Nat]
Media == [ev : {"media"}, type : Types, base : Int, run : Seq(Items)]
Segments == Inits \cup Media
Notes == [ev : {"demux_error", "io_error", "abort", "loading_complete"}]
Events == Segments \cup Notes

Tracks == [queue : Seq(Frames), stash : Seq(Frames), next : Int, meta : Nat]
Demuxers == [has : Flags, seen : Flags, done : Flags, first : BOOLEAN, dispatch : BOOLEAN]
Muxes == [demux : Demuxers, tracks : [Types -> Tracks], base : Int, parsed : Nat, out : Seq(Events)]

Ranges == [from : Int, to : Int]
Jobs == [op : {"append"}, seg : Segments] \cup [op : {"remove"}, range : Ranges]
Controllers ==
  [state : {"closed", "open", "ended"}, inits : Seq(Inits), segs : [Types -> Seq(Segments)],
   removals : [Types -> Seq(Ranges)], full : BOOLEAN, eos : BOOLEAN, made : Flags,
   busy : [Types -> Seq(Jobs)], held : [Types -> Ranges], done : [Types -> Seq(Shown)],
   said : {"nothing", "full", "error"}]

Loaders ==
  [status : {"idle", "connecting", "buffering", "complete", "error"}, abort : BOOLEAN,
   bound : BOOLEAN, conn : {"none", "asked", "open", "unread", "over"}, from : Int, received : Nat]
Pieces == Nat \X {1, 2}
Controls == [alive : BOOLEAN, init : BOOLEAN, paused : BOOLEAN, stash : Seq(Pieces),
             start : Int, to : Int, resumeFrom : Int]
Pages == [player : BOOLEAN, timer : BOOLEAN, checker : BOOLEAN]

Players == [reqs : Seq(Loaders), io : Controls, mux : Muxes, tasks : Seq(Events),
            mse : Controllers, page : Pages, head : Int]

-----------------------------------------------------------------------------
(* What holds of demuxer and remuxer.                                        *)

\* What is on its way to the controller, and what may come of the remuxer.
InitOf(e, t) == e.ev = "init" /\ e.type = t
Inited(s, t) == \E j \in DOMAIN s : InitOf(s[j], t)
Ahead(s, i, t) == \E j \in 1 .. i - 1 : InitOf(s[j], t)
Knows(s, known) == known \cup {t \in Types : Inited(s, t)}
Ordered(s, known) ==
  \A i \in DOMAIN s : s[i].ev = "media" => s[i].type \in known \/ Ahead(s, i, s[i].type)

\* One frame at most is held back, and only of a track with metadata.
Held(k) == Len(k.stash) <= 1 /\ (k.stash # <<>> => k.meta # NoMeta)

\* Media comes behind the initialization segment of its type.
Headed(s, tracks, known) ==
  /\ Ordered(s, known)
  /\ \A t \in Types : Held(tracks[t]) /\ (tracks[t].meta # NoMeta => t \in Knows(s, known))

\* Before the first tag there is nothing anywhere.
Fresh(x) ==
  x.parsed = 0 /\ \A t \in Types : /\ x.tracks[t].queue = <<>> /\ x.tracks[t].stash = <<>>
                                   /\ x.tracks[t].meta = NoMeta
OnlyNotes(s) == \A i \in DOMAIN s : s[i].ev \notin {"init", "media"}
NoInits(s) == \A i \in DOMAIN s : s[i].ev # "init"

\* What of the stream has been read as tags, and what is kept.
Taken(x) == IF x.demux.first THEN 0 ELSE 2 + 2 * x.parsed
Cut(s, from, to) == SubSeq(Units(s), from + 1, to)
Live(s, x, data, from) ==
  /\ Taken(x) + Len(data) <= Len(Units(s))
  /\ data = Cut(s, Taken(x), Taken(x) + Len(data))
  /\ x.demux.first => from = 0
Deaf(x, data) == ~x.demux.first /\ data # <<>> /\ data[1] = <<0, 1>>

\* Frames wait in the demuxer for their metadata only, or behind a last tag
\* that is none.
LastIsNone(x, s) == x.parsed > 0 /\ s[x.parsed].kind \in {"meta", "aac", "avc"}
NoFrames(x) == \A t \in Types : x.tracks[t].queue = <<>>
AtRest(x) ==
  InitialMetadataDispatched(x.demux) =>
     \A t \in Types : x.tracks[t].meta # NoMeta => Len(x.tracks[t].queue) <= 1
Resting(x, s) ==
  /\ ~x.demux.dispatch => LastIsNone(x, s) \/ NoFrames(x)
  /\ AtRest(x) \/ LastIsNone(x, s)

-----------------------------------------------------------------------------
(* Induction and recursion.                                                  *)

\* A set of naturals has a least element.
LEMMA Least ==
  ASSUME NEW T, T \subseteq Nat, T # {}
  PROVE  \E m \in T : \A n \in T : m <= n
<1> DEFINE R == OpToRel(<, Nat)
<1>1. IsWellFoundedOn(R, Nat)
  BY NatLessThanWellFounded
<1>2. \A m, n \in T : n < m => <<n, m>> \in R
  BY DEF OpToRel
<1> HIDE DEF R
<1>3. PICK m \in T : \A n \in T : ~(<<n, m>> \in R)
  BY <1>1, WFMin
<1>4. \A n \in T : ~(n < m)
  BY <1>2, <1>3
<1> QED BY <1>4

\* Induction over the naturals, for a set.
LEMMA SetInduction ==
  ASSUME NEW S, 0 \in S, \A n \in Nat : n \in S => n + 1 \in S
  PROVE  Nat \subseteq S
<1> SUFFICES ASSUME ~(Nat \subseteq S) PROVE FALSE
  OBVIOUS
<1> DEFINE T == Nat \ S
<1>1. PICK m \in T : \A n \in T : m <= n
  <2>1. T \subseteq Nat /\ T # {}
    OBVIOUS
  <2> HIDE DEF T
  <2> QED BY <2>1, Least
<1>2. m # 0
  OBVIOUS
<1>3. m - 1 \in Nat /\ m - 1 \notin T
  BY <1>1, <1>2
<1>4. m - 1 + 1 = m
  BY <1>1
<1> QED BY <1>3, <1>4

\* A function given by its value at 0 and by what a step makes of the value
\* before.
Recurs(f, a, g, n) == f = [i \in 0 .. n |-> IF i = 0 THEN a ELSE g[f[i - 1], i]]

\* What it is at each number.
Steps(f, a, g, n) == f[0] = a /\ \A i \in 1 .. n : f[i] = g[f[i - 1], i]

\* The value at 0 and each step, read off the definition.
LEMMA RecursAt ==
  ASSUME NEW f, NEW a, NEW g, NEW n \in Nat, Recurs(f, a, g, n)
  PROVE  Steps(f, a, g, n)
<1> DEFINE Val(i) == IF i = 0 THEN a ELSE g[f[i - 1], i]
<1>1. f = [i \in 0 .. n |-> Val(i)]
  BY DEF Recurs
<1>2. \A i \in 0 .. n : f[i] = Val(i)
  <2> HIDE DEF Val
  <2> QED BY <1>1
<1>3. f[0] = Val(0) /\ \A i \in 1 .. n : f[i] = Val(i) /\ i # 0
  <2> HIDE DEF Val
  <2> QED BY <1>2
<1> QED BY <1>3 DEF Steps

\* It exists.
LEMMA RecursExists ==
  ASSUME NEW S, NEW a \in S, NEW n \in Nat, NEW g \in [S \X (1 .. n) -> S]
  PROVE  \E f \in [0 .. n -> S] : Recurs(f, a, g, n)
<1> DEFINE Here == {k \in Nat : k <= n => \E f \in [0 .. k -> S] : Recurs(f, a, g, k)}
<1>1. 0 \in Here
  <2> DEFINE f == [i \in 0 .. 0 |-> a]
  <2>1. f \in [0 .. 0 -> S]
    OBVIOUS
  <2>2. Recurs(f, a, g, 0)
    <3>1. [i \in 0 .. 0 |-> IF i = 0 THEN a ELSE g[f[i - 1], i]] = f
      OBVIOUS
    <3> QED BY <3>1 DEF Recurs
  <2> HIDE DEF f
  <2> QED BY <2>1, <2>2
<1>2. ASSUME NEW k \in Nat, k \in Here PROVE k + 1 \in Here
  <2> SUFFICES ASSUME k + 1 <= n PROVE \E f \in [0 .. k + 1 -> S] : Recurs(f, a, g, k + 1)
    OBVIOUS
  <2>1. PICK f \in [0 .. k -> S] : Recurs(f, a, g, k)
    BY <1>2
  <2>0. f[0] = a /\ \A i \in 1 .. k : f[i] = g[f[i - 1], i]
    <3>1. Steps(f, a, g, k)
      BY <2>1, RecursAt, Zenon
    <3> QED BY <3>1 DEF Steps
  <2> DEFINE Val(i) == IF i = k + 1 THEN g[f[k], k + 1] ELSE f[i]
             h == [i \in 0 .. k + 1 |-> Val(i)]
  <2>2. /\ \A i \in 0 .. k : h[i] = f[i]
        /\ h[k + 1] = g[f[k], k + 1]
        /\ h = [i \in 0 .. k + 1 |-> h[i]]
    <3>1. /\ \A i \in 0 .. k + 1 : h[i] = Val(i)
          /\ h = [i \in 0 .. k + 1 |-> h[i]]
      <4> HIDE DEF Val
      <4> QED OBVIOUS
    <3>2. \A i \in 0 .. k : i \in 0 .. k + 1 /\ Val(i) = f[i]
      <4>1. \A i \in 0 .. k : i \in 0 .. k + 1 /\ i # k + 1
        OBVIOUS
      <4> QED BY <4>1, Zenon
    <3>3. k + 1 \in 0 .. k + 1 /\ Val(k + 1) = g[f[k], k + 1]
      OBVIOUS
    <3> HIDE DEF h, Val
    <3> QED BY <3>1, <3>2, <3>3
  <2> HIDE DEF h
  <2>3. h \in [0 .. k + 1 -> S]
    <3>1. f[k] \in S /\ k + 1 \in 1 .. n
      OBVIOUS
    <3>2. g[f[k], k + 1] \in S
      BY <3>1
    <3>3. \A i \in 0 .. k + 1 : h[i] \in S
      <4>1. \A i \in 0 .. k + 1 : i \in 0 .. k \/ i = k + 1
        OBVIOUS
      <4> QED BY <2>2, <3>2, <4>1
    <3> QED BY <2>2, <3>3
  <2>4. ASSUME NEW i \in 0 .. k + 1
        PROVE  h[i] = IF i = 0 THEN a ELSE g[h[i - 1], i]
    <3>1. CASE i = k + 1
      <4>1. i # 0 /\ i - 1 = k /\ k \in 0 .. k
        BY <3>1
      <4> QED BY <2>2, <3>1, <4>1
    <3>2. CASE i = 0
      <4>1. 0 \in 0 .. k
        OBVIOUS
      <4>2. h[0] = a
        BY <2>0, <2>2, <4>1
      <4> QED BY <3>2, <4>2
    <3>3. CASE i # k + 1 /\ i # 0
      <4>1. i \in 0 .. k /\ i \in 1 .. k /\ i - 1 \in 0 .. k
        BY <3>3
      <4>2. h[i] = f[i] /\ h[i - 1] = f[i - 1]
        BY <2>2, <4>1
      <4>3. f[i] = g[f[i - 1], i]
        BY <2>0, <4>1
      <4> QED BY <3>3, <4>2, <4>3
    <3> QED BY <3>1, <3>2, <3>3
  <2>5. Recurs(h, a, g, k + 1)
    BY <2>2, <2>4 DEF Recurs
  <2> QED BY <2>3, <2>5
<1>3. Nat \subseteq Here
  <2> HIDE DEF Here
  <2> QED BY <1>1, <1>2, SetInduction
<1> QED BY <1>3

\* The function by which FlattenSeq is defined, up to n.
Unfolds(f, W, n) == f = [i \in 1 .. n |-> IF i = 1 THEN W[i] ELSE f[i - 1] \o W[i]]

\* What it is at each i.
Unfolded(f, W, n) ==
  (n # 0 => f[1] = W[1]) /\ \A i \in 1 .. n : i + 1 <= n => f[i + 1] = f[i] \o W[i + 1]

\* What FlattenSeq's recursive function is at each number.
LEMMA UnfoldsAt ==
  ASSUME NEW f, NEW W, NEW n \in Nat, Unfolds(f, W, n)
  PROVE  Unfolded(f, W, n)
<1> DEFINE Item(j) == IF j = 1 THEN W[j] ELSE f[j - 1] \o W[j]
<1>1. f = [j \in 1 .. n |-> Item(j)]
  BY DEF Unfolds
<1>2. \A i \in 1 .. n : f[i] = Item(i)
  <2> HIDE DEF Item
  <2> QED BY <1>1
<1>3. n # 0 => f[1] = W[1]
  <2>1. n # 0 => 1 \in 1 .. n
    OBVIOUS
  <2> QED BY <1>2, <2>1
<1>4. ASSUME NEW i \in 1 .. n, i + 1 <= n PROVE f[i + 1] = f[i] \o W[i + 1]
  <2>1. PICK j \in 1 .. n : j = i + 1
    BY <1>4
  <2>2. j # 1 /\ j - 1 = i
    BY <2>1
  <2>3. f[j] = f[j - 1] \o W[j]
    BY <1>2, <2>2
  <2>4. f[j] = f[i] \o W[j]
    BY <2>2, <2>3, Zenon
  <2> QED BY <2>1, <2>4, Zenon
<1> QED BY <1>3, <1>4 DEF Unfolded

\* It exists.
LEMMA FlattenExists ==
  ASSUME NEW W, NEW n \in Nat
  PROVE  \E f : Unfolds(f, W, n)
<1> DEFINE S == {k \in Nat : \E f : Unfolds(f, W, k)}
<1>1. 0 \in S
  <2>1. Unfolds([i \in 1 .. 0 |-> 0], W, 0)
    BY DEF Unfolds
  <2> QED BY <2>1
<1>2. ASSUME NEW k \in Nat, k \in S PROVE k + 1 \in S
  <2>1. PICK f : Unfolds(f, W, k)
    BY <1>2
  <2> DEFINE g == [i \in 1 .. k + 1 |-> IF i = 1 THEN W[i]
                     ELSE IF i = k + 1 THEN f[i - 1] \o W[i] ELSE f[i]]
  <2>2. ASSUME NEW i \in 1 .. k + 1
        PROVE  g[i] = IF i = 1 THEN W[i] ELSE g[i - 1] \o W[i]
    <3>1. CASE i = 1
      BY <3>1
    <3>2. CASE i # 1
      <4>1. i - 1 \in 1 .. k + 1 /\ i - 1 # k + 1 /\ i - 1 \in 1 .. k
        BY <3>2
      <4>2. g[i - 1] = f[i - 1]
        BY <2>1, <4>1 DEF Unfolds
      <4>3. g[i] = f[i - 1] \o W[i]
        <5>1. CASE i = k + 1
          BY <3>2, <5>1
        <5>2. CASE i # k + 1
          <6>1. i \in 1 .. k
            BY <5>2
          <6> QED BY <2>1, <3>2, <5>2, <6>1 DEF Unfolds
        <5> QED BY <5>1, <5>2
      <4> QED BY <3>2, <4>2, <4>3
    <3> QED BY <3>1, <3>2
  <2>3. Unfolds(g, W, k + 1)
    <3>1. g = [i \in 1 .. k + 1 |-> g[i]]
      OBVIOUS
    <3> HIDE DEF g
    <3> QED BY <2>2, <3>1 DEF Unfolds
  <2> HIDE DEF g
  <2> QED BY <2>3
<1>3. Nat \subseteq S
  <2> HIDE DEF S
  <2> QED BY <1>1, <1>2, SetInduction
<1> QED BY <1>3

\* FlattenSeq puts one after the other.
LEMMA FlattenUnfolds ==
  ASSUME NEW W, Len(W) \in Nat, Len(W) # 0
  PROVE  \E f : Unfolds(f, W, Len(W)) /\ FlattenSeq(W) = f[Len(W)]
<1> DEFINE g == CHOOSE f : Unfolds(f, W, Len(W))
<1>1. Unfolds(g, W, Len(W))
  BY FlattenExists
<1>2. FlattenSeq(W) = g[Len(W)]
  BY DEF FlattenSeq, Unfolds
<1> HIDE DEF g
<1> QED BY <1>1, <1>2

\* One more sequence goes behind the others.
LEMMA FlattenMore ==
  ASSUME NEW S, NEW W \in Seq(Seq(S)), NEW V \in Seq(Seq(S)), NEW n \in Nat, Len(W) = n,
         Len(V) = n + 1, \A i \in 1 .. n : V[i] = W[i]
  PROVE  FlattenSeq(W) \in Seq(S) /\ FlattenSeq(V) = FlattenSeq(W) \o V[n + 1]
<1>1. /\ \A i \in 1 .. n : W[i] \in Seq(S)
      /\ V[n + 1] \in Seq(S) /\ Len(V) \in Nat /\ Len(V) # 0
  <2>1. n + 1 \in 1 .. Len(V)
    OBVIOUS
  <2> QED BY <2>1, ElementOfSeq
<1>2. PICK f : Unfolds(f, V, Len(V)) /\ FlattenSeq(V) = f[Len(V)]
  BY <1>1, FlattenUnfolds
<1>3. Unfolds(f, V, n + 1) /\ FlattenSeq(V) = f[n + 1]
  BY <1>2
<1>4. /\ n = 0 => f[n + 1] = V[n + 1]
      /\ n # 0 => f[n + 1] = f[n] \o V[n + 1]
  <2>1. n + 1 # 0 /\ (n # 0 => n \in 1 .. n + 1 /\ n + 1 <= n + 1) /\ (n = 0 => n + 1 = 1)
    OBVIOUS
  <2>2. Unfolded(f, V, n + 1)
    BY <1>3, UnfoldsAt
  <2> QED BY <2>1, <2>2 DEF Unfolded
<1>5. CASE n = 0
  <2>1. W = <<>>
    BY <1>5, EmptySeq
  <2>2. FlattenSeq(W) = <<>>
    BY <1>5, <2>1 DEF FlattenSeq
  <2>3. <<>> \o V[n + 1] = V[n + 1] /\ <<>> \in Seq(S)
    BY <1>1, ConcatEmptySeq
  <2> QED BY <1>3, <1>4, <1>5, <2>2, <2>3
<1>6. CASE n # 0
  <2>1. PICK g : Unfolds(g, W, Len(W)) /\ FlattenSeq(W) = g[Len(W)]
    BY <1>6, FlattenUnfolds
  <2>2. Unfolds(g, W, n) /\ FlattenSeq(W) = g[n]
    BY <2>1
  <2> DEFINE T == {k \in Nat : k \in 1 .. n => f[k] = g[k] /\ g[k] \in Seq(S)}
  <2>3. 0 \in T
    OBVIOUS
  <2>4. ASSUME NEW k \in Nat, k \in T PROVE k + 1 \in T
    <3> SUFFICES ASSUME k + 1 \in 1 .. n PROVE f[k + 1] = g[k + 1] /\ g[k + 1] \in Seq(S)
      OBVIOUS
    <3>1. k + 1 \in 1 .. n + 1 /\ n + 1 \in Nat /\ V[k + 1] = W[k + 1] /\ W[k + 1] \in Seq(S)
      BY <1>1
    <3>2. /\ k = 0 => f[k + 1] = V[k + 1]
          /\ k # 0 => f[k + 1] = f[k] \o V[k + 1]
      <4>1. n + 1 # 0 /\ (k # 0 => k \in 1 .. n + 1 /\ k + 1 <= n + 1) /\ (k = 0 => k + 1 = 1)
        OBVIOUS
      <4>2. Unfolded(f, V, n + 1)
        BY <1>3, UnfoldsAt
      <4> QED BY <4>1, <4>2 DEF Unfolded
    <3>3. /\ k = 0 => g[k + 1] = W[k + 1]
          /\ k # 0 => k \in 1 .. n /\ g[k + 1] = g[k] \o W[k + 1]
      <4>1. n # 0 /\ (k # 0 => k \in 1 .. n /\ k + 1 <= n) /\ (k = 0 => k + 1 = 1)
        OBVIOUS
      <4>2. Unfolded(g, W, n)
        BY <2>2, UnfoldsAt
      <4> QED BY <4>1, <4>2 DEF Unfolded
    <3>4. CASE k = 0
      BY <3>1, <3>2, <3>3, <3>4
    <3>5. CASE k # 0
      <4>1. f[k] = g[k] /\ g[k] \in Seq(S)
        BY <2>4, <3>3, <3>5
      <4>2. g[k] \o W[k + 1] \in Seq(S)
        BY <3>1, <4>1, ConcatProperties
      <4> QED BY <3>1, <3>2, <3>3, <3>5, <4>1, <4>2
    <3> QED BY <3>4, <3>5
  <2>5. n \in T
    <3> HIDE DEF T
    <3> QED BY <2>3, <2>4, SetInduction
  <2>6. f[n] = g[n] /\ g[n] \in Seq(S)
    BY <1>6, <2>5
  <2> QED BY <1>3, <1>4, <1>6, <2>2, <2>6
<1> QED BY <1>5, <1>6

\* No sequence makes no sequence.
LEMMA FlattenEmpty == FlattenSeq(<<>>) = <<>>
BY DEF FlattenSeq

\* Sequences put one after the other are a sequence.
LEMMA FlattenType ==
  ASSUME NEW S, NEW W \in Seq(Seq(S))
  PROVE  FlattenSeq(W) \in Seq(S)
<1> DEFINE V == Append(W, <<>>)
<1>1. <<>> \in Seq(S)
  OBVIOUS
<1>2. V \in Seq(Seq(S)) /\ Len(V) = Len(W) + 1 /\ \A i \in 1 .. Len(W) : V[i] = W[i]
  BY <1>1, AppendProperties
<1>3. Len(W) \in Nat
  OBVIOUS
<1> HIDE DEF V
<1> QED BY <1>2, <1>3, FlattenMore

\* The function by which Length is defined.
Sums(s, run) == s = [n \in 0 .. Len(run) |-> IF n = 0 THEN 0 ELSE s[n - 1] + run[n].dur]

\* Length adds the durations up.
LEMMA LengthSums ==
  ASSUME NEW run \in Seq(Items)
  PROVE  \E s \in [0 .. Len(run) -> Int] : Sums(s, run) /\ Length(run) = s[Len(run)]
<1> DEFINE N == Len(run)
           g == [z \in Int \X (1 .. N) |-> z[1] + run[z[2]].dur]
<1>1. N \in Nat /\ \A i \in 1 .. N : run[i].dur \in Int
  <2>1. \A i \in 1 .. N : run[i] \in Items
    BY ElementOfSeq
  <2> QED BY <2>1 DEF Items
<1>2. g \in [Int \X (1 .. N) -> Int]
  BY <1>1
<1>3. \A z \in Int, i \in 1 .. N : g[z, i] = z + run[i].dur
  OBVIOUS
<1> HIDE DEF g
<1>4. PICK f \in [0 .. N -> Int] : Recurs(f, 0, g, N)
  <2>1. 0 \in Int
    OBVIOUS
  <2> HIDE DEF N
  <2> QED BY <1>1, <1>2, <2>1, RecursExists
<1>5. Sums(f, run)
  <2>1. Steps(f, 0, g, N)
    BY <1>1, <1>4, RecursAt, Zenon
  <2>2. \A n \in 0 .. N : f[n] = IF n = 0 THEN 0 ELSE f[n - 1] + run[n].dur
    <3> TAKE n \in 0 .. N
    <3>1. CASE n = 0
      BY <2>1, <3>1 DEF Steps
    <3>2. CASE n # 0
      <4>1. n \in 1 .. N /\ n - 1 \in 0 .. N
        BY <1>1, <3>2
      <4>2. f[n] = g[f[n - 1], n] /\ f[n - 1] \in Int
        BY <2>1, <4>1 DEF Steps
      <4> QED BY <1>3, <3>2, <4>1, <4>2
    <3> QED BY <3>1, <3>2
  <2>3. f = [n \in 0 .. N |-> f[n]]
    OBVIOUS
  <2> QED BY <2>2, <2>3 DEF Sums
<1> DEFINE s == CHOOSE h : Sums(h, run)
<1>6. Sums(s, run)
  BY <1>5
<1>7. Length(run) = s[N]
  BY DEF Length, Sums
<1> HIDE DEF s
<1>8. /\ s = [n \in 0 .. N |-> s[n]]
      /\ s[0] = 0 /\ \A n \in 1 .. N : s[n] = s[n - 1] + run[n].dur
      /\ \A n \in Nat : n + 1 <= N => s[n + 1] = s[n] + run[n + 1].dur
  <2> DEFINE Val(n) == IF n = 0 THEN 0 ELSE s[n - 1] + run[n].dur
  <2>1. s = [n \in 0 .. N |-> Val(n)]
    BY <1>6 DEF Sums
  <2>2. s = [n \in 0 .. N |-> s[n]] /\ \A n \in 0 .. N : s[n] = Val(n)
    <3> HIDE DEF Val
    <3> QED BY <2>1
  <2>3. 0 \in 0 .. N /\ \A n \in 1 .. N : n \in 0 .. N /\ n # 0
    BY <1>1
  <2>4. s[0] = Val(0) /\ \A n \in 1 .. N : s[n] = Val(n) /\ n # 0
    BY <2>2, <2>3, Zenon
  <2>5. \A n \in Nat : n + 1 <= N => n + 1 \in 1 .. N /\ n + 1 - 1 = n
    BY <1>1
  <2>6. \A n \in 1 .. N : s[n] = s[n - 1] + run[n].dur
    BY <2>4
  <2> HIDE DEF Val, N
  <2>7. \A n \in Nat : n + 1 <= N => s[n + 1] = s[n] + run[n + 1].dur
    BY <2>5, <2>6
  <2>8. s[0] = 0
    BY <2>4 DEF Val
  <2> QED BY <2>2, <2>6, <2>7, <2>8
<1> DEFINE Here == {n \in Nat : n <= N => s[n] \in Int}
<1>9. Nat \subseteq Here
  <2>1. 0 \in Here
    BY <1>1, <1>8
  <2>2. ASSUME NEW n \in Nat, n \in Here PROVE n + 1 \in Here
    <3> SUFFICES ASSUME n + 1 <= N PROVE s[n + 1] \in Int
      OBVIOUS
    <3>1. n + 1 \in 0 .. N /\ n + 1 # 0 /\ n + 1 - 1 = n /\ n + 1 \in 1 .. N /\ n <= N
      BY <1>1
    <3>2. s[n] \in Int
      BY <2>2, <3>1
    <3>3. s[n + 1] = s[n] + run[n + 1].dur
      BY <1>8, <3>1
    <3> QED BY <1>1, <3>1, <3>2, <3>3
  <2> HIDE DEF Here
  <2> QED BY <2>1, <2>2, SetInduction
<1>10. s \in [0 .. N -> Int]
  <2>1. \A n \in 0 .. N : s[n] \in Int
    BY <1>1, <1>9
  <2> QED BY <1>8, <2>1
<1> QED BY <1>6, <1>7, <1>10

\* It is a number.
LEMMA LengthInt ==
  ASSUME NEW run \in Seq(Items)
  PROVE  Length(run) \in Int
<1>1. PICK s \in [0 .. Len(run) -> Int] : Sums(s, run) /\ Length(run) = s[Len(run)]
  BY LengthSums
<1>2. Len(run) \in 0 .. Len(run)
  BY LenProperties
<1> QED BY <1>1, <1>2

-----------------------------------------------------------------------------
(* The remuxer.                                                              *)

\* A batch is not empty; what is held back is the end of what there was.
LEMMA BatchIs ==
  ASSUME NEW k \in Tracks, NEW queue \in Seq(Frames), queue # <<>>
  PROVE  /\ Batch(k, queue).samples \in Seq(Frames) /\ Batch(k, queue).held \in Seq(Frames)
         /\ Batch(k, queue).samples # <<>> /\ Len(Batch(k, queue).held) <= 1
         /\ Batch(k, queue).samples \o Batch(k, queue).held = k.stash \o queue
         /\ Len(queue) = 1 => Batch(k, queue).held = <<>>
<1> DEFINE b == Batch(k, queue)
<1>1. k.stash \in Seq(Frames) /\ Len(queue) \in Nat \ {0}
  BY EmptySeq DEF Tracks
<1>2. CASE Len(queue) > 1
  <2>1. b.samples = k.stash \o Front(queue) /\ b.held = <<Last(queue)>>
    BY <1>2 DEF Batch
  <2>2. /\ Front(queue) \in Seq(Frames) /\ Len(Front(queue)) = Len(queue) - 1
        /\ Front(queue) \o <<Last(queue)>> = queue /\ Last(queue) \in Frames
    <3>1. 1 \in 1 .. Len(queue) /\ Len(queue) \in 1 .. Len(queue)
      BY <1>1
    <3>2. SubSeq(queue, 1, Len(queue)) = SubSeq(queue, 1, Len(queue) - 1) \o <<queue[Len(queue)]>>
      BY <3>1, SubSeqRecursiveSecond
    <3>3. \A i \in 1 .. Len(queue) - 1 : queue[i] \in Frames
      BY ElementOfSeq, <1>1
    <3>4. SubSeq(queue, 1, Len(queue) - 1) \in Seq(Frames) /\ Len(SubSeq(queue, 1, Len(queue) - 1)) = Len(queue) - 1
      BY <1>1, <1>2, <3>3, SubSeqProperties
    <3> QED BY <3>1, <3>2, <3>4, SubSeqFull, ElementOfSeq DEF Front, Last
  <2>3. <<Last(queue)>> \in Seq(Frames) /\ Len(<<Last(queue)>>) = 1
    BY <2>2
  <2>4. (k.stash \o Front(queue)) \o <<Last(queue)>> = k.stash \o queue
    <3>1. \A u, v, w \in Seq(Frames) : (u \o v) \o w = u \o (v \o w)
      BY ConcatAssociative
    <3>2. (k.stash \o Front(queue)) \o <<Last(queue)>> = k.stash \o (Front(queue) \o <<Last(queue)>>)
      BY <1>1, <2>2, <2>3, <3>1
    <3> QED BY <2>2, <3>2
  <2>5. k.stash \o Front(queue) \in Seq(Frames) /\ Len(k.stash \o Front(queue)) >= 1
    BY <1>1, <1>2, <2>2, ConcatProperties
  <2>6. k.stash \o Front(queue) # <<>>
    BY <2>5
  <2>7. b.samples \in Seq(Frames) /\ b.held \in Seq(Frames) /\ b.samples # <<>> /\ Len(b.held) <= 1
    BY <2>1, <2>3, <2>5, <2>6
  <2>8. b.samples \o b.held = k.stash \o queue
    BY <2>1, <2>4
  <2> QED BY <1>2, <2>7, <2>8
<1>3. CASE ~(Len(queue) > 1)
  <2>1. b.samples = k.stash \o queue /\ b.held = <<>>
    BY <1>3 DEF Batch
  <2>2. k.stash \o queue \in Seq(Frames) /\ Len(k.stash \o queue) >= 1
    BY <1>1, ConcatProperties
  <2>3. k.stash \o queue # <<>> /\ <<>> \in Seq(Frames) /\ Len(<<>>) = 0
    BY <2>2
  <2> QED BY <1>1, <2>1, <2>2, <2>3, ConcatEmptySeq
<1> QED BY <1>2, <1>3

\* A quotient.
LEMMA QuotientNat ==
  ASSUME NEW a \in Nat, NEW d \in Nat \ {0}
  PROVE  a \div d \in Nat
OBVIOUS

\* A frame and the silence behind it are samples.
LEMMA FilledUpType ==
  ASSUME NEW t \in Types, NEW sample \in Frames, NEW duration \in Int
  PROVE  FilledUp(t, sample, duration) \in Seq(Items)
<1>1. Ref[t] \in Nat \ {0} /\ NoMeta \in Nat
  BY RefAssumption DEF NoMeta
<1> DEFINE frame(len) == [tag |-> sample.tag, cfg |-> sample.cfg, dur |-> len]
<1>2. \A len \in Int : frame(len) \in Items
  BY DEF Frames, Items
<1>3. CASE NeedsSilence(t, duration)
  <2> DEFINE ref == Ref[t]
             n == (duration - 1) \div ref
             silence(j) == [tag |-> 0, cfg |-> NoMeta, dur |-> IF j < n THEN ref ELSE duration - n * ref]
  <2>1. duration - 1 \in Nat
    BY <1>1, <1>3 DEF NeedsSilence
  <2>2. n \in Nat
    BY <1>1, <2>1, QuotientNat
  <2>3. n * ref \in Int
    <3> HIDE DEF n
    <3> QED BY <1>1, <2>2
  <2>4. \A j \in 1 .. n : silence(j) \in Items
    <3> HIDE DEF n
    <3> QED BY <1>1, <2>2, <2>3 DEF Items
  <2>5. [j \in 1 .. n |-> silence(j)] \in Seq(Items)
    <3> HIDE DEF n, silence
    <3> QED BY <2>2, <2>4
  <2>6. SilentFrames(duration, Ref[t]) = [j \in 1 .. n |-> silence(j)]
    BY DEF SilentFrames
  <2>7. frame(Ref[t]) \in Items
    BY <1>1, <1>2
  <2>8. FilledUp(t, sample, duration) = <<frame(Ref[t])>> \o SilentFrames(duration, Ref[t])
    BY <1>3 DEF FilledUp
  <2> HIDE DEF frame, n, silence
  <2>9. <<frame(Ref[t])>> \in Seq(Items)
    BY <2>7
  <2> QED BY <2>5, <2>6, <2>8, <2>9, ConcatProperties
<1>4. CASE ~NeedsSilence(t, duration)
  <2>1. FilledUp(t, sample, duration) = <<frame(duration)>>
    BY <1>4 DEF FilledUp
  <2>2. frame(duration) \in Items
    BY <1>2
  <2> HIDE DEF frame
  <2> QED BY <2>1, <2>2
<1> QED BY <1>3, <1>4

Batches == [samples : Seq(Frames), held : Seq(Frames)]

\* The duration of each sample is a number.
LEMMA DurationInt ==
  ASSUME NEW t \in Types, NEW b \in Batches, NEW base \in Int, NEW i \in 1 .. Len(b.samples)
  PROVE  Duration(t, b, i, base) \in Int
<1>1. Ref[t] \in Int
  BY RefAssumption
<1>2. b.samples \in Seq(Frames) /\ b.held \in Seq(Frames)
  BY DEF Batches
<1>3. \A j \in 1 .. Len(b.samples) : b.samples[j].dts \in Int
  <2>1. \A j \in 1 .. Len(b.samples) : b.samples[j] \in Frames
    BY <1>2, ElementOfSeq
  <2> QED BY <2>1 DEF Frames
<1>4. b.held # <<>> => b.held[1].dts \in Int
  <2>1. b.held # <<>> => 1 \in 1 .. Len(b.held)
    BY <1>2, EmptySeq
  <2>2. b.held # <<>> => b.held[1] \in Frames
    BY <1>2, <2>1, ElementOfSeq
  <2> QED BY <2>2 DEF Frames
<1>5. i < Len(b.samples) => i + 1 \in 1 .. Len(b.samples)
  BY <1>2
<1> QED BY <1>1, <1>3, <1>4, <1>5 DEF Duration

\* A batch makes a segment of its track.
LEMMA MediaSegmentIs ==
  ASSUME NEW t \in Types, NEW b \in Batches, b.samples # <<>>, NEW k \in Tracks, NEW base \in Int
  PROVE  /\ MediaSegment(t, b, k, base) \in Media
         /\ MediaSegment(t, b, k, base).type = t
         /\ MediaSegment(t, b, k, base).run = FlattenSeq([i \in 1 .. Len(b.samples) |-> Mp4Samples(t, b, i, base)])
         /\ [i \in 1 .. Len(b.samples) |-> Mp4Samples(t, b, i, base)] \in Seq(Seq(Items))
<1> DEFINE n == Len(b.samples)
           W == [i \in 1 .. n |-> Mp4Samples(t, b, i, base)]
<1>1. n \in Nat /\ 1 \in 1 .. n /\ \A i \in 1 .. n : b.samples[i] \in Frames
  BY EmptySeq, ElementOfSeq DEF Batches
<1>2. \A i \in 1 .. n : Mp4Samples(t, b, i, base) \in Seq(Items)
  <2> TAKE i \in 1 .. n
  <2>1. Duration(t, b, i, base) \in Int
    BY DurationInt
  <2> QED BY <1>1, <2>1, FilledUpType DEF Mp4Samples
<1>3. W \in Seq(Seq(Items))
  <2> HIDE DEF n
  <2> QED BY <1>1, <1>2
<1>4. FlattenSeq(W) \in Seq(Items)
  BY <1>3, FlattenType
<1>5. At(b, 1, base, DtsCorrection(k, base, b)) \in Int
  <2>1. b.samples[1].dts \in Int /\ k.next \in Int
    BY <1>1 DEF Frames, Tracks
  <2> QED BY <2>1 DEF At, DtsCorrection
<1>6. MediaSegment(t, b, k, base) = [ev |-> "media", type |-> t, base |-> At(b, 1, base, DtsCorrection(k, base, b)), run |-> FlattenSeq(W)]
  BY DEF MediaSegment, Moof
<1> HIDE DEF W
<1>7. MediaSegment(t, b, k, base) \in Media /\ MediaSegment(t, b, k, base).type = t
      /\ MediaSegment(t, b, k, base).run = FlattenSeq(W)
  BY <1>4, <1>5, <1>6 DEF Media
<1> QED BY <1>3, <1>7 DEF W

\* The segment that a track's batch makes.
SegmentOf(x, t, queue) == MediaSegment(t, Batch(x.tracks[t], queue), x.tracks[t], x.base)

\* A track is remuxed: a segment is emitted, and what it is made of goes.
LEMMA RemuxTrackIs ==
  ASSUME NEW x \in Muxes, NEW t \in Types, NEW queue \in Seq(Frames), NEW force \in BOOLEAN,
         ~NothingToRemux(x.tracks[t], queue, force),
         NEW y, y = RemuxTrack(x, t, queue, force)
  PROVE  /\ y \in Muxes /\ y.demux = x.demux /\ y.base = x.base /\ y.parsed = x.parsed
         /\ \A u \in Types : u # t => y.tracks[u] = x.tracks[u]
         /\ y.tracks[t].meta = x.tracks[t].meta
         /\ y.tracks[t].stash = Batch(x.tracks[t], queue).held
         /\ y.tracks[t].queue = IF force THEN x.tracks[t].queue ELSE <<>>
         /\ y.out = Append(x.out, SegmentOf(x, t, queue))
         /\ y.tracks[t].next = SegmentOf(x, t, queue).base + Length(SegmentOf(x, t, queue).run)
         /\ SegmentOf(x, t, queue) \in Media /\ SegmentOf(x, t, queue).type = t
<1> DEFINE k == x.tracks[t]
           b == Batch(k, queue)
           seg == MediaSegment(t, b, k, x.base)
<1>1. /\ x.tracks \in [Types -> Tracks] /\ k \in Tracks /\ x.base \in Int /\ x.out \in Seq(Events)
      /\ queue # <<>>
  BY DEF Muxes, NothingToRemux
<1>2. b.samples \in Seq(Frames) /\ b.held \in Seq(Frames) /\ b.samples # <<>>
  BY <1>1, BatchIs
<1>3. b = [samples |-> b.samples, held |-> b.held]
  BY DEF Batch
<1>4. b \in Batches
  <2> HIDE DEF b
  <2> QED BY <1>2, <1>3 DEF Batches
<1>5. seg \in Media /\ seg.type = t
  <2> HIDE DEF b, k
  <2> QED BY <1>1, <1>2, <1>4, MediaSegmentIs
<1>6. y = Sent([x EXCEPT !.tracks[t].stash = b.held, !.tracks[t].queue = IF force THEN @ ELSE <<>>], t, seg)
  BY DEF RemuxTrack, Remuxed
<1>7. seg.run \in Seq(Items) /\ seg.base \in Int /\ seg \in Events
  <2> HIDE DEF seg
  <2> QED BY <1>5 DEF Media, Events, Segments
<1>8. seg.base + Length(seg.run) \in Int
  <2> HIDE DEF seg
  <2> QED BY <1>7, LengthInt
<1>9. SegmentOf(x, t, queue) = seg
  BY DEF SegmentOf
<1> HIDE DEF seg, b, k
<1>10. Append(x.out, seg) \in Seq(Events) /\ <<>> \in Seq(Frames)
  BY <1>1, <1>7, AppendProperties
<1> DEFINE z == [x EXCEPT !.tracks[t].stash = b.held, !.tracks[t].queue = IF force THEN @ ELSE <<>>]
<1>11. /\ z \in Muxes /\ z.demux = x.demux /\ z.base = x.base /\ z.parsed = x.parsed /\ z.out = x.out
       /\ \A u \in Types : u # t => z.tracks[u] = x.tracks[u]
       /\ z.tracks[t] = [x.tracks[t] EXCEPT !.stash = b.held, !.queue = IF force THEN @ ELSE <<>>]
       /\ z.tracks[t] \in Tracks
  BY <1>1, <1>2, <1>10 DEF Muxes, Tracks, k
<1> DEFINE sent == seg.base + Length(seg.run)
<1>12. y = [[z EXCEPT !.out = Append(@, seg)] EXCEPT !.tracks[t].next = sent]
  BY <1>6 DEF Sent, Emit
<1> HIDE DEF z, sent
<1>13. /\ y \in Muxes /\ y.demux = z.demux /\ y.base = z.base /\ y.parsed = z.parsed /\ y.out = Append(x.out, seg)
       /\ \A u \in Types : u # t => y.tracks[u] = z.tracks[u]
       /\ y.tracks[t] = [z.tracks[t] EXCEPT !.next = sent]
  <2> DEFINE k2 == [z.tracks[t] EXCEPT !.next = sent]
  <2>1. k2 \in Tracks
    BY <1>8, <1>11 DEF Tracks, sent
  <2>2. z.tracks \in [Types -> Tracks] /\ z.out = x.out
    BY <1>11 DEF Muxes
  <2> HIDE DEF k2
  <2>3. y = [z EXCEPT !.out = Append(x.out, seg), !.tracks = [z.tracks EXCEPT ![t] = k2]]
    BY <1>11, <1>12, <2>2 DEF k2, Muxes
  <2>4. [z.tracks EXCEPT ![t] = k2] \in [Types -> Tracks]
    BY <2>1, <2>2
  <2>5. y \in Muxes /\ y.tracks = [z.tracks EXCEPT ![t] = k2] /\ y.out = Append(x.out, seg)
        /\ y.demux = z.demux /\ y.base = z.base /\ y.parsed = z.parsed
    BY <1>10, <1>11, <2>3, <2>4 DEF Muxes
  <2> QED BY <2>2, <2>5 DEF k2
<1>14. /\ y.tracks[t].stash = b.held /\ y.tracks[t].queue = IF force THEN x.tracks[t].queue ELSE <<>>
       /\ y.tracks[t].meta = x.tracks[t].meta /\ y.tracks[t].next = sent
  BY <1>1, <1>11, <1>13 DEF Tracks, k
<1>15. b = Batch(x.tracks[t], queue)
  BY DEF b, k
<1>16. y.tracks[t].next = seg.base + Length(seg.run)
  BY <1>14 DEF sent
<1> QED BY <1>5, <1>9, <1>11, <1>13, <1>14, <1>15, <1>16

\* What the remuxer may do: segments of tracks with metadata are emitted.
Passed(x, y) ==
  /\ y \in Muxes /\ y.demux = x.demux /\ y.parsed = x.parsed
  /\ \A t \in Types : /\ y.tracks[t].meta = x.tracks[t].meta
                      /\ Held(x.tracks[t]) => Held(y.tracks[t])
                      /\ y.tracks[t].queue \in {x.tracks[t].queue, <<>>}
  /\ \E new \in Seq(Media) :
        y.out = x.out \o new /\ \A i \in DOMAIN new : x.tracks[new[i].type].meta # NoMeta

\* Two steps of the remuxer are one.
LEMMA PassedTwice ==
  ASSUME NEW x \in Muxes, NEW y, NEW z, Passed(x, y), Passed(y, z)
  PROVE  Passed(x, z)
<1>1. PICK new \in Seq(Media) :
        y.out = x.out \o new /\ \A i \in DOMAIN new : x.tracks[new[i].type].meta # NoMeta
  BY DEF Passed
<1>2. PICK more \in Seq(Media) :
        z.out = y.out \o more /\ \A i \in DOMAIN more : y.tracks[more[i].type].meta # NoMeta
  BY DEF Passed
<1>3. \A t \in Types : y.tracks[t].meta = x.tracks[t].meta
  BY DEF Passed
<1>4. z.out = x.out \o (new \o more) /\ new \o more \in Seq(Media)
  <2>1. x.out \in Seq(Events) /\ new \in Seq(Events) /\ more \in Seq(Events)
    BY SeqMonotonic DEF Muxes, Events, Segments
  <2>2. \A u, v, w \in Seq(Events) : (u \o v) \o w = u \o (v \o w)
    BY ConcatAssociative
  <2>4. (x.out \o new) \o more = x.out \o (new \o more)
    BY <2>1, <2>2
  <2> QED BY <1>1, <1>2, <2>4, ConcatProperties
<1>5. \A i \in DOMAIN (new \o more) : x.tracks[(new \o more)[i].type].meta # NoMeta
  <2> TAKE i \in DOMAIN (new \o more)
  <2>1. i \in 1 .. Len(new) + Len(more) /\ Len(new) \in Nat /\ Len(more) \in Nat
    BY <1>4, ConcatProperties, LenProperties
  <2>2. CASE i <= Len(new)
    <3>1. i \in DOMAIN new /\ (new \o more)[i] = new[i]
      BY <2>1, <2>2, ConcatProperties
    <3> QED BY <1>1, <3>1
  <2>3. CASE ~(i <= Len(new))
    <3>1. i - Len(new) \in 1 .. Len(more) /\ (new \o more)[i] = more[i - Len(new)]
      BY <2>1, <2>3, ConcatProperties
    <3>2. i - Len(new) \in DOMAIN more /\ more[i - Len(new)] \in Media
      BY <3>1, ElementOfSeq
    <3>3. more[i - Len(new)].type \in Types
      BY <3>2 DEF Media
    <3> QED BY <1>2, <1>3, <3>1, <3>2, <3>3
  <2> QED BY <2>2, <2>3
<1> QED BY <1>4, <1>5 DEF Passed

\* Nothing done.
LEMMA PassedNone ==
  ASSUME NEW x \in Muxes
  PROVE  Passed(x, x)
<1>1. <<>> \in Seq(Media) /\ x.out = x.out \o <<>> /\ DOMAIN <<>> = {}
  BY ConcatEmptySeq DEF Muxes
<1> QED BY <1>1 DEF Passed

\* One track.
LEMMA RemuxTrackPasses ==
  ASSUME NEW x \in Muxes, NEW t \in Types, NEW queue \in Seq(Frames), NEW force \in BOOLEAN,
         NEW y, y = RemuxTrack(x, t, queue, force)
  PROVE  Passed(x, y)
<1>1. CASE NothingToRemux(x.tracks[t], queue, force)
  <2>1. y = x
    BY <1>1 DEF RemuxTrack
  <2> QED BY <2>1, PassedNone
<1>2. CASE ~NothingToRemux(x.tracks[t], queue, force)
  <2>1. PICK seg \in Media : seg.type = t /\ y.out = Append(x.out, seg)
    BY <1>2, RemuxTrackIs
  <2>2. queue # <<>> /\ x.tracks[t].meta # NoMeta /\ x.tracks[t] \in Tracks
    BY <1>2 DEF NothingToRemux, Muxes
  <2>3. Len(Batch(x.tracks[t], queue).held) <= 1
    BY <2>2, BatchIs
  <2>4. <<seg>> \in Seq(Media) /\ y.out = x.out \o <<seg>> /\ \A i \in DOMAIN <<seg>> : <<seg>>[i] = seg
    <3>1. x.out \in Seq(Events) /\ seg \in Events
      BY DEF Muxes, Events, Segments
    <3> QED BY <2>1, <3>1, AppendIsConcat
  <2>5. /\ y \in Muxes /\ y.demux = x.demux /\ y.parsed = x.parsed
        /\ \A u \in Types : u # t => y.tracks[u] = x.tracks[u]
        /\ y.tracks[t].meta = x.tracks[t].meta
        /\ y.tracks[t].stash = Batch(x.tracks[t], queue).held
        /\ y.tracks[t].queue = IF force THEN x.tracks[t].queue ELSE <<>>
    BY <1>2, RemuxTrackIs
  <2>6. \A u \in Types : /\ y.tracks[u].meta = x.tracks[u].meta
                         /\ Held(x.tracks[u]) => Held(y.tracks[u])
                         /\ y.tracks[u].queue \in {x.tracks[u].queue, <<>>}
    BY <2>2, <2>3, <2>5 DEF Held
  <2>7. \A i \in DOMAIN <<seg>> : x.tracks[<<seg>>[i].type].meta # NoMeta
    BY <2>1, <2>2, <2>4
  <2> QED BY <2>4, <2>5, <2>6, <2>7 DEF Passed
<1> QED BY <1>1, <1>2

\* Sound and pictures.
LEMMA TypesAre == Types = {"video", "audio"} /\ "video" \in Types /\ "audio" \in Types
BY DEF Types

\* The zero of the timeline is the only thing that changes before.
LEMMA BaseIs ==
  ASSUME NEW x \in Muxes, HasFrames(x)
  PROVE  \E base \in Int : /\ CalculateDtsBase(x) = [x EXCEPT !.base = base]
                          /\ base # Unset /\ (x.base = Unset \/ base = x.base)
<1> DEFINE first == {x.tracks[t].queue[1].dts : t \in {u \in Types : x.tracks[u].queue # <<>>}}
<1>1. x.base \in Int /\ x.tracks \in [Types -> Tracks]
  BY DEF Muxes
<1>2. CASE x.base # Unset
  <2>1. [x EXCEPT !.base = x.base] = x
    BY DEF Muxes
  <2> QED BY <1>1, <1>2, <2>1 DEF CalculateDtsBase
<1>3. CASE x.base = Unset
  <2>1. first # {}
    BY DEF HasFrames
  <2>2. first \subseteq Nat
    <3>1. \A t \in Types : x.tracks[t].queue # <<>> => x.tracks[t].queue[1].dts \in Nat
      <4> TAKE t \in Types
      <4>1. x.tracks[t].queue \in Seq(Frames)
        BY <1>1 DEF Tracks
      <4>2. x.tracks[t].queue # <<>> => x.tracks[t].queue[1] \in Frames
        BY <4>1, EmptySeq, ElementOfSeq
      <4> QED BY <4>2 DEF Frames
    <3> QED BY <3>1
  <2> HIDE DEF first
  <2>3. PICK m \in first : \A n \in first : m <= n
    BY <2>1, <2>2, Least
  <2>4. Min(first) \in first
    BY <2>3 DEF Min
  <2>5. CalculateDtsBase(x) = [x EXCEPT !.base = Min(first)]
    BY <1>3 DEF CalculateDtsBase, first
  <2>6. \A n \in Nat : n # Unset
    BY DEF Unset
  <2> QED BY <1>3, <2>2, <2>4, <2>5, <2>6
<1> QED BY <1>2, <1>3

\* Every track with frames and metadata has given its frames but the last one.
Served(x) == \A t \in Types : x.tracks[t].meta = NoMeta \/ Len(x.tracks[t].queue) <= 1

\* None or one.
LEMMA AtMostOne == \A n \in Nat : n <= 1 <=> n = 0 \/ n = 1
OBVIOUS

\* When there is nothing to be done.
LEMMA NothingIs ==
  ASSUME NEW k, NEW queue, NEW force \in BOOLEAN
  PROVE  /\ ~force => (NothingToRemux(k, queue, force) <=> k.meta = NoMeta \/ queue = <<>> \/ Len(queue) = 1)
         /\ ~NothingToRemux(k, queue, force) => queue # <<>> /\ k.meta # NoMeta
BY Zenon DEF NothingToRemux

\* What the demuxer has queued for a track goes.
LEMMA RemuxQueueIs ==
  ASSUME NEW x \in Muxes, NEW t \in Types, NEW y, y = RemuxQueue(x, t)
  PROVE  /\ Passed(x, y)
         /\ \A u \in Types : u # t => y.tracks[u] = x.tracks[u]
         /\ y.tracks[t].meta = NoMeta \/ Len(y.tracks[t].queue) <= 1
         /\ x.tracks[t].meta = NoMeta \/ Len(x.tracks[t].queue) <= 1 => y = x
<1>0. PICK queue : queue = x.tracks[t].queue
  OBVIOUS
<1>6. PICK force \in BOOLEAN : force = FALSE
  BY Zenon
<1>7. ~force
  BY <1>6, Zenon
<1>1. y = RemuxTrack(x, t, queue, force)
  BY <1>0, <1>6, Zenon DEF RemuxQueue
<1>5. queue \in Seq(Frames) /\ Len(<<>>) = 0 /\ Len(queue) \in Nat /\ (Len(queue) = 0 => queue = <<>>)
  BY <1>0, EmptySeq DEF Muxes, Tracks
<1>2. Passed(x, y)
  BY <1>1, <1>5, RemuxTrackPasses
<1>8. NothingToRemux(x.tracks[t], queue, force) <=> x.tracks[t].meta = NoMeta \/ queue = <<>> \/ Len(queue) = 1
  BY <1>7, NothingIs, Zenon
<1>3. CASE NothingToRemux(x.tracks[t], queue, force)
  <2>1. y = x
    BY <1>1, <1>3 DEF RemuxTrack
  <2>3. x.tracks[t].meta = NoMeta \/ queue = <<>> \/ Len(queue) = 1
    BY <1>3, <1>8, Zenon
  <2>2. x.tracks[t].meta = NoMeta \/ Len(queue) <= 1
    <3>1. queue = <<>> => Len(queue) = 0
      BY <1>5, Zenon
    <3> QED BY <1>5, <2>3, <3>1, AtMostOne, Zenon
  <2> QED BY <1>0, <1>2, <2>1, <2>2
<1>4. CASE ~NothingToRemux(x.tracks[t], queue, force)
  <2>1. y.tracks[t].queue = <<>> /\ \A u \in Types : u # t => y.tracks[u] = x.tracks[u]
    <3>1. y.tracks[t].queue = (IF force THEN x.tracks[t].queue ELSE <<>>)
          /\ \A u \in Types : u # t => y.tracks[u] = x.tracks[u]
      BY <1>1, <1>4, <1>5, RemuxTrackIs
    <3> QED BY <1>7, <3>1, Zenon
  <2>2. ~(x.tracks[t].meta = NoMeta \/ Len(x.tracks[t].queue) <= 1)
    <3>1. ~(x.tracks[t].meta = NoMeta \/ queue = <<>> \/ Len(queue) = 1)
      BY <1>4, <1>8, Zenon
    <3>2. ~(Len(queue) = 0 \/ Len(queue) = 1)
      BY <1>5, <3>1, Zenon
    <3> QED BY <1>0, <1>5, <3>1, <3>2, AtMostOne, Zenon
  <2> QED BY <1>2, <1>5, <2>1, <2>2
<1> QED BY <1>3, <1>4

\* Both tracks are remuxed.
LEMMA RemuxIs ==
  ASSUME NEW x \in Muxes, HasFrames(x), NEW y, y = Remux(x)
  PROVE  /\ Passed(x, y) /\ Served(y)
         /\ Served(x) => y.tracks = x.tracks /\ y.out = x.out
<1>1. PICK base \in Int : CalculateDtsBase(x) = [x EXCEPT !.base = base]
  BY BaseIs
<1> DEFINE a == [x EXCEPT !.base = base]
           b == RemuxQueue(a, "video")
<1>2. a \in Muxes /\ a.tracks = x.tracks /\ a.out = x.out /\ a.demux = x.demux /\ a.parsed = x.parsed
  BY DEF Muxes
<1>3. y = RemuxQueue(b, "audio") /\ b = RemuxQueue(a, "video")
  BY <1>1 DEF Remux
<1> HIDE DEF a, b
<1>4. /\ Passed(a, b) /\ b.tracks["audio"] = a.tracks["audio"]
      /\ b.tracks["video"].meta = NoMeta \/ Len(b.tracks["video"].queue) <= 1
      /\ a.tracks["video"].meta = NoMeta \/ Len(a.tracks["video"].queue) <= 1 => b = a
  BY <1>2, <1>3, RemuxQueueIs, TypesAre
<1>5. b \in Muxes
  BY <1>4 DEF Passed
<1>6. /\ Passed(b, y) /\ y.tracks["video"] = b.tracks["video"]
      /\ y.tracks["audio"].meta = NoMeta \/ Len(y.tracks["audio"].queue) <= 1
      /\ b.tracks["audio"].meta = NoMeta \/ Len(b.tracks["audio"].queue) <= 1 => y = b
  BY <1>3, <1>5, RemuxQueueIs, TypesAre
<1>7. Passed(a, y)
  BY <1>2, <1>4, <1>6, PassedTwice
<1>8. Passed(x, y)
  BY <1>2, <1>7 DEF Passed
<1>9. Served(y)
  BY <1>4, <1>6, TypesAre DEF Served
<1>10. Served(x) => y.tracks = x.tracks /\ y.out = x.out
  BY <1>2, <1>4, <1>6, TypesAre DEF Served
<1> QED BY <1>8, <1>9, <1>10

\* A track without what is held back.
Unstashed(x, t) == [x EXCEPT !.tracks[t].stash = <<>>]

\* At the end a track's sample that is held back goes.
LEMMA FlushedTrackAny ==
  ASSUME NEW x \in Muxes, NEW t \in Types, Held(x.tracks[t]),
         NEW force \in BOOLEAN, NEW y,
         y = RemuxTrack(Unstashed(x, t), t, x.tracks[t].stash, force)
  PROVE  /\ Passed(x, y) /\ y.tracks[t].stash = <<>>
         /\ \A u \in Types : u # t => y.tracks[u] = x.tracks[u]
         /\ y.tracks[t].queue = x.tracks[t].queue \/ y.tracks[t].queue = (IF force THEN x.tracks[t].queue ELSE <<>>)
<1> DEFINE a == Unstashed(x, t)
<1>8. PICK stash : stash = x.tracks[t].stash
  OBVIOUS
<1>0. x.tracks \in [Types -> Tracks] /\ <<>> \in Seq(Frames) /\ x.tracks[t] \in Tracks /\ Len(<<>>) = 0
  BY DEF Muxes
<1>1. /\ a \in Muxes /\ a.out = x.out /\ a.demux = x.demux /\ a.parsed = x.parsed
      /\ \A u \in Types : u # t => a.tracks[u] = x.tracks[u]
      /\ a.tracks[t].stash = <<>> /\ a.tracks[t].queue = x.tracks[t].queue
      /\ a.tracks[t].meta = x.tracks[t].meta /\ a.tracks[t] \in Tracks
  BY <1>0 DEF Muxes, Tracks, Unstashed
<1>2. stash \in Seq(Frames) /\ Len(stash) \in Nat /\ Len(stash) <= 1
  BY <1>0, <1>8 DEF Tracks, Held
<1>3. y = RemuxTrack(a, t, stash, force)
  BY <1>8, Zenon
<1> HIDE DEF a
<1>4. Passed(a, y)
  BY <1>1, <1>2, <1>3, RemuxTrackPasses
<1>5. Passed(x, y)
  <2>1. \A u \in Types : a.tracks[u].meta = x.tracks[u].meta /\ a.tracks[u].queue = x.tracks[u].queue
                         /\ (Held(x.tracks[u]) => Held(a.tracks[u]))
    BY <1>0, <1>1 DEF Held
  <2>2. PICK new \in Seq(Media) :
          y.out = a.out \o new /\ \A i \in DOMAIN new : a.tracks[new[i].type].meta # NoMeta
    BY <1>4 DEF Passed
  <2>3. \A i \in DOMAIN new : new[i].type \in Types
    <3>1. \A i \in DOMAIN new : new[i] \in Media
      BY ElementOfSeq
    <3> QED BY <3>1 DEF Media
  <2>4. y.out = x.out \o new /\ \A i \in DOMAIN new : x.tracks[new[i].type].meta # NoMeta
    BY <1>1, <2>1, <2>2, <2>3
  <2>5. /\ y \in Muxes /\ y.demux = x.demux /\ y.parsed = x.parsed
        /\ \A u \in Types : /\ y.tracks[u].meta = x.tracks[u].meta
                            /\ Held(x.tracks[u]) => Held(y.tracks[u])
                            /\ y.tracks[u].queue \in {x.tracks[u].queue, <<>>}
    <3>1. /\ y \in Muxes /\ y.demux = a.demux /\ y.parsed = a.parsed
          /\ \A u \in Types : /\ y.tracks[u].meta = a.tracks[u].meta
                              /\ Held(a.tracks[u]) => Held(y.tracks[u])
                              /\ y.tracks[u].queue \in {a.tracks[u].queue, <<>>}
      BY <1>4 DEF Passed
    <3> QED BY <1>1, <2>1, <3>1
  <2> QED BY <2>4, <2>5 DEF Passed
<1>6. CASE NothingToRemux(a.tracks[t], stash, force)
  <2>1. y = a
    BY <1>3, <1>6 DEF RemuxTrack
  <2> QED BY <1>1, <1>5, <2>1
<1>7. CASE ~NothingToRemux(a.tracks[t], stash, force)
  <2>1. stash # <<>> /\ Len(stash) = 1
    <3>1. stash # <<>>
      BY <1>7, NothingIs, Zenon
    <3>2. Len(stash) # 0
      BY <1>2, <3>1, EmptySeq
    <3> QED BY <1>2, <3>1, <3>2, AtMostOne, Zenon
  <2>2. /\ y.tracks[t].stash = Batch(a.tracks[t], stash).held
        /\ y.tracks[t].queue = (IF force THEN a.tracks[t].queue ELSE <<>>)
        /\ \A u \in Types : u # t => y.tracks[u] = a.tracks[u]
    <3>0. a \in Muxes /\ stash \in Seq(Frames)
      BY <1>1, <1>2
    <3>1. y.tracks[t].stash = Batch(a.tracks[t], stash).held
      BY <3>0, <1>3, <1>7, RemuxTrackIs
    <3>2. y.tracks[t].queue = IF force THEN a.tracks[t].queue ELSE <<>>
      BY <3>0, <1>3, <1>7, RemuxTrackIs
    <3>3. \A u \in Types : u # t => y.tracks[u] = a.tracks[u]
      BY <3>0, <1>3, <1>7, RemuxTrackIs
    <3> QED BY <3>1, <3>2, <3>3, Zenon
  <2>3. Batch(a.tracks[t], stash).held = <<>>
    BY <1>1, <1>2, <2>1, BatchIs
  <2> QED BY <1>1, <1>5, <2>2, <2>3
<1> QED BY <1>6, <1>7

\* The queue stays.
LEMMA FlushedTrack ==
  ASSUME NEW x \in Muxes, NEW t \in Types, Held(x.tracks[t]),
         NEW force \in BOOLEAN, force, NEW y,
         y = RemuxTrack(Unstashed(x, t), t, x.tracks[t].stash, force)
  PROVE  y.tracks[t].queue = x.tracks[t].queue
<1>1. y.tracks[t].queue = x.tracks[t].queue \/ y.tracks[t].queue = (IF force THEN x.tracks[t].queue ELSE <<>>)
  BY FlushedTrackAny, Zenon
<1> QED BY <1>1, Zenon

\* At the end all that is held back goes, and nothing of what is queued.
LEMMA FlushIs ==
  ASSUME NEW x \in Muxes, \A t \in Types : Held(x.tracks[t]), NEW y, y = FlushStashedSamples(x)
  PROVE  /\ Passed(x, y)
         /\ \A t \in Types : y.tracks[t].stash = <<>> /\ y.tracks[t].queue = x.tracks[t].queue
<1>0. PICK force \in BOOLEAN : force = TRUE
  BY Zenon
<1>7. force
  BY <1>0, Zenon
<1> DEFINE a == RemuxTrack(Unstashed(x, "video"), "video", x.tracks["video"].stash, force)
<1>1. /\ Passed(x, a) /\ a.tracks["video"].stash = <<>>
      /\ a.tracks["audio"] = x.tracks["audio"]
      /\ a.tracks["video"].queue = x.tracks["video"].queue
  <2> HIDE DEF a
  <2>1. a = RemuxTrack(Unstashed(x, "video"), "video", x.tracks["video"].stash, force)
    BY DEF a
  <2>2. Passed(x, a) /\ a.tracks["video"].stash = <<>> /\ a.tracks["audio"] = x.tracks["audio"]
    BY <2>1, FlushedTrackAny, TypesAre
  <2>3. a.tracks["video"].queue = x.tracks["video"].queue
    BY <1>7, <2>1, FlushedTrack, TypesAre
  <2> QED BY <2>2, <2>3
<1>2. y = RemuxTrack(Unstashed(a, "audio"), "audio", x.tracks["audio"].stash, force)
  BY <1>0, Zenon DEF FlushStashedSamples, Unstashed
<1> HIDE DEF a
<1>3. a \in Muxes /\ Held(a.tracks["audio"])
  BY <1>1, TypesAre DEF Passed
<1>4. y = RemuxTrack(Unstashed(a, "audio"), "audio", a.tracks["audio"].stash, force)
  BY <1>1, <1>2
<1>5. /\ Passed(a, y) /\ y.tracks["audio"].stash = <<>>
      /\ y.tracks["video"] = a.tracks["video"]
      /\ y.tracks["audio"].queue = a.tracks["audio"].queue
  <2>2. Passed(a, y) /\ y.tracks["audio"].stash = <<>> /\ y.tracks["video"] = a.tracks["video"]
    BY <1>3, <1>4, FlushedTrackAny, TypesAre
  <2>3. y.tracks["audio"].queue = a.tracks["audio"].queue
    BY <1>3, <1>4, <1>7, FlushedTrack, TypesAre
  <2> QED BY <2>2, <2>3
<1>6. Passed(x, y)
  BY <1>1, <1>5, PassedTwice
<1> QED BY <1>1, <1>5, <1>6, TypesAre
-----------------------------------------------------------------------------
(* The demuxer.                                                              *)

\* Frames that were queued may have been remuxed, and nothing else is done.
Remade(x, z) ==
  \/ z.tracks = x.tracks /\ z.out = x.out /\ z.base = x.base
  \/ \E w \in Muxes : /\ w.tracks = x.tracks /\ w.out = x.out /\ w.base = x.base /\ HasFrames(w)
                      /\ z.tracks = Remux(w).tracks /\ z.out = Remux(w).out /\ z.base = Remux(w).base

WithMeta(tracks, t, cfg) == [tracks EXCEPT ![t].meta = cfg]
WithFrame(tracks, t, frame) == [tracks EXCEPT ![t].queue = Append(@, frame)]

\* What comes of one tag: nothing of a script, an initialization segment of a
\* configuration, a frame in a queue, an error of a foreign tag.
Scripted(x, y) == y.tracks = x.tracks /\ y.out = x.out /\ y.base = x.base /\ ~y.demux.dispatch
Configured(x, y, t, cfg) ==
  /\ ~y.demux.dispatch
  /\ \E z \in Muxes : /\ Remade(x, z) /\ y.out = Append(z.out, InitSegment(t, cfg))
                      /\ y.tracks = WithMeta(z.tracks, t, cfg) /\ y.base = z.base
Queued(x, y, t, i, ts) ==
  \E frame \in Frames : /\ frame.tag = i /\ frame.dts = ts /\ y.out = x.out /\ y.base = x.base
                        /\ y.tracks = WithFrame(x.tracks, t, frame)
Refused(x, y) == y.tracks = x.tracks /\ y.base = x.base /\ y.out = Append(x.out, [ev |-> "demux_error"])

\* Only the demuxer's own state changes.
Demuxed(x, d, n) == [x EXCEPT !.demux = d, !.parsed = n]

\* Another demuxer record and another count of tags: the tracks stay.
LEMMA DemuxerSet ==
  ASSUME NEW x \in Muxes, NEW d \in Demuxers, NEW n \in Nat, NEW y, y = Demuxed(x, d, n)
  PROVE  /\ y \in Muxes /\ y.demux = d /\ y.tracks = x.tracks /\ y.out = x.out /\ y.parsed = n
         /\ y.base = x.base
BY DEF Muxes, Demuxed

\* As above, and no tag has been read.
LEMMA DemuxerOnly ==
  ASSUME NEW x \in Muxes, NEW d \in Demuxers, NEW y, y = [x EXCEPT !.demux = d]
  PROVE  /\ y \in Muxes /\ y.demux = d /\ y.tracks = x.tracks /\ y.out = x.out /\ y.parsed = x.parsed
         /\ y.base = x.base
BY DEF Muxes

\* Before new metadata.
LEMMA ReadyIs ==
  ASSUME NEW x \in Muxes, NEW t \in Types, NEW z, z = ReadyFor(x, t)
  PROVE  z \in Muxes /\ Remade(x, z) /\ z.parsed = x.parsed /\ z.demux.first = x.demux.first
<1>0. x.demux \in Demuxers
  BY DEF Muxes
<1>1. CASE ~InitialMetadataDispatched(x.demux)
  <2> DEFINE d == [x.demux EXCEPT !.done[t] = TRUE]
  <2>1. z = [x EXCEPT !.demux = d]
    BY <1>1 DEF ReadyFor
  <2>2. d \in Demuxers /\ d.first = x.demux.first
    BY <1>0 DEF Demuxers, Flags
  <2> HIDE DEF d
  <2>3. z \in Muxes /\ z.demux = d /\ z.tracks = x.tracks /\ z.out = x.out /\ z.parsed = x.parsed /\ z.base = x.base
    BY <2>1, <2>2, DemuxerOnly
  <2> QED BY <2>2, <2>3 DEF Remade
<1>2. CASE InitialMetadataDispatched(x.demux) /\ HasFrames(x)
  <2>1. z = Remux(x)
    BY <1>2 DEF ReadyFor
  <2>2. Passed(x, z)
    BY <1>2, <2>1, RemuxIs
  <2> QED BY <1>2, <2>1, <2>2 DEF Passed, Remade
<1>3. CASE InitialMetadataDispatched(x.demux) /\ ~HasFrames(x)
  BY <1>3 DEF ReadyFor, Remade
<1> QED BY <1>1, <1>2, <1>3

\* New metadata: an initialization segment is emitted.
LEMMA NewMetadataIs ==
  ASSUME NEW x \in Muxes, NEW t \in Types, NEW cfg \in Nat, NEW y, y = NewMetadata(x, t, cfg)
  PROVE  /\ y \in Muxes /\ y.parsed = x.parsed /\ y.demux.first = x.demux.first
         /\ Configured(x, y, t, cfg)
<1> DEFINE z == ReadyFor(x, t)
           d == [z.demux EXCEPT !.dispatch = FALSE]
           a == [z EXCEPT !.demux = d]
           seg == InitSegment(t, cfg)
<1>1. z \in Muxes /\ Remade(x, z) /\ z.parsed = x.parsed /\ z.demux.first = x.demux.first
  <2> HIDE DEF z
  <2>1. z = ReadyFor(x, t)
    BY DEF z
  <2> QED BY <2>1, ReadyIs
<1>2. seg \in Events
  BY DEF InitSegment, Events, Segments, Inits
<1>3. y = [[a EXCEPT !.tracks[t].meta = cfg] EXCEPT !.out = Append(@, seg)]
  BY DEF NewMetadata, TrackMetadata, Emit
<1> HIDE DEF z, seg
<1>4. d \in Demuxers /\ d.first = x.demux.first /\ ~d.dispatch
  BY <1>1 DEF Muxes, Demuxers
<1> HIDE DEF d
<1>5. a \in Muxes /\ a.demux = d /\ a.tracks = z.tracks /\ a.out = z.out /\ a.parsed = x.parsed /\ a.base = z.base
  BY <1>1, <1>4, DemuxerOnly
<1> HIDE DEF a
<1>6. [z.tracks EXCEPT ![t].meta = cfg] \in [Types -> Tracks]
  BY <1>1 DEF Muxes, Tracks
<1>7. Append(z.out, seg) \in Seq(Events)
  BY <1>1, <1>2, AppendProperties DEF Muxes
<1>8. y \in Muxes /\ y.demux = d /\ y.parsed = x.parsed /\ y.out = Append(z.out, seg)
      /\ y.tracks = [z.tracks EXCEPT ![t].meta = cfg] /\ y.base = z.base
  BY <1>3, <1>5, <1>6, <1>7 DEF Muxes
<1> QED BY <1>1, <1>4, <1>8 DEF seg, Configured, WithMeta

\* A frame joins the queue of its track.
LEMMA QueueFrameIs ==
  ASSUME NEW x \in Muxes, NEW t \in Types, NEW tag \in Tags, NEW i \in Nat \ {0},
         NEW y, y = QueueFrame(x, t, tag, i)
  PROVE  y \in Muxes /\ y.parsed = x.parsed /\ y.demux = x.demux /\ Queued(x, y, t, i, tag.ts)
<1> DEFINE frame == [tag |-> i, dts |-> tag.ts, cfg |-> tag.cfg]
<1>1. frame \in Frames /\ frame.tag = i /\ frame.dts = tag.ts
  BY DEF Frames, Tags
<1>2. y = [x EXCEPT !.tracks[t].queue = Append(@, frame)]
  BY DEF QueueFrame
<1> HIDE DEF frame
<1>3. Append(x.tracks[t].queue, frame) \in Seq(Frames)
  BY <1>1, AppendProperties DEF Muxes, Tracks
<1>4. [x.tracks EXCEPT ![t].queue = Append(@, frame)] \in [Types -> Tracks]
  BY <1>3 DEF Muxes, Tracks
<1> QED BY <1>1, <1>2, <1>4 DEF Muxes, Queued, WithFrame

\* The type that a frame or a configuration is of.
TypeOf(tag) == IF tag.kind \in {"aac", "audio"} THEN "audio" ELSE "video"

\* The first tag of a type changes what the demuxer knows.
LEMMA MetadataSeenIs ==
  ASSUME NEW x \in Muxes, NEW t \in Types, NEW y, y = MetadataSeen(x, t)
  PROVE  /\ y \in Muxes /\ y.tracks = x.tracks /\ y.out = x.out /\ y.parsed = x.parsed /\ y.base = x.base
         /\ y.demux.first = x.demux.first /\ (x.demux.dispatch => y.demux.dispatch)
<1> DEFINE d == [x.demux EXCEPT !.seen[t] = TRUE, !.has[t] = TRUE]
<1>0. x.demux \in Demuxers
  BY DEF Muxes
<1>1. CASE x.demux.seen[t]
  BY <1>1 DEF MetadataSeen
<1>2. CASE ~x.demux.seen[t]
  <2>1. d \in Demuxers /\ d.first = x.demux.first /\ (x.demux.dispatch => d.dispatch)
    BY <1>0 DEF Demuxers, Flags
  <2>2. y = [x EXCEPT !.demux = d]
    BY <1>0, <1>2 DEF MetadataSeen, Muxes, Demuxers
  <2> HIDE DEF d
  <2> QED BY <2>1, <2>2, DemuxerOnly
<1> QED BY <1>1, <1>2

\* A script.
LEMMA ParseScriptDataIs ==
  ASSUME NEW x \in Muxes, NEW tag \in Tags, tag.kind = "meta", NEW y, y = ParseScriptData(x, tag)
  PROVE  y \in Muxes /\ y.parsed = x.parsed /\ y.demux.first = x.demux.first /\ Scripted(x, y)
<1> DEFINE has == [t \in Types |-> IF t \in DOMAIN tag.says THEN tag.says[t] ELSE x.demux.has[t]]
           d == [x.demux EXCEPT !.has = has, !.dispatch = FALSE]
<1>0. x.demux \in Demuxers
  BY DEF Muxes
<1>1. has \in Flags
  <2>1. tag.says \in UNION {[T -> BOOLEAN] : T \in SUBSET Types}
    BY DEF Tags
  <2>2. PICK T \in SUBSET Types : tag.says \in [T -> BOOLEAN]
    BY <2>1
  <2>3. x.demux.has \in [Types -> BOOLEAN]
    BY <1>0 DEF Demuxers, Flags
  <2> QED BY <2>2, <2>3 DEF Flags
<1> HIDE DEF has
<1>2. d \in Demuxers /\ d.first = x.demux.first /\ ~d.dispatch
  BY <1>0, <1>1 DEF Demuxers
<1>3. y = [x EXCEPT !.demux = d]
  BY <1>0 DEF ParseScriptData, Muxes, Demuxers, has
<1> HIDE DEF d
<1> QED BY <1>2, <1>3, DemuxerOnly DEF Scripted

\* One tag.
LEMMA ParseTagIs ==
  ASSUME NEW x \in Muxes, NEW s \in Seq(Tags), NEW i \in DOMAIN s, NEW y, y = ParseTag(x, s, i)
  PROVE  /\ y \in Muxes /\ y.parsed = x.parsed + 1 /\ y.demux.first = x.demux.first
         /\ s[i].kind = "meta" => Scripted(x, y)
         /\ Configures(s[i]) => Configured(x, y, TypeOf(s[i]), s[i].cfg)
         /\ s[i].kind \in Types => Queued(x, y, s[i].kind, i, s[i].ts)
         /\ s[i].kind = "foreign" => Refused(x, y)
         /\ ~y.demux.dispatch => s[i].kind \in {"meta", "aac", "avc"}
         /\ i \in Nat \ {0} /\ s[i] \in Tags
<1> DEFINE tag == s[i]
           d == [x.demux EXCEPT !.dispatch = TRUE]
           n == x.parsed + 1
           a == Demuxed(x, d, n)
<1>1. i \in Nat \ {0} /\ tag \in Tags
  BY ElementOfSeq
<1>2. d \in Demuxers /\ d.first = x.demux.first /\ d.dispatch /\ n \in Nat
  <2>1. x.demux \in Demuxers /\ x.parsed \in Nat
    BY DEF Muxes
  <2>2. n \in Nat
    BY <2>1
  <2> QED BY <2>1, <2>2 DEF Demuxers
<1>3. y = ParseData(a, tag, i)
  BY DEF ParseTag, Demuxed
<1> HIDE DEF d, n, a, tag
<1>4. a \in Muxes /\ a.demux = d /\ a.tracks = x.tracks /\ a.out = x.out /\ a.parsed = n /\ a.base = x.base
  BY <1>2, DemuxerSet DEF a
<1>5. tag.kind \in {"meta", "aac", "avc", "audio", "video", "foreign"} /\ tag.cfg \in Nat
  BY <1>1 DEF Tags
<1>6. CASE tag.kind = "meta"
  <2>1. y = ParseScriptData(a, tag)
    BY <1>3, <1>6 DEF ParseData
  <2>2. y \in Muxes /\ y.parsed = a.parsed /\ y.demux.first = a.demux.first /\ Scripted(a, y)
    BY <1>1, <1>4, <1>6, <2>1, ParseScriptDataIs
  <2>3. Scripted(x, y)
    BY <1>4, <2>2 DEF Scripted
  <2> QED BY <1>1, <1>2, <1>4, <1>6, <2>2, <2>3, TypesAre DEF tag, Configures, n
<1>7. CASE Configures(tag)
  <2> DEFINE t == TypeOf(tag)
             b == MetadataSeen(a, t)
  <2>1. t \in Types
    BY TypesAre DEF TypeOf
  <2>2. y = NewMetadata(b, t, tag.cfg)
    BY <1>3, <1>7 DEF ParseData, ParseAudioData, ParseVideoData, Configures, TypeOf, ParseAVCDecoderConfigurationRecord
  <2> HIDE DEF t
  <2>3. b \in Muxes /\ b.tracks = a.tracks /\ b.out = a.out /\ b.parsed = a.parsed /\ b.base = a.base
        /\ b.demux.first = a.demux.first
    BY <1>4, <2>1, MetadataSeenIs
  <2> HIDE DEF b
  <2>4. /\ y \in Muxes /\ y.parsed = b.parsed /\ y.demux.first = b.demux.first
        /\ Configured(b, y, t, tag.cfg)
    <3>1. PICK cfg \in Nat : cfg = tag.cfg
      BY <1>5
    <3>2. y = NewMetadata(b, t, cfg)
      BY <2>2, <3>1
    <3>3. y \in Muxes /\ y.parsed = b.parsed /\ y.demux.first = b.demux.first /\ Configured(b, y, t, cfg)
      BY <2>1, <2>3, <3>2, NewMetadataIs
    <3> QED BY <3>1, <3>3
  <2>5. Configured(x, y, t, tag.cfg) /\ ~y.demux.dispatch
    <3>1. \A z : Remade(b, z) <=> Remade(x, z)
      BY <1>4, <2>3 DEF Remade
    <3> QED BY <2>4, <3>1 DEF Configured
  <2>6. tag.kind \in {"aac", "avc"}
    BY <1>7 DEF Configures
  <2> QED BY <1>1, <1>2, <1>4, <2>3, <2>4, <2>5, <2>6, TypesAre DEF tag, n, t
<1>8. CASE tag.kind \in Types
  <2> DEFINE t == tag.kind
             b == IF t = "audio" THEN MetadataSeen(a, t) ELSE a
  <2>1. t \in Types /\ t \in {"audio", "video"}
    BY <1>8, TypesAre
  <2>2. y = QueueFrame(b, t, tag, i)
    BY <1>3, <2>1 DEF ParseData, ParseAudioData, ParseVideoData
  <2> HIDE DEF t
  <2>3. b \in Muxes /\ b.tracks = a.tracks /\ b.out = a.out /\ b.parsed = a.parsed /\ b.base = a.base
        /\ b.demux.first = a.demux.first /\ (a.demux.dispatch => b.demux.dispatch)
    BY <1>4, <2>1, MetadataSeenIs
  <2> HIDE DEF b
  <2>4. y \in Muxes /\ y.parsed = b.parsed /\ y.demux = b.demux /\ Queued(b, y, t, i, tag.ts)
    BY <1>1, <2>1, <2>2, <2>3, QueueFrameIs
  <2>5. Queued(x, y, t, i, tag.ts)
    BY <1>4, <2>3, <2>4 DEF Queued
  <2>6. y.demux.dispatch
    BY <1>2, <1>4, <2>3, <2>4
  <2> QED BY <1>1, <1>2, <1>4, <1>8, <2>3, <2>4, <2>5, <2>6, TypesAre DEF tag, Configures, n, t
<1>9. CASE tag.kind = "foreign"
  <2> DEFINE note == [ev |-> "demux_error"]
  <2>1. y = [a EXCEPT !.out = Append(@, note)]
    BY <1>3, <1>9 DEF ParseData, ParseVideoData, Emit
  <2>2. note \in Events
    BY DEF Events, Notes
  <2>3. Append(a.out, note) \in Seq(Events)
    <3> HIDE DEF note
    <3> QED BY <1>4, <2>2, AppendProperties DEF Muxes
  <2>4. y \in Muxes /\ y.demux = a.demux /\ y.tracks = a.tracks /\ y.out = Append(a.out, note) /\ y.parsed = a.parsed /\ y.base = a.base
    <3> HIDE DEF note
    <3> QED BY <1>4, <2>1, <2>3 DEF Muxes
  <2>5. Refused(x, y)
    BY <1>4, <2>4 DEF Refused
  <2> QED BY <1>1, <1>2, <1>4, <1>9, <2>4, <2>5, TypesAre DEF tag, Configures, n
<1> QED BY <1>5, <1>6, <1>7, <1>8, <1>9, TypesAre DEF Configures

\* Whatever holds of the tags read so far when it did before the last one holds
\* of them all.
LEMMA ParseTagsInv ==
  ASSUME NEW s \in Seq(Tags), NEW tags \in Seq(DOMAIN s), NEW x \in Muxes, NEW S, x \in S[0],
         \A n \in 1 .. Len(tags) : \A y \in Muxes : y \in S[n - 1] => ParseTag(y, s, tags[n]) \in S[n]
  PROVE  ParseTags(x, s, tags) \in Muxes /\ ParseTags(x, s, tags) \in S[Len(tags)]
<1> DEFINE N == Len(tags)
           g == [z \in Muxes \X (1 .. N) |-> ParseTag(z[1], s, tags[z[2]])]
           IsIt(h) == h = [n \in 0 .. N |-> IF n = 0 THEN x ELSE ParseTag(h[n - 1], s, tags[n])]
<1>1. N \in Nat /\ \A n \in 1 .. N : tags[n] \in DOMAIN s
  BY ElementOfSeq
<1>2. \A y \in Muxes, n \in 1 .. N : ParseTag(y, s, tags[n]) \in Muxes
  <2> TAKE y \in Muxes, n \in 1 .. N
  <2>1. tags[n] \in DOMAIN s
    BY <1>1
  <2> QED BY <2>1, ParseTagIs
<1>3. g \in [Muxes \X (1 .. N) -> Muxes] /\ \A y \in Muxes, n \in 1 .. N : g[y, n] = ParseTag(y, s, tags[n])
  BY <1>2
<1> HIDE DEF g
<1>4. \E f \in [0 .. N -> Muxes] : Recurs(f, x, g, N)
  <2> HIDE DEF N
  <2> QED BY <1>1, <1>3, RecursExists
<1>5. PICK f \in [0 .. N -> Muxes] : Recurs(f, x, g, N)
  BY <1>4
<1>6. IsIt(f)
  <2>1. Steps(f, x, g, N)
    BY <1>1, <1>5, RecursAt, Zenon
  <2>2. \A n \in 0 .. N : f[n] = IF n = 0 THEN x ELSE ParseTag(f[n - 1], s, tags[n])
    <3> TAKE n \in 0 .. N
    <3>1. CASE n = 0
      BY <2>1, <3>1 DEF Steps
    <3>2. CASE n # 0
      <4>1. n \in 1 .. N /\ n - 1 \in 0 .. N
        BY <1>1, <3>2
      <4>2. f[n] = g[f[n - 1], n] /\ f[n - 1] \in Muxes
        BY <2>1, <4>1 DEF Steps
      <4> QED BY <1>3, <3>2, <4>1, <4>2
    <3> QED BY <3>1, <3>2
  <2>3. f = [n \in 0 .. N |-> f[n]]
    OBVIOUS
  <2> QED BY <2>2, <2>3
<1> DEFINE p == CHOOSE h : IsIt(h)
<1>7. IsIt(p)
  <2> HIDE DEF IsIt
  <2> QED BY <1>6
<1>8. ParseTags(x, s, tags) = p[N]
  BY DEF ParseTags
<1> HIDE DEF p
<1>9. p[0] = x /\ \A n \in 1 .. N : p[n] = ParseTag(p[n - 1], s, tags[n])
  <2> DEFINE Val(n) == IF n = 0 THEN x ELSE ParseTag(p[n - 1], s, tags[n])
  <2>1. p = [n \in 0 .. N |-> Val(n)]
    BY <1>7
  <2>2. \A n \in 0 .. N : p[n] = Val(n)
    <3> HIDE DEF Val
    <3> QED BY <2>1
  <2>3. 0 \in 0 .. N /\ \A n \in 1 .. N : n \in 0 .. N /\ n # 0
    BY <1>1
  <2> QED BY <2>2, <2>3, Zenon
<1> DEFINE Here == {n \in Nat : n <= N => p[n] \in Muxes /\ p[n] \in S[n]}
<1>10. Nat \subseteq Here
  <2>1. 0 \in Here
    BY <1>1, <1>9
  <2>2. ASSUME NEW n \in Nat, n \in Here PROVE n + 1 \in Here
    <3> SUFFICES ASSUME n + 1 <= N PROVE p[n + 1] \in Muxes /\ p[n + 1] \in S[n + 1]
      OBVIOUS
    <3>1. PICK k \in 1 .. N : k = n + 1
      BY <1>1
    <3>2. k - 1 = n /\ n <= N
      BY <1>1, <3>1
    <3>3. p[n] \in Muxes /\ p[n] \in S[n]
      BY <2>2, <3>2
    <3>4. p[k] = ParseTag(p[n], s, tags[k]) /\ p[n] \in S[k - 1]
      BY <1>9, <3>2, <3>3, Zenon
    <3>5. p[k] \in Muxes /\ p[k] \in S[k]
      BY <1>2, <3>3, <3>4
    <3> QED BY <3>1, <3>5, Zenon
  <2> HIDE DEF Here
  <2> QED BY <2>1, <2>2, SetInduction
<1>11. N \in Here
  BY <1>1, <1>10
<1> QED BY <1>1, <1>8, <1>11

\* A set of numbers up to n has a greatest element.
LEMMA MaxIs ==
  ASSUME NEW n \in Nat, NEW T \in SUBSET (0 .. n), T # {}
  PROVE  Max(T) \in T
<1> DEFINE D == {k \in 0 .. n : n - k \in T}
<1>1. PICK m : m \in T
  OBVIOUS
<1>2. m \in 0 .. n /\ n - m \in 0 .. n /\ n - (n - m) = m
  BY <1>1
<1>3. n - m \in D
  BY <1>1, <1>2
<1>4. D \subseteq Nat /\ D # {}
  BY <1>3
<1>5. PICK k \in D : \A l \in D : k <= l
  <2> HIDE DEF D
  <2> QED BY <1>4, Least
<1>6. \A y \in T : n - k >= y
  <2> TAKE y \in T
  <2>1. y \in 0 .. n /\ n - y \in 0 .. n /\ n - (n - y) = y
    OBVIOUS
  <2>2. n - y \in D
    BY <2>1
  <2>3. k <= n - y
    BY <1>5, <2>2
  <2> QED BY <1>5, <2>1, <2>3
<1>7. n - k \in T
  BY <1>5
<1> HIDE DEF D
<1> QED BY <1>6, <1>7 DEF Max

\* The two halves of each tag follow each other.
Halves(tags, data, from) ==
  /\ Len(tags) # 0 => from + 2 * Len(tags) <= Len(data)
  /\ \A i \in 1 .. Len(tags) : /\ tags[i] \in Nat \ {0}
                               /\ from + 2 * i - 1 \in 1 .. Len(data) /\ from + 2 * i \in 1 .. Len(data)
                               /\ data[from + 2 * i - 1] = <<tags[i], 1>>
                               /\ data[from + 2 * i] = <<tags[i], 2>>

\* The tags that lie whole in the data.
LEMMA WholeTagsAre ==
  ASSUME NEW data \in Seq(Pieces), NEW from \in {0, 2}, NEW tags, tags = WholeTags(data, from)
  PROVE  tags \in Seq(Nat) /\ Len(tags) \in 0 .. Len(data) /\ Halves(tags, data, from)
<1> DEFINE whole(i) == /\ 2 * i + from <= Len(data)
                       /\ data[2 * i + from - 1][1] > 0
                       /\ data[2 * i + from - 1] = <<data[2 * i + from][1], 1>>
                       /\ data[2 * i + from][2] = 2
           T == {m \in 0 .. Len(data) : \A i \in 1 .. m : whole(i)}
           n == Max(T)
<1>0. Len(data) \in Nat
  OBVIOUS
<1>1. n \in T
  <2>1. 0 \in T
    BY <1>0
  <2> HIDE DEF T
  <2>2. T # {}
    BY <2>1
  <2>3. T \in SUBSET (0 .. Len(data))
    BY DEF T
  <2> QED BY <1>0, <2>2, <2>3, MaxIs
<1>2. tags = [i \in 1 .. n |-> data[2 * i + from][1]]
  BY DEF WholeTags
<1> HIDE DEF n
<1>3. n \in 0 .. Len(data) /\ \A i \in 1 .. n : whole(i)
  BY <1>1
<1>4. ASSUME NEW i \in 1 .. n
      PROVE  /\ tags[i] \in Nat \ {0}
             /\ from + 2 * i - 1 \in 1 .. Len(data) /\ from + 2 * i \in 1 .. Len(data)
             /\ data[from + 2 * i - 1] = <<tags[i], 1>>
             /\ data[from + 2 * i] = <<tags[i], 2>>
  <2>1. whole(i)
    BY <1>3
  <2>2. i \in Nat /\ i >= 1
    BY <1>3
  <2>3. PICK a, b : a = from + 2 * i - 1 /\ b = from + 2 * i
    OBVIOUS
  <2>4. a = 2 * i + from - 1 /\ b = 2 * i + from
    BY <2>2, <2>3
  <2>5. b <= Len(data) /\ data[a][1] > 0 /\ data[a] = <<data[b][1], 1>> /\ data[b][2] = 2
    BY <2>1, <2>4, Zenon
  <2>6. a \in 1 .. Len(data) /\ b \in 1 .. Len(data)
    BY <1>0, <2>2, <2>3, <2>5
  <2>7. data[a] \in Pieces /\ data[b] \in Pieces
    BY <2>6, ElementOfSeq
  <2>8. tags[i] = data[b][1]
    BY <1>2, <2>4
  <2>9. data[a][1] = tags[i] /\ data[b] = <<tags[i], 2>> /\ data[a] = <<tags[i], 1>>
    BY <2>5, <2>7, <2>8 DEF Pieces
  <2>10. tags[i] \in Nat
    BY <2>7, <2>8 DEF Pieces
  <2>11. tags[i] > 0
    BY <2>5, <2>9
  <2> QED BY <2>3, <2>6, <2>9, <2>10, <2>11
<1>5. Len(tags) = n /\ tags \in Seq(Nat)
  BY <1>2, <1>3, <1>4
<1>6. n # 0 => from + 2 * n <= Len(data)
  <2>1. n # 0 => n \in 1 .. n
    BY <1>3
  <2>2. n # 0 => from + 2 * n \in 1 .. Len(data)
    BY <1>4, <2>1
  <2> QED BY <1>0, <2>2
<1> QED BY <1>3, <1>4, <1>5, <1>6 DEF Halves

Dispatched(x, y, all, end) ==
  /\ y \in Muxes /\ y.parsed = x.parsed /\ y.demux.first = x.demux.first /\ Remade(x, y)
  /\ x.demux.dispatch \/ all > end => y.demux.dispatch /\ AtRest(y)
  /\ ~(x.demux.dispatch \/ all > end) => y.tracks = x.tracks /\ ~y.demux.dispatch
  /\ AtRest(x) => y.tracks = x.tracks /\ y.out = x.out

\* The end of the data: what is queued is remuxed, if it is to be.
LEMMA DispatchFramesIs ==
  ASSUME NEW x \in Muxes, NEW all \in Int, NEW end \in Int, NEW y, y = DispatchFrames(x, all > end)
  PROVE  Dispatched(x, y, all, end)
<1>9. SUFFICES
         /\ y \in Muxes /\ y.parsed = x.parsed /\ y.demux.first = x.demux.first /\ Remade(x, y)
         /\ x.demux.dispatch \/ all > end => y.demux.dispatch /\ AtRest(y)
         /\ ~(x.demux.dispatch \/ all > end) => y.tracks = x.tracks /\ ~y.demux.dispatch
         /\ AtRest(x) => y.tracks = x.tracks /\ y.out = x.out
  BY DEF Dispatched
<1> DEFINE d == [x.demux EXCEPT !.dispatch = @ \/ all > end]
           a == [x EXCEPT !.demux = d]
<1>0. x.demux \in Demuxers
  BY DEF Muxes
<1>1. d \in Demuxers /\ d.first = x.demux.first /\ d.has = x.demux.has /\ d.done = x.demux.done
  BY <1>0 DEF Demuxers
<1>2. d.dispatch <=> x.demux.dispatch \/ all > end
  BY <1>0 DEF Demuxers
<1>3. a = [x EXCEPT !.demux.dispatch = @ \/ all > end]
  BY <1>0 DEF Muxes, Demuxers
<1> HIDE DEF d
<1>4. a \in Muxes /\ a.demux = d /\ a.tracks = x.tracks /\ a.out = x.out /\ a.parsed = x.parsed /\ a.base = x.base
  BY <1>1, DemuxerOnly
<1> HIDE DEF a
<1>5. InitialMetadataDispatched(a.demux) <=> InitialMetadataDispatched(x.demux)
  BY <1>1, <1>4 DEF InitialMetadataDispatched
<1>6. HasFrames(a) <=> HasFrames(x)
  BY <1>4 DEF HasFrames
<1>7. CASE InitialMetadataDispatched(x.demux) /\ (all > end \/ x.demux.dispatch) /\ HasFrames(x)
  <2>1. y = Remux(a)
    BY <1>3, <1>7 DEF DispatchFrames
  <2>2. /\ Passed(a, y) /\ Served(y)
        /\ Served(a) => y.tracks = a.tracks /\ y.out = a.out
    BY <1>4, <1>6, <1>7, <2>1, RemuxIs
  <2>3. y \in Muxes /\ y.demux = d /\ y.parsed = x.parsed
    BY <1>4, <2>2 DEF Passed
  <2>4. AtRest(y)
    BY <2>2 DEF AtRest, Served
  <2>5. AtRest(x) => Served(a)
    BY <1>4, <1>7 DEF AtRest, Served
  <2>6. Remade(x, y)
    BY <1>4, <1>6, <1>7, <2>1 DEF Remade
  <2> QED BY <1>1, <1>2, <1>4, <1>7, <2>2, <2>3, <2>4, <2>5, <2>6
<1>8. CASE ~(InitialMetadataDispatched(x.demux) /\ (all > end \/ x.demux.dispatch) /\ HasFrames(x))
  <2>1. y = a
    BY <1>3, <1>8 DEF DispatchFrames
  <2>2. x.demux.dispatch \/ all > end => AtRest(y)
    <3> SUFFICES ASSUME x.demux.dispatch \/ all > end, InitialMetadataDispatched(y.demux), NEW t \in Types
                 PROVE  Len(y.tracks[t].queue) <= 1
      BY DEF AtRest
    <3>1. y.tracks[t].queue = <<>>
      BY <1>4, <1>5, <1>8, <2>1 DEF HasFrames
    <3> QED BY <3>1
  <2> QED BY <1>1, <1>2, <1>4, <2>1, <2>2 DEF Remade
<1> QED BY <1>7, <1>8

\* The header has been read.
Begun(x) == [x EXCEPT !.demux.first = FALSE]

\* Either nothing is done, or a number of tags are read one after the other and
\* the frames dispatched.
LEMMA ParseChunksIs ==
  ASSUME NEW x \in Muxes, NEW s, NEW data \in Seq(Pieces), NEW start \in Int,
         NEW from, from = HeaderOf(x, start), NEW tags, tags = WholeTags(data, from),
         NEW r, r = ParseChunks(x, s, data, start)
  PROVE  \/ r.mux = x /\ r.consumed = 0 /\ start = 0 /\ Len(data) <= 2
         \/ /\ start = 0 => Len(data) > 2
            /\ r.consumed = from + 2 * Len(tags)
            /\ r.mux = DispatchFrames(ParseTags(Begun(x), s, tags), Len(data) > from + 2 * Len(tags))
<1>1. CASE start = 0 /\ Len(data) <= 2
  <2>1. r = [mux |-> x, consumed |-> 0]
    BY <1>1 DEF ParseChunks
  <2> QED BY <1>1, <2>1
<1>2. CASE ~(start = 0 /\ Len(data) <= 2)
  <2> DEFINE end == from + 2 * Len(tags)
             mx == DispatchFrames(ParseTags(Begun(x), s, tags), Len(data) > end)
  <2>1. r = [mux |-> mx, consumed |-> end]
    BY <1>2, Zenon DEF ParseChunks, Begun
  <2> HIDE DEF mx, end
  <2>2. r.mux = mx /\ r.consumed = end
    BY <2>1
  <2>3. start = 0 => Len(data) > 2
    BY <1>2
  <2> QED BY <2>2, <2>3, Zenon DEF mx, end
<1> QED BY <1>1, <1>2

-----------------------------------------------------------------------------
(* Media comes behind the initialization segment of its type.                *)

\* What is put behind a sequence of events.
LEMMA Behind ==
  ASSUME NEW u \in Seq(Events), NEW v \in Seq(Events), NEW w, w = u \o v
  PROVE  /\ w \in Seq(Events) /\ Len(w) = Len(u) + Len(v)
         /\ \A i \in DOMAIN u : i \in DOMAIN w /\ w[i] = u[i]
         /\ \A i \in DOMAIN w : i \in DOMAIN u \/ (i - Len(u) \in DOMAIN v /\ w[i] = v[i - Len(u)] /\ i > Len(u))
         /\ \A i \in DOMAIN v : i + Len(u) \in DOMAIN w /\ w[i + Len(u)] = v[i]
         /\ DOMAIN u \subseteq Nat /\ DOMAIN v \subseteq Nat /\ DOMAIN w \subseteq Nat /\ Len(u) \in Nat
<1>1. w \in Seq(Events) /\ Len(w) = Len(u) + Len(v)
  BY ConcatProperties
<1>2. Len(u) \in Nat /\ Len(v) \in Nat /\ DOMAIN u = 1 .. Len(u) /\ DOMAIN v = 1 .. Len(v) /\ DOMAIN w = 1 .. Len(w)
  BY <1>1, LenProperties
<1>3. \A i \in 1 .. Len(u) + Len(v) : w[i] = IF i <= Len(u) THEN u[i] ELSE v[i - Len(u)]
  BY ConcatProperties
<1> DEFINE a == Len(u)
           b == Len(v)
<1> HIDE DEF a, b
<1>4. /\ \A i \in 1 .. a : i \in 1 .. a + b /\ i <= a
      /\ \A i \in 1 .. a + b : i \in 1 .. a \/ (i - a \in 1 .. b /\ ~(i <= a) /\ i > a)
      /\ \A i \in 1 .. b : i + a \in 1 .. a + b /\ ~(i + a <= a) /\ i + a - a = i
  <2>1. a \in Nat /\ b \in Nat
    BY <1>2 DEF a, b
  <2> QED BY <2>1
<1>6. \A i \in 1 .. a + b : w[i] = IF i <= a THEN u[i] ELSE v[i - a]
  BY <1>3 DEF a, b
<1>7. /\ DOMAIN u = 1 .. a /\ DOMAIN v = 1 .. b /\ DOMAIN w = 1 .. a + b /\ a \in Nat /\ b \in Nat
  BY <1>1, <1>2 DEF a, b
<1>8. \A i \in DOMAIN v : i + a \in DOMAIN w /\ w[i + a] = v[i]
  <2> TAKE i \in DOMAIN v
  <2>1. PICK j \in 1 .. a + b : j = i + a
    BY <1>4, <1>7
  <2>2. j - a = i /\ ~(j <= a)
    BY <1>4, <1>7, <2>1
  <2>3. w[j] = v[j - a]
    BY <1>6, <2>2
  <2> QED BY <1>7, <2>1, <2>2, <2>3
<1>9. \A i \in DOMAIN u : i \in DOMAIN w /\ w[i] = u[i]
  BY <1>4, <1>6, <1>7
<1>10. \A i \in DOMAIN w : i \in DOMAIN u \/ (i - a \in DOMAIN v /\ w[i] = v[i - a] /\ i > a)
  BY <1>4, <1>6, <1>7
<1> QED BY <1>1, <1>7, <1>8, <1>9, <1>10 DEF a

\* Media of tracks with metadata; tracks that keep theirs.
OfTracks(v, tracks) == \A i \in DOMAIN v : tracks[v[i].type].meta # NoMeta
KeepMeta(tracks, after) ==
  \A t \in Types : after[t].meta = tracks[t].meta /\ (Held(tracks[t]) => Held(after[t]))

\* Behind events that are in order, media of types that are known.
LEMMA HeadedMedia ==
  ASSUME NEW u \in Seq(Events), NEW v \in Seq(Media), NEW w, w = u \o v, NEW K,
         NEW tracks, NEW after, Headed(u, tracks, K), OfTracks(v, tracks), KeepMeta(tracks, after)
  PROVE  Headed(w, after, K)
<1>0. v \in Seq(Events)
  BY SeqMonotonic DEF Events, Segments
<1>1. /\ w \in Seq(Events) /\ Len(w) = Len(u) + Len(v)
      /\ \A i \in DOMAIN u : i \in DOMAIN w /\ w[i] = u[i]
      /\ \A i \in DOMAIN w : i \in DOMAIN u \/ (i - Len(u) \in DOMAIN v /\ w[i] = v[i - Len(u)] /\ i > Len(u))
      /\ DOMAIN u \subseteq Nat /\ Len(u) \in Nat /\ DOMAIN w \subseteq Nat
  BY <1>0, Behind
<1>2. \A t \in Types : t \in Knows(u, K) => t \in Knows(w, K)
  BY <1>1 DEF Knows, Inited
<1>3. \A t \in Types : Held(after[t]) /\ (after[t].meta # NoMeta => t \in Knows(w, K))
  BY <1>2 DEF Headed, KeepMeta
<1>4. Ordered(w, K)
  <2> SUFFICES ASSUME NEW i \in DOMAIN w, w[i].ev = "media" PROVE w[i].type \in K \/ Ahead(w, i, w[i].type)
    BY DEF Ordered
  <2>1. CASE i \in DOMAIN u
    <3>1. w[i] = u[i] /\ (u[i].type \in K \/ Ahead(u, i, u[i].type))
      BY <1>1, <2>1 DEF Headed, Ordered
    <3>2. \A j \in 1 .. i - 1 : j \in DOMAIN u
      <4>1. DOMAIN u = 1 .. Len(u)
        BY LenProperties
      <4> QED BY <1>1, <2>1, <4>1
    <3> QED BY <1>1, <3>1, <3>2 DEF Ahead
  <2>2. CASE i \notin DOMAIN u
    <3>1. i - Len(u) \in DOMAIN v /\ w[i] = v[i - Len(u)] /\ i > Len(u)
      BY <1>1, <2>2
    <3>2. w[i] \in Media
      BY <3>1, ElementOfSeq
    <3> DEFINE t == w[i].type
    <3>3. t \in Types /\ tracks[t].meta # NoMeta
      BY <3>1, <3>2 DEF Media, OfTracks
    <3> HIDE DEF t
    <3>4. t \in K \/ Inited(u, t)
      BY <3>3 DEF Headed, Knows
    <3>5. Inited(u, t) => Ahead(w, i, t)
      <4>1. DOMAIN u = 1 .. Len(u) /\ i \in Nat
        BY <1>1, LenProperties
      <4>2. \A j \in DOMAIN u : j \in 1 .. i - 1 /\ w[j] = u[j]
        BY <1>1, <3>1, <4>1
      <4> QED BY <4>2 DEF Inited, Ahead
    <3> QED BY <3>4, <3>5 DEF t
  <2> QED BY <2>1, <2>2
<1> QED BY <1>3, <1>4 DEF Headed

\* Tracks that keep their metadata but for that of an event.
TakeMeta(e, tracks, after) ==
  \A t \in Types : Held(after[t]) /\ (after[t].meta = tracks[t].meta \/ InitOf(e, t))

\* Behind them an event that is no media.
LEMMA HeadedOne ==
  ASSUME NEW u \in Seq(Events), NEW e \in Events, e.ev # "media", NEW w, w = Append(u, e), NEW K,
         NEW tracks, NEW after, Headed(u, tracks, K), TakeMeta(e, tracks, after)
  PROVE  Headed(w, after, K)
<1>1. /\ DOMAIN u = 1 .. Len(u) /\ Len(u) \in Nat /\ DOMAIN w = 1 .. Len(u) + 1 /\ w[Len(u) + 1] = e
      /\ \A i \in DOMAIN u : w[i] = u[i]
  BY AppendProperties, LenProperties
<1>2. \A t \in Types : t \in Knows(u, K) \/ InitOf(e, t) => t \in Knows(w, K)
  <2>1. \A i \in DOMAIN u : i \in DOMAIN w
    BY <1>1
  <2>2. Len(u) + 1 \in DOMAIN w
    BY <1>1
  <2> QED BY <1>1, <2>1, <2>2 DEF Knows, Inited
<1>3. \A t \in Types : Held(after[t]) /\ (after[t].meta # NoMeta => t \in Knows(w, K))
  BY <1>2 DEF Headed, TakeMeta
<1>4. Ordered(w, K)
  <2> SUFFICES ASSUME NEW i \in DOMAIN w, w[i].ev = "media" PROVE w[i].type \in K \/ Ahead(w, i, w[i].type)
    BY DEF Ordered
  <2>1. i \in DOMAIN u
    BY <1>1
  <2>2. w[i] = u[i] /\ (u[i].type \in K \/ Ahead(u, i, u[i].type))
    BY <1>1, <2>1 DEF Headed, Ordered
  <2>3. \A j \in 1 .. i - 1 : j \in DOMAIN u
    BY <1>1, <2>1
  <2> QED BY <1>1, <2>2, <2>3 DEF Ahead
<1> QED BY <1>3, <1>4 DEF Headed

\* What comes of the remuxer is in order.
LEMMA PassedHeaded ==
  ASSUME NEW x \in Muxes, NEW y, Passed(x, y), NEW K, Headed(x.out, x.tracks, K)
  PROVE  Headed(y.out, y.tracks, K)
<1>1. PICK new \in Seq(Media) : y.out = x.out \o new /\ OfTracks(new, x.tracks)
  BY DEF Passed, OfTracks
<1>2. x.out \in Seq(Events)
  BY DEF Muxes
<1>3. KeepMeta(x.tracks, y.tracks)
  BY DEF Passed, KeepMeta
<1> QED BY <1>1, <1>2, <1>3, HeadedMedia

\* No event but those of the remuxer.
Quietly(x, y) == \A i \in DOMAIN y.out : (i \in DOMAIN x.out /\ y.out[i] = x.out[i]) \/ y.out[i].ev = "media"

\* The same when it may not have been asked.
LEMMA RemadeIs ==
  ASSUME NEW x \in Muxes, NEW z \in Muxes, Remade(x, z)
  PROVE  /\ \A K : Headed(x.out, x.tracks, K) => Headed(z.out, z.tracks, K)
         /\ \A t \in Types : z.tracks[t].meta = x.tracks[t].meta
         /\ Quietly(x, z)
<1>1. CASE z.tracks = x.tracks /\ z.out = x.out
  BY <1>1 DEF Quietly
<1>2. ASSUME NEW w \in Muxes, w.tracks = x.tracks, w.out = x.out, HasFrames(w),
             z.tracks = Remux(w).tracks, z.out = Remux(w).out
      PROVE  /\ \A K : Headed(x.out, x.tracks, K) => Headed(z.out, z.tracks, K)
             /\ \A t \in Types : z.tracks[t].meta = x.tracks[t].meta
             /\ Quietly(x, z)
  <2> DEFINE y == Remux(w)
  <2>1. Passed(w, y)
    BY <1>2, RemuxIs
  <2> HIDE DEF y
  <2>2. \A K : Headed(w.out, w.tracks, K) => Headed(y.out, y.tracks, K)
    BY <2>1, PassedHeaded
  <2>3. PICK new \in Seq(Media) : y.out = w.out \o new
    BY <2>1 DEF Passed
  <2>4. new \in Seq(Events) /\ w.out \in Seq(Events)
    BY SeqMonotonic DEF Events, Segments, Muxes
  <2>5. \A i \in DOMAIN y.out : \/ i \in DOMAIN w.out
                                \/ i - Len(w.out) \in DOMAIN new /\ y.out[i] = new[i - Len(w.out)]
    BY <2>3, <2>4, Behind
  <2>6. \A i \in DOMAIN w.out : y.out[i] = w.out[i]
    BY <2>3, <2>4, Behind
  <2>7. \A i \in DOMAIN new : new[i].ev = "media"
    <3>1. \A i \in DOMAIN new : new[i] \in Media
      BY ElementOfSeq
    <3> QED BY <3>1 DEF Media
  <2>8. Quietly(w, y)
    BY <2>5, <2>6, <2>7 DEF Quietly
  <2>9. z.out = y.out /\ z.tracks = y.tracks
    BY <1>2 DEF y
  <2>10. \A t \in Types : y.tracks[t].meta = w.tracks[t].meta
    BY <2>1 DEF Passed
  <2> QED BY <1>2, <2>2, <2>8, <2>9, <2>10 DEF Quietly
<1> QED BY <1>1, <1>2 DEF Remade

NoEnd(s) == \A i \in DOMAIN s : s[i].ev # "loading_complete"

\* The same of a tag.
LEMMA TagHeaded ==
  ASSUME NEW x \in Muxes, NEW s \in Seq(Tags), NEW i \in DOMAIN s, Configures(s[i]) => s[i].cfg # NoMeta,
         NEW y, y = ParseTag(x, s, i)
  PROVE  /\ \A K : Headed(x.out, x.tracks, K) => Headed(y.out, y.tracks, K)
         /\ NoEnd(x.out) => NoEnd(y.out)
<1> DEFINE tag == s[i]
<1>1. /\ y \in Muxes /\ tag \in Tags
      /\ tag.kind = "meta" => Scripted(x, y)
      /\ Configures(tag) => Configured(x, y, TypeOf(tag), tag.cfg)
      /\ tag.kind \in Types => Queued(x, y, tag.kind, i, tag.ts)
      /\ tag.kind = "foreign" => Refused(x, y)
  BY ParseTagIs
<1>2. tag.kind = "meta" \/ Configures(tag) \/ tag.kind \in Types \/ tag.kind = "foreign"
  BY <1>1, TypesAre DEF Tags, Configures
<1>3. x.out \in Seq(Events) /\ x.tracks \in [Types -> Tracks]
  BY DEF Muxes
<1>9. tag.cfg \in Nat /\ (Configures(tag) => tag.cfg # NoMeta)
  BY <1>1 DEF Tags
<1> HIDE DEF tag
<1>4. CASE tag.kind = "meta"
  BY <1>1, <1>4 DEF Scripted
<1>5. CASE tag.kind = "foreign"
  <2> DEFINE e == [ev |-> "demux_error"]
  <2>1. e \in Events /\ e.ev # "media" /\ e.ev # "loading_complete"
    BY DEF Events, Notes
  <2>2. y.tracks = x.tracks /\ y.out = Append(x.out, e)
    BY <1>1, <1>5 DEF Refused
  <2> HIDE DEF e
  <2>3. \A K : Headed(x.out, x.tracks, K) => Headed(y.out, y.tracks, K)
    <3> SUFFICES ASSUME NEW K, Headed(x.out, x.tracks, K) PROVE Headed(y.out, y.tracks, K)
      OBVIOUS
    <3>1. TakeMeta(e, x.tracks, y.tracks)
      BY <2>2 DEF Headed, TakeMeta
    <3> QED BY <1>3, <2>1, <2>2, <3>1, HeadedOne
  <2>4. NoEnd(x.out) => NoEnd(y.out)
    BY <1>3, <2>1, <2>2, AppendProperties, LenProperties DEF NoEnd
  <2> QED BY <2>3, <2>4
<1>6. CASE tag.kind \in Types
  <2> DEFINE t == tag.kind
  <2>1. PICK frame \in Frames : y.out = x.out /\ y.tracks = WithFrame(x.tracks, t, frame)
    BY <1>1, <1>6 DEF Queued
  <2>2. \A u \in Types : y.tracks[u].stash = x.tracks[u].stash /\ y.tracks[u].meta = x.tracks[u].meta
    BY <1>3, <1>6, <2>1 DEF WithFrame, Tracks
  <2> QED BY <2>1, <2>2 DEF Headed, Held
<1>7. CASE Configures(tag)
  <2> DEFINE t == TypeOf(tag)
             cfg == tag.cfg
             e == InitSegment(t, cfg)
  <2>1. t \in Types
    BY TypesAre DEF TypeOf
  <2>2. e \in Events /\ e.ev # "media" /\ e.ev # "loading_complete" /\ InitOf(e, t)
    BY <1>9, <2>1 DEF Events, Segments, Inits, InitSegment, InitOf
  <2>3. PICK z \in Muxes : Remade(x, z) /\ y.out = Append(z.out, e) /\ y.tracks = WithMeta(z.tracks, t, cfg)
    BY <1>1, <1>7 DEF Configured
  <2> HIDE DEF t, e
  <2>4. /\ \A K : Headed(x.out, x.tracks, K) => Headed(z.out, z.tracks, K)
        /\ Quietly(x, z)
    BY <2>3, RemadeIs
  <2>5. z.out \in Seq(Events) /\ z.tracks \in [Types -> Tracks]
    BY DEF Muxes
  <2>6. \A u \in Types : /\ y.tracks[u].stash = z.tracks[u].stash
                         /\ y.tracks[u].meta = IF u = t THEN cfg ELSE z.tracks[u].meta
    BY <1>9, <2>1, <2>3, <2>5 DEF WithMeta, Tracks
  <2>7. \A K : Headed(x.out, x.tracks, K) => Headed(y.out, y.tracks, K)
    <3> SUFFICES ASSUME NEW K, Headed(z.out, z.tracks, K) PROVE Headed(y.out, y.tracks, K)
      BY <2>4
    <3>1. TakeMeta(e, z.tracks, y.tracks)
      <4> SUFFICES ASSUME NEW u \in Types
                   PROVE  Held(y.tracks[u]) /\ (y.tracks[u].meta = z.tracks[u].meta \/ InitOf(e, u))
        BY DEF TakeMeta
      <4>1. Held(z.tracks[u])
        BY DEF Headed
      <4>2. cfg # NoMeta
        BY <1>7, <1>9
      <4> HIDE DEF cfg
      <4> QED BY <2>2, <2>6, <4>1, <4>2 DEF Held
    <3> QED BY <2>2, <2>3, <2>5, <3>1, HeadedOne
  <2>8. NoEnd(x.out) => NoEnd(y.out)
    <3>1. NoEnd(x.out) => NoEnd(z.out)
      BY <2>4 DEF NoEnd, Quietly
    <3> QED BY <2>2, <2>3, <2>5, <3>1, AppendProperties, LenProperties DEF NoEnd
  <2> QED BY <2>7, <2>8
<1> QED BY <1>2, <1>4, <1>5, <1>6, <1>7

-----------------------------------------------------------------------------
(* A chunk.                                                                  *)

\* The units of a stream.
LEMMA UnitsAre ==
  ASSUME NEW s \in Seq(Tags)
  PROVE  /\ Units(s) \in Seq(Pieces) /\ Len(Units(s)) = 2 * Len(s) + 2 /\ Len(s) \in Nat
         /\ \A k \in 0 .. Len(s) : Units(s)[2 * k + 1] = <<k, 1>> /\ Units(s)[2 * k + 2] = <<k, 2>>
<1> DEFINE n == Len(s)
           unit(u) == <<(u - 1) \div 2, 2 - (u % 2)>>
<1>1. n \in Nat
  BY LenProperties
<1>2. Units(s) = [u \in 1 .. 2 * (n + 1) |-> unit(u)]
  BY DEF Units
<1> HIDE DEF n
<1>3. 2 * (n + 1) \in Nat /\ 2 * (n + 1) = 2 * n + 2
  BY <1>1
<1>4. \A u \in 1 .. 2 * (n + 1) : (u - 1) \div 2 \in Nat /\ 2 - (u % 2) \in {1, 2}
  BY <1>1
<1>5. \A u \in 1 .. 2 * (n + 1) : unit(u) \in Pieces
  BY <1>4 DEF Pieces
<1>6. ASSUME NEW k \in 0 .. n
      PROVE  /\ 2 * k + 1 \in 1 .. 2 * (n + 1) /\ 2 * k + 2 \in 1 .. 2 * (n + 1)
             /\ (2 * k + 1 - 1) \div 2 = k /\ 2 - ((2 * k + 1) % 2) = 1
             /\ (2 * k + 2 - 1) \div 2 = k /\ 2 - ((2 * k + 2) % 2) = 2
  BY <1>1
<1>7. \A k \in 0 .. n : unit(2 * k + 1) = <<k, 1>> /\ unit(2 * k + 2) = <<k, 2>>
  <2> TAKE k \in 0 .. n
  <2>1. \A u : unit(u) = <<(u - 1) \div 2, 2 - (u % 2)>>
    OBVIOUS
  <2>2. unit(2 * k + 1) = <<(2 * k + 1 - 1) \div 2, 2 - ((2 * k + 1) % 2)>>
        /\ unit(2 * k + 2) = <<(2 * k + 2 - 1) \div 2, 2 - ((2 * k + 2) % 2)>>
    BY <2>1
  <2> HIDE DEF unit
  <2> QED BY <1>6, <2>2, Zenon
<1> HIDE DEF unit
<1>8. Units(s) \in Seq(Pieces) /\ Len(Units(s)) = 2 * (n + 1)
  BY <1>2, <1>3, <1>5
<1>9. \A k \in 0 .. n : Units(s)[2 * k + 1] = unit(2 * k + 1) /\ Units(s)[2 * k + 2] = unit(2 * k + 2)
  BY <1>2, <1>6
<1> QED BY <1>1, <1>3, <1>7, <1>8, <1>9 DEF n

\* A part of a sequence.
LEMMA PartIs ==
  ASSUME NEW w \in Seq(Pieces), NEW a \in Nat, NEW b \in Nat, a <= b, b <= Len(w), NEW c, c = SubSeq(w, a + 1, b)
  PROVE  /\ c \in Seq(Pieces) /\ Len(c) = b - a
         /\ \A i \in 1 .. b - a : c[i] = w[a + i]
<1>1. Len(w) \in Nat /\ w \in [1 .. Len(w) -> Pieces]
  BY LenProperties
<1>2. c = [i \in 1 .. b - a |-> w[a + i]]
  BY SubSeqProperties
<1>3. \A i \in 1 .. b - a : a + i \in 1 .. Len(w)
  BY <1>1
<1>4. \A i \in 1 .. b - a : c[i] = w[a + i] /\ w[a + i] \in Pieces
  BY <1>1, <1>2, <1>3
<1>5. b - a \in Nat
  OBVIOUS
<1> QED BY <1>2, <1>4, <1>5

\* What has been received and is no tag yet.
LEMMA LiveIs ==
  ASSUME NEW s \in Seq(Tags), NEW x \in Muxes, NEW data \in Seq(Pieces), NEW start, Live(s, x, data, start)
  PROVE  /\ Taken(x) \in Nat /\ Len(data) \in Nat /\ Taken(x) + Len(data) <= 2 * Len(s) + 2
         /\ \A i \in 1 .. Len(data) : data[i] = Units(s)[Taken(x) + i]
<1>1. Taken(x) \in Nat /\ Len(data) \in Nat
  BY DEF Taken, Muxes
<1>2. /\ Units(s) \in Seq(Pieces) /\ Len(Units(s)) = 2 * Len(s) + 2
  BY UnitsAre
<1> DEFINE a == Taken(x)
           b == Taken(x) + Len(data)
<1>3. a \in Nat /\ b \in Nat /\ a <= b /\ b <= Len(Units(s)) /\ b - a = Len(data)
  BY <1>1 DEF Live
<1>4. data = SubSeq(Units(s), a + 1, b)
  BY DEF Live, Cut
<1> HIDE DEF a, b
<1>5. \A i \in 1 .. b - a : data[i] = Units(s)[a + i]
  BY <1>2, <1>3, <1>4, PartIs
<1> QED BY <1>1, <1>2, <1>3, <1>5 DEF a, b

\* A response that is begun anew is not the next of the stream.
LEMMA LiveOrDeaf ==
  ASSUME NEW s \in Seq(Tags), NEW x \in Muxes, NEW data \in Seq(Pieces), NEW start,
         Live(s, x, data, start), ~x.demux.first, data # <<>>
  PROVE  data[1] # <<0, 1>> /\ ~Deaf(x, data)
<1>1. x.parsed \in Nat /\ Len(s) \in Nat /\ Len(data) \in Nat /\ Taken(x) = 2 + 2 * x.parsed
  BY LenProperties DEF Muxes, Taken
<1>2. /\ Taken(x) + Len(data) <= 2 * Len(s) + 2
      /\ \A i \in 1 .. Len(data) : data[i] = Units(s)[Taken(x) + i]
  BY LiveIs
<1>3. 1 \in 1 .. Len(data)
  BY <1>1, EmptySeq
<1>4. PICK k \in 0 .. Len(s) : k = x.parsed + 1
  BY <1>1, <1>2, <1>3
<1>5. Taken(x) + 1 = 2 * k + 1
  BY <1>1, <1>4
<1>6. data[1] = <<k, 1>>
  BY <1>2, <1>3, <1>5, UnitsAre
<1>7. <<k, 1>> # <<0, 1>>
  BY <1>1, <1>4
<1> QED BY <1>6, <1>7 DEF Deaf

\* The tags that are read are the next of the stream.
LEMMA NextTags ==
  ASSUME NEW s \in Seq(Tags), NEW x \in Muxes, NEW data \in Seq(Pieces), NEW start \in Int,
         x.demux.first => Fresh(x), Live(s, x, data, start) \/ Deaf(x, data),
         NEW from, from = HeaderOf(x, start), NEW tags, tags = WholeTags(data, from)
  PROVE  /\ from \in {0, 2} /\ x.parsed \in Nat /\ Len(tags) \in Nat /\ tags \in Seq(Nat)
         /\ Live(s, x, data, start) => Taken(x) + from = 2 + 2 * x.parsed
         /\ Deaf(x, data) => from = 0 /\ Len(tags) = 0
         /\ \A n \in 1 .. Len(tags) : tags[n] = x.parsed + n /\ tags[n] \in DOMAIN s
<1>1. from \in {0, 2} /\ x.parsed \in Nat /\ Len(s) \in Nat /\ DOMAIN s = 1 .. Len(s) /\ Len(data) \in Nat
  BY LenProperties DEF HeaderOf, Muxes
<1>2. /\ tags \in Seq(Nat) /\ Len(tags) \in 0 .. Len(data)
      /\ \A i \in 1 .. Len(tags) : /\ tags[i] \in Nat \ {0}
                                   /\ from + 2 * i - 1 \in 1 .. Len(data) /\ from + 2 * i \in 1 .. Len(data)
                                   /\ data[from + 2 * i - 1] = <<tags[i], 1>>
  <2>1. from \in {0, 2}
    BY <1>1
  <2>2. tags \in Seq(Nat) /\ Len(tags) \in 0 .. Len(data) /\ Halves(tags, data, from)
    BY <2>1, WholeTagsAre
  <2> QED BY <2>2 DEF Halves
<1>3. CASE Live(s, x, data, start)
  <2>1. /\ Taken(x) \in Nat /\ Taken(x) + Len(data) <= 2 * Len(s) + 2
        /\ \A i \in 1 .. Len(data) : data[i] = Units(s)[Taken(x) + i]
    BY <1>3, LiveIs
  <2>2. Taken(x) + from = 2 + 2 * x.parsed
    BY <1>1, <1>3 DEF Live, Taken, HeaderOf, Fresh
  <2>3. ASSUME NEW n \in 1 .. Len(tags) PROVE tags[n] = x.parsed + n /\ tags[n] \in DOMAIN s
    <3>1. PICK j \in 1 .. Len(data) : j = from + 2 * n - 1 /\ from + 2 * n \in 1 .. Len(data)
      BY <1>2
    <3>2. n \in Nat /\ n > 0
      BY <1>1, <1>2
    <3>3. PICK k \in 1 .. Len(s) : k = x.parsed + n
      <4> DEFINE a == Taken(x)
                 l == Len(s)
                 d == Len(data)
                 q == x.parsed
      <4>1. a \in Nat /\ l \in Nat /\ d \in Nat /\ q \in Nat /\ a + from = 2 + 2 * q /\ a + d <= 2 * l + 2
            /\ from + 2 * n <= d
        BY <1>1, <2>1, <2>2, <3>1
      <4> HIDE DEF a, l, d, q
      <4>2. q + n \in 1 .. l
        BY <1>1, <3>2, <4>1
      <4> QED BY <4>2 DEF q, l
    <3>4. Taken(x) + j = 2 * k + 1
      <4>1. PICK a \in Int, b \in Int, q \in Int, m \in Int :
              a = Taken(x) /\ b = from /\ q = x.parsed /\ m = n
        BY <1>1, <2>1, <3>2
      <4>2. a + b = 2 + 2 * q /\ j = b + 2 * m - 1 /\ k = q + m
        BY <2>2, <3>1, <3>3, <4>1, Zenon
      <4>3. a + j = 2 * k + 1
        BY <4>2
      <4> QED BY <4>1, <4>3, Zenon
    <3>5. data[j] = <<tags[n], 1>> /\ data[j] = Units(s)[2 * k + 1]
      BY <1>2, <2>1, <3>1, <3>4
    <3>6. k \in 0 .. Len(s)
      BY <1>1
    <3>7. data[j] = <<k, 1>>
      BY <3>5, <3>6, UnitsAre
    <3>8. tags[n] = k
      BY <3>5, <3>7
    <3> QED BY <1>1, <3>3, <3>8
  <2>4. ~Deaf(x, data)
    BY <1>3, LiveOrDeaf DEF Deaf
  <2> QED BY <1>1, <1>2, <2>2, <2>3, <2>4
<1>4. CASE Deaf(x, data)
  <2>1. from = 0 /\ data[1] = <<0, 1>>
    BY <1>4 DEF Deaf, HeaderOf
  <2>2. Len(tags) = 0
    <3> SUFFICES ASSUME Len(tags) # 0 PROVE FALSE
      OBVIOUS
    <3>1. 1 \in 1 .. Len(tags) /\ from + 2 * 1 - 1 = 1
      BY <1>2, <2>1
    <3>2. tags[1] \in Nat \ {0} /\ data[from + 2 * 1 - 1] = <<tags[1], 1>>
      BY <1>2, <3>1
    <3> QED BY <2>1, <3>1, <3>2
  <2>3. ~Live(s, x, data, start)
    BY <1>4, LiveOrDeaf DEF Deaf
  <2> QED BY <1>1, <1>2, <2>1, <2>2, <2>3
<1> QED BY <1>3, <1>4

\* What holds when n more tags have been read.
ReadOn(x, z, s, n) ==
  /\ z.parsed = x.parsed + n /\ ~z.demux.first
  /\ NoEnd(x.out) => NoEnd(z.out)
  /\ \A K : Headed(x.out, x.tracks, K) => Headed(z.out, z.tracks, K)
  /\ n = 0 => z = Begun(x)
  /\ n # 0 /\ ~z.demux.dispatch => LastIsNone(z, s)

\* The streams are sequences of tags, and each configuration has a number.
Sound(s) == \A i \in DOMAIN s : Configures(s[i]) => s[i].cfg # NoMeta

\* The file header has been read; nothing else changes.
LEMMA BegunIs ==
  ASSUME NEW x \in Muxes, NEW y, y = Begun(x)
  PROVE  /\ y \in Muxes /\ y.tracks = x.tracks /\ y.out = x.out /\ y.parsed = x.parsed /\ ~y.demux.first
         /\ y.base = x.base
         /\ AtRest(x) => AtRest(y)
<1>1. x.demux \in Demuxers
  BY DEF Muxes
<1> DEFINE d == [x.demux EXCEPT !.first = FALSE]
<1>2. d \in Demuxers /\ ~d.first /\ d.has = x.demux.has /\ d.done = x.demux.done
  BY <1>1 DEF Demuxers
<1>3. y = [x EXCEPT !.demux = d]
  BY DEF Begun, Muxes
<1> HIDE DEF d
<1>4. y \in Muxes /\ y.demux = d /\ y.tracks = x.tracks /\ y.out = x.out /\ y.parsed = x.parsed /\ y.base = x.base
  BY <1>2, <1>3, DemuxerOnly
<1>5. InitialMetadataDispatched(y.demux) <=> InitialMetadataDispatched(x.demux)
  BY <1>2, <1>4 DEF InitialMetadataDispatched
<1> QED BY <1>2, <1>4, <1>5 DEF AtRest

\* The tags of a chunk, one after the other.
LEMMA TagsRead ==
  ASSUME NEW s \in Seq(Tags), Sound(s), NEW x \in Muxes, NEW tags \in Seq(Nat),
         \A n \in 1 .. Len(tags) : tags[n] = x.parsed + n /\ tags[n] \in DOMAIN s,
         NEW z, z = ParseTags(Begun(x), s, tags)
  PROVE  z \in Muxes /\ ReadOn(x, z, s, Len(tags))
<1> DEFINE b == Begun(x)
           S == [n \in 0 .. Len(tags) |-> {y \in Muxes : ReadOn(x, y, s, n)}]
<1>1. /\ b \in Muxes /\ b.tracks = x.tracks /\ b.out = x.out /\ b.parsed = x.parsed /\ ~b.demux.first
  BY BegunIs
<1>2. Len(tags) \in Nat /\ x.parsed \in Nat
  BY LenProperties DEF Muxes
<1>3. b \in S[0]
  <2>1. ReadOn(x, b, s, 0)
    <3> HIDE DEF b
    <3>1. b = Begun(x)
      BY DEF b
    <3>2. b.parsed = x.parsed + 0
      BY <1>1, <1>2
    <3> QED BY <1>1, <3>1, <3>2 DEF ReadOn
  <2> HIDE DEF b
  <2> QED BY <1>1, <1>2, <2>1
<1>4. ASSUME NEW n \in 1 .. Len(tags), NEW y \in Muxes, y \in S[n - 1]
      PROVE  ParseTag(y, s, tags[n]) \in S[n]
  <2>1. n - 1 \in 0 .. Len(tags) /\ n \in 0 .. Len(tags) /\ n \in Nat /\ n # 0
    BY <1>2
  <2>2. ReadOn(x, y, s, n - 1)
    BY <1>4, <2>1
  <2>3. tags[n] = x.parsed + n /\ tags[n] \in DOMAIN s
    OBVIOUS
  <2> DEFINE i == tags[n]
             z2 == ParseTag(y, s, i)
  <2>4. i \in DOMAIN s /\ z2 = ParseTag(y, s, i) /\ (Configures(s[i]) => s[i].cfg # NoMeta)
    BY <2>3 DEF Sound
  <2> HIDE DEF i, z2
  <2>5. /\ z2 \in Muxes /\ z2.parsed = y.parsed + 1 /\ z2.demux.first = y.demux.first
        /\ ~z2.demux.dispatch => s[i].kind \in {"meta", "aac", "avc"}
    BY <2>4, ParseTagIs
  <2>6. /\ \A K : Headed(y.out, y.tracks, K) => Headed(z2.out, z2.tracks, K)
        /\ NoEnd(y.out) => NoEnd(z2.out)
    BY <2>4, TagHeaded
  <2>7. z2.parsed = x.parsed + n /\ z2.parsed = i /\ z2.parsed > 0
    BY <1>2, <2>1, <2>2, <2>3, <2>5 DEF ReadOn, i
  <2>8. ReadOn(x, z2, s, n)
    BY <2>1, <2>2, <2>5, <2>6, <2>7 DEF ReadOn, LastIsNone
  <2> QED BY <2>1, <2>5, <2>8 DEF z2, i
<1>5. tags \in Seq(DOMAIN s)
  BY <1>2
<1> HIDE DEF S, b
<1>6. ParseTags(b, s, tags) \in Muxes /\ ParseTags(b, s, tags) \in S[Len(tags)]
  BY <1>1, <1>3, <1>4, <1>5, ParseTagsInv
<1>7. Len(tags) \in 0 .. Len(tags)
  BY <1>2
<1>8. ReadOn(x, ParseTags(b, s, tags), s, Len(tags))
  BY <1>6, <1>7 DEF S
<1> QED BY <1>6, <1>8 DEF b

\* What a chunk comes to.
Rest(data, r) == SubSeq(data, r.consumed + 1, Len(data))
Chunked(x, s, data, start, r) ==
  /\ r.mux \in Muxes /\ r.mux.parsed <= Len(s) /\ r.consumed \in Nat /\ Rest(data, r) \in Seq(Pieces)
  /\ r.mux.demux.first => r.mux = x
  /\ \A K : Headed(<<>>, x.tracks, K) => Headed(r.mux.out, r.mux.tracks, K)
  /\ Resting(r.mux, s) /\ NoEnd(r.mux.out)
  /\ Live(s, x, data, start) => /\ Live(s, r.mux, Rest(data, r), start + r.consumed)
                                /\ Taken(x) + Len(data) = Taken(r.mux) + Len(Rest(data, r))
  /\ Deaf(x, data) => /\ ~r.mux.demux.first /\ r.mux.parsed = x.parsed
                      /\ r.consumed = 0 /\ Rest(data, r) = data
                      /\ NoInits(r.mux.out) /\ (AtRest(x) => r.mux.tracks = x.tracks)

\* Nothing is consumed.
LEMMA AllIsLeft ==
  ASSUME NEW data \in Seq(Pieces), NEW r, r.consumed = 0
  PROVE  Rest(data, r) = data
<1>1. Len(data) \in Nat /\ data \in [1 .. Len(data) -> Pieces]
  BY LenProperties
<1>2. SubSeq(data, 0 + 1, Len(data)) = data
  <2>1. SubSeq(data, 1, Len(data)) = [i \in 1 .. Len(data) |-> data[i]]
    <3>1. SubSeq(data, 0 + 1, Len(data)) \in Seq(Pieces) /\ Len(SubSeq(data, 0 + 1, Len(data))) = Len(data) - 0
          /\ \A i \in 1 .. Len(data) - 0 : SubSeq(data, 0 + 1, Len(data))[i] = data[0 + i]
      BY <1>1, PartIs
    <3> DEFINE c == SubSeq(data, 0 + 1, Len(data))
    <3>2. c \in Seq(Pieces) /\ Len(c) = Len(data) /\ \A i \in 1 .. Len(data) : c[i] = data[i]
      BY <1>1, <3>1
    <3> HIDE DEF c
    <3>3. c = data
      BY <1>1, <3>2, SeqEqual
    <3> QED BY <1>1, <3>3 DEF c
  <2> QED BY <1>1, <2>1
<1> QED BY <1>2 DEF Rest

StillLive(s, x, data, y, rest, after) ==
  Live(s, y, rest, after) /\ Taken(x) + Len(data) = Taken(y) + Len(rest)

\* What is left of what has been received is what follows the tags.
LEMMA RestIsLive ==
  ASSUME NEW s \in Seq(Tags), NEW x \in Muxes, NEW data \in Seq(Pieces), NEW start, Live(s, x, data, start),
         NEW y \in Muxes, ~y.demux.first, NEW c \in Nat, c <= Len(data), Taken(y) = Taken(x) + c,
         NEW rest, rest = SubSeq(data, c + 1, Len(data)), NEW after
  PROVE  StillLive(s, x, data, y, rest, after)
<1>1. /\ Taken(x) \in Nat /\ Len(data) \in Nat /\ Taken(x) + Len(data) <= 2 * Len(s) + 2
      /\ \A i \in 1 .. Len(data) : data[i] = Units(s)[Taken(x) + i]
  BY LiveIs
<1>2. Units(s) \in Seq(Pieces) /\ Len(Units(s)) = 2 * Len(s) + 2 /\ Len(s) \in Nat
  BY UnitsAre
<1>3. rest \in Seq(Pieces) /\ Len(rest) = Len(data) - c /\ \A i \in 1 .. Len(data) - c : rest[i] = data[c + i]
  BY <1>1, PartIs
<1>4. PICK a \in Nat, d \in Nat : a = Taken(x) /\ d = Len(data)
  BY <1>1
<1>40. PICK b \in Nat, m \in Nat : b = a + c /\ m = a + d
  OBVIOUS
<1>41. c <= d
  BY <1>4, Zenon
<1>5. Taken(y) = b /\ b <= m /\ m - b = d - c /\ Len(rest) = d - c /\ b + (d - c) = m /\ m = b + Len(rest)
      /\ m <= Len(Units(s)) /\ c <= d
  <2>1. Taken(y) = b /\ Len(rest) = d - c /\ m <= 2 * Len(s) + 2 /\ c <= d
    <3>1. Len(rest) = d - c /\ Taken(y) = b
      BY <1>3, <1>4, <1>40, Zenon
    <3>2. m <= 2 * Len(s) + 2
      BY <1>1, <1>4, <1>40, Zenon
    <3> QED BY <1>41, <3>1, <3>2
  <2>2. b <= m /\ m - b = d - c /\ b + (d - c) = m
    BY <1>40, <1>41
  <2> QED BY <1>2, <2>1, <2>2
<1> DEFINE w == SubSeq(Units(s), b + 1, m)
<1>6. w \in Seq(Pieces) /\ Len(w) = m - b /\ \A i \in 1 .. m - b : w[i] = Units(s)[b + i]
  BY <1>2, <1>5, PartIs
<1> HIDE DEF w
<1>7. \A i \in 1 .. m - b : rest[i] = w[i]
  <2> TAKE i \in 1 .. m - b
  <2>1. PICK j \in 1 .. d : j = c + i
    <3>1. i \in 1 .. d - c
      BY <1>5
    <3>2. c + i \in 1 .. d
      BY <1>41, <3>1
    <3> QED BY <3>2
  <2>2. a + j = b + i
    BY <1>40, <2>1
  <2>3. rest[i] = data[j] /\ data[j] = Units(s)[a + j] /\ w[i] = Units(s)[b + i]
    BY <1>1, <1>3, <1>4, <1>5, <1>6, <2>1
  <2> QED BY <2>2, <2>3
<1>8. rest = w
  <2>1. Len(rest) = Len(w) /\ Len(rest) = m - b
    BY <1>5, <1>6
  <2> QED BY <1>3, <1>6, <1>7, <2>1, SeqEqual
<1>9. rest = SubSeq(Units(s), Taken(y) + 1, Taken(y) + Len(rest)) /\ Taken(y) + Len(rest) <= Len(Units(s))
  BY <1>5, <1>8 DEF w
<1>42. b + (d - c) = m /\ Len(rest) = d - c
  BY <1>5
<1>10. Live(s, y, rest, after)
  BY <1>9 DEF Live, Cut
<1>11. Taken(x) + Len(data) = Taken(y) + Len(rest)
  BY <1>4, <1>40, <1>5, <1>42, Zenon
<1> QED BY <1>10, <1>11 DEF StillLive

\* When nothing is read, nothing changes.
LEMMA NothingRead ==
  ASSUME NEW s \in Seq(Tags), NEW x \in Muxes, x.out = <<>>, x.parsed <= Len(s), Resting(x, s),
         NEW data \in Seq(Pieces), NEW start \in Int, NEW r, r.mux = x, r.consumed = 0
  PROVE  Chunked(x, s, data, start, r)
<1>1. Rest(data, r) = data /\ 0 \in Nat /\ start + 0 = start
  BY AllIsLeft
<1>2. NoEnd(x.out) /\ NoInits(x.out)
  BY DEF NoEnd, NoInits
<1>3. Live(s, x, data, start) => Live(s, r.mux, Rest(data, r), start + r.consumed)
  BY <1>1
<1> QED BY <1>1, <1>2, <1>3 DEF Chunked, Deaf

\* A chunk is read: its whole tags are the next of the stream.
LEMMA ParseChunksDoes ==
  ASSUME NEW s \in Seq(Tags), Sound(s), NEW x \in Muxes, x.out = <<>>, x.parsed <= Len(s), Resting(x, s),
         x.demux.first => Fresh(x), NEW data \in Seq(Pieces), data # <<>>, NEW start \in Int,
         Live(s, x, data, start) \/ Deaf(x, data), NEW r, r = ParseChunks(x, s, data, start)
  PROVE  Chunked(x, s, data, start, r)
<1>1. PICK from, tags : from = HeaderOf(x, start) /\ tags = WholeTags(data, from)
  OBVIOUS
<1>2. /\ from \in {0, 2} /\ x.parsed \in Nat /\ Len(tags) \in Nat /\ tags \in Seq(Nat)
      /\ Live(s, x, data, start) => Taken(x) + from = 2 + 2 * x.parsed
      /\ Deaf(x, data) => from = 0 /\ Len(tags) = 0
      /\ \A n \in 1 .. Len(tags) : tags[n] = x.parsed + n /\ tags[n] \in DOMAIN s
  BY <1>1, NextTags
<1>3. \/ r.mux = x /\ r.consumed = 0 /\ start = 0 /\ Len(data) <= 2
      \/ /\ start = 0 => Len(data) > 2
         /\ r.consumed = from + 2 * Len(tags)
         /\ r.mux = DispatchFrames(ParseTags(Begun(x), s, tags), Len(data) > from + 2 * Len(tags))
  BY <1>1, ParseChunksIs
<1>4. CASE r.mux = x /\ r.consumed = 0
  BY <1>4, NothingRead
<1>5. CASE /\ start = 0 => Len(data) > 2
           /\ r.consumed = from + 2 * Len(tags)
           /\ r.mux = DispatchFrames(ParseTags(Begun(x), s, tags), Len(data) > from + 2 * Len(tags))
  <2> DEFINE z == ParseTags(Begun(x), s, tags)
             N == Len(tags)
             c == r.consumed
  <2>1. z \in Muxes /\ ReadOn(x, z, s, N)
    BY <1>2, TagsRead
  <2>2. c \in Nat /\ N \in Nat /\ c = from + 2 * N /\ Len(data) \in Nat /\ Len(data) > 0
    <3>1. Len(data) # 0 /\ Len(data) \in Nat
      BY EmptySeq, LenProperties
    <3> QED BY <1>2, <1>5, <3>1
  <2>3. c <= Len(data)
    <3>1. N # 0 => c <= Len(data)
      <4>1. Halves(tags, data, from)
        BY <1>1, <1>2, WholeTagsAre
      <4> QED BY <2>2, <4>1 DEF Halves
    <3>2. N = 0 => c <= Len(data)
      <4>1. N = 0 => c = from
        BY <1>2, <2>2
      <4>2. from = 2 => start = 0
        BY <1>1 DEF HeaderOf
      <4>3. from = 2 => Len(data) > 2
        BY <1>5, <4>2
      <4> QED BY <1>2, <2>2, <4>1, <4>3
    <3> QED BY <3>1, <3>2
  <2>4. N = 0 => Len(data) > c
    <3>1. N = 0 => c = from
      BY <1>2, <2>2
    <3>2. from = 2 => start = 0
      BY <1>1 DEF HeaderOf
    <3>3. from = 2 => Len(data) > 2
      BY <1>5, <3>2
    <3> QED BY <1>2, <2>2, <3>1, <3>3
  <2>5. PICK y : y = r.mux
    OBVIOUS
  <2>6. PICK all \in Int : all = Len(data)
    BY <2>2
  <2>7. y = DispatchFrames(z, all > c)
    BY <1>5, <2>5, <2>6, Zenon
  <2>50. z = ParseTags(Begun(x), s, tags)
    OBVIOUS
  <2> HIDE DEF z, c
  <2>8. /\ y \in Muxes /\ y.parsed = z.parsed /\ y.demux.first = z.demux.first /\ Remade(z, y)
        /\ z.demux.dispatch \/ all > c => y.demux.dispatch /\ AtRest(y)
        /\ ~(z.demux.dispatch \/ all > c) => y.tracks = z.tracks /\ ~y.demux.dispatch
        /\ AtRest(z) => y.tracks = z.tracks /\ y.out = z.out
    <3>1. PICK k \in Int : k = c
      BY <2>2
    <3>2. y = DispatchFrames(z, all > k)
      BY <2>7, <3>1, Zenon
    <3>3. z \in Muxes
      BY <2>1
    <3>4. Dispatched(z, y, all, k)
      BY <3>2, <3>3, DispatchFramesIs, Zenon
    <3> QED BY <3>1, <3>4, Zenon DEF Dispatched
  <2>9. /\ \A K : Headed(z.out, z.tracks, K) => Headed(y.out, y.tracks, K)
        /\ Quietly(z, y)
    BY <2>1, <2>8, RemadeIs
  <2>10. y.parsed = x.parsed + N /\ ~y.demux.first
    BY <2>1, <2>8 DEF ReadOn
  <2>11. y.parsed <= Len(s)
    <3>1. CASE N = 0
      BY <1>2, <2>10, <3>1
    <3>2. CASE N # 0
      <4>1. N \in 1 .. N
        BY <2>2, <3>2
      <4>2. x.parsed + N \in DOMAIN s
        BY <1>2, <4>1
      <4> QED BY <2>10, <4>2, LenProperties
    <3> QED BY <3>1, <3>2
  <2>12. \A K : Headed(<<>>, x.tracks, K) => Headed(y.out, y.tracks, K)
    BY <2>1, <2>9 DEF ReadOn
  <2>13. NoEnd(y.out)
    <3>1. NoEnd(z.out)
      BY <2>1 DEF ReadOn, NoEnd
    <3> QED BY <2>9, <3>1 DEF NoEnd, Quietly
  <2>14. Resting(y, s)
    <3>1. z.demux.dispatch \/ all > c \/ LastIsNone(y, s)
      BY <2>1, <2>4, <2>6, <2>8 DEF ReadOn, LastIsNone
    <3> QED BY <2>8, <3>1 DEF Resting
  <2>15. Live(s, x, data, start) => /\ Live(s, y, Rest(data, r), start + c)
                                    /\ Taken(x) + Len(data) = Taken(y) + Len(Rest(data, r))
    <3> SUFFICES ASSUME Live(s, x, data, start)
                 PROVE  /\ Live(s, y, Rest(data, r), start + c)
                        /\ Taken(x) + Len(data) = Taken(y) + Len(Rest(data, r))
      OBVIOUS
    <3>1. Taken(y) = Taken(x) + c
      <4>1. Taken(y) = 2 + 2 * y.parsed /\ Taken(x) + from = 2 + 2 * x.parsed
        BY <1>2, <2>10 DEF Taken
      <4>2. Taken(x) \in Nat
        BY LiveIs
      <4>3. PICK a \in Int, b \in Int, q \in Int, m \in Int :
              a = Taken(x) /\ b = from /\ q = x.parsed /\ m = N
        BY <1>2, <2>2, <4>2
      <4>4. a + b = 2 + 2 * q /\ y.parsed = q + m /\ c = b + 2 * m
        BY <2>2, <2>10, <4>1, <4>3, Zenon
      <4>6. 2 + 2 * (q + m) = a + (b + 2 * m)
        <5>1. a + b = 2 + 2 * q
          BY <4>4
        <5> QED BY <5>1
      <4>5. 2 + 2 * y.parsed = a + c
        BY <4>4, <4>6, Zenon
      <4> QED BY <4>1, <4>3, <4>5, Zenon
    <3>2. Rest(data, r) = SubSeq(data, c + 1, Len(data))
      BY DEF Rest, c
    <3>3. PICK rest, after : rest = Rest(data, r) /\ after = start + c
      OBVIOUS
    <3>4. rest = SubSeq(data, c + 1, Len(data)) /\ y \in Muxes /\ ~y.demux.first
      BY <2>8, <2>10, <3>2, <3>3
    <3>6. PICK k \in Nat : k = c
      BY <2>2
    <3>7. rest = SubSeq(data, k + 1, Len(data)) /\ k <= Len(data) /\ Taken(y) = Taken(x) + k
      BY <2>3, <3>1, <3>4, <3>6, Zenon
    <3>8. y \in Muxes /\ ~y.demux.first
      BY <3>4
    <3>5. StillLive(s, x, data, y, rest, after)
      BY <3>7, <3>8, RestIsLive, Zenon
    <3> QED BY <3>3, <3>5 DEF StillLive
  <2>16. Deaf(x, data) => /\ y.parsed = x.parsed /\ c = 0 /\ Rest(data, r) = data
                          /\ NoInits(y.out) /\ (AtRest(x) => y.tracks = x.tracks)
    <3> SUFFICES ASSUME Deaf(x, data)
                 PROVE  /\ y.parsed = x.parsed /\ c = 0 /\ Rest(data, r) = data
                        /\ NoInits(y.out) /\ (AtRest(x) => y.tracks = x.tracks)
      OBVIOUS
    <3>1. N = 0 /\ c = 0
      BY <1>2, <2>2
    <3>2. z = Begun(x)
      BY <2>1, <3>1 DEF ReadOn
    <3>3. z.tracks = x.tracks /\ z.out = <<>> /\ z.parsed = x.parsed /\ (AtRest(x) => AtRest(z))
      BY <3>2, BegunIs
    <3>4. NoInits(y.out)
      BY <2>9, <3>3 DEF Quietly, NoInits
    <3>5. Rest(data, r) = data
      BY <3>1, AllIsLeft DEF c
    <3> QED BY <2>8, <3>1, <3>3, <3>4, <3>5
  <2>17. Rest(data, r) \in Seq(Pieces)
    <3>1. SubSeq(data, c + 1, Len(data)) \in Seq(Pieces)
      BY <2>2, <2>3, PartIs
    <3> QED BY <3>1 DEF Rest, c
  <2> QED BY <2>2, <2>5, <2>8, <2>10, <2>11, <2>12, <2>13, <2>14, <2>15, <2>16, <2>17 DEF Chunked, c
<1> QED BY <1>3, <1>4, <1>5

-----------------------------------------------------------------------------
(* Marks: numbers that the elements of a sequence bear.  The tags of frames, *)
(* those of the frames of a segment, and numbers themselves are marks.       *)

\* The marks of a sequence, and that they rise from element to element.
Marks(w, g) == UNION {g[w[i]] : i \in DOMAIN w}
Below(A, B) == \A a \in A, b \in B : a < b
Rises(w, g) == \A i, j \in DOMAIN w : i < j => Below(g[w[i]], g[w[j]])

\* Where the elements of two sequences are once one is put behind the other.
Joins(u, v, w, n) ==
  /\ n \in Nat /\ DOMAIN u \subseteq Nat /\ DOMAIN v \subseteq Nat /\ DOMAIN w \subseteq Nat
  /\ \A i \in DOMAIN u : i \in DOMAIN w /\ w[i] = u[i] /\ i <= n
  /\ \A i \in DOMAIN v : i + n \in DOMAIN w /\ w[i + n] = v[i] /\ i > 0
  /\ \A i \in DOMAIN w : i \in DOMAIN u \/ (i - n \in DOMAIN v /\ i > n)

\* Of any concatenation.
LEMMA JoinsAre ==
  ASSUME NEW S, NEW u \in Seq(S), NEW v \in Seq(S), NEW w, w = u \o v
  PROVE  w \in Seq(S) /\ \E n : Joins(u, v, w, n)
<1>1. w \in Seq(S) /\ Len(w) = Len(u) + Len(v)
  BY ConcatProperties
<1>2. PICK a, b \in Nat : a = Len(u) /\ b = Len(v)
  BY LenProperties
<1>3. DOMAIN u = 1 .. a /\ DOMAIN v = 1 .. b /\ DOMAIN w = 1 .. a + b
  BY <1>1, <1>2, LenProperties
<1>4. \A i \in 1 .. a + b : w[i] = IF i <= a THEN u[i] ELSE v[i - a]
  BY <1>2, ConcatProperties
<1>5. \A i \in 1 .. a : i \in 1 .. a + b /\ i <= a
  OBVIOUS
<1>6. ASSUME NEW i \in 1 .. b PROVE i + a \in 1 .. a + b /\ w[i + a] = v[i] /\ i > 0
  <2>1. PICK j \in 1 .. a + b : j = i + a
    OBVIOUS
  <2>2. j - a = i /\ ~(j <= a) /\ i > 0
    BY <2>1
  <2> QED BY <1>4, <2>1, <2>2
<1>7. \A i \in 1 .. a + b : i \in 1 .. a \/ (i - a \in 1 .. b /\ i > a)
  OBVIOUS
<1>8. 1 .. a \subseteq Nat /\ 1 .. b \subseteq Nat /\ 1 .. a + b \subseteq Nat
  OBVIOUS
<1>9. Joins(u, v, w, a)
  BY <1>3, <1>4, <1>5, <1>6, <1>7, <1>8 DEF Joins
<1> QED BY <1>1, <1>9

\* What two sequences bear, and the order of it.
LEMMA MarksJoin ==
  ASSUME NEW u, NEW v, NEW w, NEW n, Joins(u, v, w, n), NEW g
  PROVE  /\ Marks(w, g) = Marks(u, g) \cup Marks(v, g)
         /\ Rises(w, g) <=> Rises(u, g) /\ Rises(v, g) /\ Below(Marks(u, g), Marks(v, g))
<1>1. /\ n \in Nat /\ DOMAIN u \subseteq Nat /\ DOMAIN v \subseteq Nat /\ DOMAIN w \subseteq Nat
      /\ \A i \in DOMAIN u : i \in DOMAIN w /\ w[i] = u[i] /\ i <= n
      /\ \A i \in DOMAIN v : i + n \in DOMAIN w /\ w[i + n] = v[i] /\ i > 0
      /\ \A i \in DOMAIN w : i \in DOMAIN u \/ (i - n \in DOMAIN v /\ i > n)
  BY DEF Joins
<1>2. ASSUME NEW i \in DOMAIN w, i \notin DOMAIN u
      PROVE  \E k \in DOMAIN v : i = k + n /\ w[i] = v[k]
  <2>1. PICK k \in DOMAIN v : k = i - n
    BY <1>1, <1>2
  <2>2. i = k + n
    BY <1>1, <2>1
  <2> QED BY <1>1, <2>2
<1>3. Marks(w, g) = Marks(u, g) \cup Marks(v, g)
  <2>1. ASSUME NEW m \in Marks(w, g) PROVE m \in Marks(u, g) \cup Marks(v, g)
    <3>1. PICK i \in DOMAIN w : m \in g[w[i]]
      BY DEF Marks
    <3>2. CASE i \in DOMAIN u
      BY <1>1, <3>1, <3>2 DEF Marks
    <3>3. CASE i \notin DOMAIN u
      <4>1. PICK k \in DOMAIN v : w[i] = v[k]
        BY <1>2, <3>3
      <4> QED BY <3>1, <4>1 DEF Marks
    <3> QED BY <3>2, <3>3
  <2>2. ASSUME NEW m \in Marks(u, g) PROVE m \in Marks(w, g)
    <3>1. PICK i \in DOMAIN u : m \in g[u[i]]
      BY DEF Marks
    <3> QED BY <1>1, <3>1 DEF Marks
  <2>3. ASSUME NEW m \in Marks(v, g) PROVE m \in Marks(w, g)
    <3>1. PICK i \in DOMAIN v : m \in g[v[i]]
      BY DEF Marks
    <3>2. i + n \in DOMAIN w /\ w[i + n] = v[i]
      BY <1>1
    <3> QED BY <3>1, <3>2 DEF Marks
  <2> QED BY <2>1, <2>2, <2>3
<1>4. ASSUME Rises(w, g) PROVE Rises(u, g) /\ Rises(v, g) /\ Below(Marks(u, g), Marks(v, g))
  <2>1. \A i, j \in DOMAIN w : i < j => Below(g[w[i]], g[w[j]])
    BY <1>4 DEF Rises
  <2>2. Rises(u, g)
    BY <1>1, <2>1 DEF Rises
  <2>3. ASSUME NEW i \in DOMAIN v, NEW j \in DOMAIN v, i < j PROVE Below(g[v[i]], g[v[j]])
    <3>1. PICK a, b : a = i + n /\ b = j + n
      OBVIOUS
    <3>2. a \in DOMAIN w /\ b \in DOMAIN w /\ a < b /\ w[a] = v[i] /\ w[b] = v[j]
      BY <1>1, <2>3, <3>1
    <3> QED BY <2>1, <3>2
  <2>4. ASSUME NEW a \in Marks(u, g), NEW b \in Marks(v, g) PROVE a < b
    <3>1. PICK i \in DOMAIN u : a \in g[u[i]]
      BY DEF Marks
    <3>2. PICK j \in DOMAIN v : b \in g[v[j]]
      BY DEF Marks
    <3>3. PICK k : k = j + n
      OBVIOUS
    <3>4. i \in DOMAIN w /\ k \in DOMAIN w /\ i < k /\ w[i] = u[i] /\ w[k] = v[j]
      BY <1>1, <3>3
    <3>5. Below(g[u[i]], g[v[j]])
      BY <2>1, <3>4
    <3> QED BY <3>1, <3>2, <3>5 DEF Below
  <2> QED BY <2>2, <2>3, <2>4 DEF Rises, Below
<1>5. ASSUME Rises(u, g), Rises(v, g), Below(Marks(u, g), Marks(v, g)),
             NEW i \in DOMAIN w, NEW j \in DOMAIN w, i < j
      PROVE  Below(g[w[i]], g[w[j]])
  <2>1. CASE j \in DOMAIN u
    <3>1. i \in DOMAIN u
      BY <1>1, <1>5, <2>1
    <3> QED BY <1>1, <1>5, <2>1, <3>1 DEF Rises
  <2>2. CASE j \notin DOMAIN u
    <3>1. PICK b \in DOMAIN v : j = b + n /\ w[j] = v[b]
      BY <1>2, <2>2
    <3>2. CASE i \in DOMAIN u
      <4>1. w[i] = u[i] /\ g[u[i]] \subseteq Marks(u, g) /\ g[v[b]] \subseteq Marks(v, g)
        BY <1>1, <3>2 DEF Marks
      <4> QED BY <1>5, <3>1, <4>1 DEF Below
    <3>3. CASE i \notin DOMAIN u
      <4>1. PICK a \in DOMAIN v : i = a + n /\ w[i] = v[a]
        BY <1>2, <3>3
      <4>2. a < b
        BY <1>1, <1>5, <3>1, <4>1
      <4> QED BY <1>5, <3>1, <4>1, <4>2 DEF Rises
    <3> QED BY <3>2, <3>3
  <2> QED BY <2>1, <2>2
<1> QED BY <1>3, <1>4, <1>5 DEF Rises

\* The marks of a concatenation.
LEMMA MarksCat ==
  ASSUME NEW S, NEW u \in Seq(S), NEW v \in Seq(S), NEW g
  PROVE  /\ Marks(u \o v, g) = Marks(u, g) \cup Marks(v, g)
         /\ Rises(u \o v, g) <=> Rises(u, g) /\ Rises(v, g) /\ Below(Marks(u, g), Marks(v, g))
<1>1. PICK w, n : w = u \o v /\ Joins(u, v, w, n)
  BY JoinsAre
<1> QED BY <1>1, MarksJoin

\* The marks of nothing, and of one element.
LEMMA MarksOne ==
  ASSUME NEW e, NEW g
  PROVE  Marks(<<>>, g) = {} /\ Rises(<<>>, g) /\ Marks(<<e>>, g) = g[e] /\ Rises(<<e>>, g)
<1>1. DOMAIN <<>> = {} /\ DOMAIN <<e>> = {1} /\ <<e>>[1] = e
  OBVIOUS
<1>2. \A i, j \in {1} : ~(i < j)
  OBVIOUS
<1> QED BY <1>1, <1>2 DEF Marks, Rises

\* The marks of sequences put one behind the other.
AllMarks(W, g) == UNION {Marks(W[i], g) : i \in DOMAIN W}
AllRise(W, g) ==
  \A i \in DOMAIN W : Rises(W[i], g) /\ \A j \in DOMAIN W : i < j => Below(Marks(W[i], g), Marks(W[j], g))

\* One sequence more.
LEMMA FlattenStep ==
  ASSUME NEW S, NEW g, NEW n \in Nat, NEW W \in Seq(Seq(S)), Len(W) = n,
         NEW V \in Seq(Seq(S)), Len(V) = n + 1, \A i \in 1 .. n : V[i] = W[i],
         Marks(FlattenSeq(W), g) = AllMarks(W, g), AllRise(W, g) => Rises(FlattenSeq(W), g)
  PROVE  /\ Marks(FlattenSeq(V), g) = AllMarks(V, g)
         /\ AllRise(V, g) => Rises(FlattenSeq(V), g)
<1>1. PICK u, v : u = FlattenSeq(W) /\ v = V[n + 1] /\ u \in Seq(S) /\ FlattenSeq(V) = u \o v
  <2>1. FlattenSeq(W) \in Seq(S) /\ FlattenSeq(V) = FlattenSeq(W) \o V[n + 1]
    BY FlattenMore
  <2> QED BY <2>1
<1>2. v \in Seq(S) /\ n + 1 \in 1 .. n + 1
  BY <1>1, ElementOfSeq
<1>3. /\ Marks(FlattenSeq(V), g) = Marks(u, g) \cup Marks(v, g)
      /\ Rises(FlattenSeq(V), g) <=> Rises(u, g) /\ Rises(v, g) /\ Below(Marks(u, g), Marks(v, g))
  BY <1>1, <1>2, MarksCat
<1>4. PICK k : k = n + 1 /\ DOMAIN V = DOMAIN W \cup {k} /\ k \notin DOMAIN W
               /\ \A i \in DOMAIN W : V[i] = W[i] /\ i < k
  <2>1. DOMAIN W = 1 .. n /\ DOMAIN V = 1 .. n + 1
    BY LenProperties
  <2>2. 1 .. n + 1 = 1 .. n \cup {n + 1} /\ n + 1 \notin 1 .. n /\ \A i \in 1 .. n : i < n + 1
    OBVIOUS
  <2> QED BY <2>1, <2>2
<1>5. AllMarks(V, g) = AllMarks(W, g) \cup Marks(v, g)
  <2>1. \A i \in DOMAIN V : i \in DOMAIN W \/ i = k
    BY <1>4
  <2> QED BY <1>1, <1>4, <2>1 DEF AllMarks
<1>6. ASSUME AllRise(V, g) PROVE AllRise(W, g) /\ Rises(v, g) /\ Below(AllMarks(W, g), Marks(v, g))
  <2>1. \A i \in DOMAIN W : i \in DOMAIN V /\ V[i] = W[i] /\ i < k
    BY <1>4
  <2>2. AllRise(W, g)
    BY <1>6, <2>1 DEF AllRise
  <2>3. k \in DOMAIN V /\ V[k] = v
    BY <1>1, <1>4
  <2>4. \A i \in DOMAIN W : Below(Marks(W[i], g), Marks(v, g))
    BY <1>6, <2>1, <2>3 DEF AllRise
  <2> QED BY <1>6, <2>2, <2>3, <2>4 DEF AllRise, AllMarks, Below
<1> QED BY <1>1, <1>3, <1>5, <1>6

\* All of them.
LEMMA MarksFlatten ==
  ASSUME NEW S, NEW g, NEW W \in Seq(Seq(S))
  PROVE  /\ Marks(FlattenSeq(W), g) = AllMarks(W, g)
         /\ AllRise(W, g) => Rises(FlattenSeq(W), g)
<1> DEFINE T == {n \in Nat : \A V \in Seq(Seq(S)) : Len(V) = n =>
                    /\ Marks(FlattenSeq(V), g) = AllMarks(V, g)
                    /\ AllRise(V, g) => Rises(FlattenSeq(V), g)}
<1>1. 0 \in T
  <2> SUFFICES ASSUME NEW V \in Seq(Seq(S)), Len(V) = 0
               PROVE  /\ Marks(FlattenSeq(V), g) = AllMarks(V, g)
                      /\ AllRise(V, g) => Rises(FlattenSeq(V), g)
    OBVIOUS
  <2>1. V = <<>> /\ FlattenSeq(V) = <<>> /\ DOMAIN V = {}
    BY EmptySeq, FlattenEmpty
  <2>2. AllMarks(V, g) = {}
    BY <2>1 DEF AllMarks
  <2> QED BY <2>1, <2>2, MarksOne
<1>2. ASSUME NEW n \in Nat, n \in T PROVE n + 1 \in T
  <2> SUFFICES ASSUME NEW V \in Seq(Seq(S)), Len(V) = n + 1
               PROVE  /\ Marks(FlattenSeq(V), g) = AllMarks(V, g)
                      /\ AllRise(V, g) => Rises(FlattenSeq(V), g)
    OBVIOUS
  <2>1. PICK U : U = SubSeq(V, 1, n)
    OBVIOUS
  <2>2. U \in Seq(Seq(S)) /\ Len(U) = n /\ \A i \in 1 .. n : U[i] = V[i]
    <3>1. \A i \in 1 .. n : i \in 1 .. Len(V)
      OBVIOUS
    <3>2. \A i \in 1 .. n : V[i] \in Seq(S)
      BY <3>1, ElementOfSeq
    <3>3. n = 0 \/ 1 <= n
      OBVIOUS
    <3>4. U \in Seq(Seq(S)) /\ Len(U) = n
      BY <2>1, <3>2, <3>3, SubSeqProperties
    <3>5. \A i \in 1 .. n : U[i] = V[i]
      BY <2>1, <3>4
    <3> QED BY <3>4, <3>5
  <2>3. Marks(FlattenSeq(U), g) = AllMarks(U, g) /\ (AllRise(U, g) => Rises(FlattenSeq(U), g))
    BY <1>2, <2>2
  <2> HIDE DEF T
  <2> QED BY <2>2, <2>3, FlattenStep
<1>3. Len(W) \in T
  <2>1. Nat \subseteq T
    <3> HIDE DEF T
    <3> QED BY <1>1, <1>2, SetInduction
  <2> QED BY <2>1, LenProperties
<1> QED BY <1>3

-----------------------------------------------------------------------------
(* The frames that segments bear.                                            *)

\* The tags of frames as the remuxer, a segment and a SourceBuffer have them;
\* silence has none.
OfFrame == [e \in Frames |-> {e.tag} \ {0}]
OfItem == [e \in Items |-> {e.tag} \ {0}]
OfShown == [e \in Shown |-> {e.tag} \ {0}]
OfEvent(t) == [e \in Events |-> IF e.ev = "media" /\ e.type = t THEN Marks(e.run, OfItem) ELSE {}]

\* Segments whose frames rise, each in itself and from one to the next.
Straight(w, t) == \A i \in DOMAIN w : w[i].ev = "media" /\ w[i].type = t => Rises(w[i].run, OfItem)
Tidy(w, t) == Rises(w, OfEvent(t)) /\ Straight(w, t)

\* What is behind what is tidy.
LEMMA TidyCat ==
  ASSUME NEW t, NEW u \in Seq(Events), NEW v \in Seq(Events)
  PROVE  /\ Marks(u \o v, OfEvent(t)) = Marks(u, OfEvent(t)) \cup Marks(v, OfEvent(t))
         /\ Tidy(u \o v, t) <=> /\ Tidy(u, t) /\ Tidy(v, t)
                                /\ Below(Marks(u, OfEvent(t)), Marks(v, OfEvent(t)))
<1>1. PICK w, n : w = u \o v /\ Joins(u, v, w, n)
  BY JoinsAre
<1>2. PICK g : g = OfEvent(t)
  OBVIOUS
<1>3. /\ Marks(w, g) = Marks(u, g) \cup Marks(v, g)
      /\ Rises(w, g) <=> Rises(u, g) /\ Rises(v, g) /\ Below(Marks(u, g), Marks(v, g))
  BY <1>1, MarksJoin
<1>4. Straight(w, t) <=> Straight(u, t) /\ Straight(v, t)
  <2>1. /\ n \in Nat /\ DOMAIN w \subseteq Nat
        /\ \A i \in DOMAIN u : i \in DOMAIN w /\ w[i] = u[i]
        /\ \A i \in DOMAIN v : i + n \in DOMAIN w /\ w[i + n] = v[i]
        /\ \A i \in DOMAIN w : i \in DOMAIN u \/ i - n \in DOMAIN v
    BY <1>1 DEF Joins
  <2>2. \A i \in DOMAIN w : i \in DOMAIN u \/ \E k \in DOMAIN v : w[i] = v[k]
    <3> SUFFICES ASSUME NEW i \in DOMAIN w, i \notin DOMAIN u PROVE \E k \in DOMAIN v : w[i] = v[k]
      OBVIOUS
    <3>1. PICK k \in DOMAIN v : k = i - n
      BY <2>1
    <3>2. i = k + n
      BY <2>1, <3>1
    <3> QED BY <2>1, <3>2
  <2>3. \A k \in DOMAIN v : \E i \in DOMAIN w : w[i] = v[k]
    BY <2>1
  <2>4. \A i \in DOMAIN u : i \in DOMAIN w /\ w[i] = u[i]
    BY <2>1
  <2> QED BY <2>2, <2>3, <2>4 DEF Straight
<1> QED BY <1>1, <1>2, <1>3, <1>4 DEF Tidy

\* Nothing, and one event alone.
LEMMA TidyOne ==
  ASSUME NEW t, NEW e \in Events
  PROVE  /\ Marks(<<>>, OfEvent(t)) = {} /\ Tidy(<<>>, t)
         /\ Marks(<<e>>, OfEvent(t)) = OfEvent(t)[e]
         /\ Tidy(<<e>>, t) <=> (e.ev = "media" /\ e.type = t => Rises(e.run, OfItem))
<1>1. PICK g : g = OfEvent(t)
  OBVIOUS
<1>2. Marks(<<>>, g) = {} /\ Rises(<<>>, g) /\ Marks(<<e>>, g) = g[e] /\ Rises(<<e>>, g)
  BY MarksOne
<1>3. DOMAIN <<>> = {} /\ DOMAIN <<e>> = {1} /\ <<e>>[1] = e
  OBVIOUS
<1> QED BY <1>1, <1>2, <1>3 DEF Tidy, Straight

\* An event that is no media of the type bears nothing.
LEMMA BearsNothing ==
  ASSUME NEW t, NEW e \in Events, ~(e.ev = "media" /\ e.type = t)
  PROVE  OfEvent(t)[e] = {}
BY DEF OfEvent

\* Silence has no tags.
LEMMA SilentIs ==
  ASSUME NEW duration \in Int, NEW ref \in Nat \ {0}, duration - 1 \in Nat, NEW w, w = SilentFrames(duration, ref)
  PROVE  w \in Seq(Items) /\ Marks(w, OfItem) = {} /\ Rises(w, OfItem)
<1> DEFINE n == (duration - 1) \div ref
           silence(j) == [tag |-> 0, cfg |-> NoMeta, dur |-> IF j < n THEN ref ELSE duration - n * ref]
<1>1. n \in Nat
  BY QuotientNat
<1>2. n * ref \in Int /\ NoMeta \in Nat
  <2> HIDE DEF n
  <2> QED BY <1>1 DEF NoMeta
<1>3. \A j \in 1 .. n : silence(j) \in Items /\ silence(j).tag = 0
  <2> HIDE DEF n
  <2> QED BY <1>1, <1>2 DEF Items
<1>4. w = [j \in 1 .. n |-> silence(j)]
  BY DEF SilentFrames
<1> HIDE DEF n, silence
<1>5. w \in Seq(Items) /\ \A i \in DOMAIN w : w[i] \in Items /\ w[i].tag = 0
  BY <1>1, <1>3, <1>4
<1>6. \A i \in DOMAIN w : OfItem[w[i]] = {}
  BY <1>5 DEF OfItem
<1> QED BY <1>5, <1>6 DEF Marks, Rises, Below

\* A frame is borne once, whatever silence is put behind it.
LEMMA FilledUpMarks ==
  ASSUME NEW t \in Types, NEW sample \in Frames, NEW duration \in Int, NEW w, w = FilledUp(t, sample, duration)
  PROVE  Marks(w, OfItem) = OfFrame[sample] /\ Rises(w, OfItem)
<1>1. Ref[t] \in Nat \ {0}
  BY RefAssumption
<1> DEFINE frame(len) == [tag |-> sample.tag, cfg |-> sample.cfg, dur |-> len]
<1>2. \A len \in Int : frame(len) \in Items /\ frame(len).tag = sample.tag
  BY DEF Frames, Items
<1>3. \A len \in Int : OfItem[frame(len)] = OfFrame[sample]
  <2> HIDE DEF frame
  <2> QED BY <1>2 DEF OfItem, OfFrame
<1>4. CASE NeedsSilence(t, duration)
  <2>1. duration - 1 \in Nat
    BY <1>1, <1>4 DEF NeedsSilence
  <2>2. PICK a, v : a = frame(Ref[t]) /\ v = SilentFrames(duration, Ref[t])
    OBVIOUS
  <2>3. w = <<a>> \o v
    BY <1>4, <2>2 DEF FilledUp
  <2>4. a \in Items /\ OfItem[a] = OfFrame[sample]
    <3> HIDE DEF frame
    <3> QED BY <1>1, <1>2, <1>3, <2>2
  <2> HIDE DEF frame
  <2>5. v \in Seq(Items) /\ Marks(v, OfItem) = {} /\ Rises(v, OfItem)
    BY <1>1, <2>1, <2>2, SilentIs
  <2>6. PICK b : b = <<a>> /\ b \in Seq(Items)
    <3>1. <<a>> \in Seq(Items)
      BY <2>4
    <3> QED BY <3>1, Zenon
  <2>7. /\ Marks(w, OfItem) = Marks(b, OfItem) \cup Marks(v, OfItem)
        /\ Rises(w, OfItem) <=> Rises(b, OfItem) /\ Rises(v, OfItem) /\ Below(Marks(b, OfItem), Marks(v, OfItem))
    <3>1. w = b \o v
      BY <2>3, <2>6
    <3>2. PICK S : S = Items
      OBVIOUS
    <3>3. b \in Seq(S) /\ v \in Seq(S)
      BY <2>5, <2>6, <3>2
    <3> QED BY <3>1, <3>3, MarksCat
  <2>8. Marks(b, OfItem) = OfItem[a] /\ Rises(b, OfItem)
    BY <2>6, MarksOne
  <2> QED BY <2>4, <2>5, <2>7, <2>8 DEF Below
<1>5. CASE ~NeedsSilence(t, duration)
  <2>1. PICK a : a = frame(duration)
    OBVIOUS
  <2>2. w = <<a>>
    BY <1>5, <2>1 DEF FilledUp
  <2>3. OfItem[a] = OfFrame[sample]
    <3> HIDE DEF frame
    <3> QED BY <1>3, <2>1
  <2> QED BY <2>2, <2>3, MarksOne
<1> QED BY <1>4, <1>5

\* A segment bears the frames of its batch.
LEMMA SegmentBears ==
  ASSUME NEW t \in Types, NEW b \in Batches, b.samples # <<>>, NEW k \in Tracks, NEW base \in Int,
         NEW seg, seg = MediaSegment(t, b, k, base)
  PROVE  /\ seg \in Media /\ seg.type = t /\ Marks(seg.run, OfItem) = Marks(b.samples, OfFrame)
         /\ Rises(b.samples, OfFrame) => Rises(seg.run, OfItem)
<1> DEFINE n == Len(b.samples)
           Piece(i) == Mp4Samples(t, b, i, base)
           W == [i \in 1 .. n |-> Piece(i)]
<1>1. seg \in Media /\ seg.type = t /\ seg.run = FlattenSeq(W) /\ W \in Seq(Seq(Items))
  BY MediaSegmentIs
<1>2. n \in Nat /\ DOMAIN b.samples = 1 .. n /\ \A i \in 1 .. n : b.samples[i] \in Frames
  BY LenProperties, ElementOfSeq DEF Batches
<1>3. ASSUME NEW i \in 1 .. n PROVE Marks(Piece(i), OfItem) = OfFrame[b.samples[i]] /\ Rises(Piece(i), OfItem)
  <2>1. Duration(t, b, i, base) \in Int /\ b.samples[i] \in Frames
    BY <1>2, DurationInt
  <2>2. Piece(i) = FilledUp(t, b.samples[i], Duration(t, b, i, base))
    BY DEF Mp4Samples
  <2> HIDE DEF Piece
  <2> QED BY <2>1, <2>2, FilledUpMarks
<1> HIDE DEF Piece, n
<1>4. DOMAIN W = 1 .. n /\ \A i \in 1 .. n : W[i] = Piece(i)
  OBVIOUS
<1> HIDE DEF W
<1>5. Marks(seg.run, OfItem) = AllMarks(W, OfItem) /\ (AllRise(W, OfItem) => Rises(seg.run, OfItem))
  BY <1>1, MarksFlatten
<1>6. AllMarks(W, OfItem) = Marks(b.samples, OfFrame)
  BY <1>2, <1>3, <1>4 DEF AllMarks, Marks
<1>7. Rises(b.samples, OfFrame) => AllRise(W, OfItem)
  BY <1>2, <1>3, <1>4 DEF AllRise, Rises
<1> QED BY <1>1, <1>5, <1>6, <1>7

-----------------------------------------------------------------------------
(* The frames in demuxer and remuxer.                                        *)

\* What waits of a type, and whether it rises: the segments emitted, the frame
\* that is held back and the frames that are queued.
Backlog(k) == k.stash \o k.queue
MuxTags(x, t) == Marks(x.out, OfEvent(t)) \cup Marks(Backlog(x.tracks[t]), OfFrame)
MuxInOrder(x, t) ==
  /\ Tidy(x.out, t) /\ Rises(Backlog(x.tracks[t]), OfFrame)
  /\ Below(Marks(x.out, OfEvent(t)), Marks(Backlog(x.tracks[t]), OfFrame))

\* Frames change their places, in demuxer and remuxer, and not their order.
Ships(x, y) ==
  \A t \in Types : MuxTags(y, t) = MuxTags(x, t) /\ (MuxInOrder(x, t) => MuxInOrder(y, t))

\* A step and the next.
LEMMA ShipsTwice ==
  ASSUME NEW x, NEW y, NEW z, Ships(x, y), Ships(y, z)
  PROVE  Ships(x, z)
BY DEF Ships

\* What no frame is concerned with.
LEMMA ShipsSame ==
  ASSUME NEW x, NEW y, y.out = x.out, \A t \in Types : Backlog(y.tracks[t]) = Backlog(x.tracks[t])
  PROVE  Ships(x, y)
BY DEF Ships, MuxTags, MuxInOrder

\* An event that is emitted, and what becomes of its type's frames.
LEMMA EmittedShips ==
  ASSUME NEW x \in Muxes, NEW y, NEW e \in Events, y.out = Append(x.out, e), NEW t, NEW B, NEW A,
         B = Marks(Backlog(x.tracks[t]), OfFrame), A = Marks(Backlog(y.tracks[t]), OfFrame),
         B = OfEvent(t)[e] \cup A,
         Rises(Backlog(x.tracks[t]), OfFrame) =>
            /\ Rises(Backlog(y.tracks[t]), OfFrame) /\ Below(OfEvent(t)[e], A)
            /\ e.ev = "media" /\ e.type = t => Rises(e.run, OfItem)
  PROVE  MuxTags(y, t) = MuxTags(x, t) /\ (MuxInOrder(x, t) => MuxInOrder(y, t))
<1>1. PICK u, v : u = x.out /\ v = <<e>> /\ u \in Seq(Events) /\ v \in Seq(Events)
  <2>1. x.out \in Seq(Events) /\ <<e>> \in Seq(Events)
    BY DEF Muxes
  <2> QED BY <2>1, Zenon
<1>2. y.out = u \o v
  BY <1>1, AppendIsConcat
<1>3. /\ Marks(y.out, OfEvent(t)) = Marks(u, OfEvent(t)) \cup Marks(v, OfEvent(t))
      /\ Tidy(y.out, t) <=> Tidy(u, t) /\ Tidy(v, t) /\ Below(Marks(u, OfEvent(t)), Marks(v, OfEvent(t)))
  <2>1. u \in Seq(Events) /\ v \in Seq(Events)
    BY <1>1
  <2>2. /\ Marks(u \o v, OfEvent(t)) = Marks(u, OfEvent(t)) \cup Marks(v, OfEvent(t))
        /\ Tidy(u \o v, t) <=> Tidy(u, t) /\ Tidy(v, t) /\ Below(Marks(u, OfEvent(t)), Marks(v, OfEvent(t)))
    BY <2>1, TidyCat
  <2> QED BY <1>2, <2>2
<1>4. /\ Marks(v, OfEvent(t)) = OfEvent(t)[e]
      /\ Tidy(v, t) <=> (e.ev = "media" /\ e.type = t => Rises(e.run, OfItem))
  BY <1>1, TidyOne
<1>5. MuxTags(y, t) = MuxTags(x, t)
  BY <1>1, <1>3, <1>4 DEF MuxTags
<1>6. ASSUME MuxInOrder(x, t) PROVE MuxInOrder(y, t)
  <2>1. Tidy(u, t) /\ Rises(Backlog(x.tracks[t]), OfFrame) /\ Below(Marks(u, OfEvent(t)), B)
    BY <1>1, <1>6 DEF MuxInOrder
  <2>2. Below(Marks(u, OfEvent(t)), OfEvent(t)[e]) /\ Below(Marks(u, OfEvent(t)), A)
    BY <2>1 DEF Below
  <2>3. Below(Marks(y.out, OfEvent(t)), A)
    BY <1>3, <1>4, <2>1, <2>2 DEF Below
  <2> QED BY <1>3, <1>4, <2>1, <2>2, <2>3 DEF MuxInOrder
<1> QED BY <1>5, <1>6

\* A batch is what was held back and what was queued, in their order.
Splits(w, b) ==
  /\ b \in Batches /\ b.samples # <<>>
  /\ Marks(w, OfFrame) = Marks(b.samples, OfFrame) \cup Marks(b.held, OfFrame)
  /\ Rises(w, OfFrame) <=> /\ Rises(b.samples, OfFrame) /\ Rises(b.held, OfFrame)
                           /\ Below(Marks(b.samples, OfFrame), Marks(b.held, OfFrame))

\* Of any batch.
LEMMA BatchBears ==
  ASSUME NEW k \in Tracks, NEW queue \in Seq(Frames), queue # <<>>, NEW b, b = Batch(k, queue), NEW w, w = k.stash \o queue
  PROVE  Splits(w, b)
<1>1. /\ b.samples \in Seq(Frames) /\ b.held \in Seq(Frames) /\ b.samples # <<>>
      /\ w = b.samples \o b.held
  BY BatchIs
<1>2. b = [samples |-> b.samples, held |-> b.held]
  BY DEF Batch
<1>3. b \in Batches
  BY <1>1, <1>2 DEF Batches
<1>4. /\ Marks(w, OfFrame) = Marks(b.samples, OfFrame) \cup Marks(b.held, OfFrame)
      /\ Rises(w, OfFrame) <=> /\ Rises(b.samples, OfFrame) /\ Rises(b.held, OfFrame)
                               /\ Below(Marks(b.samples, OfFrame), Marks(b.held, OfFrame))
  BY <1>1, MarksCat
<1> QED BY <1>1, <1>3, <1>4 DEF Splits

\* One track's batch has become a segment.
LEMMA SegmentShips ==
  ASSUME NEW x \in Muxes, NEW t \in Types, NEW seg \in Media, seg.type = t, NEW y, y.out = Append(x.out, seg),
         \A u \in Types : u # t => y.tracks[u] = x.tracks[u],
         NEW A, A = Marks(Backlog(y.tracks[t]), OfFrame),
         Marks(Backlog(x.tracks[t]), OfFrame) = Marks(seg.run, OfItem) \cup A,
         Rises(Backlog(x.tracks[t]), OfFrame) =>
            Rises(Backlog(y.tracks[t]), OfFrame) /\ Below(Marks(seg.run, OfItem), A) /\ Rises(seg.run, OfItem)
  PROVE  Ships(x, y)
<1>1. seg \in Events /\ seg.ev = "media"
  BY DEF Events, Segments, Media
<1>2. MuxTags(y, t) = MuxTags(x, t) /\ (MuxInOrder(x, t) => MuxInOrder(y, t))
  <2>1. OfEvent(t)[seg] = Marks(seg.run, OfItem)
    BY <1>1 DEF OfEvent
  <2>2. PICK B : B = Marks(Backlog(x.tracks[t]), OfFrame)
    OBVIOUS
  <2> QED BY <1>1, <2>1, <2>2, EmittedShips
<1>3. ASSUME NEW u \in Types, u # t
      PROVE  MuxTags(y, u) = MuxTags(x, u) /\ (MuxInOrder(x, u) => MuxInOrder(y, u))
  <2>1. OfEvent(u)[seg] = {}
    BY <1>1, <1>3, BearsNothing
  <2>2. PICK B : B = Marks(Backlog(x.tracks[u]), OfFrame)
    OBVIOUS
  <2>3. Below({}, B)
    BY DEF Below
  <2>4. Backlog(y.tracks[u]) = Backlog(x.tracks[u])
    BY <1>3
  <2>5. B = Marks(Backlog(y.tracks[u]), OfFrame) /\ B = OfEvent(u)[seg] \cup B
    BY <2>1, <2>2, <2>4
  <2>6. Rises(Backlog(x.tracks[u]), OfFrame) =>
           /\ Rises(Backlog(y.tracks[u]), OfFrame) /\ Below(OfEvent(u)[seg], B)
           /\ seg.ev = "media" /\ seg.type = u => Rises(seg.run, OfItem)
    BY <1>3, <2>1, <2>3, <2>4
  <2> QED BY <1>1, <2>2, <2>5, <2>6, EmittedShips
<1> QED BY <1>2, <1>3 DEF Ships

\* What the demuxer has queued for a track.
LEMMA RemuxQueueShips ==
  ASSUME NEW x \in Muxes, NEW t \in Types, NEW y, y = RemuxQueue(x, t)
  PROVE  Ships(x, y)
<1>0. PICK queue : queue = x.tracks[t].queue
  OBVIOUS
<1>1. PICK force \in BOOLEAN : force = FALSE
  BY Zenon
<1>2. ~force
  BY <1>1, Zenon
<1>3. y = RemuxTrack(x, t, queue, force)
  BY <1>0, <1>1, Zenon DEF RemuxQueue
<1>4. queue \in Seq(Frames) /\ x.tracks[t] \in Tracks /\ x.base \in Int
  BY <1>0 DEF Muxes, Tracks
<1>5. CASE NothingToRemux(x.tracks[t], queue, force)
  <2>1. y = x
    BY <1>3, <1>5 DEF RemuxTrack
  <2> QED BY <2>1, ShipsSame
<1>6. CASE ~NothingToRemux(x.tracks[t], queue, force)
  <2>1. PICK k, b, seg : /\ k = x.tracks[t] /\ b = Batch(k, queue) /\ seg = SegmentOf(x, t, queue)
                         /\ seg = MediaSegment(t, b, k, x.base)
    BY DEF SegmentOf
  <2>2. /\ \A u \in Types : u # t => y.tracks[u] = x.tracks[u]
        /\ y.tracks[t].stash = b.held /\ y.out = Append(x.out, seg)
    <3>1. /\ \A u \in Types : u # t => y.tracks[u] = x.tracks[u]
          /\ y.tracks[t].stash = Batch(x.tracks[t], queue).held /\ y.out = Append(x.out, SegmentOf(x, t, queue))
      BY <1>3, <1>4, <1>6, RemuxTrackIs
    <3> QED BY <2>1, <3>1
  <2>3. y.tracks[t].queue = <<>>
    <3>1. y.tracks[t].queue = IF force THEN x.tracks[t].queue ELSE <<>>
      BY <1>3, <1>4, <1>6, RemuxTrackIs
    <3> QED BY <1>2, <3>1, Zenon
  <2>4. queue # <<>>
    BY <1>6, NothingIs, Zenon
  <2>5. PICK w : w = k.stash \o queue
    OBVIOUS
  <2>6. Splits(w, b)
    <3>1. k \in Tracks /\ queue \in Seq(Frames) /\ b = Batch(k, queue)
      BY <1>4, <2>1
    <3> QED BY <2>4, <2>5, <3>1, BatchBears
  <2>7. /\ seg \in Media /\ seg.type = t /\ Marks(seg.run, OfItem) = Marks(b.samples, OfFrame)
        /\ Rises(b.samples, OfFrame) => Rises(seg.run, OfItem)
    <3>1. b \in Batches /\ b.samples # <<>> /\ k \in Tracks
      BY <1>4, <2>1, <2>6 DEF Splits
    <3> QED BY <1>4, <2>1, <3>1, SegmentBears
  <2>8. Backlog(x.tracks[t]) = w
    BY <1>0, <2>1, <2>5 DEF Backlog
  <2>9. Backlog(y.tracks[t]) = b.held
    <3>1. b.held \in Seq(Frames)
      BY <2>6 DEF Splits, Batches
    <3> QED BY <2>2, <2>3, <3>1, ConcatEmptySeq DEF Backlog
  <2>10. PICK A : A = Marks(b.held, OfFrame)
    OBVIOUS
  <2>11. Marks(Backlog(x.tracks[t]), OfFrame) = Marks(seg.run, OfItem) \cup A
    BY <2>6, <2>7, <2>8, <2>10 DEF Splits
  <2>12. Rises(Backlog(x.tracks[t]), OfFrame) =>
            Rises(Backlog(y.tracks[t]), OfFrame) /\ Below(Marks(seg.run, OfItem), A) /\ Rises(seg.run, OfItem)
    BY <2>6, <2>7, <2>8, <2>9, <2>10 DEF Splits
  <2>13. A = Marks(Backlog(y.tracks[t]), OfFrame) /\ \A u \in Types : u # t => y.tracks[u] = x.tracks[u]
    BY <2>2, <2>9, <2>10
  <2> QED BY <2>2, <2>7, <2>11, <2>12, <2>13, SegmentShips
<1> QED BY <1>5, <1>6

\* Both tracks.
LEMMA RemuxShips ==
  ASSUME NEW x \in Muxes, HasFrames(x), NEW y, y = Remux(x)
  PROVE  Ships(x, y)
<1>1. PICK base \in Int : CalculateDtsBase(x) = [x EXCEPT !.base = base]
  BY BaseIs
<1>2. PICK a, b : a = [x EXCEPT !.base = base] /\ b = RemuxQueue(a, "video")
  OBVIOUS
<1>3. a \in Muxes /\ a.tracks = x.tracks /\ a.out = x.out
  BY <1>2 DEF Muxes
<1>4. y = RemuxQueue(b, "audio")
  BY <1>1, <1>2 DEF Remux
<1>5. b \in Muxes
  <2>1. Passed(a, b)
    BY <1>2, <1>3, RemuxQueueIs, TypesAre
  <2> QED BY <2>1 DEF Passed
<1>6. Ships(x, a)
  BY <1>3, ShipsSame
<1>7. Ships(a, b)
  BY <1>2, <1>3, RemuxQueueShips, TypesAre
<1>8. Ships(b, y)
  BY <1>4, <1>5, RemuxQueueShips, TypesAre
<1>9. Ships(x, b)
  BY <1>6, <1>7, ShipsTwice
<1> QED BY <1>8, <1>9, ShipsTwice

\* At the end of the stream a track's frame that is held back goes out; what is
\* queued stays behind it.
LEMMA FlushTrackShips ==
  ASSUME NEW x \in Muxes, NEW t \in Types, Held(x.tracks[t]), NEW force \in BOOLEAN,
         x.tracks[t].stash = <<>> \/ ~NothingToRemux(x.tracks[t], x.tracks[t].stash, force),
         NEW y, y = RemuxTrack(Unstashed(x, t), t, x.tracks[t].stash, force),
         y.tracks[t].queue = x.tracks[t].queue
  PROVE  Ships(x, y)
<1>1. PICK a, stash, queue : a = Unstashed(x, t) /\ stash = x.tracks[t].stash /\ queue = x.tracks[t].queue
  OBVIOUS
<1>2. x.tracks \in [Types -> Tracks] /\ <<>> \in Seq(Frames) /\ x.tracks[t] \in Tracks /\ Len(<<>>) = 0
  BY DEF Muxes
<1>3. /\ a \in Muxes /\ a.out = x.out
      /\ \A u \in Types : u # t => a.tracks[u] = x.tracks[u]
      /\ a.tracks[t].stash = <<>> /\ a.tracks[t].queue = queue
      /\ a.tracks[t].meta = x.tracks[t].meta /\ a.tracks[t] \in Tracks /\ a.base \in Int
  BY <1>1, <1>2 DEF Muxes, Tracks, Unstashed
<1>4. stash \in Seq(Frames) /\ queue \in Seq(Frames) /\ Len(stash) \in Nat /\ Len(stash) <= 1
  BY <1>1, <1>2 DEF Tracks, Held
<1>5. y = RemuxTrack(a, t, stash, force)
  BY <1>1, Zenon
<1>6. CASE NothingToRemux(a.tracks[t], stash, force)
  <2>1. y = a
    BY <1>5, <1>6 DEF RemuxTrack
  <2>2. stash = <<>>
    <3>1. NothingToRemux(x.tracks[t], stash, force) <=> NothingToRemux(a.tracks[t], stash, force)
      BY <1>3, Zenon DEF NothingToRemux
    <3> QED BY <1>1, <1>6, <3>1, Zenon
  <2>3. \A u \in Types : Backlog(a.tracks[u]) = Backlog(x.tracks[u])
    BY <1>1, <1>3, <2>2 DEF Backlog
  <2>4. y.out = x.out /\ \A u \in Types : Backlog(y.tracks[u]) = Backlog(x.tracks[u])
    BY <1>3, <2>1, <2>3
  <2> QED BY <2>4, ShipsSame, Zenon
<1>7. CASE ~NothingToRemux(a.tracks[t], stash, force)
  <2>1. stash # <<>> /\ Len(stash) = 1
    <3>1. stash # <<>>
      BY <1>7, NothingIs, Zenon
    <3>2. Len(stash) # 0
      BY <1>4, <3>1, EmptySeq
    <3> QED BY <1>4, <3>1, <3>2, AtMostOne, Zenon
  <2>2. PICK k, b, seg : /\ k = a.tracks[t] /\ b = Batch(k, stash) /\ seg = SegmentOf(a, t, stash)
                         /\ seg = MediaSegment(t, b, k, a.base)
    BY DEF SegmentOf
  <2>3. a \in Muxes /\ stash \in Seq(Frames)
    BY <1>3, <1>4
  <2>4. y.tracks[t].stash = Batch(a.tracks[t], stash).held
    BY <2>3, <1>5, <1>7, RemuxTrackIs
  <2>6. \A u \in Types : u # t => y.tracks[u] = a.tracks[u]
    BY <2>3, <1>5, <1>7, RemuxTrackIs
  <2>7. y.out = Append(a.out, SegmentOf(a, t, stash))
    BY <2>3, <1>5, <1>7, RemuxTrackIs
  <2>8. y.tracks[t].queue = queue
    BY <1>1
  <2>9. b.held = <<>>
    BY <1>3, <1>4, <2>1, <2>2, BatchIs
  <2>10. PICK w : w = k.stash \o stash
    OBVIOUS
  <2>11. w = stash
    BY <1>3, <1>4, <2>2, <2>10, ConcatEmptySeq
  <2>12. Splits(w, b)
    <3>1. k \in Tracks /\ stash \in Seq(Frames) /\ b = Batch(k, stash)
      BY <1>3, <1>4, <2>2
    <3> QED BY <2>1, <2>10, <3>1, BatchBears
  <2>13. /\ seg \in Media /\ seg.type = t /\ Marks(seg.run, OfItem) = Marks(b.samples, OfFrame)
         /\ Rises(b.samples, OfFrame) => Rises(seg.run, OfItem)
    <3>1. b \in Batches /\ b.samples # <<>> /\ k \in Tracks /\ a.base \in Int
      BY <1>3, <2>2, <2>12 DEF Splits
    <3> QED BY <2>2, <3>1, SegmentBears
  <2>14. /\ Marks(stash, OfFrame) = Marks(seg.run, OfItem)
         /\ Rises(stash, OfFrame) => Rises(seg.run, OfItem)
    <3>1. Marks(b.held, OfFrame) = {}
      BY <2>9, MarksOne
    <3> QED BY <2>11, <2>12, <2>13, <3>1 DEF Splits
  <2>15. Backlog(y.tracks[t]) = queue
    BY <1>4, <2>2, <2>4, <2>8, <2>9, ConcatEmptySeq DEF Backlog
  <2>16. PICK A : A = Marks(Backlog(y.tracks[t]), OfFrame)
    OBVIOUS
  <2>17. /\ Marks(Backlog(x.tracks[t]), OfFrame) = Marks(stash, OfFrame) \cup A
         /\ Rises(Backlog(x.tracks[t]), OfFrame) =>
               Rises(stash, OfFrame) /\ Rises(queue, OfFrame) /\ Below(Marks(stash, OfFrame), A)
    <3>1. /\ Marks(stash \o queue, OfFrame) = Marks(stash, OfFrame) \cup Marks(queue, OfFrame)
          /\ Rises(stash \o queue, OfFrame) <=>
                Rises(stash, OfFrame) /\ Rises(queue, OfFrame) /\ Below(Marks(stash, OfFrame), Marks(queue, OfFrame))
      <4>1. PICK S : S = Frames
        OBVIOUS
      <4>2. stash \in Seq(S) /\ queue \in Seq(S)
        BY <1>4, <4>1
      <4> QED BY <4>2, MarksCat
    <3>2. Backlog(x.tracks[t]) = stash \o queue
      BY <1>1 DEF Backlog
    <3> QED BY <2>15, <2>16, <3>1, <3>2
  <2>18. \A u \in Types : u # t => y.tracks[u] = x.tracks[u]
    BY <1>3, <2>6
  <2>19. y.out = Append(x.out, seg)
    BY <1>3, <2>2, <2>7
  <2>20. Rises(Backlog(x.tracks[t]), OfFrame) =>
            Rises(Backlog(y.tracks[t]), OfFrame) /\ Below(Marks(seg.run, OfItem), A) /\ Rises(seg.run, OfItem)
    BY <2>14, <2>15, <2>17
  <2>21. Marks(Backlog(x.tracks[t]), OfFrame) = Marks(seg.run, OfItem) \cup A
    BY <2>14, <2>17
  <2> QED BY <2>13, <2>16, <2>18, <2>19, <2>20, <2>21, SegmentShips
<1> QED BY <1>6, <1>7

\* Both tracks at the end of the stream.
LEMMA FlushShips ==
  ASSUME NEW x \in Muxes, \A t \in Types : Held(x.tracks[t]), NEW y, y = FlushStashedSamples(x)
  PROVE  Ships(x, y)
<1>1. PICK force \in BOOLEAN : force = TRUE
  BY Zenon
<1>2. force
  BY <1>1, Zenon
<1>3. PICK z : z = RemuxTrack(Unstashed(x, "video"), "video", x.tracks["video"].stash, force)
  OBVIOUS
<1>4. /\ Passed(x, z) /\ z.tracks["audio"] = x.tracks["audio"]
  <2>1. /\ Passed(x, z) /\ \A u \in Types : u # "video" => z.tracks[u] = x.tracks[u]
    BY <1>3, FlushedTrackAny, TypesAre
  <2> QED BY <2>1, TypesAre
<1>5. y = RemuxTrack(Unstashed(z, "audio"), "audio", z.tracks["audio"].stash, force)
  BY <1>1, <1>3, <1>4, Zenon DEF FlushStashedSamples, Unstashed
<1>6. z \in Muxes /\ Held(z.tracks["audio"])
  BY <1>4, TypesAre DEF Passed
<1>9. ASSUME NEW w \in Muxes, NEW t \in Types, Held(w.tracks[t])
      PROVE  w.tracks[t].stash = <<>> \/ ~NothingToRemux(w.tracks[t], w.tracks[t].stash, force)
  <2>1. w.tracks[t].stash = <<>> \/ w.tracks[t].meta # NoMeta
    BY <1>9 DEF Held
  <2> QED BY <1>2, <2>1, Zenon DEF NothingToRemux
<1>7. Ships(x, z)
  <2>1. z.tracks["video"].queue = x.tracks["video"].queue
    BY <1>2, <1>3, FlushedTrack, TypesAre
  <2> QED BY <1>3, <1>9, <2>1, FlushTrackShips, TypesAre
<1>8. Ships(z, y)
  <2>1. y.tracks["audio"].queue = z.tracks["audio"].queue
    BY <1>2, <1>5, <1>6, FlushedTrack, TypesAre
  <2>2. z.tracks["audio"].stash = <<>> \/ ~NothingToRemux(z.tracks["audio"], z.tracks["audio"].stash, force)
    BY <1>6, <1>9, TypesAre
  <2> QED BY <1>5, <1>6, <2>1, <2>2, FlushTrackShips, TypesAre
<1> QED BY <1>7, <1>8, ShipsTwice

\* An event that is no media is emitted.
LEMMA NoteShips ==
  ASSUME NEW x \in Muxes, NEW e \in Events, e.ev # "media", NEW y, y.out = Append(x.out, e),
         \A t \in Types : Backlog(y.tracks[t]) = Backlog(x.tracks[t])
  PROVE  Ships(x, y)
<1>1. ASSUME NEW t \in Types
      PROVE  MuxTags(y, t) = MuxTags(x, t) /\ (MuxInOrder(x, t) => MuxInOrder(y, t))
  <2>1. OfEvent(t)[e] = {}
    BY BearsNothing
  <2>2. PICK B : B = Marks(Backlog(x.tracks[t]), OfFrame)
    OBVIOUS
  <2>3. Below({}, B)
    BY DEF Below
  <2>4. Backlog(y.tracks[t]) = Backlog(x.tracks[t])
    OBVIOUS
  <2>5. B = Marks(Backlog(y.tracks[t]), OfFrame) /\ B = OfEvent(t)[e] \cup B
    BY <2>1, <2>2, <2>4
  <2>6. Rises(Backlog(x.tracks[t]), OfFrame) =>
           /\ Rises(Backlog(y.tracks[t]), OfFrame) /\ Below(OfEvent(t)[e], B)
           /\ e.ev = "media" /\ e.type = t => Rises(e.run, OfItem)
    BY <2>1, <2>3, <2>4
  <2> QED BY <2>2, <2>5, <2>6, EmittedShips
<1> QED BY <1>1 DEF Ships

\* Frames that were queued may have been remuxed.
LEMMA RemadeShips ==
  ASSUME NEW x \in Muxes, NEW z \in Muxes, Remade(x, z)
  PROVE  Ships(x, z)
<1>1. CASE z.tracks = x.tracks /\ z.out = x.out
  BY <1>1, ShipsSame
<1>2. ASSUME NEW w \in Muxes, w.tracks = x.tracks, w.out = x.out, HasFrames(w),
             NEW v, v = Remux(w), z.tracks = v.tracks, z.out = v.out
      PROVE  Ships(x, z)
  <2>1. Ships(x, w)
    BY <1>2, ShipsSame
  <2>2. Ships(w, v)
    BY <1>2, RemuxShips
  <2>3. Ships(v, z)
    BY <1>2, ShipsSame
  <2> QED BY <2>1, <2>2, <2>3, ShipsTwice
<1> QED BY <1>1, <1>2 DEF Remade

\* Tracks that get their metadata, and a configuration that goes out.
LEMMA ConfiguredShips ==
  ASSUME NEW x \in Muxes, NEW y, NEW t \in Types, NEW cfg \in Nat, Configured(x, y, t, cfg)
  PROVE  Ships(x, y)
<1>1. PICK z \in Muxes : /\ Remade(x, z) /\ y.out = Append(z.out, InitSegment(t, cfg))
                         /\ y.tracks = WithMeta(z.tracks, t, cfg) /\ y.base = z.base
  BY DEF Configured
<1>2. InitSegment(t, cfg) \in Events /\ InitSegment(t, cfg).ev # "media"
  BY DEF InitSegment, Events, Segments, Inits
<1>3. \A u \in Types : Backlog(y.tracks[u]) = Backlog(z.tracks[u])
  <2>1. z.tracks \in [Types -> Tracks]
    BY DEF Muxes
  <2>2. \A u \in Types : y.tracks[u].stash = z.tracks[u].stash /\ y.tracks[u].queue = z.tracks[u].queue
    BY <1>1, <2>1 DEF WithMeta, Tracks
  <2> QED BY <2>2 DEF Backlog
<1>4. Ships(z, y)
  BY <1>1, <1>2, <1>3, NoteShips
<1>5. Ships(x, z)
  BY <1>1, RemadeShips
<1> QED BY <1>4, <1>5, ShipsTwice

-----------------------------------------------------------------------------
(* The frames of the tags that are read.                                     *)

\* The frames of a type among the tags from one to another.
Kin(s, a, b, t) == {n \in a + 1 .. b : s[n].kind = t}

\* Tags have been read: their frames are behind those that were there.
Reads(s, x, y, t) ==
  /\ MuxTags(y, t) = MuxTags(x, t) \cup Kin(s, x.parsed, y.parsed, t)
  /\ MuxInOrder(x, t) /\ MuxTags(x, t) \subseteq 1 .. x.parsed => MuxInOrder(y, t)
ReadsOn(s, x, y) == x.parsed <= y.parsed /\ \A t \in Types : Reads(s, x, y, t)

\* Ranges of tags, one behind the other.
Ranged(s, a, b, c, t) ==
  /\ Kin(s, a, b, t) \cup Kin(s, b, c, t) = Kin(s, a, c, t)
  /\ Kin(s, a, b, t) \subseteq 1 .. b /\ 1 .. a \subseteq 1 .. b

\* No tag, one and several.
LEMMA KinIs ==
  ASSUME NEW s, NEW a \in Nat, NEW b \in Nat, NEW c \in Nat, a <= b, b <= c, NEW t
  PROVE  /\ Kin(s, a, a, t) = {} /\ Ranged(s, a, b, c, t)
         /\ Kin(s, a, a + 1, t) = IF s[a + 1].kind = t THEN {a + 1} ELSE {}
<1>1. a + 1 .. a = {} /\ a + 1 .. a + 1 = {a + 1}
  OBVIOUS
<1>2. (a + 1 .. b) \cup (b + 1 .. c) = a + 1 .. c
  OBVIOUS
<1>3. a + 1 .. b \subseteq 1 .. b /\ 1 .. a \subseteq 1 .. b
  OBVIOUS
<1> QED BY <1>1, <1>2, <1>3 DEF Kin, Ranged

\* Reading twice.
LEMMA ReadsTwice ==
  ASSUME NEW s, NEW x \in Muxes, NEW y \in Muxes, NEW z \in Muxes, ReadsOn(s, x, y), ReadsOn(s, y, z)
  PROVE  ReadsOn(s, x, z)
<1>1. PICK a, b, c \in Nat : a = x.parsed /\ b = y.parsed /\ c = z.parsed
  BY DEF Muxes
<1>2. a <= b /\ b <= c /\ a <= c
  BY <1>1 DEF ReadsOn
<1>3. ASSUME NEW t \in Types PROVE Reads(s, x, z, t)
  <2>1. /\ MuxTags(y, t) = MuxTags(x, t) \cup Kin(s, a, b, t)
        /\ MuxInOrder(x, t) /\ MuxTags(x, t) \subseteq 1 .. a => MuxInOrder(y, t)
        /\ MuxTags(z, t) = MuxTags(y, t) \cup Kin(s, b, c, t)
        /\ MuxInOrder(y, t) /\ MuxTags(y, t) \subseteq 1 .. b => MuxInOrder(z, t)
    BY <1>1 DEF ReadsOn, Reads
  <2>2. /\ Kin(s, a, b, t) \cup Kin(s, b, c, t) = Kin(s, a, c, t)
        /\ Kin(s, a, b, t) \subseteq 1 .. b /\ 1 .. a \subseteq 1 .. b
    <3>1. Ranged(s, a, b, c, t)
      BY <1>2, KinIs
    <3> QED BY <3>1 DEF Ranged
  <2>3. MuxTags(z, t) = MuxTags(x, t) \cup Kin(s, a, c, t)
    BY <2>1, <2>2
  <2>4. MuxTags(x, t) \subseteq 1 .. a => MuxTags(y, t) \subseteq 1 .. b
    BY <2>1, <2>2
  <2>5. MuxInOrder(x, t) /\ MuxTags(x, t) \subseteq 1 .. a => MuxInOrder(z, t)
    BY <2>1, <2>4
  <2> QED BY <1>1, <2>3, <2>5 DEF Reads
<1> QED BY <1>1, <1>2, <1>3 DEF ReadsOn

\* Nothing is read.
LEMMA ShipsReads ==
  ASSUME NEW s, NEW x \in Muxes, NEW y, Ships(x, y), y.parsed = x.parsed
  PROVE  ReadsOn(s, x, y)
<1>1. PICK a \in Nat : a = x.parsed
  BY DEF Muxes
<1>2. a <= a
  OBVIOUS
<1>3. \A t : Kin(s, a, a, t) = {}
  BY <1>2, KinIs
<1> QED BY <1>1, <1>2, <1>3 DEF Ships, ReadsOn, Reads

\* A tag is read that is no frame.
LEMMA NoneReads ==
  ASSUME NEW s, NEW x \in Muxes, NEW y, Ships(x, y), y.parsed = x.parsed + 1, s[x.parsed + 1].kind \notin Types
  PROVE  ReadsOn(s, x, y)
<1>1. PICK a \in Nat : a = x.parsed
  BY DEF Muxes
<1>2. a <= a /\ a <= a + 1
  OBVIOUS
<1>3. \A t \in Types : Kin(s, a, a + 1, t) = {}
  <2> SUFFICES ASSUME NEW t \in Types PROVE Kin(s, a, a + 1, t) = {}
    OBVIOUS
  <2>1. Kin(s, a, a + 1, t) = IF s[a + 1].kind = t THEN {a + 1} ELSE {}
    BY <1>2, KinIs
  <2> QED BY <1>1, <2>1
<1> QED BY <1>1, <1>2, <1>3 DEF Ships, ReadsOn, Reads

\* One frame more is queued.
LEMMA BacklogGrows ==
  ASSUME NEW k \in Tracks, NEW frame \in Frames, NEW j, j.stash = k.stash, j.queue = Append(k.queue, frame)
  PROVE  /\ Marks(Backlog(j), OfFrame) = Marks(Backlog(k), OfFrame) \cup {frame.tag}
         /\ Rises(Backlog(k), OfFrame) /\ Below(Marks(Backlog(k), OfFrame), {frame.tag}) => Rises(Backlog(j), OfFrame)
<1>1. PICK u, v, f, w : u = k.stash /\ v = k.queue /\ f = <<frame>> /\ w = v \o f
  OBVIOUS
<1>2. PICK S : S = Frames
  OBVIOUS
<1>3. u \in Seq(S) /\ v \in Seq(S) /\ f \in Seq(S) /\ w \in Seq(S)
  <2>1. <<frame>> \in Seq(S)
    BY <1>2
  <2>2. u \in Seq(S) /\ v \in Seq(S)
    BY <1>1, <1>2 DEF Tracks
  <2> QED BY <1>1, <2>1, <2>2, ConcatProperties
<1>4. j.queue = w
  <2>1. v \in Seq(S) /\ frame \in S
    BY <1>2, <1>3
  <2> QED BY <1>1, <2>1, AppendIsConcat
<1>5. Backlog(k) = u \o v /\ Backlog(j) = u \o w
  BY <1>1, <1>4 DEF Backlog
<1>6. /\ Marks(u \o v, OfFrame) = Marks(u, OfFrame) \cup Marks(v, OfFrame)
      /\ Rises(u \o v, OfFrame) <=> Rises(u, OfFrame) /\ Rises(v, OfFrame) /\ Below(Marks(u, OfFrame), Marks(v, OfFrame))
  BY <1>3, MarksCat
<1>7. /\ Marks(v \o f, OfFrame) = Marks(v, OfFrame) \cup Marks(f, OfFrame)
      /\ Rises(v \o f, OfFrame) <=> Rises(v, OfFrame) /\ Rises(f, OfFrame) /\ Below(Marks(v, OfFrame), Marks(f, OfFrame))
  BY <1>3, MarksCat
<1>8. /\ Marks(u \o w, OfFrame) = Marks(u, OfFrame) \cup Marks(w, OfFrame)
      /\ Rises(u \o w, OfFrame) <=> Rises(u, OfFrame) /\ Rises(w, OfFrame) /\ Below(Marks(u, OfFrame), Marks(w, OfFrame))
  BY <1>3, MarksCat
<1>9. Marks(f, OfFrame) = {frame.tag} /\ Rises(f, OfFrame)
  <2>1. OfFrame[frame] = {frame.tag}
    BY DEF OfFrame, Frames
  <2> QED BY <1>1, <2>1, MarksOne
<1>10. Marks(Backlog(j), OfFrame) = Marks(Backlog(k), OfFrame) \cup {frame.tag}
  BY <1>1, <1>5, <1>6, <1>7, <1>8, <1>9
<1>11. ASSUME Rises(Backlog(k), OfFrame), Below(Marks(Backlog(k), OfFrame), {frame.tag}) PROVE Rises(Backlog(j), OfFrame)
  <2>1. Below(Marks(v, OfFrame), Marks(f, OfFrame)) /\ Below(Marks(u, OfFrame), Marks(f, OfFrame))
    BY <1>5, <1>6, <1>9, <1>11 DEF Below
  <2>2. Rises(w, OfFrame) /\ Marks(w, OfFrame) = Marks(v, OfFrame) \cup Marks(f, OfFrame)
    BY <1>1, <1>5, <1>6, <1>7, <1>9, <1>11, <2>1
  <2>3. Below(Marks(u, OfFrame), Marks(w, OfFrame))
    BY <1>5, <1>6, <1>11, <2>1, <2>2 DEF Below
  <2> QED BY <1>5, <1>6, <1>8, <1>11, <2>2, <2>3
<1> QED BY <1>10, <1>11

\* A frame is read.
LEMMA QueuedReads ==
  ASSUME NEW s, NEW x \in Muxes, NEW t \in Types, NEW y, NEW ts, Queued(x, y, t, x.parsed + 1, ts),
         y.parsed = x.parsed + 1, s[x.parsed + 1].kind = t
  PROVE  ReadsOn(s, x, y)
<1>1. PICK a, i \in Nat : a = x.parsed /\ i = a + 1
  BY DEF Muxes
<1>2. a <= a /\ a <= a + 1
  OBVIOUS
<1>3. PICK frame \in Frames : frame.tag = i /\ y.out = x.out /\ y.tracks = WithFrame(x.tracks, t, frame)
  BY <1>1 DEF Queued
<1>4. x.tracks \in [Types -> Tracks]
  BY DEF Muxes
<1>5. ASSUME NEW u \in Types
      PROVE  Kin(s, a, i, u) = IF u = t THEN {i} ELSE {}
  <2>1. Kin(s, a, a + 1, u) = IF s[a + 1].kind = u THEN {a + 1} ELSE {}
    BY <1>2, KinIs
  <2> QED BY <1>1, <2>1
<1>6. Reads(s, x, y, t)
  <2>1. PICK k, j : k = x.tracks[t] /\ j = y.tracks[t]
    OBVIOUS
  <2>2. k \in Tracks /\ j.stash = k.stash /\ j.queue = Append(k.queue, frame)
    BY <1>3, <1>4, <2>1 DEF WithFrame, Tracks
  <2>3. /\ Marks(Backlog(j), OfFrame) = Marks(Backlog(k), OfFrame) \cup {i}
        /\ Rises(Backlog(k), OfFrame) /\ Below(Marks(Backlog(k), OfFrame), {i}) => Rises(Backlog(j), OfFrame)
    BY <1>3, <2>2, BacklogGrows
  <2>4. MuxTags(y, t) = MuxTags(x, t) \cup {i}
    BY <1>3, <2>1, <2>3 DEF MuxTags
  <2>5. ASSUME MuxInOrder(x, t), MuxTags(x, t) \subseteq 1 .. a PROVE MuxInOrder(y, t)
    <3>1. Below(MuxTags(x, t), {i})
      <4>1. \A n \in 1 .. a : n < i
        BY <1>1
      <4> QED BY <2>5, <4>1 DEF Below
    <3>2. Below(Marks(Backlog(k), OfFrame), {i}) /\ Below(Marks(x.out, OfEvent(t)), {i})
      BY <2>1, <3>1 DEF MuxTags, Below
    <3>3. Below(Marks(y.out, OfEvent(t)), Marks(Backlog(j), OfFrame))
      BY <1>3, <2>1, <2>3, <2>5, <3>2 DEF MuxInOrder, Below
    <3> QED BY <1>3, <2>1, <2>3, <2>5, <3>2, <3>3 DEF MuxInOrder
  <2> QED BY <1>1, <1>5, <2>4, <2>5 DEF Reads
<1>7. ASSUME NEW u \in Types, u # t PROVE Reads(s, x, y, u)
  <2>1. Backlog(y.tracks[u]) = Backlog(x.tracks[u])
    BY <1>3, <1>4, <1>7 DEF WithFrame
  <2> QED BY <1>1, <1>3, <1>5, <1>7, <2>1 DEF Reads, MuxTags, MuxInOrder
<1> QED BY <1>1, <1>2, <1>6, <1>7 DEF ReadsOn

\* A tag is read.
LEMMA TagReads ==
  ASSUME NEW s \in Seq(Tags), NEW x \in Muxes, NEW i \in DOMAIN s, i = x.parsed + 1, NEW y, y = ParseTag(x, s, i)
  PROVE  ReadsOn(s, x, y)
<1>1. /\ y \in Muxes /\ y.parsed = x.parsed + 1
      /\ s[i].kind = "meta" => Scripted(x, y)
      /\ Configures(s[i]) => Configured(x, y, TypeOf(s[i]), s[i].cfg)
      /\ s[i].kind \in Types => Queued(x, y, s[i].kind, i, s[i].ts)
      /\ s[i].kind = "foreign" => Refused(x, y)
      /\ s[i] \in Tags
  BY ParseTagIs
<1>2. CASE s[i].kind \in Types
  BY <1>1, <1>2, QueuedReads
<1>3. CASE s[i].kind \notin Types
  <2>1. s[i].kind \in {"meta", "foreign"} \/ Configures(s[i])
    BY <1>1, <1>3 DEF Tags, Configures, Types
  <2>2. Ships(x, y)
    <3>1. CASE s[i].kind = "meta"
      <4>1. y.tracks = x.tracks /\ y.out = x.out
        BY <1>1, <3>1 DEF Scripted
      <4> QED BY <4>1, ShipsSame
    <3>2. CASE s[i].kind = "foreign"
      <4>1. y.tracks = x.tracks /\ y.out = Append(x.out, [ev |-> "demux_error"])
        BY <1>1, <3>2 DEF Refused
      <4>2. [ev |-> "demux_error"] \in Events /\ [ev |-> "demux_error"].ev # "media"
        BY DEF Events, Notes
      <4> QED BY <4>1, <4>2, NoteShips
    <3>3. CASE Configures(s[i])
      <4>1. TypeOf(s[i]) \in Types /\ s[i].cfg \in Nat
        BY <1>1, <3>3 DEF TypeOf, Types, Tags, Configures
      <4> QED BY <1>1, <3>3, <4>1, ConfiguredShips
    <3> QED BY <2>1, <3>1, <3>2, <3>3
  <2> QED BY <1>1, <1>3, <2>2, NoneReads
<1> QED BY <1>2, <1>3

\* The tags of a chunk are read.
LEMMA ParseTagsReads ==
  ASSUME NEW s \in Seq(Tags), NEW x \in Muxes, NEW tags \in Seq(Nat),
         \A n \in 1 .. Len(tags) : tags[n] = x.parsed + n /\ tags[n] \in DOMAIN s,
         NEW z, z = ParseTags(x, s, tags)
  PROVE  z \in Muxes /\ ReadsOn(s, x, z)
<1>1. PICK a, m \in Nat : a = x.parsed /\ m = Len(tags)
  BY LenProperties DEF Muxes
<1> DEFINE S == [n \in Nat |-> {y \in Muxes : y.parsed = a + n /\ ReadsOn(s, x, y)}]
<1>2. x \in S[0]
  <2>1. Ships(x, x)
    BY ShipsSame
  <2>2. ReadsOn(s, x, x) /\ x.parsed = a + 0
    BY <1>1, <2>1, ShipsReads
  <2> QED BY <2>2
<1>3. tags \in Seq(DOMAIN s)
  BY <1>1
<1>4. ASSUME NEW n \in 1 .. m, NEW y \in Muxes, y \in S[n - 1] PROVE ParseTag(y, s, tags[n]) \in S[n]
  <2>1. n - 1 \in Nat /\ n \in Nat /\ a + (n - 1) + 1 = a + n
    BY <1>1
  <2>2. y.parsed = a + (n - 1) /\ ReadsOn(s, x, y)
    BY <1>4, <2>1
  <2>3. PICK i, v : i = tags[n] /\ v = ParseTag(y, s, i)
    OBVIOUS
  <2>4. i \in DOMAIN s /\ i = a + n /\ i = y.parsed + 1
    BY <1>1, <2>1, <2>2, <2>3
  <2> HIDE DEF S
  <2>5. ReadsOn(s, y, v)
    BY <2>3, <2>4, TagReads
  <2>6. v \in Muxes /\ v.parsed = y.parsed + 1
    BY <2>3, <2>4, ParseTagIs
  <2>7. ReadsOn(s, x, v) /\ v.parsed = a + n
    BY <2>1, <2>2, <2>5, <2>6, ReadsTwice
  <2>8. v \in S[n]
    BY <2>1, <2>6, <2>7 DEF S
  <2> QED BY <2>3, <2>8
<1> HIDE DEF S
<1>5. z \in Muxes /\ z \in S[Len(tags)]
  BY <1>1, <1>2, <1>3, <1>4, ParseTagsInv
<1> QED BY <1>1, <1>5 DEF S

\* Nothing is known of the frames of a transmuxer that is new.
LEMMA NewReads ==
  ASSUME NEW s, NEW x \in Muxes, Fresh(x), x.out = <<>>
  PROVE  ReadsOn(s, x, NewTransmuxer)
<1>1. /\ NewTransmuxer.out = <<>> /\ NewTransmuxer.parsed = 0
      /\ \A t \in Types : NewTransmuxer.tracks[t].queue = <<>> /\ NewTransmuxer.tracks[t].stash = <<>>
  BY DEF NewTransmuxer, NewTrack
<1>2. x.parsed = 0 /\ \A t \in Types : x.tracks[t].queue = <<>> /\ x.tracks[t].stash = <<>>
  BY DEF Fresh
<1>3. Ships(x, NewTransmuxer)
  BY <1>1, <1>2, ShipsSame DEF Backlog
<1> QED BY <1>1, <1>2, <1>3, ShipsReads

\* A chunk is read.
LEMMA ChunkReads ==
  ASSUME NEW s \in Seq(Tags), NEW x \in Muxes, x.demux.first => Fresh(x), NEW data \in Seq(Pieces),
         NEW start \in Int, Live(s, x, data, start) \/ Deaf(x, data), NEW r, r = ParseChunks(x, s, data, start)
  PROVE  r.mux \in Muxes /\ ReadsOn(s, x, r.mux)
<1>1. PICK from, tags : from = HeaderOf(x, start) /\ tags = WholeTags(data, from)
  OBVIOUS
<1>2. /\ from \in {0, 2} /\ x.parsed \in Nat /\ Len(tags) \in Nat /\ tags \in Seq(Nat)
      /\ \A n \in 1 .. Len(tags) : tags[n] = x.parsed + n /\ tags[n] \in DOMAIN s
  BY <1>1, NextTags
<1>3. \/ r.mux = x /\ r.consumed = 0 /\ start = 0 /\ Len(data) <= 2
      \/ /\ start = 0 => Len(data) > 2
         /\ r.consumed = from + 2 * Len(tags)
         /\ r.mux = DispatchFrames(ParseTags(Begun(x), s, tags), Len(data) > from + 2 * Len(tags))
  BY <1>1, ParseChunksIs
<1>4. CASE r.mux = x
  <2>1. Ships(x, x)
    BY ShipsSame
  <2> QED BY <1>4, <2>1, ShipsReads
<1>5. CASE r.mux = DispatchFrames(ParseTags(Begun(x), s, tags), Len(data) > from + 2 * Len(tags))
  <2>1. PICK v, z, y : v = Begun(x) /\ z = ParseTags(v, s, tags) /\ y = r.mux
    OBVIOUS
  <2>2. PICK all, end \in Int : all = Len(data) /\ end = from + 2 * Len(tags)
    BY <1>2, LenProperties
  <2>3. y = DispatchFrames(z, all > end)
    BY <1>5, <2>1, <2>2, Zenon
  <2>4. v \in Muxes /\ v.tracks = x.tracks /\ v.out = x.out /\ v.parsed = x.parsed
    BY <2>1, BegunIs
  <2>5. ReadsOn(s, x, v)
    <3>1. Ships(x, v)
      BY <2>4, ShipsSame
    <3> QED BY <2>4, <3>1, ShipsReads
  <2>6. z \in Muxes /\ ReadsOn(s, v, z)
    <3>1. \A n \in 1 .. Len(tags) : tags[n] = v.parsed + n /\ tags[n] \in DOMAIN s
      BY <1>2, <2>4
    <3> QED BY <1>2, <2>1, <2>4, <3>1, ParseTagsReads
  <2>7. y \in Muxes /\ y.parsed = z.parsed /\ Remade(z, y)
    <3>1. Dispatched(z, y, all, end)
      BY <2>2, <2>3, <2>6, DispatchFramesIs
    <3> QED BY <3>1 DEF Dispatched
  <2>8. ReadsOn(s, z, y)
    <3>1. Ships(z, y)
      BY <2>6, <2>7, RemadeShips
    <3> QED BY <2>6, <2>7, <3>1, ShipsReads
  <2>9. ReadsOn(s, x, z)
    BY <2>4, <2>5, <2>6, ReadsTwice
  <2> QED BY <2>1, <2>6, <2>7, <2>8, <2>9, ReadsTwice
<1> QED BY <1>3, <1>4, <1>5

-----------------------------------------------------------------------------
(* The frames that have not reached the controller.                          *)

\* Those of the microtasks, and behind them those of demuxer and remuxer.
RestTags(ts, x, t) == Marks(ts, OfEvent(t)) \cup MuxTags(x, t)
RestInOrder(ts, x, t) ==
  Tidy(ts, t) /\ MuxInOrder(x, t) /\ Below(Marks(ts, OfEvent(t)), MuxTags(x, t))

\* They are what they were, and the frames of the tags that have been read.
RestReads(s, ts, x, us, y, t) ==
  /\ RestTags(us, y, t) = RestTags(ts, x, t) \cup Kin(s, x.parsed, y.parsed, t)
  /\ RestInOrder(ts, x, t) /\ RestTags(ts, x, t) \subseteq 1 .. x.parsed => RestInOrder(us, y, t)
Supplies(s, ts, x, us, y) == x.parsed <= y.parsed /\ \A t \in Types : RestReads(s, ts, x, us, y, t)

\* Tags before and behind one another.
LEMMA KinBehind ==
  ASSUME NEW s, NEW a \in Nat, NEW b, NEW t, NEW A, A \subseteq 1 .. a
  PROVE  Below(A, Kin(s, a, b, t))
<1>1. ASSUME NEW m \in 1 .. a, NEW n \in a + 1 .. b PROVE m < n
  OBVIOUS
<1> QED BY <1>1 DEF Below, Kin

\* What is emitted becomes microtasks.
LEMMA EmitsSupply ==
  ASSUME NEW s, NEW x \in Muxes, NEW y \in Muxes, ReadsOn(s, x, y), NEW ts \in Seq(Events),
         NEW us, us = ts \o y.out, NEW z, z.out = <<>>, z.tracks = y.tracks, z.parsed = y.parsed
  PROVE  Supplies(s, ts, x, us, z)
<1>1. PICK a, b \in Nat : a = x.parsed /\ b = y.parsed
  BY DEF Muxes
<1>2. a <= b
  BY <1>1 DEF ReadsOn
<1>3. ASSUME NEW t \in Types PROVE RestReads(s, ts, x, us, z, t)
  <2>1. PICK g, new : g = OfEvent(t) /\ new = y.out /\ new \in Seq(Events)
    BY DEF Muxes
  <2>2. /\ Marks(us, g) = Marks(ts, g) \cup Marks(new, g)
        /\ Tidy(us, t) <=> Tidy(ts, t) /\ Tidy(new, t) /\ Below(Marks(ts, g), Marks(new, g))
    <3>1. /\ Marks(ts \o new, OfEvent(t)) = Marks(ts, OfEvent(t)) \cup Marks(new, OfEvent(t))
          /\ Tidy(ts \o new, t) <=> Tidy(ts, t) /\ Tidy(new, t) /\ Below(Marks(ts, OfEvent(t)), Marks(new, OfEvent(t)))
      BY <2>1, TidyCat
    <3> QED BY <2>1, <3>1
  <2>3. PICK B : B = Marks(Backlog(y.tracks[t]), OfFrame)
    OBVIOUS
  <2>4. MuxTags(y, t) = Marks(new, g) \cup B /\ MuxTags(z, t) = B
    <3>1. Marks(z.out, g) = {}
      BY MarksOne
    <3> QED BY <2>1, <2>3, <3>1 DEF MuxTags
  <2>5. /\ MuxTags(y, t) = MuxTags(x, t) \cup Kin(s, a, b, t)
        /\ MuxInOrder(x, t) /\ MuxTags(x, t) \subseteq 1 .. a => MuxInOrder(y, t)
    BY <1>1 DEF ReadsOn, Reads
  <2>6. RestTags(us, z, t) = RestTags(ts, x, t) \cup Kin(s, a, b, t)
    BY <2>1, <2>2, <2>4, <2>5 DEF RestTags
  <2>7. ASSUME RestInOrder(ts, x, t), RestTags(ts, x, t) \subseteq 1 .. a PROVE RestInOrder(us, z, t)
    <3>1. /\ Tidy(ts, t) /\ MuxInOrder(x, t) /\ Below(Marks(ts, g), MuxTags(x, t))
          /\ Marks(ts, g) \subseteq 1 .. a /\ MuxTags(x, t) \subseteq 1 .. a
      BY <2>1, <2>7 DEF RestInOrder, RestTags
    <3>2. Below(Marks(ts, g), Kin(s, a, b, t))
      BY <3>1, KinBehind
    <3>3. Below(Marks(ts, g), Marks(new, g)) /\ Below(Marks(ts, g), B)
      BY <2>4, <2>5, <3>1, <3>2 DEF Below
    <3>4. Tidy(new, t) /\ Rises(Backlog(y.tracks[t]), OfFrame) /\ Below(Marks(new, g), B)
      BY <2>1, <2>3, <2>5, <3>1 DEF MuxInOrder
    <3>5. Tidy(us, t) /\ Below(Marks(us, g), B)
      BY <2>2, <3>1, <3>3, <3>4 DEF Below
    <3>6. MuxInOrder(z, t)
      <4>1. Marks(z.out, g) = {} /\ Tidy(z.out, t)
        <5>1. PICK e : e \in Events
          <6>1. [ev |-> "abort"] \in Events
            BY DEF Events, Notes
          <6> QED BY <6>1
        <5> QED BY <2>1, <5>1, TidyOne
      <4> QED BY <2>1, <3>4, <4>1 DEF MuxInOrder, Below
    <3> QED BY <2>1, <2>4, <3>5, <3>6 DEF RestInOrder
  <2> QED BY <1>1, <2>6, <2>7 DEF RestReads
<1> QED BY <1>1, <1>2, <1>3 DEF Supplies

\* Reading on twice.
LEMMA SuppliesTwice ==
  ASSUME NEW s, NEW ts, NEW x \in Muxes, NEW us, NEW y \in Muxes, NEW vs, NEW z \in Muxes,
         Supplies(s, ts, x, us, y), Supplies(s, us, y, vs, z)
  PROVE  Supplies(s, ts, x, vs, z)
<1>1. PICK a, b, c \in Nat : a = x.parsed /\ b = y.parsed /\ c = z.parsed
  BY DEF Muxes
<1>2. a <= b /\ b <= c /\ a <= c
  BY <1>1 DEF Supplies
<1>3. ASSUME NEW t \in Types PROVE RestReads(s, ts, x, vs, z, t)
  <2>1. PICK A, B, C : A = RestTags(ts, x, t) /\ B = RestTags(us, y, t) /\ C = RestTags(vs, z, t)
    OBVIOUS
  <2>2. /\ B = A \cup Kin(s, a, b, t) /\ C = B \cup Kin(s, b, c, t)
        /\ RestInOrder(ts, x, t) /\ A \subseteq 1 .. a => RestInOrder(us, y, t)
        /\ RestInOrder(us, y, t) /\ B \subseteq 1 .. b => RestInOrder(vs, z, t)
    BY <1>1, <2>1 DEF Supplies, RestReads
  <2>3. /\ Kin(s, a, b, t) \cup Kin(s, b, c, t) = Kin(s, a, c, t)
        /\ Kin(s, a, b, t) \subseteq 1 .. b /\ 1 .. a \subseteq 1 .. b
    <3>1. Ranged(s, a, b, c, t)
      BY <1>2, KinIs
    <3> QED BY <3>1 DEF Ranged
  <2>4. C = A \cup Kin(s, a, c, t)
    BY <2>2, <2>3
  <2>5. A \subseteq 1 .. a => B \subseteq 1 .. b
    BY <2>2, <2>3
  <2> QED BY <1>1, <2>1, <2>2, <2>4, <2>5 DEF RestReads
<1> QED BY <1>1, <1>2, <1>3 DEF Supplies

\* Nothing but a note is put behind.
LEMMA NoteSupplies ==
  ASSUME NEW s, NEW ts \in Seq(Events), NEW e \in Events, e.ev # "media", NEW us, us = Append(ts, e),
         NEW x \in Muxes, x.out = <<>>
  PROVE  Supplies(s, ts, x, us, x)
<1>1. PICK w, y : w = <<e>> /\ y = [x EXCEPT !.out = w]
  OBVIOUS
<1>2. w \in Seq(Events)
  BY <1>1
<1>3. y \in Muxes /\ y.out = w /\ y.tracks = x.tracks /\ y.parsed = x.parsed
  BY <1>1, <1>2 DEF Muxes
<1>4. w = Append(x.out, e)
  BY <1>1
<1>5. Ships(x, y)
  BY <1>3, <1>4, NoteShips
<1>6. ReadsOn(s, x, y)
  BY <1>3, <1>5, ShipsReads
<1>7. us = ts \o y.out
  BY <1>1, <1>3, AppendIsConcat
<1> QED BY <1>3, <1>6, <1>7, EmitsSupply

-----------------------------------------------------------------------------
(* The controller.                                                           *)

\* Initialization segments only; the types that have one, or a SourceBuffer.
OnlyInits(s) == \A i \in DOMAIN s : s[i].ev = "init"
Expected(m, t) == m.made[t] \/ \E i \in DOMAIN m.inits : m.inits[i].type = t
Known(m) == {t \in Types : Expected(m, t)}

\* A controller that has been given nothing.
Blank(m) == \A t \in Types : m.segs[t] = <<>> /\ ~Expected(m, t)

\* Every SourceBuffer, and those that are not made yet.
Wired(m) ==
  \A t \in Types :
     /\ ~m.made[t] => m.busy[t] = <<>> /\ m.removals[t] = <<>>
     /\ \A i \in DOMAIN m.segs[t] : m.segs[t][i].type = t
     /\ ~Expected(m, t) => OnlyInits(m.segs[t])
     /\ m.state = "closed" => ~m.made[t]
Removing(m) == \A t \in Types : m.removals[t] # <<>> => m.busy[t] # <<>>
Quiet(m) == m.state = "ended" => ~AnyUpdating(m)
Fed(m) == AnyUpdating(m) \/ m.full \/ \A t \in Types : m.made[t] => OnlyInits(m.segs[t])

\* A SourceBuffer that has something to do is at work, or has no room, or waits
\* for its first media segment.
Buffers(m) ==
  /\ Wired(m) /\ Removing(m) /\ Quiet(m)
  /\ m.state # "closed" => m.inits = <<>> /\ Fed(m)

\* Whether a SourceBuffer is in the middle of an append.
Cutting(m, t) == IF Updating(m, t) /\ m.busy[t][1].op = "append" THEN <<m.busy[t][1].seg>> ELSE <<>>

\* What a SourceBuffer is being fed and is going to be fed.
Upcoming(m, t) == Cutting(m, t) \o m.segs[t]

\* The frames it has been fed, "d", and those to come, "u": their tags, and that
\* they rise.
FedTags(d, u, t) == Marks(d, OfShown) \cup Marks(u, OfEvent(t))
OfType(u, t) == \A i \in DOMAIN u : u[i] \in Segments /\ u[i].type = t
FedInOrder(d, u, t) ==
  /\ OfType(u, t) /\ Rises(d, OfShown) /\ Tidy(u, t)
  /\ Below(Marks(d, OfShown), Marks(u, OfEvent(t)))

\* The whole line of a type, from the SourceBuffer to the demuxer: the frames of
\* the tags read so far, each in its place.
Placed(d, u, ts, x, s, t) ==
  /\ FedTags(d, u, t) \cup RestTags(ts, x, t) = Kin(s, 0, x.parsed, t)
  /\ FedInOrder(d, u, t) /\ RestInOrder(ts, x, t)
  /\ Below(FedTags(d, u, t), RestTags(ts, x, t))
InLine(m, ts, x, s) == \A t \in Types : Placed(m.done[t], Upcoming(m, t), ts, x, s, t)

\* Between two steps of a handler: all but that something is being done.
Sane(m) == m \in Controllers /\ Wired(m) /\ Quiet(m) /\ (m.state # "closed" => m.inits = <<>>)

\* What every handler but that of the end keeps.
Follows(m, r) ==
  /\ r \in Controllers
  /\ r.said = "error" \/ (Buffers(r) /\ Known(m) \subseteq Known(r))
  /\ r.eos \/ r.state = "ended" => m.eos \/ m.state = "ended"

\* What is known is made already, once the MediaSource has been opened.
LEMMA KnownIs ==
  ASSUME NEW m, NEW r, m.made = r.made, m.inits = r.inits
  PROVE  Known(m) = Known(r)
BY DEF Known, Expected

\* When no initialization segment waits, the types known are those made.
LEMMA SegmentsKnown ==
  ASSUME NEW m \in Controllers, m.inits = <<>>, NEW t \in Types
  PROVE  Expected(m, t) <=> m.made[t]
<1>1. DOMAIN m.inits = {}
  OBVIOUS
<1> QED BY <1>1 DEF Expected

\* A SourceBuffer that starts on a removal.
Starts(m, t) == m.made[t] /\ m.busy[t] = <<>> /\ m.removals[t] # <<>>

Removed(m, r) ==
  /\ r \in Controllers /\ r.segs = m.segs /\ r.made = m.made /\ r.inits = m.inits /\ r.eos = m.eos
  /\ r.full = m.full /\ r.said = m.said /\ r.done = m.done /\ r.held = m.held
  /\ \A t \in Types : Starts(m, t) =>
        /\ r.busy[t] = <<[op |-> "remove", range |-> Head(m.removals[t])]>> /\ r.busy[t] # <<>>
        /\ r.state # "ended"
  /\ \A t \in Types : ~Starts(m, t) => r.removals[t] = m.removals[t] /\ r.busy[t] = m.busy[t]
  /\ m.state # "ended" => r.state = m.state
  /\ r.state = "closed" <=> m.state = "closed"
  /\ r.state = "ended" => m.state = "ended" /\ r.busy = m.busy

\* Removals are begun.
LEMMA DoRemoveRangesIs ==
  ASSUME NEW m \in Controllers, NEW r, r = DoRemoveRanges(m)
  PROVE  Removed(m, r)
<1> DEFINE free(t) == m.made[t] /\ ~Updating(m, t) /\ m.removals[t] # <<>>
           job(t) == <<[op |-> "remove", range |-> Head(m.removals[t])]>>
           state == IF m.state = "ended" /\ \E t \in Types : free(t) THEN "open" ELSE m.state
           busy == [t \in Types |-> IF free(t) THEN job(t) ELSE m.busy[t]]
           removals == [t \in Types |-> IF free(t) THEN Tail(m.removals[t]) ELSE m.removals[t]]
<1>0. m.busy \in [Types -> Seq(Jobs)] /\ m.removals \in [Types -> Seq(Ranges)]
  BY DEF Controllers
<1>1. ASSUME NEW t \in Types, m.removals[t] # <<>>
      PROVE  Tail(m.removals[t]) \in Seq(Ranges) /\ job(t) \in Seq(Jobs) /\ job(t) # <<>>
  <2>1. Head(m.removals[t]) \in Ranges /\ Tail(m.removals[t]) \in Seq(Ranges)
    BY <1>0, <1>1, HeadTailProperties
  <2>2. [op |-> "remove", range |-> Head(m.removals[t])] \in Jobs
    BY <2>1 DEF Jobs
  <2> QED BY <2>1, <2>2
<1>2. busy \in [Types -> Seq(Jobs)] /\ removals \in [Types -> Seq(Ranges)]
  BY <1>0, <1>1
<1>3. r = [m EXCEPT !.state = state, !.busy = busy, !.removals = removals]
  BY <1>0 DEF DoRemoveRanges, Controllers
<1>4. state \in {"closed", "open", "ended"} /\ (state = "ended" => m.state = "ended" /\ ~\E t \in Types : free(t))
      /\ (state = "closed" <=> m.state = "closed")
      /\ (m.state # "ended" => state = m.state)
  BY DEF Controllers
<1>5. \A t \in Types : busy[t] = (IF free(t) THEN job(t) ELSE m.busy[t])
                       /\ removals[t] = (IF free(t) THEN Tail(m.removals[t]) ELSE m.removals[t])
  OBVIOUS
<1>6. state = "ended" => busy = m.busy
  BY <1>0, <1>4
<1> HIDE DEF state, busy, removals
<1>7. /\ r \in Controllers /\ r.segs = m.segs /\ r.made = m.made /\ r.inits = m.inits /\ r.eos = m.eos
      /\ r.full = m.full /\ r.said = m.said /\ r.done = m.done /\ r.held = m.held
      /\ r.state = state /\ r.busy = busy /\ r.removals = removals
  BY <1>2, <1>3, <1>4 DEF Controllers
<1>8. \A t \in Types : free(t) <=> Starts(m, t)
  BY DEF Updating, Starts
<1>9. \A t \in Types : Starts(m, t) => /\ busy[t] = job(t) /\ busy[t] # <<>>
                                       /\ state # "ended"
  BY <1>1, <1>4, <1>5, <1>8 DEF Starts
<1>10. \A t \in Types : ~Starts(m, t) => removals[t] = m.removals[t] /\ busy[t] = m.busy[t]
  BY <1>5, <1>8
<1> QED BY <1>4, <1>6, <1>7, <1>9, <1>10 DEF Removed

\* A removal that waits is begun, or its SourceBuffer is at work.
LEMMA Removes ==
  ASSUME NEW m, Sane(m), Fed(m) \/ HasPendingRemoveRanges(m), NEW r, r = DoRemoveRanges(m)
  PROVE  Follows(m, r) /\ (m.said # "error" => r.said # "error" /\ Buffers(r))
<1>1. m \in Controllers
  BY DEF Sane
<1>2. /\ r \in Controllers /\ r.segs = m.segs /\ r.made = m.made /\ r.inits = m.inits /\ r.eos = m.eos
      /\ r.full = m.full /\ r.said = m.said /\ r.done = m.done /\ r.held = m.held
      /\ \A t \in Types : Starts(m, t) => r.busy[t] # <<>> /\ r.state # "ended"
      /\ \A t \in Types : ~Starts(m, t) => r.removals[t] = m.removals[t] /\ r.busy[t] = m.busy[t]
      /\ m.state # "ended" => r.state = m.state
      /\ r.state = "closed" <=> m.state = "closed"
      /\ r.state = "ended" => m.state = "ended" /\ r.busy = m.busy
  <2>1. Removed(m, r)
    BY <1>1, DoRemoveRangesIs
  <2> QED BY <2>1 DEF Removed
<1>3. Known(r) = Known(m) /\ \A t \in Types : Expected(r, t) <=> Expected(m, t)
  BY <1>2 DEF Known, Expected
<1>4. \A t \in Types : m.busy[t] # <<>> => r.busy[t] # <<>>
  BY <1>2 DEF Starts
<1>5. Wired(r)
  <2>1. \A t \in Types : ~m.made[t] => r.removals[t] = m.removals[t] /\ r.busy[t] = m.busy[t]
    BY <1>2 DEF Starts
  <2> QED BY <1>2, <1>3, <2>1 DEF Sane, Wired
<1>6. Quiet(r)
  BY <1>2 DEF Sane, Quiet, AnyUpdating, Updating
<1>7. Removing(r)
  <2> SUFFICES ASSUME NEW t \in Types, r.removals[t] # <<>> PROVE r.busy[t] # <<>>
    BY DEF Removing
  <2>1. ~Starts(m, t) => m.busy[t] # <<>> \/ ~m.made[t]
    BY <1>2 DEF Starts
  <2>2. ~m.made[t] => m.removals[t] = <<>>
    BY DEF Sane, Wired
  <2> QED BY <1>2, <1>4, <2>1, <2>2
<1>8. Fed(r)
  <2>1. CASE AnyUpdating(m) \/ m.full \/ HasPendingRemoveRanges(m)
    <3>1. HasPendingRemoveRanges(m) => AnyUpdating(r)
      <4> SUFFICES ASSUME NEW t \in Types, m.removals[t] # <<>> PROVE r.busy[t] # <<>>
        BY DEF HasPendingRemoveRanges, AnyUpdating, Updating
      <4>1. m.made[t]
        BY DEF Sane, Wired
      <4> QED BY <1>2, <1>4, <4>1 DEF Starts
    <3> QED BY <1>2, <1>4, <2>1, <3>1 DEF Fed, AnyUpdating, Updating
  <2>2. CASE Fed(m)
    BY <1>2, <1>4, <2>2 DEF Fed, AnyUpdating, Updating
  <2> QED BY <2>1, <2>2
<1>9. r.state # "closed" => r.inits = <<>>
  BY <1>2 DEF Sane
<1>10. Buffers(r)
  BY <1>5, <1>6, <1>7, <1>8, <1>9 DEF Buffers
<1> QED BY <1>2, <1>3, <1>10 DEF Follows

\* A segment is given to a SourceBuffer, or is not.
Appended(m, r, t) ==
  /\ r \in Controllers /\ r.made = m.made /\ r.inits = m.inits /\ r.removals = m.removals
  /\ r.eos = m.eos /\ r.held = m.held /\ r.done = m.done
  /\ \A u \in Types : u # t => r.busy[u] = m.busy[u] /\ r.segs[u] = m.segs[u]
  /\ r.state = "closed" <=> m.state = "closed"
  /\ m.state = "ended" \/ r.state = m.state
  /\ \/ r = m /\ (m.busy[t] # <<>> \/ ~m.made[t] \/ m.segs[t] = <<>> \/ m.said = "error")
     \/ /\ m.made[t] /\ m.busy[t] = <<>> /\ m.segs[t] # <<>> /\ r.state # "ended" /\ r.said = m.said
        /\ r.segs[t] = Tail(m.segs[t]) /\ r.busy[t] = <<[op |-> "append", seg |-> Head(m.segs[t])]>>
        /\ r.busy[t] # <<>>
     \/ /\ m.segs[t] # <<>> /\ r.full /\ r.busy[t] = m.busy[t] /\ r.segs[t] = m.segs[t] /\ m.made[t]
        /\ r.said # "error" /\ m.said # "error"
     \/ /\ m.segs[t] # <<>> /\ r.said = "error" /\ r.busy[t] = m.busy[t] /\ r.segs[t] = m.segs[t]
        /\ r.full = m.full

\* One type's turn in _doAppendSegments, case by case.
LEMMA AppendOneIs ==
  ASSUME NEW m \in Controllers, NEW t \in Types, NEW o, NEW r, r = AppendOne(m, t, o)
  PROVE  Appended(m, r, t)
<1>0. /\ m.busy \in [Types -> Seq(Jobs)] /\ m.segs \in [Types -> Seq(Segments)]
      /\ m.said \in {"nothing", "full", "error"}
  BY DEF Controllers
<1>1. CASE ~m.made[t] \/ Updating(m, t) \/ m.segs[t] = <<>> \/ m.said = "error"
  <2>1. r = m
    BY <1>1 DEF AppendOne
  <2> QED BY <1>1, <2>1 DEF Appended, Updating
<1>2. CASE m.made[t] /\ ~Updating(m, t) /\ m.segs[t] # <<>> /\ m.said # "error"
  <2> DEFINE state == IF m.state = "ended" THEN "open" ELSE m.state
             job == <<[op |-> "append", seg |-> Head(m.segs[t])]>>
             busy == [m.busy EXCEPT ![t] = job]
             segs == [m.segs EXCEPT ![t] = Tail(@)]
             said == IF m.full THEN m.said ELSE "full"
  <2>1. Head(m.segs[t]) \in Segments /\ Tail(m.segs[t]) \in Seq(Segments)
    BY <1>0, <1>2, HeadTailProperties
  <2>2. job \in Seq(Jobs) /\ job # <<>>
    <3>1. [op |-> "append", seg |-> Head(m.segs[t])] \in Jobs
      BY <2>1 DEF Jobs
    <3> QED BY <3>1
  <2>3. /\ state \in {"closed", "open"} /\ (state = "closed" <=> m.state = "closed")
        /\ m.state = "ended" \/ state = m.state
    BY DEF Controllers
  <2>4. m.busy[t] = <<>> /\ said \in {"nothing", "full"}
    BY <1>0, <1>2 DEF Updating
  <2>5. busy \in [Types -> Seq(Jobs)] /\ busy[t] = job /\ (\A u \in Types : u # t => busy[u] = m.busy[u])
    <3> HIDE DEF job
    <3> QED BY <1>0, <2>2
  <2>6. segs \in [Types -> Seq(Segments)] /\ segs[t] = Tail(m.segs[t]) /\ (\A u \in Types : u # t => segs[u] = m.segs[u])
    BY <1>0, <2>1
  <2>7. CASE o[t] = "ok"
    <3>1. r = [m EXCEPT !.state = state, !.busy = busy, !.segs = segs, !.full = FALSE]
      BY <1>0, <1>2, <2>7 DEF AppendOne, Controllers
    <3>2. job = <<[op |-> "append", seg |-> Head(m.segs[t])]>>
      OBVIOUS
    <3> HIDE DEF state, busy, segs, job
    <3>3. /\ r \in Controllers /\ r.made = m.made /\ r.inits = m.inits /\ r.removals = m.removals
          /\ r.eos = m.eos /\ r.held = m.held /\ r.done = m.done /\ r.busy = busy /\ r.segs = segs
          /\ r.state = state /\ r.said = m.said
      BY <2>3, <2>5, <2>6, <3>1 DEF Controllers
    <3>4. state # "ended"
      BY <2>3
    <3> QED BY <1>2, <2>2, <2>3, <2>4, <2>5, <2>6, <3>2, <3>3, <3>4 DEF Appended
  <2>8. CASE o[t] = "full"
    <3>1. r = [m EXCEPT !.state = state, !.said = said, !.full = TRUE]
      BY <1>0, <1>2, <2>8 DEF AppendOne, Controllers
    <3> HIDE DEF state, said
    <3>3. /\ r \in Controllers /\ r.made = m.made /\ r.inits = m.inits /\ r.removals = m.removals
          /\ r.eos = m.eos /\ r.held = m.held /\ r.done = m.done /\ r.busy = m.busy /\ r.segs = m.segs
          /\ r.state = state /\ r.said = said /\ r.full
      BY <2>3, <2>4, <3>1 DEF Controllers
    <3> QED BY <1>2, <2>3, <2>4, <3>3 DEF Appended
  <2>9. CASE o[t] # "ok" /\ o[t] # "full"
    <3>1. r = [m EXCEPT !.said = "error"]
      BY <1>2, <2>9 DEF AppendOne
    <3> QED BY <1>2, <3>1 DEF Appended, Controllers
  <2> QED BY <2>7, <2>8, <2>9
<1> QED BY <1>1, <1>2

\* A part of a sequence is a sequence of the same.
LEMMA TailIs ==
  ASSUME NEW S, NEW w \in Seq(S), w # <<>>
  PROVE  /\ Tail(w) \in Seq(S)
         /\ \A i \in DOMAIN Tail(w) : i + 1 \in DOMAIN w /\ Tail(w)[i] = w[i + 1]
<1>1. Len(w) \in Nat /\ Len(w) # 0 /\ DOMAIN w = 1 .. Len(w)
  BY EmptySeq, LenProperties
<1>2. Tail(w) \in Seq(S) /\ Len(Tail(w)) = Len(w) - 1 /\ \A i \in 1 .. Len(Tail(w)) : Tail(w)[i] = w[i + 1]
  BY HeadTailProperties
<1>3. DOMAIN Tail(w) = 1 .. Len(Tail(w))
  BY <1>2, LenProperties
<1>4. PICK n \in Nat : n = Len(w)
  BY <1>1
<1>5. \A i \in 1 .. n - 1 : i + 1 \in 1 .. n
  OBVIOUS
<1> QED BY <1>1, <1>2, <1>3, <1>4, <1>5

\* The SourceBuffers when the initialization segments of some types are still
\* to come.
Due(m) == {t \in Types : \E i \in DOMAIN m.inits : m.inits[i].type = t}
WiredBut(m, due) ==
  \A t \in Types :
     /\ ~m.made[t] => m.busy[t] = <<>> /\ m.removals[t] = <<>>
     /\ \A i \in DOMAIN m.segs[t] : m.segs[t][i].type = t
     /\ ~m.made[t] /\ t \notin due => OnlyInits(m.segs[t])
     /\ m.state = "closed" => ~m.made[t]

\* A controller is wired when it is but for the types that are due.
LEMMA WiredIs ==
  ASSUME NEW m
  PROVE  Wired(m) <=> WiredBut(m, Due(m))
BY DEF Wired, WiredBut, Due, Expected

\* What holds at one turn of _doAppendSegments holds at the next.
Turning(m, due) ==
  /\ m \in Controllers /\ WiredBut(m, due) /\ Quiet(m) /\ Removing(m)
  /\ m.state # "closed" => m.inits = <<>>

\* One type's turn in _doAppendSegments keeps the SourceBuffers in order.
LEMMA AppendOneKeeps ==
  ASSUME NEW m, NEW due, Turning(m, due), NEW t \in Types, NEW r, Appended(m, r, t)
  PROVE  /\ Turning(r, due) /\ Known(r) = Known(m)
         /\ r.eos = m.eos /\ (r.state = "ended" => m.state = "ended")
         /\ m.said = "error" => r.said = "error"
         /\ AnyUpdating(m) => AnyUpdating(r)
         /\ m.full => r.full \/ AnyUpdating(r)
         /\ \/ r.said = "error" \/ AnyUpdating(r) \/ r.full
            \/ r = m /\ (~m.made[t] \/ m.segs[t] = <<>>)
<1>1. /\ m \in Controllers /\ WiredBut(m, due) /\ Quiet(m) /\ (m.state # "closed" => m.inits = <<>>)
      /\ Removing(m)
  BY DEF Turning
<1>2. /\ r \in Controllers /\ r.made = m.made /\ r.inits = m.inits /\ r.removals = m.removals
      /\ r.eos = m.eos
      /\ \A u \in Types : u # t => r.busy[u] = m.busy[u] /\ r.segs[u] = m.segs[u]
      /\ r.state = "closed" <=> m.state = "closed"
      /\ m.state = "ended" \/ r.state = m.state
  BY DEF Appended
<1>3. Known(r) = Known(m)
  BY <1>2 DEF Known, Expected
<1>4. \A u \in Types : m.busy[u] # <<>> => r.busy[u] # <<>>
  BY <1>2 DEF Appended
<1>5. \A u \in Types : r.busy[u] # <<>> => m.busy[u] # <<>> \/ (m.made[u] /\ r.state # "ended" /\ u = t)
  BY <1>2 DEF Appended
<1>6. m.segs \in [Types -> Seq(Segments)]
  BY <1>1 DEF Controllers
<1>7. r.segs[t] = m.segs[t] \/ (r.segs[t] = Tail(m.segs[t]) /\ m.segs[t] # <<>> /\ m.made[t])
  BY DEF Appended
<1>8. \A u \in Types : \A i \in DOMAIN r.segs[u] : r.segs[u][i].type = u
  <2>0. \A u \in Types : \A i \in DOMAIN m.segs[u] : m.segs[u][i].type = u
    BY <1>1 DEF WiredBut
  <2>1. CASE r.segs[t] = m.segs[t]
    BY <1>2, <2>0, <2>1
  <2>2. CASE r.segs[t] = Tail(m.segs[t]) /\ m.segs[t] # <<>>
    <3>1. \A i \in DOMAIN r.segs[t] : i + 1 \in DOMAIN m.segs[t] /\ r.segs[t][i] = m.segs[t][i + 1]
      BY <1>6, <2>2, TailIs
    <3> QED BY <1>2, <2>0, <3>1
  <2> QED BY <1>7, <2>1, <2>2
<1>9. WiredBut(r, due)
  <2>1. \A u \in Types : ~r.made[u] => r.busy[u] = <<>> /\ r.removals[u] = <<>>
    BY <1>1, <1>2, <1>5 DEF WiredBut
  <2>2. \A u \in Types : ~r.made[u] => r.segs[u] = m.segs[u]
    BY <1>2, <1>7
  <2>3. \A u \in Types : ~r.made[u] /\ u \notin due => OnlyInits(r.segs[u])
    BY <1>1, <1>2, <2>2 DEF WiredBut
  <2>4. \A u \in Types : r.state = "closed" => ~r.made[u]
    BY <1>1, <1>2 DEF WiredBut
  <2> QED BY <1>8, <2>1, <2>3, <2>4 DEF WiredBut
<1>10. Quiet(r)
  <2> SUFFICES ASSUME r.state = "ended", NEW u \in Types, r.busy[u] # <<>> PROVE FALSE
    BY DEF Quiet, AnyUpdating, Updating
  <2>1. m.state = "ended" /\ m.busy[u] # <<>>
    BY <1>2, <1>5
  <2> QED BY <1>1, <2>1 DEF Quiet, AnyUpdating, Updating
<1>11. Removing(r)
  BY <1>1, <1>2, <1>4 DEF Removing
<1>12. Turning(r, due)
  BY <1>1, <1>2, <1>9, <1>10, <1>11 DEF Turning
<1>13. AnyUpdating(m) => AnyUpdating(r)
  BY <1>4 DEF AnyUpdating, Updating
<1>14. m.full => r.full \/ AnyUpdating(r)
  BY DEF Appended, AnyUpdating, Updating
<1>15. \/ r.said = "error" \/ AnyUpdating(r) \/ r.full
       \/ r = m /\ (~m.made[t] \/ m.segs[t] = <<>>)
  <2>1. r.busy[t] # <<>> => AnyUpdating(r)
    BY DEF AnyUpdating, Updating
  <2>2. \/ r = m /\ (r.busy[t] # <<>> \/ ~m.made[t] \/ m.segs[t] = <<>> \/ r.said = "error")
        \/ r.busy[t] # <<>> \/ r.full \/ r.said = "error"
    <3> DEFINE q == m.busy[t] # <<>> \/ ~m.made[t] \/ m.segs[t] = <<>> \/ m.said = "error"
    <3>1. (r = m /\ q) \/ r.busy[t] # <<>> \/ r.full \/ r.said = "error"
      BY Zenon DEF Appended
    <3> QED BY <3>1
  <2> QED BY <2>1, <2>2, Zenon
<1>16. m.said = "error" => r.said = "error"
  BY DEF Appended
<1> QED BY <1>2, <1>3, <1>12, <1>13, <1>14, <1>15, <1>16

\* When segments may be appended, whatever can be is.
LEMMA DoAppends ==
  ASSUME NEW m, NEW due, Turning(m, due), NEW o, NEW r, r = DoAppendSegments(m, o)
  PROVE  /\ Turning(r, due) /\ Known(r) = Known(m) /\ (r.said = "error" \/ Fed(r))
         /\ r.eos = m.eos /\ (r.state = "ended" => m.state = "ended")
         /\ m.said = "error" => r.said = "error"
         /\ r.inits = m.inits /\ (r.state = "closed" <=> m.state = "closed")
         /\ m.state = "ended" \/ r.state = m.state
<1> DEFINE a == AppendOne(m, "video", o)
<1>0. m \in Controllers /\ "video" \in Types /\ "audio" \in Types
  BY TypesAre DEF Turning
<1>1. Appended(m, a, "video")
  BY <1>0, AppendOneIs
<1>2. /\ Turning(a, due) /\ Known(a) = Known(m)
      /\ a.eos = m.eos /\ (a.state = "ended" => m.state = "ended")
      /\ m.said = "error" => a.said = "error"
      /\ AnyUpdating(m) => AnyUpdating(a)
      /\ m.full => a.full \/ AnyUpdating(a)
      /\ \/ a.said = "error" \/ AnyUpdating(a) \/ a.full
         \/ a = m /\ (~m.made["video"] \/ m.segs["video"] = <<>>)
  <2> HIDE DEF a
  <2> QED BY <1>0, <1>1, AppendOneKeeps
<1>3. r = AppendOne(a, "audio", o) /\ a \in Controllers
  BY <1>2 DEF DoAppendSegments, Turning
<1> HIDE DEF a
<1>4. Appended(a, r, "audio")
  BY <1>0, <1>3, AppendOneIs
<1>5. /\ Turning(r, due) /\ Known(r) = Known(a)
      /\ r.eos = a.eos /\ (r.state = "ended" => a.state = "ended")
      /\ a.said = "error" => r.said = "error"
      /\ AnyUpdating(a) => AnyUpdating(r)
      /\ a.full => r.full \/ AnyUpdating(r)
      /\ \/ r.said = "error" \/ AnyUpdating(r) \/ r.full
         \/ r = a /\ (~a.made["audio"] \/ a.segs["audio"] = <<>>)
  <2>1. Turning(a, due)
    BY <1>2
  <2> QED BY <1>0, <1>4, <2>1, AppendOneKeeps
<1>6. r.said = "error" \/ Fed(r)
  <2>1. CASE r = a /\ a = m /\ (~m.made["video"] \/ m.segs["video"] = <<>>) /\ (~m.made["audio"] \/ m.segs["audio"] = <<>>)
    <3>1. \A t \in Types : m.made[t] => OnlyInits(m.segs[t])
      BY <2>1, TypesAre DEF OnlyInits
    <3> QED BY <2>1, <3>1 DEF Fed
  <2> QED BY <1>2, <1>5, <2>1 DEF Fed
<1>7. /\ r.inits = m.inits /\ (r.state = "closed" <=> m.state = "closed")
      /\ m.state = "ended" \/ r.state = m.state
  BY <1>1, <1>2, <1>4, <1>5 DEF Appended
<1> QED BY <1>2, <1>5, <1>6, <1>7

\* The same for the player.
LEMMA Appends ==
  ASSUME NEW m, Sane(m), Removing(m), NEW o, NEW r, r = DoAppendSegments(m, o)
  PROVE  Follows(m, r) /\ Known(r) = Known(m)
<1>1. Turning(m, Due(m))
  BY WiredIs DEF Sane, Turning
<1>2. /\ Turning(r, Due(m)) /\ Known(r) = Known(m) /\ (r.said = "error" \/ Fed(r))
      /\ r.eos = m.eos /\ (r.state = "ended" => m.state = "ended")
      /\ r.inits = m.inits
  BY <1>1, DoAppends
<1>3. Due(r) = Due(m)
  BY <1>2 DEF Due
<1>4. Wired(r)
  BY <1>2, <1>3, WiredIs DEF Turning
<1> QED BY <1>2, <1>4 DEF Turning, Follows, Buffers

\* A segment joins the queue of its type.
Enqueued(m, r, t, seg) ==
  /\ r \in Controllers /\ r.made = m.made /\ r.inits = m.inits /\ r.removals = m.removals
  /\ r.eos = m.eos /\ r.held = m.held /\ r.done = m.done /\ r.busy = m.busy /\ r.state = m.state
  /\ r.full = m.full /\ r.said = m.said
  /\ r.segs[t] = Append(m.segs[t], seg) /\ \A u \in Types : u # t => r.segs[u] = m.segs[u]

\* A segment joins the pending ones of its type.
LEMMA JoinIs ==
  ASSUME NEW m \in Controllers, NEW t \in Types, NEW seg \in Segments,
         NEW r, r = [m EXCEPT !.segs[t] = Append(@, seg)]
  PROVE  Enqueued(m, r, t, seg)
<1>0. m.segs \in [Types -> Seq(Segments)]
  BY DEF Controllers
<1> DEFINE segs == [m.segs EXCEPT ![t] = Append(@, seg)]
<1>1. Append(m.segs[t], seg) \in Seq(Segments)
  BY <1>0, AppendProperties
<1>2. segs \in [Types -> Seq(Segments)] /\ segs[t] = Append(m.segs[t], seg)
      /\ \A u \in Types : u # t => segs[u] = m.segs[u]
  BY <1>0, <1>1
<1>3. r = [m EXCEPT !.segs = segs]
  BY DEF Controllers
<1> HIDE DEF segs
<1> QED BY <1>2, <1>3 DEF Enqueued, Controllers

\* One more at the end of a sequence.
OneMore(v, w, e) == \A i \in DOMAIN v : (i \in DOMAIN w /\ v[i] = w[i]) \/ v[i] = e

\* A sequence with one element more.
LEMMA AppendedIs ==
  ASSUME NEW S, NEW w \in Seq(S), NEW e \in S, NEW v, v = Append(w, e)
  PROVE  OneMore(v, w, e)
<1>1. /\ DOMAIN w = 1 .. Len(w) /\ Len(w) \in Nat /\ DOMAIN v = 1 .. Len(w) + 1 /\ v[Len(w) + 1] = e
      /\ \A i \in 1 .. Len(w) : v[i] = w[i]
  BY AppendProperties, LenProperties
<1>2. PICK n \in Nat : n = Len(w)
  BY <1>1
<1>3. \A i \in 1 .. n + 1 : i \in 1 .. n \/ i = n + 1
  OBVIOUS
<1>4. DOMAIN v = 1 .. n + 1 /\ v[n + 1] = e /\ DOMAIN w = 1 .. n /\ \A i \in 1 .. n : v[i] = w[i]
  BY <1>1, <1>2, Zenon
<1> SUFFICES ASSUME NEW i \in DOMAIN v PROVE (i \in DOMAIN w /\ v[i] = w[i]) \/ v[i] = e
  BY DEF OneMore
<1>5. i \in 1 .. n \/ i = n + 1
  BY <1>3, <1>4, Zenon
<1>6. i \in 1 .. n => i \in DOMAIN w /\ v[i] = w[i]
  BY <1>4
<1>7. i = n + 1 => v[i] = e
  BY <1>4
<1> QED BY <1>5, <1>6, <1>7

\* The SourceBuffers stay as they are meant to be when the segment is of a type
\* that is known, or is an initialization segment.
LEMMA JoinKeeps ==
  ASSUME NEW m, NEW due, Turning(m, due), NEW t \in Types, NEW seg \in Segments, seg.type = t,
         seg.ev = "init" \/ m.made[t] \/ t \in due, NEW r, Enqueued(m, r, t, seg)
  PROVE  Turning(r, due) /\ Known(r) = Known(m) /\ AnyUpdating(m) = AnyUpdating(r)
<1>1. /\ m \in Controllers /\ WiredBut(m, due) /\ Quiet(m) /\ (m.state # "closed" => m.inits = <<>>)
      /\ Removing(m)
  BY DEF Turning
<1>2. /\ r \in Controllers /\ r.made = m.made /\ r.inits = m.inits /\ r.removals = m.removals
      /\ r.busy = m.busy /\ r.state = m.state
      /\ r.segs[t] = Append(m.segs[t], seg) /\ \A u \in Types : u # t => r.segs[u] = m.segs[u]
  BY DEF Enqueued
<1>3. m.segs[t] \in Seq(Segments)
  BY <1>1 DEF Controllers
<1>4. OneMore(r.segs[t], m.segs[t], seg)
  BY <1>2, <1>3, AppendedIs
<1>5. \A u \in Types : \A i \in DOMAIN r.segs[u] : r.segs[u][i].type = u
  <2>1. \A u \in Types : \A i \in DOMAIN m.segs[u] : m.segs[u][i].type = u
    BY <1>1 DEF WiredBut
  <2>2. \A i \in DOMAIN r.segs[t] : r.segs[t][i].type = t
    BY <1>4, <2>1 DEF OneMore
  <2>3. ASSUME NEW u \in Types PROVE \A i \in DOMAIN r.segs[u] : r.segs[u][i].type = u
    <3>1. CASE u = t
      BY <2>2, <3>1, Zenon
    <3>2. CASE u # t
      <4>1. r.segs[u] = m.segs[u]
        BY <1>2, <3>2
      <4> QED BY <2>1, <4>1, Zenon
    <3> QED BY <3>1, <3>2
  <2> QED BY <2>3
<1>6. ASSUME NEW u \in Types, ~r.made[u], u \notin due PROVE OnlyInits(r.segs[u])
  <2>1. OnlyInits(m.segs[u])
    BY <1>1, <1>2, <1>6 DEF WiredBut
  <2>2. u = t => seg.ev = "init"
    BY <1>2, <1>6
  <2> QED BY <1>2, <1>4, <2>1, <2>2 DEF OnlyInits, OneMore
<1>7. WiredBut(r, due)
  <2>1. \A u \in Types : ~r.made[u] => r.busy[u] = <<>> /\ r.removals[u] = <<>>
    BY <1>1, <1>2 DEF WiredBut
  <2>2. \A u \in Types : r.state = "closed" => ~r.made[u]
    BY <1>1, <1>2 DEF WiredBut
  <2> QED BY <1>5, <1>6, <2>1, <2>2 DEF WiredBut
<1>8. Quiet(r) /\ Removing(r) /\ AnyUpdating(m) = AnyUpdating(r)
  BY <1>1, <1>2 DEF Quiet, Removing, AnyUpdating, Updating
<1>9. Known(r) = Known(m)
  BY <1>2, KnownIs
<1> QED BY <1>1, <1>2, <1>7, <1>8, <1>9 DEF Turning

\* Such a state is what the player needs, if something is being done.
LEMMA TurningBuffers ==
  ASSUME NEW m
  PROVE  /\ Turning(m, Due(m)) <=> Sane(m) /\ Removing(m)
         /\ Turning(m, Due(m)) /\ (m.state # "closed" => Fed(m)) <=> m \in Controllers /\ Buffers(m)
BY WiredIs DEF Turning, Sane, Buffers

\* The SourceBuffer of an initialization segment's type is made.
Made(m, r, t) ==
  /\ r \in Controllers /\ r.inits = m.inits /\ r.removals = m.removals /\ r.segs = m.segs
  /\ r.eos = m.eos /\ r.held = m.held /\ r.done = m.done /\ r.busy = m.busy /\ r.state = m.state
  /\ r.full = m.full /\ r.said = m.said
  /\ r.made[t] /\ \A u \in Types : u # t => r.made[u] = m.made[u]

\* addSourceBuffer makes the SourceBuffer of one type.
LEMMA MakeIs ==
  ASSUME NEW m \in Controllers, NEW t \in Types, NEW r, r = [m EXCEPT !.made[t] = TRUE]
  PROVE  Made(m, r, t)
<1>0. m.made \in [Types -> BOOLEAN]
  BY DEF Controllers, Flags
<1> DEFINE made == [m.made EXCEPT ![t] = TRUE]
<1>2. made \in Flags /\ made[t] /\ \A u \in Types : u # t => made[u] = m.made[u]
  BY <1>0 DEF Flags
<1>3. r = [m EXCEPT !.made = made]
  BY DEF Controllers
<1> HIDE DEF made
<1> QED BY <1>2, <1>3 DEF Made, Controllers

\* A SourceBuffer that is made was due, and no other is disturbed.
LEMMA MakeKeeps ==
  ASSUME NEW m, NEW due, NEW left, Turning(m, due), m.state # "closed", NEW t \in Types, ~m.made[t],
         due \subseteq left \cup {t}, NEW r, Made(m, r, t)
  PROVE  /\ Turning(r, left) /\ Known(m) \subseteq Known(r) /\ t \in Known(r)
         /\ AnyUpdating(m) = AnyUpdating(r)
<1>1. /\ m \in Controllers /\ WiredBut(m, due) /\ Quiet(m) /\ (m.state # "closed" => m.inits = <<>>)
      /\ Removing(m)
  BY DEF Turning
<1>2. /\ r \in Controllers /\ r.inits = m.inits /\ r.removals = m.removals /\ r.segs = m.segs
      /\ r.busy = m.busy /\ r.state = m.state
      /\ r.made[t] /\ \A u \in Types : u # t => r.made[u] = m.made[u]
  BY DEF Made
<1>3. WiredBut(r, left)
  <2>1. \A u \in Types : ~r.made[u] /\ u \notin left => ~m.made[u] /\ u \notin due
    BY <1>2
  <2>2. \A u \in Types : ~r.made[u] => ~m.made[u]
    BY <1>2
  <2> QED BY <1>1, <1>2, <2>1, <2>2 DEF WiredBut
<1>4. Quiet(r) /\ Removing(r) /\ AnyUpdating(m) = AnyUpdating(r)
  BY <1>1, <1>2 DEF Quiet, Removing, AnyUpdating, Updating
<1>5. Known(m) \subseteq Known(r) /\ t \in Known(r)
  BY <1>2 DEF Known, Expected
<1> QED BY <1>1, <1>2, <1>3, <1>4, <1>5 DEF Turning

\* The two lemmas for the provers.
Acted(m, r, due) ==
  /\ Turning(r, due) /\ Known(r) = Known(m) /\ (r.said = "error" \/ Fed(r))
  /\ r.eos = m.eos /\ (r.state = "ended" => m.state = "ended")
  /\ m.said = "error" => r.said = "error"
  /\ r.inits = m.inits /\ (r.state = "closed" <=> m.state = "closed")
  /\ m.state = "ended" \/ r.state = m.state

\* _doAppendSegments as one step of the controller.
LEMMA DoActs ==
  ASSUME NEW m, NEW due, Turning(m, due), NEW o, NEW r, r = DoAppendSegments(m, o)
  PROVE  Acted(m, r, due)
BY DoAppends DEF Acted

Makes(m, r, t, left) ==
  Turning(r, left) /\ Known(m) \subseteq Known(r) /\ t \in Known(r) /\ AnyUpdating(m) = AnyUpdating(r)

\* addSourceBuffer as one step of the controller.
LEMMA MakeMakes ==
  ASSUME NEW m, NEW due, NEW left, Turning(m, due), m.state # "closed", NEW t \in Types, ~m.made[t],
         due \subseteq left \cup {t}, NEW r, Made(m, r, t)
  PROVE  Makes(m, r, t, left)
BY MakeKeeps DEF Makes

\* The page is told of an error.
LEMMA RefusedIs ==
  ASSUME NEW m \in Controllers, NEW r, r = [m EXCEPT !.said = "error"]
  PROVE  r \in Controllers /\ r.said = "error" /\ r.eos = m.eos /\ r.state = m.state /\ r.inits = m.inits
BY DEF Controllers

\* After an error nothing is appended.
LEMMA ErrorStays ==
  ASSUME NEW m, m.said = "error", NEW o
  PROVE  DoAppendSegments(m, o) = m
BY DEF DoAppendSegments, AppendOne

\* Fewer types are due: those that have got their SourceBuffer.
LEMMA TurningLess ==
  ASSUME NEW m, NEW due, NEW left, Turning(m, due), \A t \in Types : ~m.made[t] /\ t \in due => t \in left
  PROVE  Turning(m, left)
<1>1. WiredBut(m, left)
  BY DEF Turning, WiredBut
<1> QED BY <1>1 DEF Turning

\* What has become of the types that are due.
InitDone(m, r, t, left) ==
  /\ r \in Controllers /\ r.state = "open" /\ r.eos = m.eos /\ r.inits = m.inits
  /\ r.said = "error" \/ (Turning(r, left) /\ Known(m) \subseteq Known(r) /\ t \in Known(r))

\* An initialization segment that waited for the MediaSource.
LEMMA InitDeferred ==
  ASSUME NEW m \in Controllers, m.state = "open", NEW due, NEW left, m.said = "error" \/ Turning(m, due),
         NEW seg \in Inits, NEW t \in Types, t = seg.type, due \subseteq left \cup {t},
         NEW o, NEW r, r = AppendInitSegment(m, seg, TRUE, o)
  PROVE  InitDone(m, r, t, left)
<1>0. m.made \in [Types -> BOOLEAN] /\ m.segs \in [Types -> Seq(Segments)]
  BY DEF Controllers, Flags
<1>1. [m EXCEPT !.segs[t] = @] = m
  <2>1. [m.segs EXCEPT ![t] = @] = m.segs
    BY <1>0
  <2> QED BY <2>1 DEF Controllers
<1>2. r = IF m.made[t]
          THEN IF Updating(m, t) THEN m ELSE DoAppendSegments(m, o)
          ELSE IF o.add = "ok" THEN [m EXCEPT !.made[t] = TRUE] ELSE [m EXCEPT !.said = "error"]
  <2>1. r = IF m.made[t]
            THEN IF Updating(m, t) THEN [m EXCEPT !.segs[t] = IF TRUE THEN @ ELSE Append(@, seg)]
                 ELSE DoAppendSegments([m EXCEPT !.segs[t] = IF TRUE THEN @ ELSE Append(@, seg)], o)
            ELSE IF o.add = "ok" THEN [[m EXCEPT !.segs[t] = IF TRUE THEN @ ELSE Append(@, seg)] EXCEPT !.made[t] = TRUE]
                 ELSE [m EXCEPT !.said = "error"]
    BY DEF AppendInitSegment
  <2>2. [m EXCEPT !.segs[t] = IF TRUE THEN @ ELSE Append(@, seg)] = [m EXCEPT !.segs[t] = @]
    OBVIOUS
  <2> QED BY <1>1, <2>1, <2>2
<1>3. CASE m.made[t] /\ Updating(m, t)
  <2>1. r = m
    BY <1>2, <1>3
  <2>2. m.said # "error" => Turning(m, left)
    BY <1>3, TurningLess
  <2>3. t \in Known(m)
    BY <1>3 DEF Known, Expected
  <2> QED BY <2>1, <2>2, <2>3 DEF InitDone
<1>4. CASE m.made[t] /\ ~Updating(m, t)
  <2>1. r = DoAppendSegments(m, o)
    BY <1>2, <1>4
  <2>2. m.said # "error" => Turning(m, left)
    BY <1>4, TurningLess
  <2>3. t \in Known(m)
    BY <1>4 DEF Known, Expected
  <2>4. CASE m.said = "error"
    BY <2>1, <2>4, ErrorStays DEF InitDone
  <2>5. CASE m.said # "error"
    <3>1. /\ Turning(r, left) /\ Known(r) = Known(m)
          /\ r.eos = m.eos /\ r.inits = m.inits
          /\ m.state = "ended" \/ r.state = m.state
      <4>1. Acted(m, r, left)
        BY <2>1, <2>2, <2>5, DoActs, Zenon
      <4> QED BY <4>1 DEF Acted
    <3>2. r \in Controllers
      BY <3>1 DEF Turning
    <3> QED BY <2>3, <3>1, <3>2 DEF InitDone
  <2> QED BY <2>4, <2>5
<1>5. CASE ~m.made[t] /\ o.add = "ok"
  <2>1. Made(m, r, t)
    BY <1>2, <1>5, MakeIs
  <2>2. r \in Controllers /\ r.state = m.state /\ r.eos = m.eos /\ r.inits = m.inits /\ r.said = m.said
    BY <2>1 DEF Made
  <2>3. CASE m.said = "error"
    BY <2>2, <2>3 DEF InitDone
  <2>4. CASE m.said # "error"
    <3>1. Turning(r, left) /\ Known(m) \subseteq Known(r) /\ t \in Known(r)
      BY <1>5, <2>1, <2>4, MakeKeeps
    <3> QED BY <2>2, <3>1 DEF InitDone
  <2> QED BY <2>3, <2>4
<1>6. CASE ~m.made[t] /\ o.add # "ok"
  <2>1. r = [m EXCEPT !.said = "error"]
    BY <1>2, <1>6
  <2> QED BY <2>1, RefusedIs DEF InitDone
<1> QED BY <1>3, <1>4, <1>5, <1>6

\* The controller is given an initialization segment while the MediaSource is open.
LEMMA InitOpen ==
  ASSUME NEW m \in Controllers, Buffers(m), m.said # "error", m.state = "open", NEW seg \in Inits,
         NEW o, NEW r, r = AppendInitSegment(m, seg, FALSE, o)
  PROVE  Follows(m, r) /\ (r.said = "error" \/ seg.type \in Known(r))
<1> DEFINE t == seg.type
           queued == [m EXCEPT !.segs[t] = Append(@, seg)]
<1>0. t \in Types /\ seg \in Segments /\ seg.ev = "init"
  BY DEF Inits, Segments
<1>1. r = IF m.made[t]
          THEN IF Updating(m, t) THEN queued ELSE DoAppendSegments(queued, o)
          ELSE IF o.add = "ok" THEN [queued EXCEPT !.made[t] = TRUE] ELSE [m EXCEPT !.said = "error"]
  <2>1. r = IF m.made[t]
            THEN IF Updating(m, t) THEN [m EXCEPT !.segs[t] = IF FALSE THEN @ ELSE Append(@, seg)]
                 ELSE DoAppendSegments([m EXCEPT !.segs[t] = IF FALSE THEN @ ELSE Append(@, seg)], o)
            ELSE IF o.add = "ok" THEN [[m EXCEPT !.segs[t] = IF FALSE THEN @ ELSE Append(@, seg)] EXCEPT !.made[t] = TRUE]
                 ELSE [m EXCEPT !.said = "error"]
    BY DEF AppendInitSegment
  <2>2. [m EXCEPT !.segs[t] = IF FALSE THEN @ ELSE Append(@, seg)] = queued
    OBVIOUS
  <2> QED BY <2>1, <2>2
<1>2. Enqueued(m, queued, t, seg)
  BY <1>0, JoinIs
<1> HIDE DEF queued
<1>3. m.inits = <<>> /\ Due(m) = {} /\ Turning(m, Due(m))
  <2>1. m.inits = <<>>
    BY DEF Buffers
  <2>2. DOMAIN m.inits = {}
    BY <2>1
  <2>3. Due(m) = {}
    BY <2>2 DEF Due
  <2> QED BY <2>1, <2>3, TurningBuffers DEF Buffers
<1>4. Turning(queued, {}) /\ Known(queued) = Known(m) /\ AnyUpdating(m) = AnyUpdating(queued)
  BY <1>0, <1>2, <1>3, JoinKeeps
<1>5. /\ queued.inits = <<>> /\ queued.state = "open" /\ queued.eos = m.eos /\ queued.said = m.said
      /\ queued.made = m.made /\ queued.full = m.full
      /\ queued.segs[t] = Append(m.segs[t], seg)
      /\ \A u \in Types : u # t => queued.segs[u] = m.segs[u]
  BY <1>2, <1>3 DEF Enqueued
<1>6. ASSUME NEW x, Turning(x, {}), x.inits = <<>> PROVE Wired(x)
  <2>1. DOMAIN x.inits = {}
    BY <1>6
  <2>2. Due(x) = {}
    BY <2>1 DEF Due
  <2> QED BY <1>6, <2>2, WiredIs DEF Turning
<1>7. CASE m.made[t] /\ Updating(m, t)
  <2>1. r = queued
    BY <1>1, <1>7
  <2>2. Fed(queued)
    BY <1>0, <1>4, <1>7 DEF AnyUpdating, Fed
  <2>3. Buffers(queued) /\ queued \in Controllers
    BY <1>4, <1>5, <1>6, <2>2 DEF Buffers, Turning
  <2>4. t \in Known(m)
    BY <1>0, <1>7 DEF Known, Expected
  <2> QED BY <1>4, <1>5, <2>1, <2>3, <2>4 DEF Follows
<1>8. CASE m.made[t] /\ ~Updating(m, t)
  <2>1. r = DoAppendSegments(queued, o)
    BY <1>1, <1>8
  <2>2. /\ Turning(r, {}) /\ Known(r) = Known(queued) /\ (r.said = "error" \/ Fed(r))
        /\ r.eos = queued.eos /\ r.inits = queued.inits
        /\ queued.state = "ended" \/ r.state = queued.state
    <3>1. Turning(queued, {})
      BY <1>4
    <3>2. Acted(queued, r, {})
      BY <2>1, <3>1, DoActs, Zenon
    <3> QED BY <3>2 DEF Acted
  <2>3. r.said = "error" \/ Buffers(r)
    BY <1>5, <1>6, <2>2 DEF Buffers, Turning
  <2>4. t \in Known(m)
    BY <1>0, <1>8 DEF Known, Expected
  <2>5. r \in Controllers
    BY <2>2 DEF Turning
  <2> QED BY <1>4, <1>5, <2>2, <2>3, <2>4, <2>5 DEF Follows
<1>9. CASE ~m.made[t] /\ o.add = "ok"
  <2>1. r = [queued EXCEPT !.made[t] = TRUE] /\ queued \in Controllers
    BY <1>1, <1>4, <1>9 DEF Turning
  <2>2. Made(queued, r, t)
    BY <1>0, <2>1, MakeIs
  <2>3. /\ Turning(r, {}) /\ Known(queued) \subseteq Known(r) /\ t \in Known(r)
        /\ AnyUpdating(queued) = AnyUpdating(r)
    <3>1. PICK e, u : e = {} /\ u = t
      OBVIOUS
    <3>2. Turning(queued, e) /\ queued.state # "closed" /\ ~queued.made[u] /\ e \subseteq e \cup {u}
      BY <1>4, <1>5, <1>9, <3>1
    <3>3. u \in Types /\ Made(queued, r, u)
      BY <1>0, <2>2, <3>1
    <3> HIDE DEF t
    <3>4. Makes(queued, r, u, e)
      BY <3>2, <3>3, MakeMakes
    <3> QED BY <3>1, <3>4 DEF Makes
  <2>4. /\ r \in Controllers /\ r.inits = <<>> /\ r.segs = queued.segs /\ r.eos = m.eos /\ r.state = "open"
        /\ r.full = m.full /\ \A u \in Types : u # t => r.made[u] = m.made[u]
    BY <1>5, <2>2 DEF Made
  <2>5. Fed(r)
    <3>1. Fed(m)
      BY <1>3 DEF Buffers
    <3>2. OnlyInits(queued.segs[t])
      BY <1>0, <1>4, <1>5, <1>9 DEF Turning, WiredBut
    <3>3. ASSUME \A u \in Types : m.made[u] => OnlyInits(m.segs[u]) PROVE \A u \in Types : OnlyInits(r.segs[u]) \/ ~r.made[u]
      BY <1>5, <2>4, <3>2, <3>3
    <3> QED BY <1>4, <2>3, <2>4, <3>1, <3>3 DEF Fed
  <2>6. Buffers(r)
    BY <1>6, <2>3, <2>4, <2>5 DEF Buffers, Turning
  <2> QED BY <1>4, <2>3, <2>4, <2>6 DEF Follows
<1>10. CASE ~m.made[t] /\ o.add # "ok"
  <2>1. r = [m EXCEPT !.said = "error"]
    BY <1>1, <1>10
  <2>2. r \in Controllers /\ r.said = "error" /\ r.eos = m.eos /\ r.state = m.state
    BY <2>1, RefusedIs
  <2> QED BY <2>2 DEF Follows
<1> QED BY <1>7, <1>8, <1>9, <1>10

\* The controller is given an initialization segment before the MediaSource is open.
LEMMA InitClosed ==
  ASSUME NEW m \in Controllers, Buffers(m), m.said # "error", m.state = "closed", NEW seg \in Inits,
         NEW o, NEW r, r = AppendInitSegment(m, seg, FALSE, o)
  PROVE  Follows(m, r) /\ (r.said = "error" \/ seg.type \in Known(r))
<1> DEFINE t == seg.type
           queued == [m EXCEPT !.segs[t] = Append(@, seg)]
           inits == Append(m.inits, seg)
<1>0. t \in Types /\ seg \in Segments /\ seg.ev = "init" /\ m.inits \in Seq(Inits)
  BY DEF Inits, Segments, Controllers
<1>1. r = [queued EXCEPT !.inits = inits]
  <2>1. r = [m EXCEPT !.inits = Append(@, seg), !.segs[t] = Append(@, seg)]
    BY DEF AppendInitSegment
  <2> QED BY <2>1 DEF Controllers
<1>2. Enqueued(m, queued, t, seg)
  BY <1>0, JoinIs
<1> HIDE DEF queued
<1>3. Turning(m, Due(m))
  BY TurningBuffers DEF Buffers
<1>4. Turning(queued, Due(m)) /\ Known(queued) = Known(m) /\ AnyUpdating(m) = AnyUpdating(queued)
  BY <1>0, <1>2, <1>3, JoinKeeps
<1>5. /\ inits \in Seq(Inits) /\ OneMore(inits, m.inits, seg)
      /\ \A i \in DOMAIN m.inits : i \in DOMAIN inits /\ inits[i] = m.inits[i]
      /\ \E i \in DOMAIN inits : inits[i] = seg
  <2>1. inits \in Seq(Inits) /\ Len(inits) = Len(m.inits) + 1 /\ inits[Len(m.inits) + 1] = seg
        /\ \A i \in 1 .. Len(m.inits) : inits[i] = m.inits[i]
    BY <1>0, AppendProperties
  <2>2. OneMore(inits, m.inits, seg)
    BY <1>0, AppendedIs
  <2> HIDE DEF inits
  <2>3. DOMAIN inits = 1 .. Len(inits) /\ DOMAIN m.inits = 1 .. Len(m.inits) /\ Len(m.inits) \in Nat
    BY <1>0, <2>1
  <2>4. PICK n \in Nat : n = Len(m.inits)
    BY <2>3
  <2>5. n + 1 \in 1 .. n + 1 /\ \A i \in 1 .. n : i \in 1 .. n + 1
    OBVIOUS
  <2>6. DOMAIN inits = 1 .. n + 1 /\ DOMAIN m.inits = 1 .. n /\ inits[n + 1] = seg
        /\ \A i \in 1 .. n : inits[i] = m.inits[i]
    BY <2>1, <2>3, <2>4, Zenon
  <2> QED BY <2>1, <2>2, <2>5, <2>6
<1> HIDE DEF inits
<1>6. /\ r \in Controllers /\ r.inits = inits /\ r.state = "closed" /\ r.eos = m.eos /\ r.said = m.said
      /\ r.made = queued.made /\ r.segs = queued.segs /\ r.busy = queued.busy /\ r.removals = queued.removals
  <2>1. queued \in Controllers /\ queued.state = m.state /\ queued.eos = m.eos /\ queued.said = m.said
    BY <1>2 DEF Enqueued
  <2> QED BY <1>1, <1>5, <2>1 DEF Controllers
<1>7. m.made = queued.made /\ m.inits = queued.inits
  BY <1>2 DEF Enqueued
<1>8. Due(m) \subseteq Due(r) /\ t \in Due(r)
  BY <1>0, <1>5, <1>6 DEF Due
<1>9. Known(m) \subseteq Known(r) /\ t \in Known(r)
  <2>1. \A u \in Types : m.made[u] \/ u \in Due(m) => r.made[u] \/ u \in Due(r)
    BY <1>6, <1>7, <1>8
  <2>2. \A u \in Types : (u \in Known(m) <=> m.made[u] \/ u \in Due(m)) /\ (u \in Known(r) <=> r.made[u] \/ u \in Due(r))
    BY DEF Known, Expected, Due
  <2>3. Known(m) \subseteq Types
    BY DEF Known
  <2> QED BY <1>0, <1>8, <2>1, <2>2, <2>3
<1>10. WiredBut(r, Due(r))
  <2>1. ASSUME NEW u \in Types
        PROVE  /\ ~r.made[u] => r.busy[u] = <<>> /\ r.removals[u] = <<>>
               /\ \A i \in DOMAIN r.segs[u] : r.segs[u][i].type = u
               /\ ~r.made[u] /\ u \notin Due(r) => OnlyInits(r.segs[u])
               /\ r.state = "closed" => ~r.made[u]
    <3>1. r.made[u] = queued.made[u] /\ r.segs[u] = queued.segs[u] /\ r.busy[u] = queued.busy[u]
          /\ r.removals[u] = queued.removals[u] /\ queued.state = "closed"
      BY <1>2, <1>6 DEF Enqueued
    <3>2. /\ ~queued.made[u] => queued.busy[u] = <<>> /\ queued.removals[u] = <<>>
          /\ \A i \in DOMAIN queued.segs[u] : queued.segs[u][i].type = u
          /\ ~queued.made[u] /\ u \notin Due(m) => OnlyInits(queued.segs[u])
          /\ queued.state = "closed" => ~queued.made[u]
      BY <1>4 DEF Turning, WiredBut
    <3> QED BY <1>8, <3>1, <3>2
  <2> QED BY <2>1 DEF WiredBut
<1>11. Removing(r) /\ Quiet(r)
  BY <1>4, <1>6 DEF Turning, Removing, Quiet
<1>12. Buffers(r)
  BY <1>6, <1>10, <1>11, WiredIs DEF Buffers
<1> QED BY <1>6, <1>9, <1>12 DEF Follows

\* What is far enough behind is one range at most, of a SourceBuffer that is made.
LEMMA OldRangeIs ==
  ASSUME NEW m \in Controllers, NEW t \in Types, NEW now \in Int, NEW w, w = OldRange(m, t, now)
  PROVE  w \in Seq(Ranges) /\ (~m.made[t] => w = <<>>)
<1>1. m.held[t] \in Ranges
  BY DEF Controllers
<1>2. now - MinBackward \in Int
  BY CleanupAssumption
<1>3. \A a \in Ranges : <<a>> \in Seq(Ranges)
  OBVIOUS
<1>4. [from |-> m.held[t].from, to |-> now - MinBackward] \in Ranges
  BY <1>1, <1>2 DEF Ranges
<1>5. <<>> \in Seq(Ranges)
  OBVIOUS
<1>6. w \in {<<>>, <<m.held[t]>>, <<[from |-> m.held[t].from, to |-> now - MinBackward]>>}
  BY DEF OldRange
<1> QED BY <1>1, <1>3, <1>4, <1>5, <1>6 DEF OldRange

\* More removals wait.
Cleaning(m, r, old) ==
  /\ r \in Controllers /\ r.segs = m.segs /\ r.made = m.made /\ r.inits = m.inits /\ r.eos = m.eos
  /\ r.full = m.full /\ r.said = m.said /\ r.state = m.state /\ r.busy = m.busy
  /\ \A t \in Types : r.removals[t] = m.removals[t] \o old[t]

\* The old ranges join the pending removals.
LEMMA CleaningIs ==
  ASSUME NEW m \in Controllers, NEW old \in [Types -> Seq(Ranges)],
         NEW r, r = [m EXCEPT !.removals = [t \in Types |-> @[t] \o old[t]]]
  PROVE  Cleaning(m, r, old)
<1> DEFINE removals == [t \in Types |-> m.removals[t] \o old[t]]
<1>1. m.removals \in [Types -> Seq(Ranges)]
  BY DEF Controllers
<1>2. \A t \in Types : m.removals[t] \o old[t] \in Seq(Ranges)
  BY <1>1, ConcatProperties
<1>3. removals \in [Types -> Seq(Ranges)] /\ \A t \in Types : removals[t] = m.removals[t] \o old[t]
  BY <1>2
<1>4. r = [m EXCEPT !.removals = removals]
  OBVIOUS
<1> HIDE DEF removals
<1> QED BY <1>3, <1>4 DEF Cleaning, Controllers

\* What a cleanup keeps.
Cleaned(m, r) ==
  /\ Sane(r) /\ Removing(r) /\ r.made = m.made /\ r.inits = m.inits
  /\ r.said = m.said /\ r.eos = m.eos /\ (r.state = "ended" => m.state = "ended")

\* _doCleanupSourceBuffer keeps the SourceBuffers in order.
LEMMA CleanupKeeps ==
  ASSUME NEW m, Sane(m), Removing(m), m.said # "error", NEW now \in Int, NEW r, r = DoCleanup(m, now)
  PROVE  Cleaned(m, r)
<1> DEFINE old == [t \in Types |-> OldRange(m, t, now)]
           y == [m EXCEPT !.removals = [t \in Types |-> @[t] \o old[t]]]
<1>1. m \in Controllers /\ Wired(m) /\ Quiet(m) /\ (m.state # "closed" => m.inits = <<>>)
  BY DEF Sane
<1>2. old \in [Types -> Seq(Ranges)] /\ \A t \in Types : ~m.made[t] => old[t] = <<>>
  BY <1>1, OldRangeIs
<1>3. r = IF \E t \in Types : old[t] # <<>> /\ ~Updating(m, t) THEN DoRemoveRanges(y) ELSE y
  BY DEF DoCleanup
<1> HIDE DEF old
<1>4. Cleaning(m, y, old)
  BY <1>1, <1>2, CleaningIs
<1> HIDE DEF y
<1>5. /\ y \in Controllers /\ y.segs = m.segs /\ y.made = m.made /\ y.inits = m.inits /\ y.eos = m.eos
      /\ y.full = m.full /\ y.said = m.said /\ y.state = m.state /\ y.busy = m.busy
      /\ \A t \in Types : y.removals[t] = m.removals[t] \o old[t]
  BY <1>4 DEF Cleaning
<1>6. \A t \in Types : /\ old[t] = <<>> => y.removals[t] = m.removals[t]
                       /\ old[t] # <<>> => y.removals[t] # <<>>
  <2> SUFFICES ASSUME NEW t \in Types
               PROVE  /\ old[t] = <<>> => y.removals[t] = m.removals[t]
                      /\ old[t] # <<>> => y.removals[t] # <<>>
    OBVIOUS
  <2>1. PICK u, v \in Seq(Ranges) : u = m.removals[t] /\ v = old[t]
    BY <1>1, <1>2 DEF Controllers
  <2>2. y.removals[t] = u \o v
    BY <1>5, <2>1
  <2>3. u \in Seq(Ranges)
    BY <1>1, <2>1 DEF Controllers
  <2>4. v = <<>> => u \o v = u
    BY <2>3
  <2>5. v # <<>> => u \o v # <<>>
    <3>1. Len(u \o v) = Len(u) + Len(v) /\ Len(u) \in Nat /\ Len(v) \in Nat
      BY <2>1, <2>3, ConcatProperties
    <3>2. v # <<>> => Len(v) # 0
      BY <2>1
    <3>3. Len(<<>>) = 0
      OBVIOUS
    <3> QED BY <3>1, <3>2, <3>3
  <2> QED BY <2>1, <2>2, <2>4, <2>5
<1>7. Sane(y)
  <2>1. ASSUME NEW t \in Types
        PROVE  /\ ~y.made[t] => y.busy[t] = <<>> /\ y.removals[t] = <<>>
               /\ \A i \in DOMAIN y.segs[t] : y.segs[t][i].type = t
               /\ ~Expected(y, t) => OnlyInits(y.segs[t])
               /\ y.state = "closed" => ~y.made[t]
    <3>1. Expected(y, t) <=> Expected(m, t)
      BY <1>5 DEF Expected
    <3> QED BY <1>1, <1>2, <1>5, <1>6, <3>1 DEF Wired
  <2>2. Quiet(y)
    BY <1>1, <1>5 DEF Quiet, AnyUpdating, Updating
  <2> QED BY <1>1, <1>5, <2>1, <2>2 DEF Sane, Wired
<1>8. CASE \E t \in Types : old[t] # <<>> /\ ~Updating(m, t)
  <2>1. r = DoRemoveRanges(y)
    BY <1>3, <1>8
  <2>2. HasPendingRemoveRanges(y)
    BY <1>6, <1>8 DEF HasPendingRemoveRanges
  <2>3. Follows(y, r) /\ (y.said # "error" => r.said # "error" /\ Buffers(r))
    BY <1>7, <2>1, <2>2, Removes
  <2>4. Removed(y, r)
    BY <1>5, <2>1, DoRemoveRangesIs
  <2>5. Buffers(r) /\ r \in Controllers
    BY <1>5, <2>3 DEF Follows
  <2>6. Sane(r) /\ Removing(r)
    BY <2>5 DEF Sane, Buffers
  <2>7. r.made = m.made /\ r.inits = m.inits /\ r.said = m.said /\ r.eos = m.eos
        /\ (r.state = "ended" => m.state = "ended")
    BY <1>5, <2>4 DEF Removed
  <2> QED BY <2>6, <2>7 DEF Cleaned
<1>9. CASE ~\E t \in Types : old[t] # <<>> /\ ~Updating(m, t)
  <2>1. r = y
    BY <1>3, <1>9
  <2>2. Removing(y)
    BY <1>5, <1>6, <1>9 DEF Removing, Updating
  <2> QED BY <1>5, <1>7, <2>1, <2>2 DEF Cleaned
<1> QED BY <1>8, <1>9

\* The controller is given a media segment of a type it knows.
LEMMA MediaFollows ==
  ASSUME NEW m \in Controllers, Buffers(m), m.said # "error", NEW seg \in Media, seg.type \in Known(m),
         NEW now \in Int, NEW o, NEW r, r = AppendMediaSegment(m, seg, now, o)
  PROVE  Follows(m, r)
<1> DEFINE t == seg.type
           y == [m EXCEPT !.segs[t] = Append(@, seg)]
           z == IF NeedCleanup(y, now) THEN DoCleanup(y, now) ELSE y
<1>0. t \in Types /\ seg \in Segments
  BY DEF Media, Segments
<1>1. r = IF z.made[t] /\ ~Updating(z, t) /\ ~HasPendingRemoveRanges(z) THEN DoAppendSegments(z, o) ELSE z
  BY DEF AppendMediaSegment
<1>2. Enqueued(m, y, t, seg)
  BY <1>0, JoinIs
<1>3. z = y \/ z = DoCleanup(y, now)
  OBVIOUS
<1> HIDE DEF y, z
<1>4. Turning(m, Due(m))
  BY TurningBuffers DEF Buffers
<1>5. m.made[t] \/ t \in Due(m)
  BY <1>0 DEF Known, Expected, Due
<1>6. Turning(y, Due(m)) /\ Known(y) = Known(m) /\ AnyUpdating(m) = AnyUpdating(y)
  BY <1>0, <1>2, <1>4, <1>5, JoinKeeps
<1>7. y.made = m.made /\ y.inits = m.inits /\ y.said = m.said /\ y.eos = m.eos /\ y.state = m.state
  BY <1>2 DEF Enqueued
<1>8. Sane(y) /\ Removing(y)
  <2>1. Due(y) = Due(m)
    BY <1>7 DEF Due
  <2> QED BY <1>6, <2>1, TurningBuffers
<1>9. Cleaned(y, z)
  <2>1. z = y => Cleaned(y, z)
    BY <1>8 DEF Cleaned
  <2>2. z = DoCleanup(y, now) => Cleaned(y, z)
    BY <1>7, <1>8, CleanupKeeps
  <2> QED BY <1>3, <2>1, <2>2
<1>10. /\ Sane(z) /\ Removing(z) /\ z.made = m.made /\ z.inits = m.inits
       /\ z.said # "error" /\ z.eos = m.eos /\ (z.state = "ended" => m.state = "ended")
  BY <1>7, <1>9 DEF Cleaned
<1>11. Known(z) = Known(m)
  BY <1>10, KnownIs
<1>12. CASE z.made[t] /\ ~Updating(z, t) /\ ~HasPendingRemoveRanges(z)
  <2>1. r = DoAppendSegments(z, o)
    BY <1>1, <1>12
  <2>2. Follows(z, r)
    BY <1>10, <2>1, Appends
  <2> QED BY <1>10, <1>11, <2>2 DEF Follows
<1>13. CASE ~z.made[t] \/ Updating(z, t) \/ HasPendingRemoveRanges(z)
  <2>1. r = z
    BY <1>1, <1>13
  <2>2. z \in Controllers /\ Wired(z) /\ Quiet(z) /\ (z.state # "closed" => z.inits = <<>>)
    BY <1>10 DEF Sane
  <2>3. z.state # "closed" => z.made[t]
    <3>1. ASSUME z.state # "closed" PROVE z.made[t]
      <4>1. z.inits = <<>> /\ DOMAIN z.inits = {}
        BY <2>2, <3>1
      <4> QED BY <1>5, <1>10, <4>1 DEF Due
    <3> QED BY <3>1
  <2>4. Updating(z, t) \/ HasPendingRemoveRanges(z) => AnyUpdating(z)
    BY <1>0, <1>10 DEF Removing, AnyUpdating, Updating, HasPendingRemoveRanges
  <2>5. Buffers(z)
    BY <1>10, <1>13, <2>2, <2>3, <2>4 DEF Buffers, Fed
  <2> QED BY <1>10, <1>11, <2>1, <2>2, <2>5 DEF Follows
<1> QED BY <1>12, <1>13

\* The end of the stream is noted, or the MediaSource is told of it.
LEMMA EndKeeps ==
  ASSUME NEW m \in Controllers, Buffers(m), NEW r, r = EndOfStream(m)
  PROVE  r \in Controllers /\ Buffers(r) /\ Known(r) = Known(m) /\ r.said = m.said
         /\ (r.state = "closed" <=> m.state = "closed") /\ (Blank(m) => Blank(r))
<1>1. \E eos \in BOOLEAN, state \in {"closed", "open", "ended"} :
         /\ r = [m EXCEPT !.eos = eos, !.state = state]
         /\ state = m.state \/ (state = "ended" /\ ~AnyUpdating(m) /\ m.state = "open")
  <2>1. CASE m.state # "open"
    <3>1. r = [m EXCEPT !.eos = m.eos \/ (m.state = "closed" /\ HasPendingSegments(m))]
      BY <2>1 DEF EndOfStream
    <3>2. \/ r = [m EXCEPT !.eos = TRUE, !.state = m.state]
          \/ r = [m EXCEPT !.eos = FALSE, !.state = m.state]
      <4>1. m.state = m.state
        OBVIOUS
      <4>2. CASE m.eos \/ (m.state = "closed" /\ HasPendingSegments(m))
        <5>1. r = [m EXCEPT !.eos = TRUE]
          BY <3>1, <4>2, Zenon
        <5> QED BY <5>1 DEF Controllers
      <4>3. CASE ~(m.eos \/ (m.state = "closed" /\ HasPendingSegments(m)))
        <5>1. r = [m EXCEPT !.eos = FALSE]
          BY <3>1, <4>3, Zenon
        <5> QED BY <5>1 DEF Controllers
      <4> QED BY <4>2, <4>3
    <3>3. m.state \in {"closed", "open", "ended"} /\ TRUE \in BOOLEAN /\ FALSE \in BOOLEAN
      BY DEF Controllers
    <3> QED BY <3>2, <3>3, Zenon
  <2>2. CASE m.state = "open" /\ AnyUpdating(m)
    <3>1. r = [m EXCEPT !.eos = TRUE, !.state = m.state]
      BY <2>2 DEF EndOfStream, Controllers
    <3> QED BY <2>2, <3>1
  <2>3. CASE m.state = "open" /\ ~AnyUpdating(m)
    <3>1. r = [m EXCEPT !.eos = FALSE, !.state = "ended"]
      BY <2>3 DEF EndOfStream
    <3> QED BY <2>3, <3>1
  <2> QED BY <2>1, <2>2, <2>3
<1>2. PICK eos \in BOOLEAN, state \in {"closed", "open", "ended"} :
         /\ r = [m EXCEPT !.eos = eos, !.state = state]
         /\ state = m.state \/ (state = "ended" /\ ~AnyUpdating(m) /\ m.state = "open")
  BY <1>1
<1>3. /\ r \in Controllers /\ r.segs = m.segs /\ r.made = m.made /\ r.inits = m.inits
      /\ r.full = m.full /\ r.said = m.said /\ r.busy = m.busy /\ r.removals = m.removals
      /\ r.state = m.state \/ (r.state = "ended" /\ ~AnyUpdating(m) /\ m.state = "open")
  BY <1>2 DEF Controllers
<1>4. Known(r) = Known(m) /\ \A t \in Types : Expected(r, t) <=> Expected(m, t)
  BY <1>3, KnownIs DEF Expected
<1>5. AnyUpdating(r) <=> AnyUpdating(m)
  BY <1>3 DEF AnyUpdating, Updating
<1>6. Wired(r)
  BY <1>3, <1>4 DEF Buffers, Wired
<1>7. Removing(r) /\ Quiet(r) /\ (r.state # "closed" => r.inits = <<>> /\ Fed(r))
  BY <1>3, <1>5 DEF Buffers, Removing, Quiet, Fed
<1> QED BY <1>3, <1>4, <1>6, <1>7 DEF Buffers, Blank

\* What a segment gives a SourceBuffer.
LEMMA ContentsType ==
  ASSUME NEW seg \in Segments, NEW lost \in BOOLEAN
  PROVE  Contents(seg, lost) \in Seq(Shown)
<1>1. CASE seg.ev = "init"
  <2>1. seg.cfg \in Nat
    BY <1>1 DEF Segments, Inits, Media
  <2>2. [tag |-> 0, cfg |-> seg.cfg, at |-> 0, lost |-> lost] \in Shown
    BY <2>1 DEF Shown
  <2>3. Contents(seg, lost) = <<[tag |-> 0, cfg |-> seg.cfg, at |-> 0, lost |-> lost]>>
    BY <1>1 DEF Contents
  <2> QED BY <2>2, <2>3
<1>2. CASE seg.ev # "init"
  <2>1. seg \in Media
    BY <1>2 DEF Segments, Inits
  <2>2. seg.run \in Seq(Items) /\ seg.base \in Int
    BY <2>1 DEF Media
  <2> DEFINE shown(i) == [tag |-> seg.run[i].tag, cfg |-> seg.run[i].cfg,
                          at |-> seg.base + Length(SubSeq(seg.run, 1, i - 1)), lost |-> lost]
  <2>3. ASSUME NEW i \in 1 .. Len(seg.run) PROVE shown(i) \in Shown
    <3>1. seg.run[i] \in Items
      BY <2>2, ElementOfSeq
    <3>2. seg.run[i].tag \in Nat /\ seg.run[i].cfg \in Nat
      BY <3>1 DEF Items
    <3>3. Len(seg.run) \in Nat
      BY <2>2
    <3>4. SubSeq(seg.run, 1, i - 1) \in Seq(Items)
      <4>1. \A j \in 1 .. i - 1 : seg.run[j] \in Items
        BY <2>2, <3>3, ElementOfSeq
      <4> QED BY <2>2, <3>3, <4>1, SubSeqProperties
    <3>5. Length(SubSeq(seg.run, 1, i - 1)) \in Int
      BY <3>4, LengthInt
    <3>6. seg.base + Length(SubSeq(seg.run, 1, i - 1)) \in Int
      BY <2>2, <3>5
    <3> QED BY <3>2, <3>6 DEF Shown
  <2>4. Contents(seg, lost) = [i \in 1 .. Len(seg.run) |-> shown(i)]
    BY <1>2 DEF Contents, Presented
  <2> HIDE DEF shown
  <2>5. Len(seg.run) \in Nat
    BY <2>2
  <2> QED BY <2>3, <2>4, <2>5, IsASeq
<1> QED BY <1>1, <1>2

\* What a seek drops.
Discarded(w) == FlattenSeq([i \in 1 .. Len(w) |-> Contents(w[i], TRUE)])

\* The frames a seek discards are frames as they are shown.
LEMMA DiscardedType ==
  ASSUME NEW w \in Seq(Segments)
  PROVE  Discarded(w) \in Seq(Shown)
<1> DEFINE g(i) == Contents(w[i], TRUE)
<1>1. Len(w) \in Nat /\ \A i \in 1 .. Len(w) : g(i) \in Seq(Shown)
  BY ElementOfSeq, LenProperties, ContentsType
<1>2. [i \in 1 .. Len(w) |-> g(i)] \in Seq(Seq(Shown))
  <2> HIDE DEF g
  <2> QED BY <1>1, IsASeq
<1>3. FlattenSeq([i \in 1 .. Len(w) |-> g(i)]) \in Seq(Shown)
  <2> HIDE DEF g
  <2> QED BY <1>2, FlattenType
<1> QED BY <1>3 DEF Discarded

\* The segment a seek cuts off is a segment.
LEMMA CuttingIs ==
  ASSUME NEW m \in Controllers, NEW t \in Types
  PROVE  Cutting(m, t) \in Seq(Segments)
<1>1. m.busy[t] \in Seq(Jobs)
  BY DEF Controllers
<1>2. CASE Updating(m, t) /\ m.busy[t][1].op = "append"
  <2>1. 1 \in 1 .. Len(m.busy[t])
    BY <1>1, <1>2 DEF Updating
  <2>2. m.busy[t][1] \in Jobs
    BY <1>1, <2>1, ElementOfSeq
  <2>3. m.busy[t][1].seg \in Segments
    BY <1>2, <2>2 DEF Jobs
  <2>4. Cutting(m, t) = <<m.busy[t][1].seg>>
    BY <1>2 DEF Cutting
  <2> QED BY <2>3, <2>4
<1>3. CASE ~(Updating(m, t) /\ m.busy[t][1].op = "append")
  <2>1. Cutting(m, t) = <<>>
    BY <1>3 DEF Cutting
  <2> QED BY <2>1
<1> QED BY <1>2, <1>3

\* What a seek leaves for the removals to be begun.
Sought(m, y) ==
  /\ y \in Controllers /\ y.made = m.made /\ y.inits = m.inits /\ y.eos = m.eos /\ y.full = m.full
  /\ y.said = m.said /\ y.state = m.state
  /\ \A t \in Types : m.made[t] => y.segs[t] = <<>> /\ y.busy[t] \in {m.busy[t], <<>>}
  /\ \A t \in Types : ~m.made[t] => /\ y.segs[t] = m.segs[t] /\ y.busy[t] = m.busy[t]
                                    /\ y.removals[t] = m.removals[t] /\ y.done[t] = m.done[t]
  /\ \A t \in Types : m.made[t] => /\ y.done[t] = m.done[t] \o Discarded(Cutting(m, t) \o m.segs[t])
                                   /\ Cutting(y, t) = <<>>

\* MSEController.seek drops what waits, and then starts on the removals.
LEMMA SoughtIs ==
  ASSUME NEW m \in Controllers, NEW r, r = SeekBuffers(m)
  PROVE  \E y : Sought(m, y) /\ r = DoRemoveRanges(y)
<1> DEFINE busy == [t \in Types |-> IF m.made[t] /\ Cutting(m, t) # <<>> THEN <<>> ELSE m.busy[t]]
           segs == [t \in Types |-> IF m.made[t] THEN <<>> ELSE m.segs[t]]
           done == [t \in Types |-> IF m.made[t] THEN m.done[t] \o Discarded(Cutting(m, t) \o m.segs[t])
                                    ELSE m.done[t]]
           removals == [t \in Types |-> IF m.made[t] /\ m.held[t] # NoRange
                                        THEN Append(m.removals[t], m.held[t]) ELSE m.removals[t]]
           y == [m EXCEPT !.busy = busy, !.segs = segs, !.done = done, !.removals = removals]
<1>0. /\ m.busy \in [Types -> Seq(Jobs)] /\ m.segs \in [Types -> Seq(Segments)]
      /\ m.done \in [Types -> Seq(Shown)] /\ m.removals \in [Types -> Seq(Ranges)]
      /\ m.held \in [Types -> Ranges]
  BY DEF Controllers
<1>1. r = DoRemoveRanges(y)
  BY DEF SeekBuffers, Cutting, Discarded
<1>2. \A t \in Types : m.done[t] \o Discarded(Cutting(m, t) \o m.segs[t]) \in Seq(Shown)
  <2> SUFFICES ASSUME NEW t \in Types PROVE m.done[t] \o Discarded(Cutting(m, t) \o m.segs[t]) \in Seq(Shown)
    OBVIOUS
  <2>1. Cutting(m, t) \o m.segs[t] \in Seq(Segments)
    BY <1>0, CuttingIs, ConcatProperties
  <2>2. Discarded(Cutting(m, t) \o m.segs[t]) \in Seq(Shown)
    BY <2>1, DiscardedType
  <2> QED BY <1>0, <2>2, ConcatProperties
<1>3. \A t \in Types : Append(m.removals[t], m.held[t]) \in Seq(Ranges)
  BY <1>0, AppendProperties
<1>4. busy \in [Types -> Seq(Jobs)] /\ \A t \in Types : /\ busy[t] \in {m.busy[t], <<>>}
                                                        /\ ~m.made[t] => busy[t] = m.busy[t]
  BY <1>0
<1>5. segs \in [Types -> Seq(Segments)] /\ \A t \in Types : /\ m.made[t] => segs[t] = <<>>
                                                            /\ ~m.made[t] => segs[t] = m.segs[t]
  BY <1>0
<1>6. done \in [Types -> Seq(Shown)]
  BY <1>0, <1>2
<1>12. \A t \in Types : done[t] = IF m.made[t] THEN m.done[t] \o Discarded(Cutting(m, t) \o m.segs[t]) ELSE m.done[t]
  OBVIOUS
<1>9. \A t \in Types : m.made[t] => busy[t] = <<>> \/ (busy[t] = m.busy[t] /\ Cutting(m, t) = <<>>)
  BY <1>0
<1>7. removals \in [Types -> Seq(Ranges)] /\ \A t \in Types : ~m.made[t] => removals[t] = m.removals[t]
  BY <1>0, <1>3
<1> HIDE DEF busy, segs, done, removals
<1>13. /\ busy \in [Types -> Seq(Jobs)] /\ segs \in [Types -> Seq(Segments)]
       /\ done \in [Types -> Seq(Shown)] /\ removals \in [Types -> Seq(Ranges)]
  BY <1>4, <1>5, <1>6, <1>7
<1>14. y \in Controllers
  BY <1>13 DEF Controllers
<1>15. /\ y.busy = busy /\ y.segs = segs /\ y.done = done /\ y.removals = removals
       /\ y.made = m.made /\ y.inits = m.inits /\ y.eos = m.eos /\ y.full = m.full
       /\ y.said = m.said /\ y.state = m.state
  BY DEF Controllers
<1> HIDE DEF y
<1>10. /\ y \in Controllers /\ y.busy = busy /\ y.segs = segs /\ y.done = done /\ y.removals = removals
       /\ y.made = m.made /\ y.inits = m.inits /\ y.eos = m.eos /\ y.full = m.full
       /\ y.said = m.said /\ y.state = m.state
  BY <1>14, <1>15
<1>11. \A t \in Types : m.made[t] => Cutting(y, t) = <<>>
  BY <1>9, <1>10 DEF Cutting, Updating
<1>8. Sought(m, y)
  BY <1>4, <1>5, <1>7, <1>10, <1>11, <1>12 DEF Sought
<1> QED BY <1>1, <1>8

\* A seek leaves what the player needs.
LEMMA SeekFollows ==
  ASSUME NEW m \in Controllers, Buffers(m), m.said # "error", NEW r, r = SeekBuffers(m)
  PROVE  Follows(m, r) /\ r.said = m.said
<1>1. PICK y : Sought(m, y) /\ r = DoRemoveRanges(y)
  BY SoughtIs
<1>2. /\ y \in Controllers /\ y.made = m.made /\ y.inits = m.inits /\ y.eos = m.eos /\ y.full = m.full
      /\ y.said = m.said /\ y.state = m.state
      /\ \A t \in Types : m.made[t] => y.segs[t] = <<>> /\ y.busy[t] \in {m.busy[t], <<>>}
      /\ \A t \in Types : ~m.made[t] => /\ y.segs[t] = m.segs[t] /\ y.busy[t] = m.busy[t]
                                        /\ y.removals[t] = m.removals[t]
  BY <1>1 DEF Sought
<1>3. Wired(m) /\ Quiet(m) /\ (m.state # "closed" => m.inits = <<>>)
  BY DEF Buffers
<1>4. DOMAIN <<>> = {}
  OBVIOUS
<1>5. Wired(y)
  <2>1. ASSUME NEW t \in Types
        PROVE  /\ ~y.made[t] => y.busy[t] = <<>> /\ y.removals[t] = <<>>
               /\ \A i \in DOMAIN y.segs[t] : y.segs[t][i].type = t
               /\ ~Expected(y, t) => OnlyInits(y.segs[t])
               /\ y.state = "closed" => ~y.made[t]
    <3>1. Expected(y, t) <=> Expected(m, t)
      BY <1>2 DEF Expected
    <3>2. /\ ~m.made[t] => m.busy[t] = <<>> /\ m.removals[t] = <<>>
          /\ \A i \in DOMAIN m.segs[t] : m.segs[t][i].type = t
          /\ ~Expected(m, t) => OnlyInits(m.segs[t])
          /\ m.state = "closed" => ~m.made[t]
      BY <1>3 DEF Wired
    <3>3. CASE m.made[t]
      BY <1>2, <1>4, <3>1, <3>2, <3>3 DEF OnlyInits
    <3>4. CASE ~m.made[t]
      BY <1>2, <3>1, <3>2, <3>4
    <3> QED BY <3>3, <3>4
  <2> QED BY <2>1 DEF Wired
<1>6. Quiet(y)
  <2>1. \A t \in Types : m.busy[t] = <<>> => y.busy[t] = <<>>
    BY <1>2
  <2> QED BY <1>2, <1>3, <2>1 DEF Quiet, AnyUpdating, Updating
<1>7. Fed(y)
  <2>1. \A t \in Types : m.made[t] => OnlyInits(y.segs[t])
    BY <1>2, <1>4 DEF OnlyInits
  <2> QED BY <1>2, <2>1 DEF Fed
<1>8. Sane(y)
  BY <1>2, <1>3, <1>5, <1>6 DEF Sane
<1>9. Follows(y, r) /\ (y.said # "error" => r.said # "error" /\ Buffers(r))
  BY <1>1, <1>7, <1>8, Removes
<1>10. Known(y) = Known(m)
  BY <1>2, KnownIs
<1>11. r.said = m.said
  <2>1. Removed(y, r)
    BY <1>1, <1>2, DoRemoveRangesIs
  <2> QED BY <1>2, <2>1 DEF Removed
<1> QED BY <1>2, <1>9, <1>10, <1>11 DEF Follows

\* The greater of two.
LEMMA MaxPair ==
  ASSUME NEW a \in Int, NEW b \in Int
  PROVE  Max({a, b}) \in Int
<1>1. \E x \in {a, b} : \A y \in {a, b} : x >= y
  <2>1. CASE a >= b
    BY <2>1
  <2>2. CASE ~(a >= b)
    <3>1. b >= a /\ b >= b
      BY <2>2
    <3> QED BY <3>1
  <2> QED BY <2>1, <2>2
<1>2. Max({a, b}) \in {a, b}
  BY <1>1 DEF Max
<1> QED BY <1>2

\* What a SourceBuffer holds when it has done something.
LEMMA RangesChange ==
  ASSUME NEW held \in Ranges
  PROVE  /\ \A range \in Ranges : Shrunk(held, range) \in Ranges
         /\ \A seg \in Segments : Grown(held, seg) \in Ranges
<1>0. NoRange \in Ranges /\ held.from \in Int /\ held.to \in Int
  BY DEF NoRange, Ranges
<1>1. ASSUME NEW range \in Ranges PROVE Shrunk(held, range) \in Ranges
  <2>1. range.to \in Int
    BY DEF Ranges
  <2>2. Max({held.from, range.to}) \in Int
    BY <1>0, <2>1, MaxPair
  <2>3. PICK n \in Int : n = Max({held.from, range.to})
    BY <2>2
  <2>4. [held EXCEPT !.from = n] \in Ranges
    BY <2>3 DEF Ranges
  <2>5. Shrunk(held, range) = IF range.to >= held.to THEN NoRange ELSE [held EXCEPT !.from = n]
    BY <2>3, Zenon DEF Shrunk
  <2> QED BY <1>0, <2>4, <2>5
<1>2. ASSUME NEW seg \in Segments PROVE Grown(held, seg) \in Ranges
  <2>1. CASE seg.ev = "init"
    BY <2>1 DEF Grown
  <2>2. CASE seg.ev # "init"
    <3>1. seg.run \in Seq(Items) /\ seg.base \in Int
      BY <2>2 DEF Segments, Inits, Media
    <3>2. Length(seg.run) \in Int
      BY <3>1, LengthInt
    <3>3. PICK n \in Int, b \in Int : n = seg.base + Length(seg.run)
                                       /\ b = IF held = NoRange THEN seg.base ELSE held.from
      BY <1>0, <3>1, <3>2
    <3>4. Grown(held, seg) = [from |-> b, to |-> n]
      BY <2>2, <3>3 DEF Grown
    <3> QED BY <3>4 DEF Ranges
  <2> QED BY <2>1, <2>2
<1> QED BY <1>1, <1>2

\* A SourceBuffer has done what it was at.
Idle(m, y, t) ==
  /\ y \in Controllers /\ y.made = m.made /\ y.inits = m.inits /\ y.eos = m.eos /\ y.full = m.full
  /\ y.said = m.said /\ y.state = m.state /\ y.segs = m.segs /\ y.removals = m.removals
  /\ y.busy[t] = <<>> /\ \A u \in Types : u # t => y.busy[u] = m.busy[u] /\ y.done[u] = m.done[u]
  /\ LET job == m.busy[t][1]
     IN  y.done[t] = IF job.op = "remove" THEN m.done[t] ELSE m.done[t] \o Contents(job.seg, FALSE)

\* updateend: the SourceBuffer is free and its history one segment longer.
LEMMA FinishedIs ==
  ASSUME NEW m \in Controllers, NEW t \in Types, Updating(m, t), NEW y, y = Finished(m, t)
  PROVE  Idle(m, y, t)
<1>0. /\ m.busy \in [Types -> Seq(Jobs)] /\ m.held \in [Types -> Ranges]
      /\ m.done \in [Types -> Seq(Shown)]
  BY DEF Controllers
<1>1. PICK job : job = m.busy[t][1] /\ job \in Jobs
  <2>1. 1 \in 1 .. Len(m.busy[t])
    BY <1>0 DEF Updating
  <2> QED BY <1>0, <2>1, ElementOfSeq
<1> DEFINE busy == [m.busy EXCEPT ![t] = <<>>]
           shrunk == [m.held EXCEPT ![t] = Shrunk(@, job.range)]
           grown == [m.held EXCEPT ![t] = Grown(@, job.seg)]
           done == [m.done EXCEPT ![t] = @ \o Contents(job.seg, FALSE)]
<1>2. \/ y = [m EXCEPT !.busy = busy, !.held = shrunk] /\ job.op = "remove"
      \/ y = [m EXCEPT !.busy = busy, !.held = grown, !.done = done] /\ job.op # "remove"
  <2>1. y = IF job.op = "remove" THEN [[m EXCEPT !.busy[t] = <<>>] EXCEPT !.held[t] = Shrunk(@, job.range)]
            ELSE [[m EXCEPT !.busy[t] = <<>>] EXCEPT !.held[t] = Grown(@, job.seg),
                                                    !.done[t] = @ \o Contents(job.seg, FALSE)]
    BY <1>1, Zenon DEF Finished
  <2>2. /\ [[m EXCEPT !.busy[t] = <<>>] EXCEPT !.held[t] = Shrunk(@, job.range)]
           = [m EXCEPT !.busy = busy, !.held = shrunk]
        /\ [[m EXCEPT !.busy[t] = <<>>] EXCEPT !.held[t] = Grown(@, job.seg),
                                               !.done[t] = @ \o Contents(job.seg, FALSE)]
           = [m EXCEPT !.busy = busy, !.held = grown, !.done = done]
    BY DEF Controllers
  <2> QED BY <2>1, <2>2
<1>3. busy \in [Types -> Seq(Jobs)] /\ busy[t] = <<>> /\ \A u \in Types : u # t => busy[u] = m.busy[u]
  BY <1>0
<1>8. done[t] = m.done[t] \o Contents(job.seg, FALSE) /\ \A u \in Types : u # t => done[u] = m.done[u]
  BY <1>0
<1>4. job.op = "remove" => shrunk \in [Types -> Ranges]
  <2>1. job.op = "remove" => job.range \in Ranges
    BY <1>1 DEF Jobs
  <2> QED BY <1>0, <2>1, RangesChange
<1>5. job.op # "remove" => grown \in [Types -> Ranges] /\ done \in [Types -> Seq(Shown)]
  <2>1. job.op # "remove" => job.seg \in Segments
    BY <1>1 DEF Jobs
  <2>2. job.op # "remove" => grown \in [Types -> Ranges]
    BY <1>0, <2>1, RangesChange
  <2>3. PICK c : c = Contents(job.seg, FALSE)
    OBVIOUS
  <2>4. job.op # "remove" => c \in Seq(Shown)
    BY <2>1, <2>3, ContentsType, Zenon
  <2>5. job.op # "remove" => m.done[t] \o c \in Seq(Shown)
    BY <1>0, <2>4, ConcatProperties
  <2>6. done = [m.done EXCEPT ![t] = @ \o c]
    BY <2>3, Zenon
  <2>7. job.op # "remove" => done \in [Types -> Seq(Shown)]
    <3> HIDE DEF done
    <3> QED BY <1>0, <2>5, <2>6
  <2> QED BY <2>2, <2>7
<1> HIDE DEF busy, shrunk, grown, done
<1>6. CASE job.op = "remove"
  <2>1. y = [m EXCEPT !.busy = busy, !.held = shrunk]
    BY <1>2, <1>6
  <2>2. y \in Controllers
    BY <1>3, <1>4, <1>6, <2>1 DEF Controllers
  <2>3. /\ y.made = m.made /\ y.inits = m.inits /\ y.eos = m.eos /\ y.full = m.full /\ y.said = m.said
        /\ y.state = m.state /\ y.segs = m.segs /\ y.removals = m.removals /\ y.busy = busy /\ y.done = m.done
    BY <2>1 DEF Controllers
  <2> QED BY <1>1, <1>3, <1>6, <2>2, <2>3 DEF Idle
<1>7. CASE job.op # "remove"
  <2>1. y = [m EXCEPT !.busy = busy, !.held = grown, !.done = done]
    BY <1>2, <1>7
  <2>2. y \in Controllers
    BY <1>3, <1>5, <1>7, <2>1 DEF Controllers
  <2>3. /\ y.made = m.made /\ y.inits = m.inits /\ y.eos = m.eos /\ y.full = m.full /\ y.said = m.said
        /\ y.state = m.state /\ y.segs = m.segs /\ y.removals = m.removals /\ y.busy = busy /\ y.done = done
    BY <2>1 DEF Controllers
  <2> QED BY <1>1, <1>3, <1>7, <1>8, <2>2, <2>3 DEF Idle
<1> QED BY <1>6, <1>7

\* An updateend leaves what the player needs: what waits is taken up.
LEMMA UpdateEndFollows ==
  ASSUME NEW m \in Controllers, Buffers(m), m.said # "error", NEW t \in Types, Updating(m, t),
         NEW o, NEW r, r = OnUpdateEnd(m, t, o)
  PROVE  Follows(m, r)
<1> DEFINE y == Finished(m, t)
<1>1. r = IF HasPendingRemoveRanges(y) THEN DoRemoveRanges(y)
          ELSE IF HasPendingSegments(y) THEN DoAppendSegments(y, o)
          ELSE IF y.eos THEN EndOfStream(y) ELSE y
  BY DEF OnUpdateEnd
<1>2. Idle(m, y, t)
  BY FinishedIs
<1> HIDE DEF y
<1>3. /\ y \in Controllers /\ y.made = m.made /\ y.inits = m.inits /\ y.eos = m.eos /\ y.full = m.full
      /\ y.said = m.said /\ y.state = m.state /\ y.segs = m.segs /\ y.removals = m.removals
      /\ y.busy[t] = <<>> /\ \A u \in Types : u # t => y.busy[u] = m.busy[u]
  BY <1>2 DEF Idle
<1>4. \A u \in Types : m.busy[u] = <<>> => y.busy[u] = <<>>
  BY <1>3
<1>5. Sane(y)
  <2>1. Wired(m) /\ Quiet(m) /\ (m.state # "closed" => m.inits = <<>>)
    BY DEF Buffers
  <2>2. \A u \in Types : Expected(y, u) <=> Expected(m, u)
    BY <1>3 DEF Expected
  <2>3. Wired(y)
    BY <1>3, <1>4, <2>1, <2>2 DEF Wired
  <2>4. Quiet(y)
    BY <1>3, <1>4, <2>1 DEF Quiet, AnyUpdating, Updating
  <2> QED BY <1>3, <2>1, <2>3, <2>4 DEF Sane
<1>6. Known(y) = Known(m)
  BY <1>3, KnownIs
<1>7. CASE HasPendingRemoveRanges(y)
  <2>1. r = DoRemoveRanges(y)
    BY <1>1, <1>7
  <2>2. Follows(y, r)
    BY <1>5, <1>7, <2>1, Removes
  <2> QED BY <1>3, <1>6, <2>2 DEF Follows
<1>8. ASSUME ~HasPendingRemoveRanges(y) PROVE Removing(y)
  BY <1>8 DEF Removing, HasPendingRemoveRanges
<1>9. CASE ~HasPendingRemoveRanges(y) /\ HasPendingSegments(y)
  <2>1. r = DoAppendSegments(y, o)
    BY <1>1, <1>9
  <2>2. Follows(y, r)
    BY <1>5, <1>8, <1>9, <2>1, Appends
  <2> QED BY <1>3, <1>6, <2>2 DEF Follows
<1>10. ASSUME ~HasPendingRemoveRanges(y), ~HasPendingSegments(y) PROVE Buffers(y)
  <2>1. Fed(y)
    BY <1>10 DEF Fed, HasPendingSegments, OnlyInits
  <2> QED BY <1>5, <1>8, <1>10, <2>1 DEF Buffers, Sane
<1>11. CASE ~HasPendingRemoveRanges(y) /\ ~HasPendingSegments(y) /\ y.eos
  <2>1. r = EndOfStream(y)
    BY <1>1, <1>11
  <2>2. r \in Controllers /\ Buffers(r) /\ Known(r) = Known(y)
    BY <1>3, <1>10, <1>11, <2>1, EndKeeps
  <2> QED BY <1>3, <1>6, <1>11, <2>2 DEF Follows
<1>12. CASE ~HasPendingRemoveRanges(y) /\ ~HasPendingSegments(y) /\ ~y.eos
  <2>1. r = y
    BY <1>1, <1>12
  <2> QED BY <1>3, <1>6, <1>10, <1>12, <2>1 DEF Follows
<1> QED BY <1>7, <1>9, <1>11, <1>12

\* The MediaSource has opened, and the first n initialization segments that
\* waited have been dealt with.
LeftOf(inits, n) == {inits[i].type : i \in n + 1 .. Len(inits)}
Opened(m) == [m EXCEPT !.state = "open", !.inits = <<>>]
Opening(m, y, n) ==
  /\ y \in Controllers /\ y.state = "open" /\ y.eos = m.eos /\ y.inits = <<>>
  /\ y.said = "error" \/ (Turning(y, LeftOf(m.inits, n)) /\ \A i \in 1 .. n : m.inits[i].type \in Known(y))

\* What is to be done for each of them leaves a controller at work.
Openable == {y \in Controllers : y.state = "open" /\ (y.said = "error" \/ Turning(y, Types))}

\* One initialization segment deferred until sourceopen is taken up.
LEMMA OpenableKeeps ==
  ASSUME NEW y \in Openable, NEW seg \in Inits, NEW o
  PROVE  AppendInitSegment(y, seg, TRUE, o) \in Openable
<1>1. PICK t \in Types : t = seg.type
  BY DEF Inits
<1>2. PICK r : r = AppendInitSegment(y, seg, TRUE, o)
  OBVIOUS
<1>3. y \in Controllers /\ y.state = "open" /\ (y.said = "error" \/ Turning(y, Types)) /\ Types \subseteq Types \cup {t}
  BY DEF Openable
<1>4. InitDone(y, r, t, Types)
  BY <1>1, <1>2, <1>3, InitDeferred
<1>5. r \in Openable
  BY <1>4 DEF InitDone, Openable
<1> QED BY <1>2, <1>5

\* One round of the loop in _onSourceOpen.
LEMMA OpeningStep ==
  ASSUME NEW m \in Controllers, NEW n \in 1 .. Len(m.inits), NEW y, Opening(m, y, n - 1), NEW o
  PROVE  Opening(m, AppendInitSegment(y, m.inits[n], TRUE, o), n)
<1>1. m.inits \in Seq(Inits) /\ Len(m.inits) \in Nat
  BY DEF Controllers
<1>2. m.inits[n] \in Inits
  BY <1>1, ElementOfSeq
<1>3. PICK t \in Types : t = m.inits[n].type
  BY <1>2 DEF Inits
<1>4. PICK r : r = AppendInitSegment(y, m.inits[n], TRUE, o)
  OBVIOUS
<1>5. PICK due, left : due = LeftOf(m.inits, n - 1) /\ left = LeftOf(m.inits, n)
  OBVIOUS
<1>6. due \subseteq left \cup {t}
  <2>1. \A i \in n - 1 + 1 .. Len(m.inits) : i = n \/ i \in n + 1 .. Len(m.inits)
    BY <1>1
  <2> QED BY <1>3, <1>5, <2>1, Zenon DEF LeftOf
<1>7. /\ y \in Controllers /\ y.state = "open" /\ y.eos = m.eos /\ y.inits = <<>>
      /\ y.said = "error" \/ (Turning(y, due) /\ \A i \in 1 .. n - 1 : m.inits[i].type \in Known(y))
  BY <1>5, Zenon DEF Opening
<1>8. InitDone(y, r, t, left)
  BY <1>2, <1>3, <1>4, <1>6, <1>7, InitDeferred
<1>9. \A i \in 1 .. n : i \in 1 .. n - 1 \/ i = n
  BY <1>1
<1>10. /\ r \in Controllers /\ r.state = "open" /\ r.eos = y.eos /\ r.inits = y.inits
       /\ r.said = "error" \/ (Turning(r, left) /\ Known(y) \subseteq Known(r) /\ t \in Known(r))
       /\ y.said = "error" => r.said = "error"
  <2>1. y.said = "error" => r.said = "error"
    <3>1. ASSUME y.said = "error" PROVE r.said = "error"
      <4>1. m.inits[n].type \in Types
        BY <1>3
      <4>2. \A z : z.said = "error" => DoAppendSegments(z, o) = z
        BY ErrorStays
      <4>3. y.segs \in [Types -> Seq(Segments)] /\ y.made \in [Types -> BOOLEAN]
        BY <1>7 DEF Controllers, Flags
      <4>4. PICK segs : y.segs \in [Types -> Seq(Segments)] /\ segs = [y.segs EXCEPT ![t] = IF TRUE THEN @ ELSE Append(@, m.inits[n])]
        BY <4>3
      <4>5. PICK q : q = [y EXCEPT !.segs[t] = IF TRUE THEN @ ELSE Append(@, m.inits[n])]
        OBVIOUS
      <4>6. q.said = "error"
        BY <1>7, <3>1, <4>5 DEF Controllers
      <4>7. \/ r = q \/ r = DoAppendSegments(q, o) \/ r = [q EXCEPT !.made[t] = TRUE]
            \/ r = [y EXCEPT !.said = "error"]
        BY <1>3, <1>4, <1>7, <4>5 DEF AppendInitSegment
      <4>8. r = q \/ r = [q EXCEPT !.made[t] = TRUE] \/ r = [y EXCEPT !.said = "error"]
        BY <4>2, <4>6, <4>7, Zenon
      <4> QED BY <1>7, <4>5, <4>6, <4>8 DEF Controllers
    <3> QED BY <3>1
  <2> QED BY <1>8, <2>1 DEF InitDone
<1>11. r.said # "error" => \A i \in 1 .. n : m.inits[i].type \in Known(r)
  BY <1>3, <1>7, <1>9, <1>10
<1>12. Opening(m, r, n)
  BY <1>5, <1>7, <1>10, <1>11, Zenon DEF Opening
<1> QED BY <1>4, <1>12

\* They are all dealt with in their order.
LEMMA OpenedAll ==
  ASSUME NEW m \in Controllers, Opening(m, Opened(m), 0), NEW o, NEW r, r = OnSourceOpen(m, o),
         NEW S, Opened(m) \in S, \A y \in S, seg \in Inits : AppendInitSegment(y, seg, TRUE, o) \in S
  PROVE  \E y : /\ Opening(m, y, Len(m.inits)) /\ y \in S
                /\ r = IF HasPendingSegments(y) THEN DoAppendSegments(y, o) ELSE y
                /\ m.inits = <<>> => y = Opened(m)
<1> DEFINE N == Len(m.inits)
           x == Opened(m)
           Do(y, n) == AppendInitSegment(y, m.inits[n], TRUE, o)
           g == [z \in S \X (1 .. N) |-> Do(z[1], z[2])]
           IsIt(h) == h = [n \in 0 .. N |-> IF n = 0 THEN x ELSE Do(h[n - 1], n)]
<1>1. N \in Nat /\ \A n \in 1 .. N : m.inits[n] \in Inits
  <2>1. m.inits \in Seq(Inits)
    BY DEF Controllers
  <2> QED BY <2>1, ElementOfSeq
<1>2. \A y \in S, n \in 1 .. N : Do(y, n) \in S
  BY <1>1
<1> HIDE DEF N, x
<1>3. g \in [S \X (1 .. N) -> S] /\ \A y \in S, n \in 1 .. N : g[y, n] = Do(y, n)
  <2> HIDE DEF Do
  <2> QED BY <1>2
<1> HIDE DEF g
<1>0. x \in S
  BY DEF x
<1>4. \E f \in [0 .. N -> S] : Recurs(f, x, g, N)
  BY <1>0, <1>1, <1>3, RecursExists
<1>5. PICK f \in [0 .. N -> S] : Recurs(f, x, g, N)
  BY <1>4
<1>6. IsIt(f)
  <2> HIDE DEF Do
  <2>1. Steps(f, x, g, N)
    BY <1>1, <1>5, RecursAt, Zenon
  <2>2. \A n \in 0 .. N : f[n] = IF n = 0 THEN x ELSE Do(f[n - 1], n)
    <3> TAKE n \in 0 .. N
    <3>1. CASE n = 0
      BY <2>1, <3>1 DEF Steps
    <3>2. CASE n # 0
      <4>1. n \in 1 .. N /\ n - 1 \in 0 .. N
        BY <1>1, <3>2
      <4>2. f[n] = g[f[n - 1], n] /\ f[n - 1] \in S
        BY <2>1, <4>1 DEF Steps
      <4> QED BY <1>3, <3>2, <4>1, <4>2
    <3> QED BY <3>1, <3>2
  <2>3. f = [n \in 0 .. N |-> f[n]]
    OBVIOUS
  <2> QED BY <2>2, <2>3
<1> DEFINE p == CHOOSE h : IsIt(h)
<1>7. IsIt(p)
  <2> HIDE DEF IsIt
  <2> QED BY <1>6
<1>8. r = IF HasPendingSegments(p[N]) THEN DoAppendSegments(p[N], o) ELSE p[N]
  BY DEF OnSourceOpen, Opened, N, x
<1> HIDE DEF p
<1>9. p[0] = x /\ \A n \in 1 .. N : p[n] = Do(p[n - 1], n)
  <2> DEFINE Val(n) == IF n = 0 THEN x ELSE Do(p[n - 1], n)
  <2>1. p = [n \in 0 .. N |-> Val(n)]
    BY <1>7
  <2>2. \A n \in 0 .. N : p[n] = Val(n)
    <3> HIDE DEF Val
    <3> QED BY <2>1
  <2>3. 0 \in 0 .. N /\ \A n \in 1 .. N : n \in 0 .. N /\ n # 0
    BY <1>1
  <2> QED BY <2>2, <2>3, Zenon
<1> DEFINE Here == {n \in Nat : n <= N => Opening(m, p[n], n) /\ p[n] \in S}
<1>10. Nat \subseteq Here
  <2>1. 0 \in Here
    BY <1>0, <1>9 DEF x
  <2>2. ASSUME NEW n \in Nat, n \in Here PROVE n + 1 \in Here
    <3> SUFFICES ASSUME n + 1 <= N PROVE Opening(m, p[n + 1], n + 1) /\ p[n + 1] \in S
      OBVIOUS
    <3>1. PICK k \in 1 .. N : k = n + 1
      BY <1>1
    <3>2. k - 1 = n /\ n <= N
      BY <1>1, <3>1
    <3>3. Opening(m, p[n], n) /\ p[n] \in S
      BY <2>2, <3>2
    <3>4. Opening(m, p[n], k - 1)
      BY <3>2, <3>3, Zenon
    <3>5. Opening(m, Do(p[n], k), k)
      BY <3>4, OpeningStep DEF N
    <3>6. p[k] = Do(p[n], k)
      BY <1>9, <3>2, Zenon
    <3>7. Do(p[n], k) \in S
      BY <1>2, <3>3
    <3> QED BY <3>1, <3>5, <3>6, <3>7, Zenon
  <2> HIDE DEF Here
  <2> QED BY <2>1, <2>2, SetInduction
<1>11. N \in Here
  BY <1>1, <1>10
<1>12. m.inits = <<>> => p[N] = Opened(m)
  <2>1. m.inits = <<>> => N = 0
    BY DEF N
  <2> QED BY <1>9, <2>1, Zenon DEF x
<1> QED BY <1>1, <1>8, <1>11, <1>12 DEF N

\* The MediaSource opens, and nothing has been dealt with yet.
LEMMA OpenedIs ==
  ASSUME NEW m \in Controllers, Buffers(m), m.said # "error", m.state = "closed", NEW x, x = Opened(m)
  PROVE  /\ x \in Controllers /\ x.state = "open" /\ x.eos = m.eos /\ x.inits = <<>> /\ x.said = m.said
         /\ x.segs = m.segs /\ x.made = m.made /\ x.busy = m.busy /\ x.removals = m.removals /\ x.done = m.done
         /\ Turning(x, Due(m)) /\ Opening(m, x, 0)
<1>1. /\ x \in Controllers /\ x.state = "open" /\ x.eos = m.eos /\ x.inits = <<>> /\ x.said = m.said
      /\ x.segs = m.segs /\ x.made = m.made /\ x.busy = m.busy /\ x.removals = m.removals
      /\ x.done = m.done
  <2>0. <<>> \in Seq(Inits)
    OBVIOUS
  <2>1. PICK none : none = <<>> /\ none \in Seq(Inits)
    BY <2>0, Zenon
  <2>2. x = [m EXCEPT !.state = "open", !.inits = none]
    BY <2>1 DEF Opened
  <2> QED BY <2>1, <2>2 DEF Controllers
<1>2. m.inits \in Seq(Inits) /\ Len(m.inits) \in Nat /\ DOMAIN m.inits = 1 .. Len(m.inits)
  BY DEF Controllers
<1>3. Due(m) = LeftOf(m.inits, 0)
  <2>1. \A i \in 1 .. Len(m.inits) : m.inits[i].type \in Types
    <3>1. \A i \in 1 .. Len(m.inits) : m.inits[i] \in Inits
      BY <1>2, ElementOfSeq
    <3> QED BY <3>1 DEF Inits
  <2>2. 0 + 1 .. Len(m.inits) = 1 .. Len(m.inits)
    BY <1>2
  <2> QED BY <1>2, <2>1, <2>2 DEF Due, LeftOf
<1>4. Wired(m) /\ Removing(m) /\ Quiet(m)
  BY DEF Buffers
<1>5. WiredBut(x, Due(m))
  <2>1. WiredBut(m, Due(m))
    BY <1>4, WiredIs
  <2> QED BY <1>1, <2>1 DEF WiredBut
<1>6. Turning(x, Due(m))
  BY <1>1, <1>4, <1>5 DEF Turning, Quiet, Removing
<1>7. Opening(m, x, 0)
  <2>1. \A i \in 1 .. 0 : m.inits[i].type \in Known(x)
    OBVIOUS
  <2> QED BY <1>1, <1>3, <1>6, <2>1, Zenon DEF Opening
<1> QED BY <1>1, <1>6, <1>7

\* The opening of the MediaSource leaves what the player needs, and nothing
\* where nothing has come yet.
LEMMA SourceOpenFollows ==
  ASSUME NEW m \in Controllers, Buffers(m), m.said # "error", m.state = "closed", NEW o, NEW r, r = OnSourceOpen(m, o)
  PROVE  Follows(m, r) /\ (Blank(m) => Blank(r) /\ r.said = m.said)
<1>0. PICK x : x = Opened(m)
  OBVIOUS
<1>1. /\ x \in Controllers /\ x.state = "open" /\ x.eos = m.eos /\ x.inits = <<>> /\ x.said = m.said
      /\ x.segs = m.segs /\ x.made = m.made /\ x.busy = m.busy /\ x.removals = m.removals /\ x.done = m.done
      /\ Turning(x, Due(m)) /\ Opening(m, x, 0)
  BY <1>0, OpenedIs
<1>2. m.inits \in Seq(Inits) /\ Len(m.inits) \in Nat /\ DOMAIN m.inits = 1 .. Len(m.inits)
  BY DEF Controllers
<1>4. Wired(m) /\ Removing(m) /\ Quiet(m)
  BY DEF Buffers
<1>8. x \in Openable
  <2>1. Turning(x, Types)
    BY <1>1, TurningLess
  <2> QED BY <1>1, <2>1 DEF Openable
<1>9. PICK y : /\ Opening(m, y, Len(m.inits))
               /\ r = IF HasPendingSegments(y) THEN DoAppendSegments(y, o) ELSE y
               /\ m.inits = <<>> => y = Opened(m)
  <2>1. \A y \in Openable, seg \in Inits : AppendInitSegment(y, seg, TRUE, o) \in Openable
    BY OpenableKeeps
  <2>2. Opened(m) \in Openable /\ Opening(m, Opened(m), 0)
    BY <1>0, <1>1, <1>8
  <2> QED BY <2>1, <2>2, OpenedAll
<1>10. /\ y \in Controllers /\ y.state = "open" /\ y.eos = m.eos /\ y.inits = <<>>
       /\ y.said = "error" \/ (Turning(y, LeftOf(m.inits, Len(m.inits)))
                               /\ \A i \in 1 .. Len(m.inits) : m.inits[i].type \in Known(y))
  BY <1>9 DEF Opening
<1>11. LeftOf(m.inits, Len(m.inits)) = {}
  <2>1. Len(m.inits) + 1 .. Len(m.inits) = {}
    BY <1>2
  <2> QED BY <2>1 DEF LeftOf
<1>12. y.said # "error" => Known(m) \subseteq Known(y)
  BY <1>2, <1>4, <1>10 DEF Known, Expected, Wired
<1>13. ASSUME NEW z, Turning(z, {}), z.inits = <<>> PROVE Wired(z)
  <2>1. DOMAIN z.inits = {}
    BY <1>13
  <2>2. Due(z) = {}
    BY <2>1 DEF Due
  <2> QED BY <1>13, <2>2, WiredIs DEF Turning
<1>14. Follows(m, r)
  <2>1. CASE ~HasPendingSegments(y)
    <3>1. r = y
      BY <1>9, <2>1
    <3>2. Fed(y)
      BY <2>1 DEF Fed, HasPendingSegments, OnlyInits
    <3>3. y.said # "error" => Buffers(y)
      BY <1>10, <1>11, <1>13, <3>2 DEF Buffers, Turning
    <3> QED BY <1>10, <1>12, <3>1, <3>3 DEF Follows
  <2>2. CASE HasPendingSegments(y) /\ y.said = "error"
    <3>1. r = DoAppendSegments(y, o)
      BY <1>9, <2>2
    <3>2. r = y
      BY <2>2, <3>1, ErrorStays
    <3> QED BY <1>10, <2>2, <3>2 DEF Follows
  <2>3. CASE HasPendingSegments(y) /\ y.said # "error"
    <3>1. r = DoAppendSegments(y, o)
      BY <1>9, <2>3
    <3>2. PICK none : none = {}
      OBVIOUS
    <3>3. Turning(y, none)
      BY <1>10, <1>11, <2>3, <3>2
    <3>4. Acted(y, r, none)
      BY <3>1, <3>3, DoActs, Zenon
    <3>5. /\ Turning(r, {}) /\ Known(r) = Known(y) /\ (r.said = "error" \/ Fed(r))
          /\ r.eos = y.eos /\ (r.state = "ended" => y.state = "ended") /\ r.inits = y.inits
      BY <3>2, <3>4 DEF Acted
    <3>6. r \in Controllers /\ (r.said # "error" => Buffers(r))
      BY <1>10, <1>13, <3>5 DEF Buffers, Turning
    <3> QED BY <1>10, <1>12, <2>3, <3>5, <3>6 DEF Follows
  <2> QED BY <2>1, <2>2, <2>3
<1>15. ASSUME Blank(m) PROVE Blank(r) /\ r.said = m.said
  <2>1. m.inits = <<>>
    <3>1. ASSUME m.inits # <<>> PROVE FALSE
      <4>1. 1 \in DOMAIN m.inits
        BY <1>2, <3>1
      <4>2. m.inits[1].type \in Types
        <5>1. m.inits[1] \in Inits
          BY <1>2, <4>1, ElementOfSeq
        <5> QED BY <5>1 DEF Inits
      <4> QED BY <1>15, <4>1, <4>2 DEF Blank, Expected
    <3> QED BY <3>1
  <2>2. y = x
    BY <1>0, <1>9, <2>1
  <2>3. ~HasPendingSegments(y)
    BY <1>1, <1>15, <2>2 DEF Blank, HasPendingSegments
  <2>4. r = x
    BY <1>9, <2>2, <2>3
  <2> QED BY <1>1, <1>15, <2>1, <2>4 DEF Blank, Expected
<1> QED BY <1>14, <1>15

-----------------------------------------------------------------------------
(* When frames are shown.                                                    *)

\* The durations of a run's samples, added up to each of them.
Adds(a, run) ==
  /\ a \in [0 .. Len(run) -> Int] /\ a[0] = 0
  /\ \A n \in 1 .. Len(run) : a[n] = a[n - 1] + run[n].dur

\* Of any run.
LEMMA AddsIs ==
  ASSUME NEW run \in Seq(Items)
  PROVE  \E a : Adds(a, run) /\ Length(run) = a[Len(run)]
<1> DEFINE N == Len(run)
<1>1. PICK a \in [0 .. N -> Int] : Sums(a, run) /\ Length(run) = a[N]
  BY LengthSums
<1>2. N \in Nat
  BY LenProperties
<1> DEFINE Val(n) == IF n = 0 THEN 0 ELSE a[n - 1] + run[n].dur
<1>3. a = [n \in 0 .. N |-> Val(n)]
  BY <1>1 DEF Sums
<1>4. \A n \in 0 .. N : a[n] = Val(n)
  <2> HIDE DEF Val
  <2> QED BY <1>3
<1>5. 0 \in 0 .. N /\ \A n \in 1 .. N : n \in 0 .. N /\ n # 0
  BY <1>2
<1>6. a[0] = Val(0) /\ \A n \in 1 .. N : a[n] = Val(n) /\ n # 0
  BY <1>4, <1>5, Zenon
<1>7. a[0] = 0 /\ \A n \in 1 .. N : a[n] = a[n - 1] + run[n].dur
  BY <1>6
<1> QED BY <1>1, <1>7 DEF Adds

\* The length of what a run begins with.
Begins(part, run) == Len(part) <= Len(run) /\ \A i \in 1 .. Len(part) : part[i] = run[i]
LEMMA LengthOf ==
  ASSUME NEW run \in Seq(Items), NEW a, Adds(a, run), NEW part \in Seq(Items), Begins(part, run)
  PROVE  Length(part) = a[Len(part)]
<1>1. PICK c : Adds(c, part) /\ Length(part) = c[Len(part)]
  BY AddsIs
<1>2. PICK M, N \in Nat : M = Len(part) /\ N = Len(run)
  BY LenProperties
<1>3. /\ a[0] = 0 /\ \A n \in 1 .. N : a[n] = a[n - 1] + run[n].dur
      /\ c[0] = 0 /\ \A n \in 1 .. M : c[n] = c[n - 1] + part[n].dur
      /\ M <= N /\ \A n \in 1 .. M : part[n] = run[n]
  BY <1>1, <1>2 DEF Adds, Begins
<1> DEFINE Here == {n \in Nat : n <= M => c[n] = a[n]}
<1>4. 0 \in Here
  BY <1>3
<1>5. ASSUME NEW n \in Nat, n \in Here PROVE n + 1 \in Here
  <2> SUFFICES ASSUME n + 1 <= M PROVE c[n + 1] = a[n + 1]
    OBVIOUS
  <2>1. n + 1 \in 1 .. M /\ n + 1 \in 1 .. N /\ n + 1 - 1 = n /\ n <= M
    BY <1>2, <1>3
  <2>2. c[n] = a[n]
    BY <1>5, <2>1
  <2>3. c[n + 1] = c[n] + part[n + 1].dur /\ a[n + 1] = a[n] + run[n + 1].dur
    BY <1>3, <2>1
  <2> QED BY <1>3, <2>1, <2>2, <2>3
<1>6. Nat \subseteq Here
  <2> HIDE DEF Here
  <2> QED BY <1>4, <1>5, SetInduction
<1>7. M \in Here /\ M <= M
  <2> HIDE DEF Here
  <2> QED BY <1>2, <1>6
<1>8. c[M] = a[M]
  BY <1>7
<1> QED BY <1>1, <1>2, <1>8

\* What comes before each sample.
LEMMA LengthBefore ==
  ASSUME NEW run \in Seq(Items), NEW a, Adds(a, run), NEW j \in 1 .. Len(run)
  PROVE  Length(SubSeq(run, 1, j - 1)) = a[j - 1] /\ a[j - 1] \in Int /\ run[j] \in Items
<1>1. PICK N \in Nat : N = Len(run)
  BY LenProperties
<1>2. j - 1 \in 0 .. N /\ j \in 1 .. N
  BY <1>1
<1>3. PICK part : part = SubSeq(run, 1, j - 1)
  OBVIOUS
<1>4. part \in Seq(Items) /\ Len(part) = j - 1 /\ \A i \in 1 .. j - 1 : part[i] = run[i]
  <2>1. \A i \in 1 .. j - 1 : run[i] \in Items
    BY <1>1, <1>2, ElementOfSeq
  <2> QED BY <1>1, <1>2, <1>3, <2>1, SubSeqProperties
<1>5. Length(part) = a[Len(part)]
  <2>1. Begins(part, run)
    BY <1>1, <1>2, <1>4 DEF Begins
  <2> QED BY <1>4, <2>1, LengthOf
<1> QED BY <1>1, <1>2, <1>3, <1>4, <1>5, ElementOfSeq DEF Adds

\* The frames of a run that begins at B have the times of their tags, on a clock
\* that began at b.
OnTime(B, run, s, b) ==
  \A j \in DOMAIN run : run[j].tag > 0 => B + Length(SubSeq(run, 1, j - 1)) = s[run[j].tag].ts - b

\* By the sums.
Timely(B, a, run, s, b) ==
  \A j \in 1 .. Len(run) : run[j].tag > 0 => B + a[j - 1] = s[run[j].tag].ts - b
LEMMA OnTimeIs ==
  ASSUME NEW run \in Seq(Items), NEW a, Adds(a, run), NEW B, NEW s, NEW b
  PROVE  OnTime(B, run, s, b) <=> Timely(B, a, run, s, b)
<1>1. DOMAIN run = 1 .. Len(run)
  BY LenProperties
<1>2. \A j \in 1 .. Len(run) : Length(SubSeq(run, 1, j - 1)) = a[j - 1]
  BY LengthBefore
<1> QED BY <1>1, <1>2 DEF OnTime, Timely

\* One sample.
LEMMA OneSample ==
  ASSUME NEW e \in Items, NEW w, w = <<e>>, NEW B \in Int, NEW s, NEW b
  PROVE  /\ w \in Seq(Items) /\ Length(w) = e.dur
         /\ (e.tag > 0 => B = s[e.tag].ts - b) => OnTime(B, w, s, b)
<1>1. w \in Seq(Items) /\ Len(w) = 1 /\ w[1] = e
  OBVIOUS
<1>2. PICK a : Adds(a, w) /\ Length(w) = a[Len(w)]
  BY <1>1, AddsIs
<1>3. e.dur \in Int
  BY DEF Items
<1>4. a[0] = 0 /\ a[1] = e.dur
  <2>1. 1 \in 1 .. Len(w) /\ a[0] = 0 /\ a[1] = a[1 - 1] + w[1].dur
    BY <1>1, <1>2 DEF Adds
  <2> QED BY <1>1, <1>3, <2>1
<1>5. \A j \in 1 .. Len(w) : j = 1 /\ j - 1 = 0
  BY <1>1
<1>6. (e.tag > 0 => B = s[e.tag].ts - b) => OnTime(B, w, s, b)
  <2> SUFFICES ASSUME e.tag > 0 => B = s[e.tag].ts - b PROVE OnTime(B, w, s, b)
    OBVIOUS
  <2>1. B + 0 = B
    OBVIOUS
  <2>2. \A j \in 1 .. Len(w) : w[j].tag > 0 => B + a[j - 1] = s[w[j].tag].ts - b
    BY <1>1, <1>4, <1>5, <2>1
  <2>3. Timely(B, a, w, s, b)
    BY <2>2 DEF Timely
  <2> QED BY <1>1, <1>2, <2>3, OnTimeIs
<1> QED BY <1>1, <1>2, <1>4, <1>6

\* The sums of two runs, one behind the other.
SumsOf(a, c, m, n) == [i \in 0 .. m + n |-> IF i <= m THEN a[i] ELSE a[m] + c[i - m]]

SumsMeet(a, c, d, m, n) ==
  (\A i \in 0 .. m : d[i] = a[i]) /\ (\A i \in 0 .. n : d[m + i] = a[m] + c[i])

LEMMA SumsJoin ==
  ASSUME NEW u \in Seq(Items), NEW v \in Seq(Items), NEW w, w = u \o v, NEW a, Adds(a, u), NEW c, Adds(c, v),
         NEW m, m = Len(u), NEW n, n = Len(v), NEW d, d = SumsOf(a, c, m, n)
  PROVE  Adds(d, w) /\ SumsMeet(a, c, d, m, n)
<1>1. m \in Nat /\ n \in Nat
  BY LenProperties
<1>2. /\ w \in Seq(Items) /\ Len(w) = m + n
      /\ \A i \in 1 .. m + n : w[i] = IF i <= m THEN u[i] ELSE v[i - m]
  BY ConcatProperties
<1>3. /\ a \in [0 .. m -> Int] /\ a[0] = 0 /\ \A i \in 1 .. m : a[i] = a[i - 1] + u[i].dur
      /\ c \in [0 .. n -> Int] /\ c[0] = 0 /\ \A i \in 1 .. n : c[i] = c[i - 1] + v[i].dur
  BY DEF Adds
<1>4. DOMAIN d = 0 .. m + n /\ \A i \in 0 .. m + n : d[i] = IF i <= m THEN a[i] ELSE a[m] + c[i - m]
  BY DEF SumsOf
<1>5. \A i \in 0 .. m : d[i] = a[i] /\ a[i] \in Int
  <2>1. \A i \in 0 .. m : i \in 0 .. m + n /\ i <= m
    BY <1>1
  <2>2. \A i \in 0 .. m : a[i] \in Int
    BY <1>3
  <2> QED BY <1>4, <2>1, <2>2
<1>6. \A i \in 0 .. n : d[m + i] = a[m] + c[i] /\ c[i] \in Int
  <2> TAKE i \in 0 .. n
  <2>1. m + i \in 0 .. m + n /\ (m + i) - m = i /\ (m + i <= m => i = 0 /\ m + i = m) /\ m \in 0 .. m
    BY <1>1
  <2>2. c[i] \in Int /\ c[0] = 0 /\ a[m] \in Int
    BY <1>3, <2>1
  <2>3. CASE i = 0
    BY <1>1, <1>5, <2>1, <2>2, <2>3
  <2>4. CASE i # 0
    BY <1>1, <1>4, <2>1, <2>2, <2>4
  <2> QED BY <2>3, <2>4
<1>7. d \in [0 .. m + n -> Int]
  <2>1. \A i \in 0 .. m + n : d[i] \in Int
    <3> TAKE i \in 0 .. m + n
    <3>1. CASE i <= m
      BY <1>1, <1>5, <3>1
    <3>2. CASE ~(i <= m)
      <4>1. i - m \in 0 .. n /\ m + (i - m) = i /\ m \in 0 .. m
        BY <1>1, <3>2
      <4>2. d[m + (i - m)] = a[m] + c[i - m] /\ c[i - m] \in Int /\ a[m] \in Int
        BY <1>5, <1>6, <4>1
      <4> QED BY <4>1, <4>2
    <3> QED BY <3>1, <3>2
  <2>2. d = [i \in 0 .. m + n |-> d[i]]
    BY DEF SumsOf
  <2> QED BY <2>1, <2>2
<1>8. ASSUME NEW i \in 1 .. m + n PROVE d[i] = d[i - 1] + w[i].dur
  <2>1. CASE i <= m
    <3>1. i \in 1 .. m /\ i \in 0 .. m /\ i - 1 \in 0 .. m
      BY <1>1, <2>1
    <3> QED BY <1>2, <1>3, <1>5, <2>1, <3>1
  <2>2. CASE ~(i <= m)
    <3>1. /\ i - m \in 1 .. n /\ i - m \in 0 .. n /\ (i - m) - 1 \in 0 .. n /\ m \in 0 .. m
          /\ m + (i - m) = i /\ m + ((i - m) - 1) = i - 1
      BY <1>1, <2>2
    <3>2. PICK k : k = i - m
      OBVIOUS
    <3>3. d[m + k] = a[m] + c[k] /\ d[m + (k - 1)] = a[m] + c[k - 1] /\ c[k] = c[k - 1] + v[k].dur
          /\ c[k - 1] \in Int /\ a[m] \in Int
      BY <1>3, <1>5, <1>6, <3>1, <3>2
    <3>4. w[i] = v[k] /\ m + k = i /\ m + (k - 1) = i - 1
      BY <1>2, <2>2, <3>1, <3>2
    <3>5. v[k] \in Items
      BY <3>1, <3>2, ElementOfSeq
    <3>6. v[k].dur \in Int
      BY <3>5 DEF Items
    <3> QED BY <3>3, <3>4, <3>6
  <2> QED BY <2>1, <2>2
<1>9. d[0] = 0
  <2>1. 0 \in 0 .. m
    BY <1>1
  <2> QED BY <1>3, <1>5, <2>1
<1>10. Adds(d, w)
  BY <1>2, <1>7, <1>8, <1>9 DEF Adds
<1> QED BY <1>5, <1>6, <1>10 DEF SumsMeet

\* Two runs, one behind the other.
Keeping(B, C, u, v, w, s, b) == OnTime(B, u, s, b) /\ OnTime(C, v, s, b) => OnTime(B, w, s, b)
LEMMA OnTimeCat ==
  ASSUME NEW u \in Seq(Items), NEW v \in Seq(Items), NEW w, w = u \o v, NEW B \in Int, NEW s, NEW b,
         NEW C, C = B + Length(u)
  PROVE  /\ Length(w) = Length(u) + Length(v) /\ Length(u) \in Int /\ Length(v) \in Int /\ w \in Seq(Items)
         /\ Keeping(B, C, u, v, w, s, b)
<1>1. PICK a, c : Adds(a, u) /\ Length(u) = a[Len(u)] /\ Adds(c, v) /\ Length(v) = c[Len(v)]
  BY AddsIs
<1>2. PICK m, n \in Nat : m = Len(u) /\ n = Len(v)
  BY LenProperties
<1>3. PICK d : d = SumsOf(a, c, m, n)
  OBVIOUS
<1>4. /\ Adds(d, w)
      /\ \A i \in 0 .. m : d[i] = a[i]
      /\ \A i \in 0 .. n : d[m + i] = a[m] + c[i]
  <2>1. Adds(d, w) /\ SumsMeet(a, c, d, m, n)
    BY <1>1, <1>2, <1>3, SumsJoin
  <2> QED BY <2>1 DEF SumsMeet
<1>5. /\ w \in Seq(Items) /\ Len(w) = m + n
      /\ \A i \in 1 .. m + n : w[i] = IF i <= m THEN u[i] ELSE v[i - m]
  BY <1>2, ConcatProperties
<1>6. Length(w) = d[m + n]
  <2>1. Begins(w, w)
    BY <1>2, <1>5 DEF Begins
  <2>2. Length(w) = d[Len(w)]
    BY <1>4, <1>5, <2>1, LengthOf
  <2> QED BY <1>5, <2>2
<1>7. Length(u) \in Int /\ Length(v) \in Int
  BY LengthInt
<1>8. Length(w) = Length(u) + Length(v)
  <2>1. n \in 0 .. n
    BY <1>2
  <2>2. d[m + n] = a[m] + c[n]
    BY <1>4, <2>1
  <2> QED BY <1>1, <1>2, <1>6, <2>2
<1>9. ASSUME OnTime(B, u, s, b), OnTime(B + Length(u), v, s, b) PROVE OnTime(B, w, s, b)
  <2>1. \A j \in 1 .. m : u[j].tag > 0 => B + a[j - 1] = s[u[j].tag].ts - b
    <3>1. Timely(B, a, u, s, b)
      BY <1>1, <1>9, OnTimeIs
    <3> QED BY <1>2, <3>1 DEF Timely
  <2>2. \A j \in 1 .. n : v[j].tag > 0 => (B + Length(u)) + c[j - 1] = s[v[j].tag].ts - b
    <3>1. PICK A : A = B + Length(u)
      OBVIOUS
    <3>2. OnTime(A, v, s, b)
      BY <1>9, <3>1
    <3>3. Timely(A, c, v, s, b)
      BY <1>1, <3>2, OnTimeIs
    <3> QED BY <1>2, <3>1, <3>3 DEF Timely
  <2>3. ASSUME NEW j \in 1 .. m + n, w[j].tag > 0 PROVE B + d[j - 1] = s[w[j].tag].ts - b
    <3>1. CASE j <= m
      <4>1. j \in 1 .. m /\ j - 1 \in 0 .. m /\ w[j] = u[j]
        BY <1>2, <1>5, <3>1
      <4> QED BY <1>4, <2>1, <2>3, <4>1
    <3>2. CASE ~(j <= m)
      <4>1. PICK k : k = j - m
        OBVIOUS
      <4>2. k \in 1 .. n /\ k - 1 \in 0 .. n /\ m + (k - 1) = j - 1 /\ w[j] = v[k]
        <5>1. k \in 1 .. n /\ k - 1 \in 0 .. n /\ m + (k - 1) = j - 1
          BY <1>2, <3>2, <4>1
        <5> QED BY <1>5, <3>2, <4>1, <5>1
      <4>3. d[j - 1] = a[m] + c[k - 1]
        BY <1>4, <4>2
      <4>4. (B + Length(u)) + c[k - 1] = s[w[j].tag].ts - b
        BY <2>2, <2>3, <4>2
      <4>5. c[k - 1] \in Int /\ a[m] = Length(u)
        BY <1>1, <1>2, <4>2 DEF Adds
      <4>6. B + d[j - 1] = (B + Length(u)) + c[k - 1]
        BY <1>7, <4>3, <4>5
      <4> QED BY <4>4, <4>6
    <3> QED BY <3>1, <3>2
  <2>4. Timely(B, d, w, s, b)
    BY <1>5, <2>3 DEF Timely
  <2> QED BY <1>4, <1>5, <2>4, OnTimeIs
<1> QED BY <1>5, <1>7, <1>8, <1>9 DEF Keeping

\* Multiples.
LEMMA Multiples ==
  ASSUME NEW k \in Int, NEW d \in Int
  PROVE  k * d \in Int /\ (k - 1) * d + d = k * d /\ 0 * d = 0
OBVIOUS

\* What is not less than the divisor has a quotient.
LEMMA QuotientPositive ==
  ASSUME NEW a \in Nat, NEW d \in Nat \ {0}, a >= d
  PROVE  a \div d \in Nat /\ a \div d >= 1
OBVIOUS

\* Silence fills the gap and has no time of its own.
LEMMA SilentTime ==
  ASSUME NEW duration \in Int, NEW ref \in Nat \ {0}, 2 * duration > 3 * ref, NEW w, w = SilentFrames(duration, ref),
         NEW B, NEW s, NEW b
  PROVE  w \in Seq(Items) /\ Length(w) = duration - ref /\ OnTime(B, w, s, b)
<1> DEFINE n == (duration - 1) \div ref
           long(j) == IF j < n THEN ref ELSE duration - n * ref
           silence(j) == [tag |-> 0, cfg |-> NoMeta, dur |-> long(j)]
           sum(j) == IF j < n THEN j * ref ELSE duration - ref
<1>1. n \in Nat /\ n >= 1
  <2>1. duration - 1 \in Nat /\ duration - 1 >= ref
    OBVIOUS
  <2> QED BY <2>1, QuotientPositive
<1>2. w = [j \in 1 .. n |-> silence(j)]
  BY DEF SilentFrames
<1>3. NoMeta \in Nat
  BY DEF NoMeta
<1> HIDE DEF n
<1>4. n * ref \in Int /\ \A j \in Int : j * ref \in Int /\ (j - 1) * ref + ref = j * ref
  BY <1>1, Multiples
<1>5. \A j \in Int : long(j) \in Int
  BY <1>4
<1>6. \A j \in 1 .. n : silence(j) \in Items /\ silence(j).tag = 0 /\ silence(j).dur = long(j)
  <2> HIDE DEF long
  <2> QED BY <1>1, <1>3, <1>5 DEF Items
<1>7. \A j \in Int : sum(j) \in Int
  BY <1>4
<1>8. sum(0) = 0 /\ sum(n) = duration - ref
  BY <1>1, Multiples
<1>9. \A j \in 1 .. n : sum(j) = sum(j - 1) + long(j)
  <2> TAKE j \in 1 .. n
  <2>1. j \in Int /\ j - 1 < n /\ sum(j - 1) = (j - 1) * ref
    BY <1>1
  <2>2. (j - 1) * ref + ref = j * ref /\ (j - 1) * ref \in Int /\ j * ref \in Int
    BY <1>4, <2>1
  <2>3. CASE j < n
    BY <2>1, <2>2, <2>3
  <2>4. CASE ~(j < n)
    <3>1. j = n
      BY <1>1, <2>4
    <3>2. sum(j) = duration - ref /\ long(j) = duration - n * ref
      BY <2>4
    <3>3. (j - 1) * ref + ref = n * ref
      BY <2>2, <3>1
    <3> HIDE DEF sum, long
    <3> QED BY <1>4, <2>1, <2>2, <3>2, <3>3
  <2> QED BY <2>3, <2>4
<1> HIDE DEF long, sum, silence
<1>10. /\ w \in Seq(Items) /\ Len(w) = n
       /\ \A j \in 1 .. n : w[j] = silence(j)
  BY <1>1, <1>2, <1>6
<1>11. \A j \in 1 .. n : w[j].tag = 0 /\ w[j].dur = long(j)
  BY <1>6, <1>10
<1> DEFINE a == [j \in 0 .. n |-> sum(j)]
<1>12. a \in [0 .. n -> Int] /\ \A j \in 0 .. n : a[j] = sum(j)
  BY <1>1, <1>7
<1> HIDE DEF a
<1>13. Adds(a, w)
  <2>1. 0 \in 0 .. n /\ \A j \in 1 .. n : j \in 0 .. n /\ j - 1 \in 0 .. n
    BY <1>1
  <2>2. a[0] = 0
    BY <1>8, <1>12, <2>1
  <2>3. \A j \in 1 .. n : a[j] = a[j - 1] + w[j].dur
    BY <1>9, <1>11, <1>12, <2>1
  <2> QED BY <1>10, <1>12, <2>2, <2>3 DEF Adds
<1>14. Length(w) = a[n]
  <2>1. Begins(w, w)
    BY <1>1, <1>10 DEF Begins
  <2>2. Length(w) = a[Len(w)]
    BY <1>10, <1>13, <2>1, LengthOf
  <2> QED BY <1>10, <2>2
<1>15. Length(w) = duration - ref
  BY <1>1, <1>8, <1>12, <1>14
<1>16. OnTime(B, w, s, b)
  <2>1. DOMAIN w = 1 .. n
    BY <1>10, LenProperties
  <2>2. \A j \in DOMAIN w : ~(w[j].tag > 0)
    BY <1>11, <2>1
  <2> QED BY <2>2 DEF OnTime
<1> QED BY <1>10, <1>15, <1>16

\* A frame and the silence behind it last as long as the frame did.
LEMMA FilledUpTime ==
  ASSUME NEW t \in Types, NEW sample \in Frames, NEW duration \in Int, NEW w, w = FilledUp(t, sample, duration),
         NEW B \in Int, NEW s, NEW b, B = s[sample.tag].ts - b
  PROVE  w \in Seq(Items) /\ Length(w) = duration /\ OnTime(B, w, s, b)
<1>1. Ref[t] \in Nat \ {0}
  BY RefAssumption
<1> DEFINE frame(len) == [tag |-> sample.tag, cfg |-> sample.cfg, dur |-> len]
<1>2. \A len \in Int : frame(len) \in Items /\ frame(len).tag = sample.tag /\ frame(len).dur = len
  BY DEF Frames, Items
<1>3. CASE NeedsSilence(t, duration)
  <2>1. 2 * duration > 3 * Ref[t]
    BY <1>3 DEF NeedsSilence
  <2>2. PICK e, v : e = frame(Ref[t]) /\ v = SilentFrames(duration, Ref[t])
    OBVIOUS
  <2>3. w = <<e>> \o v
    BY <1>3, <2>2 DEF FilledUp
  <2>4. e \in Items /\ e.tag = sample.tag /\ e.dur = Ref[t]
    <3> HIDE DEF frame
    <3> QED BY <1>1, <1>2, <2>2
  <2> HIDE DEF frame
  <2>5. PICK u : u = <<e>> /\ u \in Seq(Items)
    <3>1. <<e>> \in Seq(Items)
      BY <2>4
    <3> QED BY <3>1, Zenon
  <2>6. Length(u) = e.dur /\ OnTime(B, u, s, b)
    BY <2>4, <2>5, OneSample
  <2>7. PICK A : A = B + Length(u)
    OBVIOUS
  <2>8. v \in Seq(Items) /\ Length(v) = duration - Ref[t] /\ OnTime(A, v, s, b)
    BY <1>1, <2>1, <2>2, SilentTime
  <2>9. w = u \o v
    BY <2>3, <2>5
  <2>10. /\ Length(w) = Length(u) + Length(v) /\ w \in Seq(Items)
         /\ Keeping(B, A, u, v, w, s, b)
    BY <2>5, <2>7, <2>8, <2>9, OnTimeCat
  <2>11. Length(w) = duration
    BY <1>1, <2>4, <2>6, <2>8, <2>10
  <2>12. OnTime(B, w, s, b)
    BY <2>6, <2>8, <2>10 DEF Keeping
  <2> QED BY <2>10, <2>11, <2>12
<1>4. CASE ~NeedsSilence(t, duration)
  <2>1. PICK e : e = frame(duration)
    OBVIOUS
  <2>2. w = <<e>>
    BY <1>4, <2>1 DEF FilledUp
  <2>3. e \in Items /\ e.tag = sample.tag /\ e.dur = duration
    <3> HIDE DEF frame
    <3> QED BY <1>2, <2>1
  <2> HIDE DEF frame
  <2> QED BY <2>2, <2>3, OneSample
<1> QED BY <1>3, <1>4

\* Runs that go on from one to the next, each on time from where it begins.
Chained(W, at, s, b) ==
  \A i \in 1 .. Len(W) : at[i] + Length(W[i]) = at[i + 1] /\ OnTime(at[i], W[i], s, b)
Spans(run, at, n, s, b) ==
  run \in Seq(Items) /\ at[1] + Length(run) = at[n + 1] /\ OnTime(at[1], run, s, b)

\* They are one run on time.
LEMMA FlattenTime ==
  ASSUME NEW W \in Seq(Seq(Items)), NEW N, N = Len(W), NEW at \in [1 .. N + 1 -> Int], NEW s, NEW b,
         Chained(W, at, s, b)
  PROVE  Spans(FlattenSeq(W), at, N, s, b)
<1>1. N \in Nat
  BY LenProperties
<1> DEFINE Part(n) == SubSeq(W, 1, n)
           T == {n \in Nat : n <= N => Spans(FlattenSeq(Part(n)), at, n, s, b)}
<1>2. \A n \in 0 .. N : Part(n) \in Seq(Seq(Items)) /\ Len(Part(n)) = n /\ \A i \in 1 .. n : Part(n)[i] = W[i]
  <2> TAKE n \in 0 .. N
  <2>1. PICK U : U = SubSeq(W, 1, n)
    OBVIOUS
  <2>2. \A i \in 1 .. n : W[i] \in Seq(Items)
    <3>1. \A i \in 1 .. n : i \in 1 .. Len(W)
      BY <1>1
    <3> QED BY <3>1, ElementOfSeq
  <2>3. U \in Seq(Seq(Items)) /\ Len(U) = n /\ \A i \in 1 .. n : U[i] = W[i]
    <3>1. n = 0 \/ 1 <= n
      BY <1>1
    <3>2. U \in Seq(Seq(Items)) /\ Len(U) = n
      BY <1>1, <2>1, <2>2, <3>1, SubSeqProperties
    <3>3. \A i \in 1 .. n : U[i] = W[i]
      BY <1>1, <2>1, <3>2
    <3> QED BY <3>2, <3>3
  <2> QED BY <2>1, <2>3
<1> HIDE DEF Part
<1>3. 0 \in T
  <2>1. Part(0) \in Seq(Seq(Items)) /\ Len(Part(0)) = 0
    BY <1>1, <1>2
  <2>2. FlattenSeq(Part(0)) = <<>>
    BY <2>1, EmptySeq, FlattenEmpty
  <2>3. PICK u : u = <<>> /\ u \in Seq(Items)
    <3>1. <<>> \in Seq(Items)
      OBVIOUS
    <3> QED BY <3>1, Zenon
  <2>4. PICK a : Adds(a, u) /\ Length(u) = a[Len(u)]
    BY <2>3, AddsIs
  <2>5. Length(u) = 0
    <3>1. Len(u) = 0
      BY <2>3
    <3> QED BY <2>4, <3>1 DEF Adds
  <2>6. OnTime(at[1], u, s, b)
    <3>1. DOMAIN u = {}
      BY <2>3
    <3> QED BY <3>1 DEF OnTime
  <2>7. at[1] \in Int
    BY <1>1
  <2>8. Spans(u, at, 0, s, b)
    BY <2>3, <2>5, <2>6, <2>7 DEF Spans
  <2>9. FlattenSeq(Part(0)) = u
    BY <2>2, <2>3
  <2> QED BY <2>8, <2>9
<1>4. ASSUME NEW n \in Nat, n \in T PROVE n + 1 \in T
  <2> SUFFICES ASSUME n + 1 <= N PROVE Spans(FlattenSeq(Part(n + 1)), at, n + 1, s, b)
    OBVIOUS
  <2>1. n \in 0 .. N /\ n + 1 \in 0 .. N /\ n + 1 \in 1 .. N /\ n <= N /\ n + 1 \in 1 .. N + 1
        /\ (n + 1) + 1 \in 1 .. N + 1 /\ 1 \in 1 .. N + 1
    BY <1>1
  <2>2. PICK U, V : U = Part(n) /\ V = Part(n + 1)
    OBVIOUS
  <2>3. Spans(FlattenSeq(U), at, n, s, b)
    BY <1>4, <2>1, <2>2
  <2>4. /\ U \in Seq(Seq(Items)) /\ Len(U) = n /\ V \in Seq(Seq(Items)) /\ Len(V) = n + 1
        /\ \A i \in 1 .. n : V[i] = U[i]
        /\ V[n + 1] = W[n + 1]
    <3>1. \A i \in 1 .. n : i \in 1 .. n + 1
      OBVIOUS
    <3>2. n + 1 \in 1 .. n + 1
      OBVIOUS
    <3> QED BY <1>2, <2>1, <2>2, <3>1, <3>2
  <2>5. PICK u, v, w : u = FlattenSeq(U) /\ v = V[n + 1] /\ w = FlattenSeq(V) /\ w = u \o v /\ u \in Seq(Items)
    <3>1. FlattenSeq(U) \in Seq(Items) /\ FlattenSeq(V) = FlattenSeq(U) \o V[n + 1]
      BY <2>4, FlattenMore
    <3> QED BY <3>1
  <2>6. v \in Seq(Items)
    BY <2>1, <2>4, <2>5, ElementOfSeq
  <2>7. PICK A, B, C \in Int : A = at[1] /\ B = at[n + 1] /\ C = at[(n + 1) + 1]
    BY <2>1
  <2>8. B + Length(v) = C /\ OnTime(B, v, s, b)
    BY <2>1, <2>4, <2>5, <2>7 DEF Chained
  <2>9. A + Length(u) = B /\ OnTime(A, u, s, b)
    BY <2>3, <2>5, <2>7 DEF Spans
  <2>10. /\ Length(w) = Length(u) + Length(v) /\ Length(u) \in Int /\ Length(v) \in Int /\ w \in Seq(Items)
         /\ Keeping(A, B, u, v, w, s, b)
    BY <2>5, <2>6, <2>9, OnTimeCat
  <2>11. A + Length(w) = C /\ OnTime(A, w, s, b)
    <3>1. A + Length(w) = C
      BY <2>8, <2>9, <2>10
    <3>2. OnTime(A, w, s, b)
      BY <2>8, <2>9, <2>10 DEF Keeping
    <3> QED BY <3>1, <3>2
  <2> QED BY <2>2, <2>5, <2>7, <2>10, <2>11 DEF Spans
<1>5. Spans(FlattenSeq(Part(N)), at, N, s, b)
  <2>1. Nat \subseteq T
    <3> HIDE DEF T
    <3> QED BY <1>3, <1>4, SetInduction
  <2>2. N \in T /\ N <= N
    <3> HIDE DEF T
    <3> QED BY <1>1, <2>1
  <2> QED BY <2>2
<1>6. Part(N) = W
  BY SubSeqFull DEF Part
<1> QED BY <1>5, <1>6

-----------------------------------------------------------------------------
(* Segments and batches.                                                     *)

\* Frames that have the time of their tag; events and frames shown that keep to
\* a clock.
Stamped(s) == {frame \in Frames : frame.dts = s[frame.tag].ts}
Punctual(s, b) == {e \in Events : e.ev = "media" => OnTime(e.base, e.run, s, b)}
Seen(s, b) == {e \in Shown : e.tag > 0 /\ ~e.lost => e.at = s[e.tag].ts - b}

\* Where each sample of a batch begins, and where the last one ends.
Marked(t, bt, base, n) ==
  [i \in 1 .. n + 1 |-> IF i <= n THEN bt.samples[i].dts - base
                        ELSE (bt.samples[n].dts - base) + Duration(t, bt, n, base)]
Ends(bt, seg, base) == bt.held # <<>> => seg.base + Length(seg.run) = bt.held[1].dts - base

\* A segment keeps to the clock, and ends where the frame that is held back is
\* going to begin.
LEMMA SegmentTime ==
  ASSUME NEW t \in Types, NEW bt \in Batches, bt.samples # <<>>, NEW s, bt.samples \in Seq(Stamped(s)),
         NEW k \in Tracks, NEW base \in Int, DtsCorrection(k, base, bt) = 0, NEW seg, seg = MediaSegment(t, bt, k, base)
  PROVE  seg \in Punctual(s, base) /\ Ends(bt, seg, base)
<1> DEFINE Piece(i) == Mp4Samples(t, bt, i, base)
<1>1. PICK n, W : n = Len(bt.samples) /\ W = [i \in 1 .. n |-> Piece(i)]
  OBVIOUS
<1>2. seg \in Media /\ seg.run = FlattenSeq(W) /\ W \in Seq(Seq(Items))
  BY <1>1, MediaSegmentIs
<1>3. seg.base = At(bt, 1, base, 0)
  BY DEF MediaSegment, Moof
<1>4. n \in Nat /\ n >= 1 /\ \A i \in 1 .. n : bt.samples[i] \in Frames /\ bt.samples[i] \in Stamped(s)
  BY <1>1, EmptySeq, ElementOfSeq DEF Batches
<1>5. \A i \in 1 .. n : bt.samples[i].dts \in Int /\ bt.samples[i].dts = s[bt.samples[i].tag].ts
  <2> TAKE i \in 1 .. n
  <2>1. PICK f : f = bt.samples[i] /\ f \in Frames /\ f \in Stamped(s)
    BY <1>4
  <2>2. f.dts \in Int
    BY <2>1 DEF Frames
  <2>3. f.dts = s[f.tag].ts
    BY <2>1 DEF Stamped
  <2> QED BY <2>1, <2>2, <2>3
<1>6. \A i \in 1 .. n : Duration(t, bt, i, base) \in Int
  BY <1>1, DurationInt
<1>7. PICK at : at = Marked(t, bt, base, n)
  OBVIOUS
<1>8. /\ \A i \in 1 .. n : at[i] = bt.samples[i].dts - base
      /\ at[n + 1] = (bt.samples[n].dts - base) + Duration(t, bt, n, base)
      /\ at \in [1 .. n + 1 -> Int]
  <2>0. \A i \in 1 .. n : i \in 1 .. n + 1 /\ i <= n
    BY <1>4
  <2>1. \A i \in 1 .. n : at[i] = bt.samples[i].dts - base
    BY <1>7, <2>0 DEF Marked
  <2>2. n + 1 \in 1 .. n + 1 /\ ~(n + 1 <= n) /\ n \in 1 .. n
    BY <1>4
  <2>3. at[n + 1] = (bt.samples[n].dts - base) + Duration(t, bt, n, base)
    BY <1>7, <2>2 DEF Marked
  <2>4. \A i \in 1 .. n + 1 : at[i] \in Int
    <3> TAKE i \in 1 .. n + 1
    <3>1. i \in 1 .. n \/ i = n + 1
      BY <1>4
    <3>2. bt.samples[n].dts \in Int /\ Duration(t, bt, n, base) \in Int
      BY <1>5, <1>6, <2>2
    <3> QED BY <1>5, <2>1, <2>3, <3>1, <3>2
  <2>5. at = [i \in 1 .. n + 1 |-> at[i]]
    BY <1>7 DEF Marked
  <2> QED BY <2>1, <2>3, <2>4, <2>5
<1>9. \A i \in 1 .. n : at[i] + Duration(t, bt, i, base) = at[i + 1]
  <2> TAKE i \in 1 .. n
  <2>1. CASE i < n
    <3>1. i + 1 \in 1 .. n
      BY <1>4, <2>1
    <3>2. Duration(t, bt, i, base) = bt.samples[i + 1].dts - bt.samples[i].dts
      BY <1>1, <2>1 DEF Duration
    <3> QED BY <1>5, <1>8, <3>1, <3>2
  <2>2. CASE ~(i < n)
    <3>1. i = n
      BY <1>4, <2>2
    <3> QED BY <1>8, <3>1
  <2> QED BY <2>1, <2>2
<1>10. Len(W) = n /\ \A i \in 1 .. n : W[i] = Piece(i)
  BY <1>1, <1>4
<1>11. Chained(W, at, s, base)
  <2>1. ASSUME NEW i \in 1 .. n
        PROVE  Length(W[i]) = Duration(t, bt, i, base) /\ OnTime(at[i], W[i], s, base)
    <3>1. PICK f, d, B, w : /\ f = bt.samples[i] /\ d = Duration(t, bt, i, base) /\ B = at[i] /\ w = W[i]
      OBVIOUS
    <3>2. f \in Frames /\ d \in Int /\ B \in Int /\ B = s[f.tag].ts - base
      <4>1. f \in Frames /\ d \in Int
        BY <1>4, <1>6, <3>1
      <4>2. f.dts \in Int /\ f.dts = s[f.tag].ts /\ B = f.dts - base
        BY <1>5, <1>8, <3>1
      <4>3. B \in Int
        BY <4>2
      <4> QED BY <4>1, <4>2, <4>3
    <3>3. w = FilledUp(t, f, d)
      BY <1>10, <3>1 DEF Mp4Samples
    <3>4. Length(w) = d /\ OnTime(B, w, s, base)
      BY <3>2, <3>3, FilledUpTime
    <3> QED BY <3>1, <3>4
  <2> QED BY <1>9, <1>10, <2>1 DEF Chained
<1>12. Spans(seg.run, at, n, s, base)
  <2>1. Spans(FlattenSeq(W), at, n, s, base)
    BY <1>2, <1>8, <1>10, <1>11, FlattenTime
  <2> QED BY <1>2, <2>1
<1>13. seg.base = at[1]
  <2>1. 1 \in 1 .. n
    BY <1>4
  <2>2. seg.base = bt.samples[1].dts - base - 0
    BY <1>3 DEF At
  <2> QED BY <1>5, <1>8, <2>1, <2>2
<1>14. seg \in Punctual(s, base)
  <2>1. OnTime(seg.base, seg.run, s, base)
    BY <1>12, <1>13 DEF Spans
  <2> QED BY <1>2, <2>1 DEF Punctual, Events, Segments
<1>15. Ends(bt, seg, base)
  <2> SUFFICES ASSUME bt.held # <<>> PROVE seg.base + Length(seg.run) = bt.held[1].dts - base
    BY DEF Ends
  <2>1. n \in 1 .. n /\ ~(n < n)
    BY <1>4
  <2>2. Duration(t, bt, n, base) = bt.held[1].dts - bt.samples[n].dts
    BY <1>1, <2>1 DEF Duration
  <2>3. bt.held[1].dts \in Int
    <3>1. bt.held \in Seq(Frames)
      BY DEF Batches
    <3>2. 1 \in 1 .. Len(bt.held)
      BY <3>1, EmptySeq
    <3>3. bt.held[1] \in Frames
      BY <3>1, <3>2, ElementOfSeq
    <3> QED BY <3>3 DEF Frames
  <2>4. seg.base + Length(seg.run) = at[n + 1]
    BY <1>12, <1>13 DEF Spans
  <2>5. PICK last, next \in Int : last = bt.samples[n].dts /\ next = bt.held[1].dts
    BY <1>5, <2>1, <2>3
  <2>6. at[n + 1] = (last - base) + (next - last)
    BY <1>8, <2>2, <2>5
  <2>7. seg.base + Length(seg.run) = (last - base) + (next - last)
    BY <2>4, <2>6
  <2>8. (last - base) + (next - last) = next - base
    OBVIOUS
  <2> QED BY <2>5, <2>7, <2>8
<1> QED BY <1>14, <1>15

-----------------------------------------------------------------------------
(* The clock of the remuxer.                                                 *)

\* What is put together of good elements has good ones.
LEMMA PartsAre ==
  ASSUME NEW S, NEW G \in SUBSET S, NEW u \in Seq(S), NEW v \in Seq(S), NEW w, w = u \o v
  PROVE  /\ w \in Seq(G) => u \in Seq(G) /\ v \in Seq(G)
         /\ u \in Seq(G) /\ v \in Seq(G) => w \in Seq(G)
<1>1. PICK m, n \in Nat : m = Len(u) /\ n = Len(v)
  BY LenProperties
<1>2. /\ Len(w) = m + n
      /\ \A i \in 1 .. m + n : w[i] = IF i <= m THEN u[i] ELSE v[i - m]
  BY <1>1, ConcatProperties
<1>3. ASSUME w \in Seq(G) PROVE u \in Seq(G) /\ v \in Seq(G)
  <2>1. \A i \in 1 .. m + n : w[i] \in G
    BY <1>2, <1>3, ElementOfSeq
  <2>2. \A i \in 1 .. m : u[i] \in G
    <3> TAKE i \in 1 .. m
    <3>1. i \in 1 .. m + n /\ i <= m
      BY <1>1
    <3> QED BY <1>2, <2>1, <3>1
  <2>3. \A i \in 1 .. n : v[i] \in G
    <3> TAKE i \in 1 .. n
    <3>1. PICK j : j = i + m
      OBVIOUS
    <3>2. j \in 1 .. m + n /\ ~(j <= m) /\ j - m = i
      BY <1>1, <3>1
    <3> QED BY <1>2, <2>1, <3>2
  <2>4. u \in Seq(G)
    <3>1. [i \in 1 .. m |-> u[i]] \in Seq(G)
      BY <2>2
    <3>2. u = [i \in 1 .. m |-> u[i]]
      BY <1>1
    <3> QED BY <3>1, <3>2, Zenon
  <2>5. v \in Seq(G)
    <3>1. [i \in 1 .. n |-> v[i]] \in Seq(G)
      BY <2>3
    <3>2. v = [i \in 1 .. n |-> v[i]]
      BY <1>1
    <3> QED BY <3>1, <3>2, Zenon
  <2> QED BY <2>4, <2>5
<1>4. u \in Seq(G) /\ v \in Seq(G) => w \in Seq(G)
  BY ConcatProperties
<1> QED BY <1>3, <1>4

\* A batch begins with what was held back before, and of several frames the last
\* is held back.
LEMMA BatchStarts ==
  ASSUME NEW k \in Tracks, NEW queue \in Seq(Frames), NEW b, b = Batch(k, queue)
  PROVE  /\ k.stash # <<>> => b.samples[1] = k.stash[1]
         /\ Len(queue) > 1 => b.held # <<>>
<1>1. k.stash \in Seq(Frames) /\ Len(queue) \in Nat
  BY DEF Tracks
<1>2. PICK front : front \in Seq(Frames) /\ b.samples = k.stash \o front
  <2>1. CASE Len(queue) > 1
    <3>1. \A i \in 1 .. Len(queue) - 1 : queue[i] \in Frames
      BY ElementOfSeq, <1>1
    <3>2. SubSeq(queue, 1, Len(queue) - 1) \in Seq(Frames)
      BY <1>1, <2>1, <3>1, SubSeqProperties
    <3> QED BY <2>1, <3>2 DEF Batch, Front
  <2>2. CASE ~(Len(queue) > 1)
    BY <2>2 DEF Batch
  <2> QED BY <2>1, <2>2
<1>3. k.stash # <<>> => b.samples[1] = k.stash[1]
  <2> SUFFICES ASSUME k.stash # <<>> PROVE b.samples[1] = k.stash[1]
    OBVIOUS
  <2>1. PICK u : u = k.stash /\ u \in Seq(Frames) /\ u # <<>>
    BY <1>1
  <2>2. Len(u) \in Nat /\ Len(u) # 0
    BY <2>1, EmptySeq, LenProperties
  <2> QED BY <1>2, <2>1, <2>2, ConcatProperties
<1>4. Len(queue) > 1 => b.held # <<>>
  <2>1. Len(queue) > 1 => b.held = <<Last(queue)>>
    BY DEF Batch
  <2>2. <<Last(queue)>> # <<>>
    <3>1. PICK e : e = Last(queue)
      OBVIOUS
    <3>2. Len(<<e>>) = 1 /\ Len(<<>>) = 0
      OBVIOUS
    <3> QED BY <3>1, <3>2
  <2> QED BY <2>1, <2>2, Zenon
<1> QED BY <1>3, <1>4

\* A clock that has not begun may be any.
Clocks(x) == IF x.base = Unset THEN Int ELSE {x.base}

\* The segments emitted keep to it, and the frames that wait have their times.
Clear(s, x) == \A b \in Clocks(x) : x.out \in Seq(Punctual(s, b))
Stamps(s, x) == \A t \in Types : Backlog(x.tracks[t]) \in Seq(Stamped(s))
Emptied(x) == \A t \in Types : x.tracks[t].stash = <<>>
InTime(s, x) == Clear(s, x) /\ Stamps(s, x) /\ (x.base = Unset => Emptied(x))

\* What a track's segments have come to is where the frame held back begins.
Steady(k, base) == k.next > 0 => k.stash # <<>> /\ k.next = k.stash[1].dts - base
Steadies(x) == \A t \in Types : Steady(x.tracks[t], x.base)
Clocked(s, x) == InTime(s, x) /\ Steadies(x)

\* A step that keeps to the clock.
Ticks(s, x, y) == Clocks(y) \subseteq Clocks(x) /\ (Clocked(s, x) => Clocked(s, y))

\* Two of them.
LEMMA TicksTwice ==
  ASSUME NEW s, NEW x, NEW y, NEW z, Ticks(s, x, y), Ticks(s, y, z)
  PROVE  Ticks(s, x, z)
BY DEF Ticks

\* Tracks that hold the same frames and have come to the same time.
Alike(x, y) ==
  /\ y.base = x.base
  /\ \A t \in Types : /\ y.tracks[t].stash = x.tracks[t].stash /\ y.tracks[t].queue = x.tracks[t].queue
                      /\ y.tracks[t].next = x.tracks[t].next

\* What they keep.
LEMMA AlikeIs ==
  ASSUME NEW s, NEW x, NEW y, Alike(x, y)
  PROVE  /\ Clocks(y) = Clocks(x) /\ (Stamps(s, x) => Stamps(s, y)) /\ (Emptied(x) => Emptied(y))
         /\ (Steadies(x) => Steadies(y)) /\ y.base = x.base
<1>1. y.base = x.base /\ Clocks(y) = Clocks(x)
  BY DEF Alike, Clocks
<1>2. Stamps(s, x) => Stamps(s, y)
  BY DEF Alike, Stamps, Backlog
<1>3. Emptied(x) => Emptied(y)
  BY DEF Alike, Emptied
<1>4. Steadies(x) => Steadies(y)
  BY DEF Alike, Steadies, Steady
<1> QED BY <1>1, <1>2, <1>3, <1>4

\* Nothing that the clock is concerned with.
LEMMA TicksSame ==
  ASSUME NEW s, NEW x, NEW y, Alike(x, y), y.out = x.out
  PROVE  Ticks(s, x, y)
<1>1. /\ Clocks(y) = Clocks(x) /\ (Stamps(s, x) => Stamps(s, y)) /\ (Emptied(x) => Emptied(y))
      /\ (Steadies(x) => Steadies(y)) /\ y.base = x.base
  BY AlikeIs
<1>2. Clear(s, x) => Clear(s, y)
  BY <1>1 DEF Clear
<1> QED BY <1>1, <1>2 DEF Ticks, Clocked, InTime

\* An event that is no media keeps to every clock.
LEMMA NotePunctual ==
  ASSUME NEW s, NEW e \in Events, e.ev # "media", NEW b
  PROVE  e \in Punctual(s, b)
BY DEF Punctual

\* It is emitted.
LEMMA NoteTicks ==
  ASSUME NEW s, NEW x, NEW y, Alike(x, y), NEW e \in Events, e.ev # "media", y.out = Append(x.out, e)
  PROVE  Ticks(s, x, y)
<1>1. /\ Clocks(y) = Clocks(x) /\ (Stamps(s, x) => Stamps(s, y)) /\ (Emptied(x) => Emptied(y))
      /\ (Steadies(x) => Steadies(y)) /\ y.base = x.base
  BY AlikeIs
<1>2. ASSUME Clear(s, x) PROVE Clear(s, y)
  <2>1. ASSUME NEW b \in Clocks(y) PROVE y.out \in Seq(Punctual(s, b))
    <3>1. PICK G : G = Punctual(s, b)
      OBVIOUS
    <3>2. x.out \in Seq(G) /\ e \in G
      BY <1>1, <1>2, <2>1, <3>1, NotePunctual DEF Clear
    <3>3. Append(x.out, e) \in Seq(G)
      BY <3>2, AppendProperties
    <3> QED BY <3>1, <3>3
  <2> QED BY <2>1 DEF Clear
<1> QED BY <1>1, <1>2 DEF Ticks, Clocked, InTime

\* A segment goes out that keeps to the clock.
LEMMA SegmentInTime ==
  ASSUME NEW s, NEW x \in Muxes, NEW y, NEW t \in Types, x.base # Unset, y.base = x.base, InTime(s, x),
         NEW seg, seg \in Punctual(s, x.base), y.out = Append(x.out, seg),
         \A u \in Types : u # t => y.tracks[u] = x.tracks[u],
         Backlog(y.tracks[t]) \in Seq(Stamped(s))
  PROVE  InTime(s, y) /\ Clocks(y) = Clocks(x)
<1>1. PICK G : G = Punctual(s, x.base)
  OBVIOUS
<1>2. x.out \in Seq(G) /\ seg \in G
  BY <1>1 DEF InTime, Clear, Clocks
<1>3. y.out \in Seq(G)
  BY <1>2, AppendProperties
<1>4. Clear(s, y)
  BY <1>1, <1>3 DEF Clear, Clocks
<1>5. Stamps(s, y)
  <2> SUFFICES ASSUME NEW u \in Types PROVE Backlog(y.tracks[u]) \in Seq(Stamped(s))
    BY DEF Stamps
  <2>1. CASE u = t
    BY <2>1
  <2>2. CASE u # t
    BY <2>2 DEF InTime, Stamps
  <2> QED BY <2>1, <2>2
<1> QED BY <1>4, <1>5 DEF InTime, Clocks

\* The time that a batch begins at is where the last one ended.
OnFrom(k, b, base) == k.next > 0 => k.next = b.samples[1].dts - base
LEMMA OnFromIs ==
  ASSUME NEW k \in Tracks, NEW b \in Batches, b.samples # <<>>, NEW base \in Int, OnFrom(k, b, base)
  PROVE  DtsCorrection(k, base, b) = 0
<1>1. b.samples[1] \in Frames
  BY ElementOfSeq, LenProperties, EmptySeq DEF Batches
<1>2. PICK n, d \in Int : n = k.next /\ d = b.samples[1].dts
  BY <1>1 DEF Tracks, Frames
<1>3. n > 0 => n = d - base
  BY <1>2 DEF OnFrom
<1>4. DtsCorrection(k, base, b) = IF n > 0 THEN d - base - n ELSE 0
  BY <1>2 DEF DtsCorrection
<1> QED BY <1>3, <1>4

\* The segment of a batch keeps to the clock.
LEMMA BatchTime ==
  ASSUME NEW s, NEW x \in Muxes, NEW t \in Types, NEW queue \in Seq(Frames), queue # <<>>,
         NEW k, k = x.tracks[t], NEW b, b = Batch(k, queue), k.stash \o queue \in Seq(Stamped(s)),
         OnFrom(k, b, x.base), NEW seg, seg = SegmentOf(x, t, queue)
  PROVE  seg \in Punctual(s, x.base) /\ Ends(b, seg, x.base) /\ b.held \in Seq(Stamped(s))
<1>1. k \in Tracks /\ x.base \in Int
  BY DEF Muxes
<1>2. /\ b.samples \in Seq(Frames) /\ b.held \in Seq(Frames) /\ b.samples # <<>>
      /\ b.samples \o b.held = k.stash \o queue
  BY <1>1, BatchIs
<1>3. b \in Batches
  <2>1. b = [samples |-> b.samples, held |-> b.held]
    BY DEF Batch
  <2> QED BY <1>2, <2>1 DEF Batches
<1>4. b.samples \in Seq(Stamped(s)) /\ b.held \in Seq(Stamped(s))
  <2>1. PICK F, G, w : F = Frames /\ G = Stamped(s) /\ w = k.stash \o queue
    OBVIOUS
  <2>2. G \in SUBSET F /\ b.samples \in Seq(F) /\ b.held \in Seq(F) /\ w = b.samples \o b.held /\ w \in Seq(G)
    BY <1>2, <2>1 DEF Stamped
  <2>3. b.samples \in Seq(G) /\ b.held \in Seq(G)
    BY <2>2, PartsAre
  <2> QED BY <2>1, <2>3
<1>5. DtsCorrection(k, x.base, b) = 0
  BY <1>1, <1>2, <1>3, OnFromIs
<1>6. seg = MediaSegment(t, b, k, x.base)
  BY DEF SegmentOf
<1>7. seg \in Punctual(s, x.base) /\ Ends(b, seg, x.base)
  BY <1>1, <1>2, <1>3, <1>4, <1>5, <1>6, SegmentTime
<1> QED BY <1>4, <1>7

\* What the demuxer has queued for a track.
LEMMA RemuxQueueTime ==
  ASSUME NEW s, NEW x \in Muxes, NEW t \in Types, x.base # Unset, NEW y, y = RemuxQueue(x, t)
  PROVE  Ticks(s, x, y) /\ y.base = x.base
<1>0. PICK queue : queue = x.tracks[t].queue
  OBVIOUS
<1>1. PICK force \in BOOLEAN : force = FALSE
  BY Zenon
<1>2. ~force
  BY <1>1, Zenon
<1>3. y = RemuxTrack(x, t, queue, force)
  BY <1>0, <1>1, Zenon DEF RemuxQueue
<1>4. queue \in Seq(Frames) /\ x.tracks[t] \in Tracks /\ x.base \in Int /\ Len(queue) \in Nat
  BY <1>0 DEF Muxes, Tracks
<1>5. CASE NothingToRemux(x.tracks[t], queue, force)
  <2>1. y = x
    BY <1>3, <1>5 DEF RemuxTrack
  <2>2. Alike(x, y) /\ y.out = x.out /\ y.base = x.base
    BY <2>1 DEF Alike
  <2> QED BY <2>2, TicksSame
<1>6. CASE ~NothingToRemux(x.tracks[t], queue, force)
  <2>1. PICK k, b, seg : /\ k = x.tracks[t] /\ b = Batch(k, queue) /\ seg = SegmentOf(x, t, queue)
    OBVIOUS
  <2>2. /\ \A u \in Types : u # t => y.tracks[u] = x.tracks[u]
        /\ y.tracks[t].stash = b.held /\ y.out = Append(x.out, seg) /\ y.base = x.base
        /\ y.tracks[t].next = seg.base + Length(seg.run)
    <3>1. /\ \A u \in Types : u # t => y.tracks[u] = x.tracks[u]
          /\ y.tracks[t].stash = Batch(x.tracks[t], queue).held /\ y.out = Append(x.out, SegmentOf(x, t, queue))
          /\ y.base = x.base
          /\ y.tracks[t].next = SegmentOf(x, t, queue).base + Length(SegmentOf(x, t, queue).run)
      BY <1>3, <1>4, <1>6, RemuxTrackIs
    <3> QED BY <2>1, <3>1
  <2>3. y.tracks[t].queue = <<>>
    <3>1. y.tracks[t].queue = IF force THEN x.tracks[t].queue ELSE <<>>
      BY <1>3, <1>4, <1>6, RemuxTrackIs
    <3> QED BY <1>2, <3>1, Zenon
  <2>4. queue # <<>> /\ Len(queue) # 1
    BY <1>2, <1>6, NothingIs, Zenon
  <2>5. Len(queue) > 1
    <3>1. PICK n \in Nat : n = Len(queue)
      BY <1>4
    <3>2. n # 0 /\ n # 1
      BY <1>4, <2>4, <3>1, EmptySeq
    <3>3. n > 1
      BY <3>2
    <3> QED BY <3>1, <3>3
  <2>6. b.held # <<>> /\ (k.stash # <<>> => b.samples[1] = k.stash[1])
    BY <1>4, <2>1, <2>5, BatchStarts
  <2>7. ASSUME Clocked(s, x) PROVE Clocked(s, y)
    <3>1. k.stash \o queue \in Seq(Stamped(s)) /\ InTime(s, x) /\ Steady(k, x.base)
      BY <1>0, <2>1, <2>7 DEF Clocked, InTime, Stamps, Backlog, Steadies
    <3>2. OnFrom(k, b, x.base)
      BY <2>6, <3>1 DEF OnFrom, Steady
    <3>3. seg \in Punctual(s, x.base) /\ Ends(b, seg, x.base) /\ b.held \in Seq(Stamped(s))
      BY <1>4, <2>1, <2>4, <3>1, <3>2, BatchTime
    <3>4. Backlog(y.tracks[t]) \in Seq(Stamped(s))
      <4>1. b.held \o <<>> = b.held
        BY <3>3, ConcatEmptySeq
      <4> QED BY <2>2, <2>3, <3>3, <4>1 DEF Backlog
    <3>5. InTime(s, y)
      BY <2>2, <3>1, <3>3, <3>4, SegmentInTime
    <3>6. Steadies(y)
      <4> SUFFICES ASSUME NEW u \in Types PROVE Steady(y.tracks[u], y.base)
        BY DEF Steadies
      <4>1. CASE u = t
        BY <2>2, <2>6, <3>3, <4>1 DEF Steady, Ends
      <4>2. CASE u # t
        BY <2>2, <2>7, <4>2 DEF Clocked, Steadies
      <4> QED BY <4>1, <4>2
    <3> QED BY <3>5, <3>6 DEF Clocked
  <2>8. Clocks(y) = Clocks(x)
    BY <2>2 DEF Clocks
  <2> QED BY <2>2, <2>7, <2>8 DEF Ticks
<1> QED BY <1>5, <1>6

\* The zero of the timeline is set: the clock begins.
LEMMA BaseTime ==
  ASSUME NEW s, NEW x \in Muxes, NEW base \in Int, base # Unset, x.base = Unset \/ base = x.base,
         NEW a, a = [x EXCEPT !.base = base]
  PROVE  Ticks(s, x, a) /\ a.base = base
<1>1. a.tracks = x.tracks /\ a.out = x.out /\ a.base = base
  BY DEF Muxes
<1>2. Clocks(a) \subseteq Clocks(x)
  BY <1>1 DEF Clocks
<1>3. ASSUME Clocked(s, x) PROVE Clocked(s, a)
  <2>1. Clear(s, a)
    BY <1>1, <1>2, <1>3 DEF Clocked, InTime, Clear
  <2>2. Stamps(s, a)
    BY <1>1, <1>3 DEF Clocked, InTime, Stamps
  <2>3. Steadies(a)
    <3>1. CASE x.base # Unset
      BY <1>1, <1>3, <3>1 DEF Clocked, Steadies
    <3>2. CASE x.base = Unset
      BY <1>1, <1>3, <3>2 DEF Clocked, InTime, Emptied, Steadies, Steady
    <3> QED BY <3>1, <3>2
  <2> QED BY <1>1, <2>1, <2>2, <2>3 DEF Clocked, InTime
<1> QED BY <1>1, <1>2, <1>3 DEF Ticks

\* Both tracks.
LEMMA RemuxTime ==
  ASSUME NEW s, NEW x \in Muxes, HasFrames(x), NEW y, y = Remux(x)
  PROVE  Ticks(s, x, y)
<1>1. PICK base \in Int : /\ CalculateDtsBase(x) = [x EXCEPT !.base = base]
                          /\ base # Unset /\ (x.base = Unset \/ base = x.base)
  BY BaseIs
<1>2. PICK a, b : a = [x EXCEPT !.base = base] /\ b = RemuxQueue(a, "video")
  OBVIOUS
<1>3. a \in Muxes
  BY <1>2 DEF Muxes
<1>4. y = RemuxQueue(b, "audio")
  BY <1>1, <1>2 DEF Remux
<1>5. b \in Muxes
  <2>1. Passed(a, b)
    BY <1>2, <1>3, RemuxQueueIs, TypesAre
  <2> QED BY <2>1 DEF Passed
<1>6. Ticks(s, x, a) /\ a.base = base
  BY <1>1, <1>2, BaseTime
<1>7. Ticks(s, a, b) /\ b.base = a.base
  BY <1>1, <1>2, <1>3, <1>6, RemuxQueueTime, TypesAre
<1>8. Ticks(s, b, y)
  BY <1>1, <1>4, <1>5, <1>6, <1>7, RemuxQueueTime, TypesAre
<1>9. Ticks(s, x, b)
  BY <1>6, <1>7, TicksTwice
<1> QED BY <1>8, <1>9, TicksTwice

\* Frames that were queued may have been remuxed.
LEMMA RemadeTime ==
  ASSUME NEW s, NEW x \in Muxes, NEW z \in Muxes, Remade(x, z)
  PROVE  Ticks(s, x, z)
<1>1. CASE z.tracks = x.tracks /\ z.out = x.out /\ z.base = x.base
  <2>1. Alike(x, z)
    BY <1>1 DEF Alike
  <2> QED BY <1>1, <2>1, TicksSame
<1>2. ASSUME NEW w \in Muxes, w.tracks = x.tracks, w.out = x.out, w.base = x.base, HasFrames(w),
             NEW v, v = Remux(w), z.tracks = v.tracks, z.out = v.out, z.base = v.base
      PROVE  Ticks(s, x, z)
  <2>1. Alike(x, w) /\ Alike(v, z)
    BY <1>2 DEF Alike
  <2>2. Ticks(s, x, w)
    BY <1>2, <2>1, TicksSame
  <2>3. Ticks(s, w, v)
    BY <1>2, RemuxTime
  <2>4. Ticks(s, v, z)
    BY <1>2, <2>1, TicksSame
  <2>5. Ticks(s, x, v)
    BY <2>2, <2>3, TicksTwice
  <2> QED BY <2>4, <2>5, TicksTwice
<1> QED BY <1>1, <1>2 DEF Remade

\* A configuration that goes out.
LEMMA ConfiguredTime ==
  ASSUME NEW s, NEW x \in Muxes, NEW y, NEW t \in Types, NEW cfg \in Nat, Configured(x, y, t, cfg)
  PROVE  Ticks(s, x, y)
<1>1. PICK z \in Muxes : /\ Remade(x, z) /\ y.out = Append(z.out, InitSegment(t, cfg))
                         /\ y.tracks = WithMeta(z.tracks, t, cfg) /\ y.base = z.base
  BY DEF Configured
<1>2. InitSegment(t, cfg) \in Events /\ InitSegment(t, cfg).ev # "media"
  BY DEF InitSegment, Events, Segments, Inits
<1>3. Alike(z, y)
  <2>1. z.tracks \in [Types -> Tracks]
    BY DEF Muxes
  <2>2. \A u \in Types : /\ y.tracks[u].stash = z.tracks[u].stash /\ y.tracks[u].queue = z.tracks[u].queue
                         /\ y.tracks[u].next = z.tracks[u].next
    BY <1>1, <2>1 DEF WithMeta, Tracks
  <2> QED BY <1>1, <2>2 DEF Alike
<1>4. Ticks(s, z, y)
  BY <1>1, <1>2, <1>3, NoteTicks
<1>5. Ticks(s, x, z)
  BY <1>1, RemadeTime
<1> QED BY <1>4, <1>5, TicksTwice

\* A frame is queued with the time of its tag.
LEMMA QueuedTime ==
  ASSUME NEW s, NEW x \in Muxes, NEW y, NEW t \in Types, NEW i, Queued(x, y, t, i, s[i].ts)
  PROVE  Ticks(s, x, y)
<1>1. PICK frame \in Frames : /\ frame.tag = i /\ frame.dts = s[i].ts /\ y.out = x.out /\ y.base = x.base
                              /\ y.tracks = WithFrame(x.tracks, t, frame)
  BY DEF Queued
<1>2. frame \in Stamped(s)
  BY <1>1 DEF Stamped
<1>3. x.tracks \in [Types -> Tracks]
  BY DEF Muxes
<1>4. /\ \A u \in Types : /\ y.tracks[u].stash = x.tracks[u].stash /\ y.tracks[u].next = x.tracks[u].next
                          /\ u # t => y.tracks[u].queue = x.tracks[u].queue
      /\ y.tracks[t].queue = Append(x.tracks[t].queue, frame)
  BY <1>1, <1>3 DEF WithFrame, Tracks
<1>5. Clocks(y) = Clocks(x)
  BY <1>1 DEF Clocks
<1>6. ASSUME Clocked(s, x) PROVE Clocked(s, y)
  <2>1. Clear(s, y)
    BY <1>1, <1>5, <1>6 DEF Clocked, InTime, Clear
  <2>2. Stamps(s, y)
    <3> SUFFICES ASSUME NEW u \in Types PROVE Backlog(y.tracks[u]) \in Seq(Stamped(s))
      BY DEF Stamps
    <3>1. Backlog(x.tracks[u]) \in Seq(Stamped(s))
      BY <1>6 DEF Clocked, InTime, Stamps
    <3>2. CASE u # t
      BY <1>4, <3>1, <3>2 DEF Backlog
    <3>3. CASE u = t
      <4>1. PICK F, G, a, b, w : /\ F = Frames /\ G = Stamped(s) /\ a = x.tracks[t].stash /\ b = x.tracks[t].queue
                                 /\ w = a \o b
        OBVIOUS
      <4>2. /\ G \in SUBSET F /\ a \in Seq(F) /\ b \in Seq(F) /\ w \in Seq(G) /\ frame \in G
        BY <1>2, <1>3, <3>1, <3>3, <4>1 DEF Stamped, Tracks, Backlog
      <4>3. a \in Seq(G) /\ b \in Seq(G)
        BY <4>1, <4>2, PartsAre
      <4>4. Append(b, frame) \in Seq(G)
        BY <4>2, <4>3, AppendProperties
      <4>5. a \o Append(b, frame) \in Seq(G)
        BY <4>3, <4>4, ConcatProperties
      <4> QED BY <1>4, <3>3, <4>1, <4>5 DEF Backlog
    <3> QED BY <3>2, <3>3
  <2>3. x.base = Unset => Emptied(y)
    BY <1>4, <1>6 DEF Clocked, InTime, Emptied
  <2>4. Steadies(y)
    BY <1>1, <1>4, <1>6 DEF Clocked, Steadies, Steady
  <2> QED BY <1>1, <2>1, <2>2, <2>3, <2>4 DEF Clocked, InTime
<1> QED BY <1>5, <1>6 DEF Ticks

\* A tag is read.
LEMMA TagTime ==
  ASSUME NEW s \in Seq(Tags), NEW x \in Muxes, NEW i \in DOMAIN s, NEW y, y = ParseTag(x, s, i)
  PROVE  Ticks(s, x, y)
<1>1. /\ s[i].kind = "meta" => Scripted(x, y)
      /\ Configures(s[i]) => Configured(x, y, TypeOf(s[i]), s[i].cfg)
      /\ s[i].kind \in Types => Queued(x, y, s[i].kind, i, s[i].ts)
      /\ s[i].kind = "foreign" => Refused(x, y)
      /\ s[i] \in Tags
  BY ParseTagIs
<1>2. CASE s[i].kind \in Types
  BY <1>1, <1>2, QueuedTime
<1>3. CASE s[i].kind = "meta"
  <2>1. Alike(x, y) /\ y.out = x.out
    BY <1>1, <1>3 DEF Scripted, Alike
  <2> QED BY <2>1, TicksSame
<1>4. CASE s[i].kind = "foreign"
  <2>1. Alike(x, y) /\ y.out = Append(x.out, [ev |-> "demux_error"])
    BY <1>1, <1>4 DEF Refused, Alike
  <2>2. [ev |-> "demux_error"] \in Events /\ [ev |-> "demux_error"].ev # "media"
    BY DEF Events, Notes
  <2> QED BY <2>1, <2>2, NoteTicks
<1>5. CASE Configures(s[i])
  <2>1. TypeOf(s[i]) \in Types /\ s[i].cfg \in Nat
    BY <1>1, <1>5 DEF TypeOf, Types, Tags, Configures
  <2> QED BY <1>1, <1>5, <2>1, ConfiguredTime
<1>6. s[i].kind \in Types \/ s[i].kind \in {"meta", "foreign"} \/ Configures(s[i])
  BY <1>1 DEF Tags, Configures, Types
<1> QED BY <1>2, <1>3, <1>4, <1>5, <1>6

\* The tags of a chunk are read.
LEMMA ParseTagsTime ==
  ASSUME NEW s \in Seq(Tags), NEW x \in Muxes, NEW tags \in Seq(DOMAIN s), NEW z, z = ParseTags(x, s, tags)
  PROVE  z \in Muxes /\ Ticks(s, x, z) /\ z.demux.first = x.demux.first
<1>1. PICK m \in Nat : m = Len(tags)
  BY LenProperties
<1> DEFINE S == [n \in Nat |-> {y \in Muxes : Ticks(s, x, y) /\ y.demux.first = x.demux.first}]
<1>2. x \in S[0]
  <2>1. Ticks(s, x, x)
    BY TicksSame DEF Alike
  <2> QED BY <2>1
<1>4. ASSUME NEW n \in 1 .. m, NEW y \in Muxes, y \in S[n - 1] PROVE ParseTag(y, s, tags[n]) \in S[n]
  <2>1. n - 1 \in Nat /\ n \in Nat
    BY <1>1
  <2>2. Ticks(s, x, y) /\ y.demux.first = x.demux.first
    BY <1>4, <2>1
  <2>3. PICK i, v : i = tags[n] /\ v = ParseTag(y, s, i)
    OBVIOUS
  <2>4. i \in DOMAIN s
    BY <1>1, <2>3, ElementOfSeq
  <2> HIDE DEF S
  <2>5. Ticks(s, y, v)
    BY <2>3, <2>4, TagTime
  <2>6. v \in Muxes /\ v.demux.first = y.demux.first
    BY <2>3, <2>4, ParseTagIs
  <2>7. Ticks(s, x, v)
    BY <2>2, <2>5, TicksTwice
  <2>8. v \in S[n]
    BY <2>1, <2>2, <2>6, <2>7 DEF S
  <2> QED BY <2>3, <2>8
<1> HIDE DEF S
<1>5. z \in Muxes /\ z \in S[Len(tags)]
  BY <1>1, <1>2, <1>4, ParseTagsInv
<1> QED BY <1>1, <1>5 DEF S

\* A chunk is read; the clock has not begun before the header is read.
LEMMA ChunkTime ==
  ASSUME NEW s \in Seq(Tags), NEW x \in Muxes, x.demux.first => Fresh(x), NEW data \in Seq(Pieces),
         NEW start \in Int, Live(s, x, data, start) \/ Deaf(x, data), NEW r, r = ParseChunks(x, s, data, start)
  PROVE  Ticks(s, x, r.mux) /\ (r.mux = x \/ ~r.mux.demux.first)
<1>1. PICK from, tags : from = HeaderOf(x, start) /\ tags = WholeTags(data, from)
  OBVIOUS
<1>2. /\ from \in {0, 2} /\ Len(tags) \in Nat /\ tags \in Seq(Nat)
      /\ \A n \in 1 .. Len(tags) : tags[n] \in DOMAIN s
  BY <1>1, NextTags
<1>3. \/ r.mux = x
      \/ r.mux = DispatchFrames(ParseTags(Begun(x), s, tags), Len(data) > from + 2 * Len(tags))
  BY <1>1, ParseChunksIs
<1>4. CASE r.mux = x
  <2>1. Ticks(s, x, x)
    BY TicksSame DEF Alike
  <2> QED BY <1>4, <2>1
<1>5. CASE r.mux = DispatchFrames(ParseTags(Begun(x), s, tags), Len(data) > from + 2 * Len(tags))
  <2>1. PICK v, z, y : v = Begun(x) /\ z = ParseTags(v, s, tags) /\ y = r.mux
    OBVIOUS
  <2>2. PICK all, end \in Int : all = Len(data) /\ end = from + 2 * Len(tags)
    BY <1>2, LenProperties
  <2>3. y = DispatchFrames(z, all > end)
    BY <1>5, <2>1, <2>2, Zenon
  <2>4. v \in Muxes /\ v.tracks = x.tracks /\ v.out = x.out /\ v.base = x.base /\ ~v.demux.first
    BY <2>1 DEF Begun, Muxes, Demuxers
  <2>5. Ticks(s, x, v)
    BY <2>4, TicksSame DEF Alike
  <2>6. z \in Muxes /\ Ticks(s, v, z) /\ z.demux.first = v.demux.first
    <3>1. tags \in Seq(DOMAIN s)
      <4>1. PICK m \in Nat : m = Len(tags)
        BY <1>2
      <4>2. [n \in 1 .. m |-> tags[n]] \in Seq(DOMAIN s)
        BY <1>2, <4>1
      <4>3. tags = [n \in 1 .. m |-> tags[n]]
        BY <1>2, <4>1
      <4> QED BY <4>2, <4>3, Zenon
    <3> QED BY <2>1, <2>4, <3>1, ParseTagsTime
  <2>7. y \in Muxes /\ y.demux.first = z.demux.first /\ Remade(z, y)
    <3>1. Dispatched(z, y, all, end)
      BY <2>2, <2>3, <2>6, DispatchFramesIs
    <3> QED BY <3>1 DEF Dispatched
  <2>8. Ticks(s, z, y)
    BY <2>6, <2>7, RemadeTime
  <2>9. Ticks(s, x, z)
    BY <2>5, <2>6, TicksTwice
  <2>10. Ticks(s, x, y)
    BY <2>8, <2>9, TicksTwice
  <2> QED BY <2>1, <2>4, <2>6, <2>7, <2>10
<1> QED BY <1>3, <1>4, <1>5

\* At the end of the stream a track's frame that is held back goes out, with
\* its own time.
LEMMA FlushTrackTime ==
  ASSUME NEW s, NEW x \in Muxes, NEW t \in Types, Held(x.tracks[t]), NEW force \in BOOLEAN,
         x.tracks[t].stash = <<>> \/ ~NothingToRemux(x.tracks[t], x.tracks[t].stash, force),
         NEW y, y = RemuxTrack(Unstashed(x, t), t, x.tracks[t].stash, force),
         y.tracks[t].queue = x.tracks[t].queue, InTime(s, x), Steady(x.tracks[t], x.base)
  PROVE  InTime(s, y) /\ y.base = x.base
<1>1. PICK a, stash, queue : a = Unstashed(x, t) /\ stash = x.tracks[t].stash /\ queue = x.tracks[t].queue
  OBVIOUS
<1>2. x.tracks \in [Types -> Tracks] /\ <<>> \in Seq(Frames) /\ x.tracks[t] \in Tracks /\ Len(<<>>) = 0
  BY DEF Muxes
<1>3. /\ a \in Muxes /\ a.out = x.out /\ a.base = x.base
      /\ \A u \in Types : u # t => a.tracks[u] = x.tracks[u]
      /\ a.tracks[t].stash = <<>> /\ a.tracks[t].queue = queue /\ a.tracks[t].next = x.tracks[t].next
      /\ a.tracks[t].meta = x.tracks[t].meta /\ a.tracks[t] \in Tracks
  BY <1>1, <1>2 DEF Muxes, Tracks, Unstashed
<1>4. stash \in Seq(Frames) /\ queue \in Seq(Frames) /\ Len(stash) \in Nat /\ Len(stash) <= 1
  BY <1>1, <1>2 DEF Tracks, Held
<1>5. y = RemuxTrack(a, t, stash, force)
  BY <1>1, Zenon
<1>6. stash \in Seq(Stamped(s)) /\ queue \in Seq(Stamped(s))
  <2>1. PICK F, G, w : F = Frames /\ G = Stamped(s) /\ w = stash \o queue
    OBVIOUS
  <2>2. G \in SUBSET F /\ stash \in Seq(F) /\ queue \in Seq(F) /\ w \in Seq(G)
    BY <1>1, <1>4, <2>1 DEF Stamped, InTime, Stamps, Backlog
  <2>3. stash \in Seq(G) /\ queue \in Seq(G)
    BY <2>1, <2>2, PartsAre
  <2> QED BY <2>1, <2>3
<1>7. InTime(s, a)
  <2>1. Clear(s, a)
    BY <1>3 DEF InTime, Clear, Clocks
  <2>2. Stamps(s, a)
    <3> SUFFICES ASSUME NEW u \in Types PROVE Backlog(a.tracks[u]) \in Seq(Stamped(s))
      BY DEF Stamps
    <3>1. CASE u # t
      BY <1>3, <3>1 DEF InTime, Stamps
    <3>2. CASE u = t
      <4>1. <<>> \o queue = queue
        BY <1>4, ConcatEmptySeq
      <4> QED BY <1>3, <1>6, <3>2, <4>1 DEF Backlog
    <3> QED BY <3>1, <3>2
  <2>3. a.base = Unset => Emptied(a)
    BY <1>3 DEF InTime, Emptied
  <2> QED BY <2>1, <2>2, <2>3 DEF InTime
<1>8. CASE NothingToRemux(a.tracks[t], stash, force)
  <2>1. y = a
    BY <1>5, <1>8 DEF RemuxTrack
  <2> QED BY <1>3, <1>7, <2>1
<1>9. CASE ~NothingToRemux(a.tracks[t], stash, force)
  <2>1. stash # <<>> /\ Len(stash) = 1
    <3>1. stash # <<>>
      BY <1>9, NothingIs, Zenon
    <3>2. Len(stash) # 0
      BY <1>4, <3>1, EmptySeq
    <3> QED BY <1>4, <3>1, <3>2, AtMostOne, Zenon
  <2>2. PICK k, b, seg : k = a.tracks[t] /\ b = Batch(k, stash) /\ seg = SegmentOf(a, t, stash)
    OBVIOUS
  <2>3. /\ \A u \in Types : u # t => y.tracks[u] = a.tracks[u]
        /\ y.tracks[t].stash = Batch(a.tracks[t], stash).held
        /\ y.out = Append(a.out, SegmentOf(a, t, stash)) /\ y.base = a.base
    BY <1>3, <1>4, <1>5, <1>9, RemuxTrackIs
  <2>4. b.held = <<>> /\ b.samples \in Seq(Frames) /\ b.samples \o b.held = k.stash \o stash
    BY <1>3, <1>4, <2>1, <2>2, BatchIs
  <2>5. k.stash \o stash = stash /\ b.samples \o b.held = b.samples
    BY <1>3, <1>4, <2>2, <2>4, ConcatEmptySeq
  <2>6. OnFrom(k, b, a.base)
    BY <1>1, <1>3, <2>1, <2>2, <2>4, <2>5 DEF OnFrom, Steady
  <2>7. seg \in Punctual(s, a.base)
    BY <1>3, <1>4, <1>6, <2>1, <2>2, <2>5, <2>6, BatchTime
  <2>8. Backlog(y.tracks[t]) \in Seq(Stamped(s))
    <3>1. <<>> \o queue = queue
      BY <1>4, ConcatEmptySeq
    <3> QED BY <1>1, <1>6, <2>2, <2>3, <2>4, <3>1 DEF Backlog
  <2>9. a.base # Unset
    BY <1>1, <1>3, <2>1 DEF InTime, Emptied
  <2>10. y.out = Append(a.out, seg)
    BY <2>2, <2>3
  <2>11. InTime(s, y)
    BY <1>3, <1>7, <2>3, <2>7, <2>8, <2>9, <2>10, SegmentInTime
  <2> QED BY <1>3, <2>3, <2>11
<1> QED BY <1>8, <1>9

\* Both tracks at the end of the stream.
LEMMA FlushTime ==
  ASSUME NEW s, NEW x \in Muxes, \A t \in Types : Held(x.tracks[t]), NEW y, y = FlushStashedSamples(x), Clocked(s, x)
  PROVE  InTime(s, y) /\ y.base = x.base
<1>1. PICK force \in BOOLEAN : force = TRUE
  BY Zenon
<1>2. force
  BY <1>1, Zenon
<1>3. PICK z : z = RemuxTrack(Unstashed(x, "video"), "video", x.tracks["video"].stash, force)
  OBVIOUS
<1>4. /\ Passed(x, z) /\ z.tracks["audio"] = x.tracks["audio"]
  <2>1. /\ Passed(x, z) /\ \A u \in Types : u # "video" => z.tracks[u] = x.tracks[u]
    BY <1>3, FlushedTrackAny, TypesAre
  <2> QED BY <2>1, TypesAre
<1>5. y = RemuxTrack(Unstashed(z, "audio"), "audio", z.tracks["audio"].stash, force)
  BY <1>1, <1>3, <1>4, Zenon DEF FlushStashedSamples, Unstashed
<1>6. z \in Muxes /\ Held(z.tracks["audio"])
  BY <1>4, TypesAre DEF Passed
<1>9. ASSUME NEW w \in Muxes, NEW t \in Types, Held(w.tracks[t])
      PROVE  w.tracks[t].stash = <<>> \/ ~NothingToRemux(w.tracks[t], w.tracks[t].stash, force)
  <2>1. w.tracks[t].stash = <<>> \/ w.tracks[t].meta # NoMeta
    BY <1>9 DEF Held
  <2> QED BY <1>2, <2>1, Zenon DEF NothingToRemux
<1>7. InTime(s, z) /\ z.base = x.base
  <2>1. z.tracks["video"].queue = x.tracks["video"].queue
    BY <1>2, <1>3, FlushedTrack, TypesAre
  <2>2. InTime(s, x) /\ Steady(x.tracks["video"], x.base)
    BY TypesAre DEF Clocked, Steadies
  <2>3. x.tracks["video"].stash = <<>> \/ ~NothingToRemux(x.tracks["video"], x.tracks["video"].stash, force)
    BY <1>9, TypesAre
  <2> QED BY <1>3, <2>1, <2>2, <2>3, FlushTrackTime, TypesAre
<1>8. InTime(s, y) /\ y.base = z.base
  <2>1. y.tracks["audio"].queue = z.tracks["audio"].queue
    BY <1>2, <1>5, <1>6, FlushedTrack, TypesAre
  <2>2. z.tracks["audio"].stash = <<>> \/ ~NothingToRemux(z.tracks["audio"], z.tracks["audio"].stash, force)
    BY <1>6, <1>9, TypesAre
  <2>3. Steady(z.tracks["audio"], z.base)
    BY <1>4, <1>7, TypesAre DEF Clocked, Steadies
  <2> QED BY <1>5, <1>6, <1>7, <2>1, <2>2, <2>3, FlushTrackTime, TypesAre
<1> QED BY <1>7, <1>8

\* Nothing is in a transmuxer that is new.
LEMMA NewTime ==
  ASSUME NEW s
  PROVE  Clocked(s, NewTransmuxer) /\ NewTransmuxer.base = Unset /\ NewTransmuxer.out = <<>>
<1>1. /\ NewTransmuxer.out = <<>> /\ NewTransmuxer.base = Unset
      /\ \A t \in Types : /\ NewTransmuxer.tracks[t].queue = <<>> /\ NewTransmuxer.tracks[t].stash = <<>>
                          /\ NewTransmuxer.tracks[t].next = Unset
  BY DEF NewTransmuxer, NewTrack
<1>2. \A b : <<>> \in Seq(Punctual(s, b))
  OBVIOUS
<1>3. Clear(s, NewTransmuxer)
  BY <1>1, <1>2 DEF Clear
<1>4. Stamps(s, NewTransmuxer)
  <2>1. <<>> \in Seq(Stamped(s)) /\ <<>> \o <<>> = <<>>
    OBVIOUS
  <2> QED BY <1>1, <2>1 DEF Stamps, Backlog
<1>5. Emptied(NewTransmuxer) /\ Steadies(NewTransmuxer)
  BY <1>1 DEF Emptied, Steadies, Steady, Unset
<1> QED BY <1>1, <1>3, <1>4, <1>5 DEF Clocked, InTime

-----------------------------------------------------------------------------
(* The frames in the controller.                                             *)

\* Whatever a handler does, what has been fed and what is to come stays.
Keeps(m, r) == \A t \in Types : r.done[t] = m.done[t] /\ Upcoming(r, t) = Upcoming(m, t)

\* A segment joins what is to come of its type.
Takes(m, r, seg) ==
  \A t \in Types :
     /\ r.done[t] = m.done[t]
     /\ Upcoming(r, t) = IF t = seg.type THEN Append(Upcoming(m, t), seg) ELSE Upcoming(m, t)

\* Two handlers, one after the other.
LEMMA KeepsTwice ==
  ASSUME NEW m, NEW y, NEW r, Keeps(y, r)
  PROVE  /\ Keeps(m, y) => Keeps(m, r)
         /\ \A seg : Takes(m, y, seg) => Takes(m, r, seg)
BY DEF Keeps, Takes

\* What is the same in a controller leaves the line of frames as it is.
LEMMA KeepsSame ==
  ASSUME NEW m, NEW r, r.done = m.done, r.segs = m.segs, r.busy = m.busy
  PROVE  Keeps(m, r)
BY DEF Keeps, Upcoming, Cutting, Updating

\* The first of a sequence and the rest.
LEMMA HeadAndTail ==
  ASSUME NEW S, NEW w \in Seq(S), w # <<>>
  PROVE  <<Head(w)>> \o Tail(w) = w
<1>1. Head(w) \in S /\ Tail(w) \in Seq(S) /\ Len(Tail(w)) = Len(w) - 1
      /\ \A i \in 1 .. Len(Tail(w)) : Tail(w)[i] = w[i + 1]
  BY HeadTailProperties
<1>2. PICK n \in Nat : n = Len(w) /\ n # 0 /\ w[1] = Head(w)
  BY EmptySeq
<1>3. PICK a, b : a = <<Head(w)>> /\ b = Tail(w)
  OBVIOUS
<1>4. a \in Seq(S) /\ Len(a) = 1 /\ a[1] = w[1] /\ b \in Seq(S) /\ Len(b) = n - 1
      /\ \A i \in 1 .. n - 1 : b[i] = w[i + 1]
  BY <1>1, <1>2, <1>3
<1>5. /\ a \o b \in Seq(S) /\ Len(a \o b) = n
      /\ \A i \in 1 .. n : (a \o b)[i] = IF i <= 1 THEN a[i] ELSE b[i - 1]
  <2>1. /\ a \o b \in Seq(S) /\ Len(a \o b) = Len(a) + Len(b)
        /\ \A i \in 1 .. Len(a) + Len(b) : (a \o b)[i] = IF i <= Len(a) THEN a[i] ELSE b[i - Len(a)]
    <3>1. a \in Seq(S) /\ b \in Seq(S)
      BY <1>4
    <3> QED BY <3>1, ConcatProperties
  <2>2. Len(a) + Len(b) = n
    BY <1>2, <1>4
  <2> QED BY <1>4, <2>1, <2>2
<1>6. \A i \in 1 .. n : (a \o b)[i] = w[i]
  <2> SUFFICES ASSUME NEW i \in 1 .. n PROVE (a \o b)[i] = w[i]
    OBVIOUS
  <2>1. CASE i = 1
    BY <1>4, <1>5, <2>1
  <2>2. CASE i # 1
    <3>1. PICK k \in 1 .. n - 1 : k = i - 1
      BY <2>2
    <3>2. k + 1 = i /\ ~(i <= 1)
      BY <2>2, <3>1
    <3> QED BY <1>4, <1>5, <3>1, <3>2
  <2> QED BY <2>1, <2>2
<1>7. a \o b = w
  BY <1>2, <1>5, <1>6, SeqEqual
<1> QED BY <1>3, <1>7

\* A removal that is begun is none of it.
LEMMA RemovedTrail ==
  ASSUME NEW m \in Controllers, NEW r, r = DoRemoveRanges(m)
  PROVE  r \in Controllers /\ Keeps(m, r)
<1>1. Removed(m, r)
  BY DoRemoveRangesIs
<1>2. ASSUME NEW t \in Types PROVE Cutting(r, t) = Cutting(m, t)
  <2>1. CASE Starts(m, t)
    <3>1. m.busy[t] = <<>> /\ r.busy[t] = <<[op |-> "remove", range |-> Head(m.removals[t])]>>
      BY <1>1, <2>1 DEF Removed, Starts
    <3> QED BY <3>1 DEF Cutting, Updating
  <2>2. CASE ~Starts(m, t)
    BY <1>1, <2>2 DEF Removed, Cutting, Updating
  <2> QED BY <2>1, <2>2
<1> QED BY <1>1, <1>2 DEF Removed, Keeps, Upcoming

\* The segment that is appended was the next to come.
LEMMA AppendedTrail ==
  ASSUME NEW m \in Controllers, NEW t \in Types, NEW r, Appended(m, r, t)
  PROVE  Keeps(m, r)
<1>0. m.segs \in [Types -> Seq(Segments)] /\ r.done = m.done
  BY DEF Controllers, Appended
<1>1. ASSUME NEW u \in Types, u # t PROVE Upcoming(r, u) = Upcoming(m, u)
  BY <1>1 DEF Appended, Upcoming, Cutting, Updating
<1>2. Upcoming(r, t) = Upcoming(m, t)
  <2>1. CASE r.busy[t] = m.busy[t] /\ r.segs[t] = m.segs[t]
    BY <2>1 DEF Upcoming, Cutting, Updating
  <2>2. CASE /\ m.busy[t] = <<>> /\ m.segs[t] # <<>> /\ r.segs[t] = Tail(m.segs[t])
             /\ r.busy[t] = <<[op |-> "append", seg |-> Head(m.segs[t])]>>
    <3>1. Cutting(m, t) = <<>> /\ Cutting(r, t) = <<Head(m.segs[t])>>
      BY <2>2 DEF Cutting, Updating
    <3>2. <<Head(m.segs[t])>> \o Tail(m.segs[t]) = m.segs[t] /\ <<>> \o m.segs[t] = m.segs[t]
      BY <1>0, <2>2, HeadAndTail, ConcatEmptySeq
    <3> QED BY <2>2, <3>1, <3>2 DEF Upcoming
  <2> QED BY <2>1, <2>2 DEF Appended
<1> QED BY <1>0, <1>1, <1>2 DEF Keeps

\* _doAppendSegments.
LEMMA AppendsTrail ==
  ASSUME NEW m \in Controllers, NEW o, NEW r, r = DoAppendSegments(m, o)
  PROVE  r \in Controllers /\ Keeps(m, r)
<1>1. PICK y : y = AppendOne(m, "video", o)
  OBVIOUS
<1>2. Appended(m, y, "video")
  BY <1>1, AppendOneIs, TypesAre
<1>3. y \in Controllers /\ Keeps(m, y)
  <2>1. Keeps(m, y)
    BY <1>2, AppendedTrail, TypesAre
  <2> QED BY <1>2, <2>1 DEF Appended
<1>4. r = AppendOne(y, "audio", o)
  BY <1>1 DEF DoAppendSegments
<1>5. Appended(y, r, "audio")
  BY <1>3, <1>4, AppendOneIs, TypesAre
<1>6. r \in Controllers /\ Keeps(y, r)
  <2>1. Keeps(y, r)
    BY <1>3, <1>5, AppendedTrail, TypesAre
  <2> QED BY <1>5, <2>1 DEF Appended
<1> QED BY <1>3, <1>6, KeepsTwice

\* A segment is the last of those to come.
LEMMA JoinTrail ==
  ASSUME NEW m \in Controllers, NEW seg \in Segments, NEW r, r.done = m.done, r.busy = m.busy,
         r.segs[seg.type] = Append(m.segs[seg.type], seg),
         \A u \in Types : u # seg.type => r.segs[u] = m.segs[u]
  PROVE  Takes(m, r, seg)
<1>1. ASSUME NEW t \in Types, t = seg.type PROVE Upcoming(r, t) = Append(Upcoming(m, t), seg)
  <2>1. PICK a, b : a = Cutting(m, t) /\ b = m.segs[t]
    OBVIOUS
  <2>2. a \in Seq(Segments) /\ b \in Seq(Segments)
    BY <2>1, CuttingIs DEF Controllers
  <2>3. Cutting(r, t) = a /\ r.segs[t] = Append(b, seg)
    BY <1>1, <2>1 DEF Cutting, Updating
  <2>4. a \o Append(b, seg) = Append(a \o b, seg)
    BY <2>2
  <2> QED BY <2>1, <2>3, <2>4 DEF Upcoming
<1>2. ASSUME NEW t \in Types, t # seg.type PROVE Upcoming(r, t) = Upcoming(m, t)
  BY <1>2 DEF Upcoming, Cutting, Updating
<1> QED BY <1>1, <1>2 DEF Takes

\* _doCleanupSourceBuffer.
LEMMA CleanupTrail ==
  ASSUME NEW m \in Controllers, NEW now \in Int, NEW r, r = DoCleanup(m, now)
  PROVE  r \in Controllers /\ Keeps(m, r)
<1> DEFINE old == [t \in Types |-> OldRange(m, t, now)]
           y == [m EXCEPT !.removals = [t \in Types |-> @[t] \o old[t]]]
<1>1. old \in [Types -> Seq(Ranges)]
  BY OldRangeIs
<1>2. r = DoRemoveRanges(y) \/ r = y
  BY DEF DoCleanup
<1> HIDE DEF old
<1>3. y \in Controllers
  BY <1>1, CleaningIs DEF Cleaning
<1>4. y.done = m.done /\ y.segs = m.segs /\ y.busy = m.busy
  BY DEF Controllers
<1> HIDE DEF y
<1>5. Keeps(m, y)
  BY <1>4, KeepsSame
<1> QED BY <1>2, <1>3, <1>5, RemovedTrail, KeepsTwice

\* A SourceBuffer is made.
LEMMA MadeTrail ==
  ASSUME NEW m, NEW t, NEW r, Made(m, r, t)
  PROVE  Keeps(m, r)
BY KeepsSame DEF Made

\* An initialization segment that has waited for the MediaSource to open.
LEMMA DeferredTrail ==
  ASSUME NEW m \in Controllers, m.state = "open", NEW seg \in Inits,
         NEW o, NEW r, r = AppendInitSegment(m, seg, TRUE, o)
  PROVE  r \in Controllers /\ r.state = "open" /\ Keeps(m, r)
<1>0. m.segs \in [Types -> Seq(Segments)]
  BY DEF Controllers
<1>1. PICK t \in Types : t = seg.type
  BY DEF Inits
<1>2. [m EXCEPT !.segs[t] = @] = m
  <2>1. [m.segs EXCEPT ![t] = @] = m.segs
    BY <1>0
  <2> QED BY <2>1 DEF Controllers
<1>3. r = IF m.made[t]
          THEN IF Updating(m, t) THEN m ELSE DoAppendSegments(m, o)
          ELSE IF o.add = "ok" THEN [m EXCEPT !.made[t] = TRUE] ELSE [m EXCEPT !.said = "error"]
  <2>1. r = IF m.made[t]
            THEN IF Updating(m, t) THEN [m EXCEPT !.segs[t] = IF TRUE THEN @ ELSE Append(@, seg)]
                 ELSE DoAppendSegments([m EXCEPT !.segs[t] = IF TRUE THEN @ ELSE Append(@, seg)], o)
            ELSE IF o.add = "ok" THEN [[m EXCEPT !.segs[t] = IF TRUE THEN @ ELSE Append(@, seg)] EXCEPT !.made[t] = TRUE]
                 ELSE [m EXCEPT !.said = "error"]
    BY <1>1 DEF AppendInitSegment
  <2>2. [m EXCEPT !.segs[t] = IF TRUE THEN @ ELSE Append(@, seg)] = [m EXCEPT !.segs[t] = @]
    OBVIOUS
  <2> QED BY <1>2, <2>1, <2>2
<1>4. CASE r = m
  BY <1>4, KeepsSame
<1>5. CASE r = DoAppendSegments(m, o)
  <2>1. r \in Controllers /\ Keeps(m, r)
    BY <1>5, AppendsTrail
  <2>2. PICK y : y = AppendOne(m, "video", o)
    OBVIOUS
  <2>3. Appended(m, y, "video")
    BY <2>2, AppendOneIs, TypesAre
  <2>4. y \in Controllers /\ y.state = "open"
    BY <2>3 DEF Appended
  <2>5. r = AppendOne(y, "audio", o)
    BY <1>5, <2>2 DEF DoAppendSegments
  <2>6. Appended(y, r, "audio")
    BY <2>4, <2>5, AppendOneIs, TypesAre
  <2> QED BY <2>1, <2>4, <2>6 DEF Appended
<1>6. CASE r = [m EXCEPT !.made[t] = TRUE]
  <2>1. Made(m, r, t)
    BY <1>6, MakeIs
  <2>2. r \in Controllers /\ r.state = m.state
    BY <2>1 DEF Made
  <2> QED BY <2>1, <2>2, MadeTrail
<1>7. CASE r = [m EXCEPT !.said = "error"]
  <2>1. r \in Controllers /\ r.state = m.state
    BY <1>7, RefusedIs
  <2>2. r.done = m.done /\ r.segs = m.segs /\ r.busy = m.busy
    BY <1>7 DEF Controllers
  <2> QED BY <2>1, <2>2, KeepsSame
<1> QED BY <1>3, <1>4, <1>5, <1>6, <1>7

\* An initialization segment handed to the controller, unless the browser
\* refuses it.
LEMMA InitTrail ==
  ASSUME NEW m \in Controllers, NEW seg \in Inits, NEW o, NEW r, r = AppendInitSegment(m, seg, FALSE, o)
  PROVE  r.said = "error" \/ (r \in Controllers /\ Takes(m, r, seg))
<1>0. m.segs \in [Types -> Seq(Segments)] /\ m.inits \in Seq(Inits) /\ seg \in Segments
  BY DEF Controllers, Segments
<1>1. PICK t \in Types : t = seg.type
  BY DEF Inits
<1>2. PICK y : y = [m EXCEPT !.segs[t] = Append(@, seg)]
  OBVIOUS
<1>3. Enqueued(m, y, t, seg)
  BY <1>0, <1>2, JoinIs
<1>4. y \in Controllers /\ Takes(m, y, seg)
  <2>1. /\ y \in Controllers /\ y.done = m.done /\ y.busy = m.busy
        /\ y.segs[t] = Append(m.segs[t], seg) /\ \A u \in Types : u # t => y.segs[u] = m.segs[u]
    BY <1>3 DEF Enqueued
  <2> QED BY <1>0, <1>1, <2>1, JoinTrail
<1>5. CASE m.state # "open"
  <2>1. r = [m EXCEPT !.inits = Append(@, seg), !.segs[t] = Append(@, seg)]
    BY <1>1, <1>5 DEF AppendInitSegment
  <2>2. PICK w : w = Append(m.inits, seg)
    OBVIOUS
  <2>3. w \in Seq(Inits)
    BY <1>0, <2>2, AppendProperties
  <2>4. r = [y EXCEPT !.inits = w]
    BY <1>2, <2>1, <2>2 DEF Controllers
  <2>5. r \in Controllers /\ r.done = y.done /\ r.segs = y.segs /\ r.busy = y.busy
    BY <1>4, <2>3, <2>4 DEF Controllers
  <2>6. Keeps(y, r)
    BY <2>5, KeepsSame
  <2> QED BY <1>4, <2>5, <2>6, KeepsTwice
<1>6. CASE m.state = "open"
  <2>1. [m EXCEPT !.segs[t] = IF FALSE THEN @ ELSE Append(@, seg)] = y
    BY <1>2
  <2>2. r = IF m.made[t] THEN IF Updating(m, t) THEN y ELSE DoAppendSegments(y, o)
            ELSE IF o.add = "ok" THEN [y EXCEPT !.made[t] = TRUE] ELSE [m EXCEPT !.said = "error"]
    BY <1>1, <1>6, <2>1 DEF AppendInitSegment
  <2>3. CASE r = y
    BY <1>4, <2>3
  <2>4. CASE r = DoAppendSegments(y, o)
    BY <1>4, <2>4, AppendsTrail, KeepsTwice
  <2>5. CASE r = [y EXCEPT !.made[t] = TRUE]
    <3>1. Made(y, r, t)
      BY <1>4, <2>5, MakeIs
    <3>2. Keeps(y, r)
      BY <3>1, MadeTrail
    <3>3. r \in Controllers
      BY <3>1 DEF Made
    <3> QED BY <1>4, <3>2, <3>3, KeepsTwice
  <2>6. CASE r = [m EXCEPT !.said = "error"]
    BY <2>6, RefusedIs
  <2> QED BY <2>2, <2>3, <2>4, <2>5, <2>6
<1> QED BY <1>5, <1>6

\* A media segment handed to the controller.
LEMMA MediaTrail ==
  ASSUME NEW m \in Controllers, NEW seg \in Media, NEW now \in Int, NEW o,
         NEW r, r = AppendMediaSegment(m, seg, now, o)
  PROVE  r \in Controllers /\ Takes(m, r, seg)
<1> DEFINE t == seg.type
           y == [m EXCEPT !.segs[t] = Append(@, seg)]
           z == IF NeedCleanup(y, now) THEN DoCleanup(y, now) ELSE y
<1>0. t \in Types /\ seg \in Segments
  BY DEF Media, Segments
<1>1. r = DoAppendSegments(z, o) \/ r = z
  BY DEF AppendMediaSegment
<1>2. Enqueued(m, y, t, seg)
  BY <1>0, JoinIs
<1>3. z = y \/ z = DoCleanup(y, now)
  OBVIOUS
<1> HIDE DEF y, z
<1>4. y \in Controllers /\ Takes(m, y, seg)
  <2>1. /\ y \in Controllers /\ y.done = m.done /\ y.busy = m.busy
        /\ y.segs[t] = Append(m.segs[t], seg) /\ \A u \in Types : u # t => y.segs[u] = m.segs[u]
    BY <1>2 DEF Enqueued
  <2> QED BY <1>0, <2>1, JoinTrail
<1>5. z \in Controllers /\ Takes(m, z, seg)
  <2>1. CASE z = y
    BY <1>4, <2>1
  <2>2. CASE z = DoCleanup(y, now)
    BY <1>4, <2>2, CleanupTrail, KeepsTwice
  <2> QED BY <1>3, <2>1, <2>2
<1>6. CASE r = z
  BY <1>5, <1>6
<1>7. CASE r = DoAppendSegments(z, o)
  BY <1>5, <1>7, AppendsTrail, KeepsTwice
<1> QED BY <1>1, <1>6, <1>7

\* The end of the stream.
LEMMA EndTrail ==
  ASSUME NEW m \in Controllers, NEW r, r = EndOfStream(m)
  PROVE  Keeps(m, r)
<1>1. r.done = m.done /\ r.segs = m.segs /\ r.busy = m.busy
  <2>1. CASE m.state # "open"
    BY <2>1 DEF EndOfStream, Controllers
  <2>2. CASE m.state = "open" /\ AnyUpdating(m)
    BY <2>2 DEF EndOfStream, Controllers
  <2>3. CASE m.state = "open" /\ ~AnyUpdating(m)
    BY <2>3 DEF EndOfStream, Controllers
  <2> QED BY <2>1, <2>2, <2>3
<1> QED BY <1>1, KeepsSame

\* One segment gives a SourceBuffer what it bears.
LEMMA ContentsBear ==
  ASSUME NEW seg \in Segments, NEW lost \in BOOLEAN, NEW c, c = Contents(seg, lost)
  PROVE  /\ c \in Seq(Shown) /\ Marks(c, OfShown) = OfEvent(seg.type)[seg]
         /\ Tidy(<<seg>>, seg.type) => Rises(c, OfShown)
<1>0. c \in Seq(Shown) /\ seg \in Events
  BY ContentsType DEF Events
<1>1. CASE seg.ev = "init"
  <2>1. PICK e : e = [tag |-> 0, cfg |-> seg.cfg, at |-> 0, lost |-> lost]
    OBVIOUS
  <2>2. c = <<e>>
    BY <1>1, <2>1 DEF Contents
  <2>3. e \in Shown
    <3>1. seg.cfg \in Nat
      BY <1>1 DEF Segments, Inits, Media
    <3> QED BY <2>1, <3>1 DEF Shown
  <2>4. OfShown[e] = {}
    BY <2>1, <2>3 DEF OfShown
  <2>5. Marks(c, OfShown) = {} /\ Rises(c, OfShown)
    BY <2>2, <2>4, MarksOne
  <2>6. OfEvent(seg.type)[seg] = {}
    BY <1>0, <1>1, BearsNothing
  <2> QED BY <1>0, <2>5, <2>6
<1>2. CASE seg.ev # "init"
  <2>1. seg \in Media
    BY <1>2 DEF Segments, Inits
  <2>2. PICK run \in Seq(Items) : run = seg.run
    BY <2>1 DEF Media
  <2>3. seg.ev = "media"
    BY <2>1 DEF Media
  <2>4. PICK n \in Nat : n = Len(run) /\ DOMAIN run = 1 .. n
    BY LenProperties
  <2>5. DOMAIN c = 1 .. n /\ \A i \in 1 .. n : c[i].tag = run[i].tag
    BY <1>2, <2>2, <2>4 DEF Contents, Presented
  <2>6. ASSUME NEW i \in 1 .. n PROVE OfShown[c[i]] = OfItem[run[i]]
    <3>1. c[i] \in Shown
      <4>1. n = Len(c)
        BY <1>0, <2>4, <2>5, LenProperties
      <4> QED BY <1>0, <4>1, ElementOfSeq
    <3>2. run[i] \in Items
      BY <2>4, ElementOfSeq
    <3> QED BY <2>5, <3>1, <3>2 DEF OfShown, OfItem
  <2>7. Marks(c, OfShown) = Marks(run, OfItem)
    BY <2>4, <2>5, <2>6 DEF Marks
  <2>8. OfEvent(seg.type)[seg] = Marks(run, OfItem)
    BY <1>0, <2>2, <2>3 DEF OfEvent
  <2>9. Tidy(<<seg>>, seg.type) => Rises(run, OfItem)
    BY <1>0, <2>2, <2>3, TidyOne
  <2>10. Rises(run, OfItem) => Rises(c, OfShown)
    BY <2>4, <2>5, <2>6 DEF Rises
  <2> QED BY <1>0, <2>7, <2>8, <2>9, <2>10
<1> QED BY <1>1, <1>2

\* A segment of what is tidy.
LEMMA TidyEach ==
  ASSUME NEW w \in Seq(Events), NEW t, Tidy(w, t), NEW i \in DOMAIN w
  PROVE  Tidy(<<w[i]>>, t)
<1>1. w[i] \in Events
  BY LenProperties, ElementOfSeq
<1>2. w[i].ev = "media" /\ w[i].type = t => Rises(w[i].run, OfItem)
  BY DEF Tidy, Straight
<1> QED BY <1>1, <1>2, TidyOne

\* What a seek drops bears what the segments bore.
LEMMA DiscardedBear ==
  ASSUME NEW t, NEW w \in Seq(Segments), OfType(w, t), NEW c, c = Discarded(w)
  PROVE  /\ c \in Seq(Shown) /\ Marks(c, OfShown) = Marks(w, OfEvent(t))
         /\ Tidy(w, t) => Rises(c, OfShown)
<1>1. PICK n \in Nat : n = Len(w) /\ DOMAIN w = 1 .. n
  BY LenProperties
<1>2. \A i \in 1 .. n : w[i] \in Segments /\ w[i].type = t
  BY <1>1 DEF OfType
<1> DEFINE Each(i) == Contents(w[i], TRUE)
<1>3. ASSUME NEW i \in 1 .. n
      PROVE  /\ Each(i) \in Seq(Shown) /\ Marks(Each(i), OfShown) = OfEvent(t)[w[i]]
             /\ Tidy(<<w[i]>>, t) => Rises(Each(i), OfShown)
  <2>1. PICK lost \in BOOLEAN : lost = TRUE
    OBVIOUS
  <2>2. PICK seg \in Segments : seg = w[i] /\ seg.type = t
    BY <1>2
  <2>3. PICK d : d = Contents(seg, lost)
    OBVIOUS
  <2>4. /\ d \in Seq(Shown) /\ Marks(d, OfShown) = OfEvent(seg.type)[seg]
        /\ Tidy(<<seg>>, seg.type) => Rises(d, OfShown)
    BY <2>3, ContentsBear
  <2>5. d = Each(i)
    BY <2>1, <2>2, <2>3
  <2> QED BY <2>2, <2>4, <2>5
<1> HIDE DEF Each
<1>4. PICK W : W = [i \in 1 .. n |-> Each(i)]
  OBVIOUS
<1>5. W \in Seq(Seq(Shown))
  <2>1. \A i \in 1 .. n : Each(i) \in Seq(Shown)
    BY <1>3
  <2>2. [i \in 1 .. n |-> Each(i)] \in Seq(Seq(Shown))
    BY <2>1, IsASeq
  <2> QED BY <1>4, <2>2
<1>6. c = FlattenSeq(W)
  BY <1>1, <1>4 DEF Discarded, Each
<1>7. DOMAIN W = 1 .. n /\ \A i \in 1 .. n : W[i] = Each(i)
  BY <1>4
<1>8. c \in Seq(Shown)
  BY <1>5, <1>6, FlattenType
<1>9. Marks(c, OfShown) = AllMarks(W, OfShown) /\ (AllRise(W, OfShown) => Rises(c, OfShown))
  BY <1>5, <1>6, MarksFlatten
<1>10. AllMarks(W, OfShown) = Marks(w, OfEvent(t))
  <2>1. \A i \in 1 .. n : Marks(W[i], OfShown) = OfEvent(t)[w[i]]
    BY <1>3, <1>7
  <2>2. AllMarks(W, OfShown) = UNION {Marks(W[i], OfShown) : i \in 1 .. n}
    BY <1>7 DEF AllMarks
  <2>3. Marks(w, OfEvent(t)) = UNION {OfEvent(t)[w[i]] : i \in 1 .. n}
    BY <1>1 DEF Marks
  <2> QED BY <2>1, <2>2, <2>3
<1>11. ASSUME Tidy(w, t) PROVE AllRise(W, OfShown)
  <2>1. w \in Seq(Events)
    BY SeqMonotonic DEF Events
  <2>2. \A i \in 1 .. n : Rises(W[i], OfShown)
    BY <1>1, <1>3, <1>7, <1>11, <2>1, TidyEach
  <2>3. \A i, j \in 1 .. n : i < j => Below(OfEvent(t)[w[i]], OfEvent(t)[w[j]])
    BY <1>1, <1>11 DEF Tidy, Rises
  <2>4. \A i \in 1 .. n : Marks(W[i], OfShown) = OfEvent(t)[w[i]]
    BY <1>3, <1>7
  <2> QED BY <1>7, <2>2, <2>3, <2>4 DEF AllRise
<1> QED BY <1>8, <1>9, <1>10, <1>11

\* When the frames that a segment gives are shown.
LEMMA ContentsTime ==
  ASSUME NEW seg \in Segments, NEW lost \in BOOLEAN, NEW c, c = Contents(seg, lost), NEW s, NEW b,
         ~lost => seg \in Punctual(s, b)
  PROVE  c \in Seq(Seen(s, b))
<1>0. c \in Seq(Shown)
  BY ContentsType
<1>1. CASE seg.ev = "init"
  <2>1. PICK e : e = [tag |-> 0, cfg |-> seg.cfg, at |-> 0, lost |-> lost]
    OBVIOUS
  <2>2. c = <<e>>
    BY <1>1, <2>1 DEF Contents
  <2>3. e \in Seen(s, b)
    <3>1. seg.cfg \in Nat
      BY <1>1 DEF Segments, Inits, Media
    <3> QED BY <2>1, <3>1 DEF Shown, Seen
  <2> QED BY <2>2, <2>3
<1>2. CASE seg.ev # "init"
  <2>1. seg \in Media /\ seg.ev = "media"
    BY <1>2 DEF Segments, Inits, Media
  <2>2. PICK run \in Seq(Items) : run = seg.run
    BY <2>1 DEF Media
  <2>3. PICK n \in Nat : n = Len(run) /\ DOMAIN run = 1 .. n
    BY LenProperties
  <2>4. /\ DOMAIN c = 1 .. n
        /\ \A i \in 1 .. n : /\ c[i].tag = run[i].tag /\ c[i].lost = lost
                             /\ c[i].at = seg.base + Length(SubSeq(run, 1, i - 1))
    BY <1>2, <2>2, <2>3 DEF Contents, Presented
  <2>5. ASSUME NEW i \in 1 .. n PROVE c[i] \in Seen(s, b)
    <3>1. c[i] \in Shown
      <4>1. n = Len(c)
        BY <1>0, <2>3, <2>4, LenProperties
      <4> QED BY <1>0, <4>1, ElementOfSeq
    <3>2. ASSUME c[i].tag > 0, ~c[i].lost PROVE c[i].at = s[c[i].tag].ts - b
      <4>1. OnTime(seg.base, run, s, b)
        <5>1. ~lost
          BY <2>4, <3>2
        <5>2. seg \in Punctual(s, b)
          BY <5>1
        <5> QED BY <2>1, <2>2, <5>2 DEF Punctual
      <4>2. run[i].tag > 0 => seg.base + Length(SubSeq(run, 1, i - 1)) = s[run[i].tag].ts - b
        BY <2>3, <4>1 DEF OnTime
      <4> QED BY <2>4, <3>2, <4>2
    <3> QED BY <3>1, <3>2 DEF Seen
  <2>6. c = [i \in 1 .. n |-> c[i]]
    BY <1>0, <2>4
  <2>7. [i \in 1 .. n |-> c[i]] \in Seq(Seen(s, b))
    BY <2>5
  <2> QED BY <2>6, <2>7, Zenon
<1> QED BY <1>1, <1>2

\* What a seek drops is not shown at all.
LEMMA DiscardedTime ==
  ASSUME NEW w \in Seq(Segments), NEW c, c = Discarded(w), NEW s, NEW b
  PROVE  c \in Seq(Seen(s, b))
<1>1. PICK n \in Nat : n = Len(w)
  BY LenProperties
<1>7. PICK S : S = Seen(s, b)
  OBVIOUS
<1> DEFINE Each(i) == Contents(w[i], TRUE)
<1>2. ASSUME NEW i \in 1 .. n PROVE Each(i) \in Seq(S)
  <2>1. PICK lost \in BOOLEAN : lost = TRUE
    OBVIOUS
  <2>2. PICK seg \in Segments : seg = w[i]
    BY <1>1, ElementOfSeq
  <2>3. PICK d : d = Contents(seg, lost)
    OBVIOUS
  <2>4. ~lost => seg \in Punctual(s, b)
    BY <2>1, Zenon
  <2>5. d \in Seq(Seen(s, b))
    BY <2>3, <2>4, ContentsTime
  <2>6. d = Each(i)
    BY <2>1, <2>2, <2>3
  <2> QED BY <1>7, <2>5, <2>6
<1> HIDE DEF Each
<1>3. [i \in 1 .. n |-> Each(i)] \in Seq(Seq(S))
  BY <1>2, IsASeq
<1>4. FlattenSeq([i \in 1 .. n |-> Each(i)]) \in Seq(S)
  BY <1>3, FlattenType
<1>5. c = FlattenSeq([i \in 1 .. n |-> Each(i)])
  BY <1>1 DEF Discarded, Each
<1> QED BY <1>4, <1>5, <1>7

\* The times of what has been fed, and of what is to come.
Holds(d, u, s, b) == d \in Seq(Seen(s, b)) /\ u \in Seq(Punctual(s, b))
StaysTimed(d, u, e, v) == \A s, b : Holds(d, u, s, b) => Holds(e, v, s, b)
Gives(a, c) == \A s, b : a \in Seq(Punctual(s, b)) => c \in Seq(Seen(s, b))

\* Segments go from those to come to those that a SourceBuffer has been fed, or
\* to those it has lost.
FeedsOn(d, u, e, v, t) ==
  /\ FedInOrder(d, u, t) => FedTags(e, v, t) = FedTags(d, u, t) /\ FedInOrder(e, v, t)
  /\ StaysTimed(d, u, e, v)

\* The first of them, or all.
LEMMA FeedPlaces ==
  ASSUME NEW t, NEW d \in Seq(Shown), NEW a \in Seq(Segments), NEW v \in Seq(Segments), NEW c \in Seq(Shown),
         OfType(a, t) => Marks(c, OfShown) = Marks(a, OfEvent(t)) /\ (Tidy(a, t) => Rises(c, OfShown))
  PROVE  FedInOrder(d, a \o v, t) => FedTags(d \o c, v, t) = FedTags(d, a \o v, t) /\ FedInOrder(d \o c, v, t)
<1> SUFFICES ASSUME FedInOrder(d, a \o v, t)
             PROVE  FedTags(d \o c, v, t) = FedTags(d, a \o v, t) /\ FedInOrder(d \o c, v, t)
  OBVIOUS
<1>1. PICK u, n : u = a \o v /\ Joins(a, v, u, n)
  BY JoinsAre
<1>2. OfType(u, t) /\ Rises(d, OfShown) /\ Tidy(u, t) /\ Below(Marks(d, OfShown), Marks(u, OfEvent(t)))
  BY <1>1 DEF FedInOrder
<1>3. OfType(a, t) /\ OfType(v, t)
  <2>1. \A i \in DOMAIN a : i \in DOMAIN u /\ u[i] = a[i]
    BY <1>1 DEF Joins
  <2>2. \A i \in DOMAIN v : i + n \in DOMAIN u /\ u[i + n] = v[i]
    BY <1>1 DEF Joins
  <2> QED BY <1>2, <2>1, <2>2 DEF OfType
<1>4. /\ Marks(u, OfEvent(t)) = Marks(a, OfEvent(t)) \cup Marks(v, OfEvent(t))
      /\ Tidy(a, t) /\ Tidy(v, t) /\ Below(Marks(a, OfEvent(t)), Marks(v, OfEvent(t)))
  <2>1. a \in Seq(Events) /\ v \in Seq(Events)
    BY SeqMonotonic DEF Events
  <2>2. /\ Marks(a \o v, OfEvent(t)) = Marks(a, OfEvent(t)) \cup Marks(v, OfEvent(t))
        /\ Tidy(a \o v, t) <=> Tidy(a, t) /\ Tidy(v, t) /\ Below(Marks(a, OfEvent(t)), Marks(v, OfEvent(t)))
    BY <2>1, TidyCat
  <2> QED BY <1>1, <1>2, <2>2
<1>5. Marks(c, OfShown) = Marks(a, OfEvent(t)) /\ Rises(c, OfShown)
  BY <1>3, <1>4
<1>6. /\ Marks(d \o c, OfShown) = Marks(d, OfShown) \cup Marks(c, OfShown)
      /\ Rises(d \o c, OfShown) <=> Rises(d, OfShown) /\ Rises(c, OfShown) /\ Below(Marks(d, OfShown), Marks(c, OfShown))
  BY MarksCat
<1>7. FedTags(d \o c, v, t) = FedTags(d, u, t)
  BY <1>4, <1>5, <1>6 DEF FedTags
<1>8. Rises(d \o c, OfShown) /\ Below(Marks(d \o c, OfShown), Marks(v, OfEvent(t)))
  BY <1>2, <1>4, <1>5, <1>6 DEF Below
<1> QED BY <1>1, <1>3, <1>4, <1>7, <1>8 DEF FedInOrder

\* Their times are what they were.
LEMMA FeedTimes ==
  ASSUME NEW d, NEW a \in Seq(Segments), NEW v \in Seq(Segments), NEW c, Gives(a, c)
  PROVE  StaysTimed(d, a \o v, d \o c, v)
<1>1. ASSUME NEW s, NEW b, Holds(d, a \o v, s, b) PROVE Holds(d \o c, v, s, b)
  <2>1. PICK S, G, w, D : S = Events /\ G = Punctual(s, b) /\ w = a \o v /\ D = Seen(s, b)
    OBVIOUS
  <2>2. G \in SUBSET S /\ w \in Seq(G)
    BY <1>1, <2>1 DEF Holds, Punctual
  <2>3. a \in Seq(S) /\ v \in Seq(S)
    BY <2>1, SeqMonotonic DEF Events
  <2>4. a \in Seq(G) /\ v \in Seq(G)
    BY <2>1, <2>2, <2>3, PartsAre
  <2>5. d \in Seq(D) /\ c \in Seq(D)
    BY <1>1, <2>1, <2>4 DEF Holds, Gives
  <2>6. d \o c \in Seq(D)
    BY <2>5, ConcatProperties
  <2> QED BY <2>1, <2>4, <2>6 DEF Holds
<1> QED BY <1>1 DEF StaysTimed

\* The frames and their times.
LEMMA FeedIs ==
  ASSUME NEW t, NEW d \in Seq(Shown), NEW a \in Seq(Segments), NEW v \in Seq(Segments), NEW c \in Seq(Shown),
         OfType(a, t) => Marks(c, OfShown) = Marks(a, OfEvent(t)) /\ (Tidy(a, t) => Rises(c, OfShown)), Gives(a, c)
  PROVE  FeedsOn(d, a \o v, d \o c, v, t)
BY FeedPlaces, FeedTimes DEF FeedsOn

\* What every handler of the controller does to the frames.
Feeds(m, y) == \A t \in Types : FeedsOn(m.done[t], Upcoming(m, t), y.done[t], Upcoming(y, t), t)

\* One handler and the next.
LEMMA FeedsTwice ==
  ASSUME NEW m, NEW y, NEW r
  PROVE  /\ Keeps(m, y) => Feeds(m, y)
         /\ Feeds(m, y) /\ Feeds(y, r) => Feeds(m, r)
  BY DEF Keeps, Feeds, FeedsOn, StaysTimed

\* A SourceBuffer has done what it was at.
LEMMA FinishedTrail ==
  ASSUME NEW m \in Controllers, NEW t \in Types, Updating(m, t), NEW y, y = Finished(m, t)
  PROVE  y \in Controllers /\ Feeds(m, y)
<1>0. /\ m.busy \in [Types -> Seq(Jobs)] /\ m.segs \in [Types -> Seq(Segments)]
      /\ m.done \in [Types -> Seq(Shown)]
  BY DEF Controllers
<1>1. Idle(m, y, t)
  BY FinishedIs
<1>2. y \in Controllers /\ y.segs = m.segs /\ y.busy[t] = <<>>
      /\ \A u \in Types : u # t => y.busy[u] = m.busy[u] /\ y.done[u] = m.done[u]
  BY <1>1 DEF Idle
<1>3. PICK job : job = m.busy[t][1] /\ job \in Jobs
  <2>1. 1 \in 1 .. Len(m.busy[t])
    BY <1>0 DEF Updating
  <2> QED BY <1>0, <2>1, ElementOfSeq
<1>4. y.done[t] = IF job.op = "remove" THEN m.done[t] ELSE m.done[t] \o Contents(job.seg, FALSE)
  BY <1>1, <1>3 DEF Idle
<1>5. ASSUME NEW u \in Types, u # t
      PROVE  FeedsOn(m.done[u], Upcoming(m, u), y.done[u], Upcoming(y, u), u)
  <2>1. y.done[u] = m.done[u] /\ Upcoming(y, u) = Upcoming(m, u)
    BY <1>2, <1>5 DEF Upcoming, Cutting, Updating
  <2> QED BY <2>1 DEF FeedsOn, StaysTimed
<1>6. Upcoming(y, t) = m.segs[t]
  <2>1. Cutting(y, t) = <<>>
    BY <1>2 DEF Cutting, Updating
  <2>2. <<>> \o m.segs[t] = m.segs[t]
    BY <1>0, ConcatEmptySeq
  <2> QED BY <1>2, <2>1, <2>2 DEF Upcoming
<1>7. CASE job.op = "remove"
  <2>1. Cutting(m, t) = <<>>
    BY <1>3, <1>7 DEF Cutting
  <2>2. <<>> \o m.segs[t] = m.segs[t]
    BY <1>0, ConcatEmptySeq
  <2>3. y.done[t] = m.done[t] /\ Upcoming(y, t) = Upcoming(m, t)
    BY <1>4, <1>6, <1>7, <2>1, <2>2 DEF Upcoming
  <2>4. FeedsOn(m.done[t], Upcoming(m, t), y.done[t], Upcoming(y, t), t)
    BY <2>3 DEF FeedsOn, StaysTimed
  <2> QED BY <1>2, <1>5, <2>4 DEF Feeds
<1>8. CASE job.op # "remove"
  <2>1. job.op = "append" /\ job.seg \in Segments
    BY <1>3, <1>8 DEF Jobs
  <2>2. Cutting(m, t) = <<job.seg>>
    BY <1>3, <2>1 DEF Cutting
  <2>3. PICK lost \in BOOLEAN : lost = FALSE
    OBVIOUS
  <2>4. PICK c : c = Contents(job.seg, lost)
    OBVIOUS
  <2>5. PICK seg \in Segments : seg = job.seg
    BY <2>1
  <2>6. PICK a : a = <<seg>>
    OBVIOUS
  <2>7. a \in Seq(Segments)
    BY <2>6
  <2>8. /\ c \in Seq(Shown) /\ Marks(c, OfShown) = OfEvent(seg.type)[seg]
        /\ Tidy(<<seg>>, seg.type) => Rises(c, OfShown)
    BY <2>4, <2>5, ContentsBear
  <2>9. OfType(a, t) => Marks(c, OfShown) = Marks(a, OfEvent(t)) /\ (Tidy(a, t) => Rises(c, OfShown))
    <3>1. ASSUME OfType(a, t) PROVE seg.type = t
      BY <2>6, <3>1 DEF OfType
    <3>2. Marks(<<seg>>, OfEvent(t)) = OfEvent(t)[seg]
      BY MarksOne
    <3> QED BY <2>6, <2>8, <3>1, <3>2
  <2>10. m.done[t] \in Seq(Shown) /\ m.segs[t] \in Seq(Segments)
    BY <1>0
  <2>15. Gives(a, c)
    <3>1. ASSUME NEW s, NEW b, a \in Seq(Punctual(s, b)) PROVE c \in Seq(Seen(s, b))
      <4>1. Len(a) = 1 /\ a[1] = seg
        BY <2>6
      <4>2. 1 \in 1 .. Len(a)
        BY <4>1
      <4>3. seg \in Punctual(s, b)
        BY <3>1, <4>1, <4>2, ElementOfSeq
      <4> QED BY <2>4, <2>5, <4>3, ContentsTime
    <3> QED BY <3>1 DEF Gives
  <2>11. FeedsOn(m.done[t], a \o m.segs[t], m.done[t] \o c, m.segs[t], t)
    BY <2>7, <2>8, <2>9, <2>10, <2>15, FeedIs
  <2>12. Upcoming(m, t) = a \o m.segs[t]
    BY <2>2, <2>5, <2>6 DEF Upcoming
  <2>13. y.done[t] = m.done[t] \o c
    BY <1>4, <1>8, <2>3, <2>4
  <2>14. FeedsOn(m.done[t], Upcoming(m, t), y.done[t], Upcoming(y, t), t)
    BY <1>6, <2>11, <2>12, <2>13
  <2> QED BY <1>2, <1>5, <2>14 DEF Feeds
<1> QED BY <1>7, <1>8

\* _onSourceBufferUpdateEnd.
LEMMA UpdateEndTrail ==
  ASSUME NEW m \in Controllers, NEW t \in Types, Updating(m, t), NEW o, NEW r, r = OnUpdateEnd(m, t, o)
  PROVE  Feeds(m, r)
<1>1. PICK y : y = Finished(m, t)
  OBVIOUS
<1>2. y \in Controllers /\ Feeds(m, y)
  BY <1>1, FinishedTrail
<1>3. r = DoRemoveRanges(y) \/ r = DoAppendSegments(y, o) \/ r = EndOfStream(y) \/ r = y
  BY <1>1 DEF OnUpdateEnd
<1>4. r = y \/ Keeps(y, r)
  BY <1>2, <1>3, RemovedTrail, AppendsTrail, EndTrail
<1> QED BY <1>2, <1>4, FeedsTwice

\* MSEController.seek.
LEMMA SeekTrail ==
  ASSUME NEW m \in Controllers, NEW r, r = SeekBuffers(m)
  PROVE  Feeds(m, r)
<1>0. m.segs \in [Types -> Seq(Segments)] /\ m.done \in [Types -> Seq(Shown)]
  BY DEF Controllers
<1>1. PICK y : Sought(m, y) /\ r = DoRemoveRanges(y)
  BY SoughtIs
<1>2. y \in Controllers
  BY <1>1 DEF Sought
<1>3. ASSUME NEW t \in Types
      PROVE  FeedsOn(m.done[t], Upcoming(m, t), y.done[t], Upcoming(y, t), t)
  <2>1. CASE ~m.made[t]
    <3>1. y.segs[t] = m.segs[t] /\ y.busy[t] = m.busy[t] /\ y.done[t] = m.done[t]
      BY <1>1, <2>1 DEF Sought
    <3>2. Upcoming(y, t) = Upcoming(m, t)
      BY <3>1 DEF Upcoming, Cutting, Updating
    <3> QED BY <3>1, <3>2 DEF FeedsOn, StaysTimed
  <2>2. CASE m.made[t]
    <3>1. y.segs[t] = <<>> /\ Cutting(y, t) = <<>>
          /\ y.done[t] = m.done[t] \o Discarded(Cutting(m, t) \o m.segs[t])
      BY <1>1, <2>2 DEF Sought
    <3>2. PICK a : a = Cutting(m, t) \o m.segs[t]
      OBVIOUS
    <3>3. a \in Seq(Segments)
      BY <1>0, <3>2, CuttingIs, ConcatProperties
    <3>4. PICK c : c = Discarded(a)
      OBVIOUS
    <3>5. OfType(a, t) => /\ c \in Seq(Shown) /\ Marks(c, OfShown) = Marks(a, OfEvent(t))
                          /\ Tidy(a, t) => Rises(c, OfShown)
      BY <3>3, <3>4, DiscardedBear
    <3>6. c \in Seq(Shown)
      BY <3>3, <3>4, DiscardedType
    <3>12. <<>> \in Seq(Segments)
      OBVIOUS
    <3>7. PICK v \in Seq(Segments) : v = <<>>
      BY <3>12, Zenon
    <3>8. m.done[t] \in Seq(Shown)
      BY <1>0
    <3>13. Gives(a, c)
      BY <3>3, <3>4, DiscardedTime DEF Gives
    <3>9. FeedsOn(m.done[t], a \o v, m.done[t] \o c, v, t)
      BY <3>3, <3>5, <3>6, <3>8, <3>13, FeedIs
    <3>10. a \o v = a /\ v \o v = v
      BY <3>3, <3>7, ConcatEmptySeq
    <3>11. Upcoming(y, t) = v /\ Upcoming(m, t) = a \o v /\ y.done[t] = m.done[t] \o c
      BY <3>1, <3>2, <3>4, <3>7, <3>10 DEF Upcoming
    <3> QED BY <3>9, <3>11
  <2> QED BY <2>1, <2>2
<1>4. Feeds(m, y)
  BY <1>3 DEF Feeds
<1>5. Keeps(y, r)
  BY <1>1, <1>2, RemovedTrail
<1> QED BY <1>4, <1>5, FeedsTwice

\* _onSourceOpen.
LEMMA SourceOpenTrail ==
  ASSUME NEW m \in Controllers, Buffers(m), m.said # "error", m.state = "closed", NEW o, NEW r, r = OnSourceOpen(m, o)
  PROVE  Feeds(m, r)
<1> DEFINE S == {y \in Controllers : y.state = "open" /\ Keeps(m, y)}
<1>1. Opened(m) \in S
  <2>1. PICK y : y = Opened(m)
    OBVIOUS
  <2>2. y \in Controllers /\ y.state = "open" /\ y.done = m.done /\ y.segs = m.segs /\ y.busy = m.busy
    BY <2>1, OpenedIs
  <2>3. Keeps(m, y)
    BY <2>2, KeepsSame
  <2> QED BY <2>1, <2>2, <2>3
<1>2. \A y \in S, seg \in Inits : AppendInitSegment(y, seg, TRUE, o) \in S
  <2> SUFFICES ASSUME NEW y \in S, NEW seg \in Inits PROVE AppendInitSegment(y, seg, TRUE, o) \in S
    OBVIOUS
  <2>1. PICK z : z = AppendInitSegment(y, seg, TRUE, o)
    OBVIOUS
  <2>2. z \in Controllers /\ z.state = "open" /\ Keeps(y, z)
    BY <2>1, DeferredTrail
  <2>3. Keeps(m, z)
    BY <2>2, KeepsTwice
  <2> QED BY <2>1, <2>2, <2>3
<1>3. Opening(m, Opened(m), 0)
  <2>1. PICK y : y = Opened(m)
    OBVIOUS
  <2> QED BY <2>1, OpenedIs
<1>4. \E y : /\ Opening(m, y, Len(m.inits)) /\ y \in S
             /\ r = IF HasPendingSegments(y) THEN DoAppendSegments(y, o) ELSE y
             /\ m.inits = <<>> => y = Opened(m)
  <2> HIDE DEF S
  <2> QED BY <1>1, <1>2, <1>3, OpenedAll
<1>5. PICK y \in S : r = y \/ r = DoAppendSegments(y, o)
  BY <1>4
<1>6. Keeps(m, r)
  BY <1>5, AppendsTrail, KeepsTwice
<1> QED BY <1>6, FeedsTwice

\* A step of the controller disturbs nobody's place.
LEMMA InLineFeeds ==
  ASSUME NEW m, NEW y, Feeds(m, y), NEW ts, NEW x, NEW s, InLine(m, ts, x, s)
  PROVE  InLine(y, ts, x, s)
<1>1. ASSUME NEW t \in Types, NEW d, d = m.done[t], NEW u, u = Upcoming(m, t),
             NEW e, e = y.done[t], NEW v, v = Upcoming(y, t)
      PROVE  Placed(e, v, ts, x, s, t)
  <2>1. Placed(d, u, ts, x, s, t)
    BY <1>1 DEF InLine
  <2>2. FedTags(e, v, t) = FedTags(d, u, t) /\ FedInOrder(e, v, t)
    BY <1>1, <2>1 DEF Feeds, FeedsOn, Placed
  <2> QED BY <2>1, <2>2 DEF Placed
<1> QED BY <1>1 DEF InLine

\* The first of the microtasks and the others.
Leads(ts, e, us, t) ==
  /\ Marks(ts, OfEvent(t)) = OfEvent(t)[e] \cup Marks(us, OfEvent(t))
  /\ Tidy(ts, t) <=> /\ Tidy(<<e>>, t) /\ Tidy(us, t)
                     /\ Below(OfEvent(t)[e], Marks(us, OfEvent(t)))

\* Of any sequence.
LEMMA LeadsIs ==
  ASSUME NEW ts \in Seq(Events), ts # <<>>, NEW e, e = ts[1], NEW us, us = Tail(ts), NEW t
  PROVE  e \in Events /\ us \in Seq(Events) /\ Leads(ts, e, us, t)
<1>1. e = Head(ts) /\ e \in Events /\ us \in Seq(Events)
  BY HeadTailProperties
<1>2. PICK w : w = <<e>>
  OBVIOUS
<1>3. w \in Seq(Events)
  BY <1>1, <1>2
<1>4. ts = w \o us
  BY <1>1, <1>2, HeadAndTail
<1>5. /\ Marks(w \o us, OfEvent(t)) = Marks(w, OfEvent(t)) \cup Marks(us, OfEvent(t))
      /\ Tidy(w \o us, t) <=> /\ Tidy(w, t) /\ Tidy(us, t)
                              /\ Below(Marks(w, OfEvent(t)), Marks(us, OfEvent(t)))
  BY <1>1, <1>3, TidyCat
<1>6. Marks(<<e>>, OfEvent(t)) = OfEvent(t)[e]
  BY MarksOne
<1> QED BY <1>1, <1>2, <1>4, <1>5, <1>6 DEF Leads

\* An event that bears nothing is taken.
LEMMA PlacedNone ==
  ASSUME NEW t, NEW ts, NEW e, NEW us, Leads(ts, e, us, t), OfEvent(t)[e] = {},
         NEW d, NEW u, NEW x, NEW s, Placed(d, u, ts, x, s, t)
  PROVE  Placed(d, u, us, x, s, t)
<1>1. Marks(us, OfEvent(t)) = Marks(ts, OfEvent(t)) /\ (Tidy(ts, t) => Tidy(us, t))
  BY DEF Leads
<1>2. RestTags(us, x, t) = RestTags(ts, x, t)
  BY <1>1 DEF RestTags
<1>3. RestInOrder(ts, x, t) => RestInOrder(us, x, t)
  BY <1>1 DEF RestInOrder
<1> QED BY <1>2, <1>3 DEF Placed

\* A segment is the last of those to come of its type.
LEMMA PlacedNext ==
  ASSUME NEW e \in Segments, NEW t, t = e.type, NEW ts, NEW us, Leads(ts, e, us, t),
         NEW d \in Seq(Shown), NEW u \in Seq(Segments), NEW v, v = Append(u, e),
         NEW x, NEW s, Placed(d, u, ts, x, s, t)
  PROVE  Placed(d, v, us, x, s, t)
<1>1. PICK w : w = <<e>>
  OBVIOUS
<1>2. w \in Seq(Segments)
  BY <1>1
<1>3. v = u \o w
  BY <1>1, AppendIsConcat
<1>4. PICK g : g = OfEvent(t)
  OBVIOUS
<1>5. u \in Seq(Events) /\ w \in Seq(Events)
  BY <1>2, SeqMonotonic DEF Events
<1>6. /\ Marks(v, g) = Marks(u, g) \cup g[e]
      /\ Tidy(v, t) <=> Tidy(u, t) /\ Tidy(<<e>>, t) /\ Below(Marks(u, g), g[e])
  <2>1. /\ Marks(u \o w, OfEvent(t)) = Marks(u, OfEvent(t)) \cup Marks(w, OfEvent(t))
        /\ Tidy(u \o w, t) <=> Tidy(u, t) /\ Tidy(w, t) /\ Below(Marks(u, OfEvent(t)), Marks(w, OfEvent(t)))
    BY <1>5, TidyCat
  <2>2. Marks(<<e>>, g) = g[e]
    BY MarksOne
  <2> QED BY <1>1, <1>3, <1>4, <2>1, <2>2
<1>7. /\ Marks(ts, g) = g[e] \cup Marks(us, g)
      /\ Tidy(ts, t) <=> Tidy(<<e>>, t) /\ Tidy(us, t) /\ Below(g[e], Marks(us, g))
  BY <1>4 DEF Leads
<1>8. /\ FedTags(d, u, t) \cup RestTags(ts, x, t) = Kin(s, 0, x.parsed, t)
      /\ OfType(u, t) /\ Rises(d, OfShown) /\ Tidy(u, t) /\ Below(Marks(d, OfShown), Marks(u, g))
      /\ Tidy(ts, t) /\ MuxInOrder(x, t) /\ Below(Marks(ts, g), MuxTags(x, t))
      /\ Below(FedTags(d, u, t), RestTags(ts, x, t))
  BY <1>4 DEF Placed, FedInOrder, RestInOrder
<1>9. /\ FedTags(d, v, t) = FedTags(d, u, t) \cup g[e] /\ RestTags(ts, x, t) = RestTags(us, x, t) \cup g[e]
      /\ FedTags(d, u, t) = Marks(d, OfShown) \cup Marks(u, g)
      /\ RestTags(us, x, t) = Marks(us, g) \cup MuxTags(x, t)
  BY <1>4, <1>6, <1>7 DEF FedTags, RestTags
<1>10. OfType(v, t)
  <2>1. OneMore(v, u, e)
    BY AppendedIs
  <2> QED BY <1>8, <2>1 DEF OneMore, OfType
<1>11. FedInOrder(d, v, t)
  <2>1. Below(Marks(u, g), g[e]) /\ Below(Marks(d, OfShown), g[e])
    BY <1>8, <1>9 DEF Below
  <2>2. Below(Marks(d, OfShown), Marks(v, g))
    BY <1>6, <1>8, <2>1 DEF Below
  <2> QED BY <1>4, <1>6, <1>7, <1>8, <1>10, <2>1, <2>2 DEF FedInOrder
<1>12. RestInOrder(us, x, t)
  <2>1. Below(Marks(us, g), MuxTags(x, t))
    BY <1>7, <1>8 DEF Below
  <2> QED BY <1>4, <1>7, <1>8, <2>1 DEF RestInOrder
<1>13. Below(FedTags(d, v, t), RestTags(us, x, t))
  BY <1>7, <1>8, <1>9 DEF Below
<1> QED BY <1>8, <1>9, <1>11, <1>12, <1>13 DEF Placed

\* The controller has been given the first of the microtasks.
LEMMA InLineTakes ==
  ASSUME NEW m \in Controllers, NEW ts \in Seq(Events), ts # <<>>, NEW e \in Segments, e = ts[1],
         NEW us, us = Tail(ts), NEW y, Takes(m, y, e), NEW x, NEW s, InLine(m, ts, x, s)
  PROVE  InLine(y, us, x, s)
<1>0. m.done \in [Types -> Seq(Shown)] /\ m.segs \in [Types -> Seq(Segments)]
  BY DEF Controllers
<1>1. ASSUME NEW t \in Types PROVE Placed(y.done[t], Upcoming(y, t), us, x, s, t)
  <2>1. e \in Events /\ Leads(ts, e, us, t)
    BY LeadsIs
  <2>2. PICK d \in Seq(Shown) : d = m.done[t]
    BY <1>0
  <2>3. Upcoming(m, t) \in Seq(Segments)
    <3>1. Cutting(m, t) \in Seq(Segments) /\ m.segs[t] \in Seq(Segments)
      BY <1>0, CuttingIs
    <3> QED BY <3>1, ConcatProperties DEF Upcoming
  <2>4. PICK u \in Seq(Segments) : u = Upcoming(m, t)
    BY <2>3
  <2>5. Placed(d, u, ts, x, s, t)
    BY <2>2, <2>4 DEF InLine
  <2>6. CASE t = e.type
    <3>1. PICK v : v = Append(u, e)
      OBVIOUS
    <3>2. y.done[t] = d /\ Upcoming(y, t) = v
      BY <2>2, <2>4, <2>6, <3>1 DEF Takes
    <3>3. Placed(d, v, us, x, s, t)
      BY <2>1, <2>5, <2>6, <3>1, PlacedNext
    <3> QED BY <3>2, <3>3
  <2>7. CASE t # e.type
    <3>1. y.done[t] = d /\ Upcoming(y, t) = u
      BY <2>2, <2>4, <2>7 DEF Takes
    <3>2. OfEvent(t)[e] = {}
      BY <2>1, <2>7, BearsNothing
    <3>3. Placed(d, u, us, x, s, t)
      BY <2>1, <2>5, <3>2, PlacedNone
    <3> QED BY <3>1, <3>3
  <2> QED BY <2>6, <2>7
<1> QED BY <1>1 DEF InLine

\* A note bears nothing.
LEMMA InLineNote ==
  ASSUME NEW m, NEW ts \in Seq(Events), ts # <<>>, ts[1].ev # "media", NEW us, us = Tail(ts),
         NEW x, NEW s, InLine(m, ts, x, s)
  PROVE  InLine(m, us, x, s)
<1>1. ASSUME NEW t \in Types PROVE Placed(m.done[t], Upcoming(m, t), us, x, s, t)
  <2>1. PICK e : e = ts[1]
    OBVIOUS
  <2>2. e \in Events /\ Leads(ts, e, us, t)
    BY <2>1, LeadsIs
  <2>3. OfEvent(t)[e] = {}
    BY <2>1, <2>2, BearsNothing
  <2>4. Placed(m.done[t], Upcoming(m, t), ts, x, s, t)
    BY DEF InLine
  <2> QED BY <2>2, <2>3, <2>4, PlacedNone
<1> QED BY <1>1 DEF InLine

\* Tags have been read: their frames are the last.
LEMMA InLineSupplied ==
  ASSUME NEW s, NEW ts, NEW x \in Muxes, NEW us, NEW y \in Muxes, Supplies(s, ts, x, us, y),
         NEW m, InLine(m, ts, x, s)
  PROVE  InLine(m, us, y, s)
<1>1. PICK a, b \in Nat : a = x.parsed /\ b = y.parsed
  BY DEF Muxes
<1>2. a <= b /\ 0 \in Nat /\ 0 <= a
  BY <1>1 DEF Supplies
<1>3. ASSUME NEW t \in Types, NEW d, NEW u, Placed(d, u, ts, x, s, t) PROVE Placed(d, u, us, y, s, t)
  <2>1. PICK F, R, K, N : F = FedTags(d, u, t) /\ R = RestTags(ts, x, t) /\ K = Kin(s, 0, a, t) /\ N = Kin(s, a, b, t)
    OBVIOUS
  <2>2. F \cup R = K /\ FedInOrder(d, u, t) /\ RestInOrder(ts, x, t) /\ Below(F, R)
    BY <1>1, <1>3, <2>1 DEF Placed
  <2>3. RestTags(us, y, t) = R \cup N /\ (R \subseteq 1 .. a => RestInOrder(us, y, t))
    BY <1>1, <2>1, <2>2 DEF Supplies, RestReads
  <2>4. K \cup N = Kin(s, 0, b, t) /\ K \subseteq 1 .. a
    <3>1. Ranged(s, 0, a, b, t)
      BY <1>2, KinIs
    <3> QED BY <2>1, <3>1 DEF Ranged
  <2>5. Below(F, N)
    <3>1. F \subseteq 1 .. a
      BY <2>2, <2>4
    <3> QED BY <2>1, <3>1, KinBehind
  <2>6. Below(F, R \cup N)
    BY <2>2, <2>5 DEF Below
  <2> QED BY <1>1, <2>1, <2>2, <2>3, <2>4, <2>6 DEF Placed
<1> QED BY <1>3 DEF InLine

-----------------------------------------------------------------------------
(* The frames of the whole line, one after the other.                        *)

\* The marks of numbers; silence, which is 0, has none.
OfNumber == [n \in Nat |-> {n} \ {0}]

\* The numbers of a sequence of what bears tags.
LEMMA FramesAre ==
  ASSUME NEW S, \A e \in S : e.tag \in Nat, NEW w \in Seq(S), NEW g, g = [e \in S |-> {e.tag} \ {0}],
         NEW v, v = FramesOf(w)
  PROVE  /\ v \in Seq(Nat) /\ Marks(v, OfNumber) = Marks(w, g)
         /\ Rises(w, g) => Rises(v, OfNumber)
<1>1. Len(w) \in Nat /\ DOMAIN w = 1 .. Len(w) /\ \A i \in DOMAIN w : w[i] \in S
  BY ElementOfSeq, LenProperties
<1>2. v = [i \in 1 .. Len(w) |-> w[i].tag]
  BY <1>1 DEF FramesOf
<1>3. v \in [1 .. Len(w) -> Nat] /\ \A i \in 1 .. Len(w) : v[i] = w[i].tag
  BY <1>1, <1>2
<1>4. v \in Seq(Nat) /\ DOMAIN v = DOMAIN w
  BY <1>1, <1>3, LenProperties
<1>5. ASSUME NEW i \in DOMAIN w PROVE OfNumber[v[i]] = g[w[i]]
  <2>1. w[i] \in S /\ v[i] = w[i].tag /\ v[i] \in Nat
    BY <1>1, <1>3
  <2> QED BY <2>1 DEF OfNumber
<1>6. {OfNumber[v[i]] : i \in DOMAIN v} = {g[w[i]] : i \in DOMAIN w}
  <2>1. PICK f : f = OfNumber
    OBVIOUS
  <2>2. \A i \in DOMAIN w : f[v[i]] = g[w[i]]
    BY <1>5, <2>1
  <2>3. PICK D, A, B : D = DOMAIN w /\ A = {f[v[i]] : i \in D} /\ B = {g[w[i]] : i \in D}
    OBVIOUS
  <2>4. ASSUME NEW i \in D PROVE f[v[i]] \in B /\ g[w[i]] \in A
    <3>1. f[v[i]] = g[w[i]]
      BY <2>2, <2>3
    <3>2. f[v[i]] \in A /\ g[w[i]] \in B
      BY <2>3
    <3> QED BY <3>1, <3>2
  <2>5. \A a \in A : a \in B
    <3> TAKE a \in A
    <3>1. PICK i \in D : a = f[v[i]]
      BY <2>3, Zenon
    <3> QED BY <2>4, <3>1, Zenon
  <2>6. \A a \in B : a \in A
    <3> TAKE a \in B
    <3>1. PICK i \in D : a = g[w[i]]
      BY <2>3, Zenon
    <3> QED BY <2>4, <3>1, Zenon
  <2>7. A = B
    BY <2>5, <2>6, Zenon
  <2>8. DOMAIN v = D /\ DOMAIN w = D
    BY <1>4, <2>3
  <2> QED BY <2>1, <2>3, <2>7, <2>8, Zenon
<1>7. Marks(v, OfNumber) = Marks(w, g)
  BY <1>6 DEF Marks
<1>8. ASSUME Rises(w, g), NEW i \in DOMAIN v, NEW j \in DOMAIN v, i < j
      PROVE  Below(OfNumber[v[i]], OfNumber[v[j]])
  <2>1. Below(g[w[i]], g[w[j]])
    BY <1>4, <1>8 DEF Rises
  <2> QED BY <1>4, <1>5, <2>1
<1>9. Rises(w, g) => Rises(v, OfNumber)
  BY <1>8 DEF Rises
<1> QED BY <1>4, <1>7, <1>9

\* The frames that an event bears.
LEMMA CarriedIs ==
  ASSUME NEW t, NEW e \in Events, NEW v, v = Carried(e, t)
  PROVE  /\ v \in Seq(Nat) /\ Marks(v, OfNumber) = OfEvent(t)[e]
         /\ Tidy(<<e>>, t) => Rises(v, OfNumber)
<1>1. CASE e.ev = "media" /\ e.type = t
  <2>1. e.run \in Seq(Items) /\ v = FramesOf(e.run) /\ OfEvent(t)[e] = Marks(e.run, OfItem)
    BY <1>1 DEF Events, Segments, Inits, Media, Notes, Carried, OfEvent
  <2>2. \A n \in Items : n.tag \in Nat
    BY DEF Items
  <2>3. PICK g : g = OfItem
    OBVIOUS
  <2>4. g = [n \in Items |-> {n.tag} \ {0}]
    BY <2>3 DEF OfItem
  <2>5. PICK w \in Seq(Items) : w = e.run
    BY <2>1
  <2>6. v = FramesOf(w)
    BY <2>1, <2>5
  <2>7. v \in Seq(Nat) /\ Marks(v, OfNumber) = Marks(w, g) /\ (Rises(w, g) => Rises(v, OfNumber))
    BY <2>2, <2>4, <2>6, FramesAre
  <2> QED BY <1>1, <2>1, <2>3, <2>5, <2>7, TidyOne
<1>2. CASE ~(e.ev = "media" /\ e.type = t)
  <2>1. <<>> \in Seq(Nat)
    OBVIOUS
  <2>2. PICK r \in Seq(Nat) : r = <<>>
    BY <2>1, Zenon
  <2>3. v = r
    BY <1>2, <2>2 DEF Carried
  <2>4. Marks(r, OfNumber) = {} /\ Rises(r, OfNumber)
    BY <2>2, MarksOne
  <2> QED BY <1>2, <2>3, <2>4, BearsNothing
<1> QED BY <1>1, <1>2

\* Those that a sequence of events bears.
LEMMA CarriedAll ==
  ASSUME NEW t, NEW w \in Seq(Events), NEW v, v = FlattenSeq([i \in DOMAIN w |-> Carried(w[i], t)])
  PROVE  /\ v \in Seq(Nat) /\ Marks(v, OfNumber) = Marks(w, OfEvent(t))
         /\ Tidy(w, t) => Rises(v, OfNumber)
<1>1. PICK W : W = [i \in DOMAIN w |-> Carried(w[i], t)]
  OBVIOUS
<1>2. Len(w) \in Nat /\ DOMAIN w = 1 .. Len(w) /\ \A i \in DOMAIN w : w[i] \in Events
  BY ElementOfSeq, LenProperties
<1>3. ASSUME NEW i \in DOMAIN w
      PROVE  /\ W[i] \in Seq(Nat) /\ Marks(W[i], OfNumber) = OfEvent(t)[w[i]]
             /\ Tidy(<<w[i]>>, t) => Rises(W[i], OfNumber)
  <2>1. PICK e \in Events : e = w[i]
    BY <1>2
  <2>2. PICK c : c = Carried(e, t)
    OBVIOUS
  <2>3. W[i] = c
    BY <1>1, <2>1, <2>2
  <2> QED BY <2>1, <2>2, <2>3, CarriedIs
<1>4. W \in Seq(Seq(Nat)) /\ DOMAIN W = DOMAIN w
  <2>1. W \in [1 .. Len(w) -> Seq(Nat)]
    BY <1>1, <1>2, <1>3
  <2> QED BY <1>2, <2>1, LenProperties
<1>5. /\ FlattenSeq(W) \in Seq(Nat) /\ Marks(FlattenSeq(W), OfNumber) = AllMarks(W, OfNumber)
      /\ AllRise(W, OfNumber) => Rises(FlattenSeq(W), OfNumber)
  BY <1>4, FlattenType, MarksFlatten
<1>6. AllMarks(W, OfNumber) = Marks(w, OfEvent(t))
  <2>1. {Marks(W[i], OfNumber) : i \in DOMAIN W} = {OfEvent(t)[w[i]] : i \in DOMAIN w}
    BY <1>3, <1>4
  <2>2. UNION {Marks(W[i], OfNumber) : i \in DOMAIN W} = UNION {OfEvent(t)[w[i]] : i \in DOMAIN w}
    BY <2>1
  <2>3. AllMarks(W, OfNumber) = UNION {Marks(W[i], OfNumber) : i \in DOMAIN W}
    BY DEF AllMarks
  <2>4. Marks(w, OfEvent(t)) = UNION {OfEvent(t)[w[i]] : i \in DOMAIN w}
    BY DEF Marks
  <2> QED BY <2>2, <2>3, <2>4
<1>7. ASSUME Tidy(w, t) PROVE AllRise(W, OfNumber)
  <2>1. \A i \in DOMAIN w : Tidy(<<w[i]>>, t)
    BY <1>7, TidyEach
  <2>2. \A i, j \in DOMAIN w : i < j => Below(OfEvent(t)[w[i]], OfEvent(t)[w[j]])
    BY <1>7 DEF Tidy, Rises
  <2> QED BY <1>3, <1>4, <2>1, <2>2 DEF AllRise
<1> QED BY <1>1, <1>5, <1>6, <1>7

\* One part of the line after the other.
Parts(a, b, c, q, A, B, C, Q) ==
  /\ Marks(a, OfNumber) = A /\ Marks(b, OfNumber) = B /\ Marks(c, OfNumber) = C /\ Marks(q, OfNumber) = Q
  /\ Rises(a, OfNumber) /\ Rises(b, OfNumber) /\ Rises(c, OfNumber) /\ Rises(q, OfNumber)
  /\ Below(A, B) /\ Below(A \cup B, C) /\ Below(A \cup B \cup C, Q)

\* They are in their order when each is.
LEMMA PartsRise ==
  ASSUME NEW a \in Seq(Nat), NEW b \in Seq(Nat), NEW c \in Seq(Nat), NEW q \in Seq(Nat),
         NEW A, NEW B, NEW C, NEW Q, Parts(a, b, c, q, A, B, C, Q)
  PROVE  /\ a \o b \o c \o q \in Seq(Nat) /\ Marks(a \o b \o c \o q, OfNumber) = A \cup B \cup C \cup Q
         /\ Rises(a \o b \o c \o q, OfNumber)
<1>1. PICK u : u = a \o b
  OBVIOUS
<1>2. u \in Seq(Nat)
  BY <1>1, ConcatProperties
<1>3. /\ Marks(a \o b, OfNumber) = Marks(a, OfNumber) \cup Marks(b, OfNumber)
      /\ Rises(a, OfNumber) /\ Rises(b, OfNumber) /\ Below(Marks(a, OfNumber), Marks(b, OfNumber))
            => Rises(a \o b, OfNumber)
  BY MarksCat
<1>4. Marks(u, OfNumber) = A \cup B /\ Rises(u, OfNumber)
  BY <1>1, <1>3 DEF Parts
<1>5. PICK v : v = u \o c
  OBVIOUS
<1>6. v \in Seq(Nat)
  BY <1>2, <1>5, ConcatProperties
<1>7. /\ Marks(u \o c, OfNumber) = Marks(u, OfNumber) \cup Marks(c, OfNumber)
      /\ Rises(u, OfNumber) /\ Rises(c, OfNumber) /\ Below(Marks(u, OfNumber), Marks(c, OfNumber))
            => Rises(u \o c, OfNumber)
  BY <1>2, MarksCat
<1>8. Marks(v, OfNumber) = A \cup B \cup C /\ Rises(v, OfNumber)
  BY <1>4, <1>5, <1>7 DEF Parts
<1>9. /\ Marks(v \o q, OfNumber) = Marks(v, OfNumber) \cup Marks(q, OfNumber)
      /\ Rises(v, OfNumber) /\ Rises(q, OfNumber) /\ Below(Marks(v, OfNumber), Marks(q, OfNumber))
            => Rises(v \o q, OfNumber)
  BY <1>6, MarksCat
<1>10. v \o q \in Seq(Nat)
  BY <1>6, ConcatProperties
<1>11. Marks(v \o q, OfNumber) = A \cup B \cup C \cup Q /\ Rises(v \o q, OfNumber)
  BY <1>8, <1>9 DEF Parts
<1>12. v \o q = a \o b \o c \o q
  BY <1>1, <1>5
<1> QED BY <1>10, <1>11, <1>12

\* The whole line of a type.
WholeLine(d, w, k, t) ==
  FramesOf(d) \o FlattenSeq([i \in DOMAIN w |-> Carried(w[i], t)]) \o FramesOf(k.stash) \o FramesOf(k.queue)
LineOf(d, u, ts, x, k, t, line) ==
  x.out = <<>> /\ k = x.tracks[t] /\ line = WholeLine(d, u \o ts, k, t)

\* It has the frames of the tags read so far, in their order.
LEMMA WholeLineIs ==
  ASSUME NEW t, NEW d \in Seq(Shown), NEW u \in Seq(Segments), NEW ts \in Seq(Events),
         NEW x \in Muxes, NEW k \in Tracks, NEW s, Placed(d, u, ts, x, s, t),
         NEW line, LineOf(d, u, ts, x, k, t, line)
  PROVE  /\ line \in Seq(Nat) /\ Marks(line, OfNumber) = Kin(s, 0, x.parsed, t)
         /\ Rises(line, OfNumber)
<1>1. PICK w : w = u \o ts
  OBVIOUS
<1>2. x.out = <<>> /\ k = x.tracks[t] /\ line = WholeLine(d, w, k, t)
  BY <1>1 DEF LineOf
<1>3. /\ FedTags(d, u, t) \cup RestTags(ts, x, t) = Kin(s, 0, x.parsed, t)
      /\ FedInOrder(d, u, t) /\ RestInOrder(ts, x, t) /\ Below(FedTags(d, u, t), RestTags(ts, x, t))
  BY DEF Placed
<1>4. PICK D, U, T : D = Marks(d, OfShown) /\ U = Marks(u, OfEvent(t)) /\ T = Marks(ts, OfEvent(t))
  OBVIOUS
<1>5. PICK C, Q : C = Marks(k.stash, OfFrame) /\ Q = Marks(k.queue, OfFrame)
  OBVIOUS
<1>6. k.stash \in Seq(Frames) /\ k.queue \in Seq(Frames)
  BY DEF Tracks
<1>7. /\ Marks(k.stash \o k.queue, OfFrame) = Marks(k.stash, OfFrame) \cup Marks(k.queue, OfFrame)
      /\ Rises(k.stash \o k.queue, OfFrame) =>
            /\ Rises(k.stash, OfFrame) /\ Rises(k.queue, OfFrame)
            /\ Below(Marks(k.stash, OfFrame), Marks(k.queue, OfFrame))
  BY <1>6, MarksCat
<1>8. PICK o : o = x.out
  OBVIOUS
<1>9. Marks(o, OfEvent(t)) = {}
  BY <1>2, <1>8, MarksOne
<1>10. MuxTags(x, t) = C \cup Q /\ Rises(k.stash, OfFrame) /\ Rises(k.queue, OfFrame) /\ Below(C, Q)
  BY <1>2, <1>3, <1>5, <1>7, <1>8, <1>9 DEF MuxTags, MuxInOrder, RestInOrder, Backlog
<1>11. /\ FedTags(d, u, t) = D \cup U /\ Below(D, U) /\ Rises(d, OfShown) /\ Tidy(u, t)
       /\ RestTags(ts, x, t) = T \cup (C \cup Q) /\ Tidy(ts, t) /\ Below(T, C \cup Q)
  BY <1>3, <1>4, <1>10 DEF FedTags, FedInOrder, RestTags, RestInOrder
<1>12. /\ D \cup U \cup T \cup C \cup Q = Kin(s, 0, x.parsed, t)
       /\ Below(D \cup U, T \cup (C \cup Q))
  BY <1>3, <1>11
<1>13. PICK y \in Seq(Events) : y = u
  BY DEF Events
<1>14. /\ Marks(y \o ts, OfEvent(t)) = Marks(y, OfEvent(t)) \cup Marks(ts, OfEvent(t))
       /\ Tidy(y, t) /\ Tidy(ts, t) /\ Below(Marks(y, OfEvent(t)), Marks(ts, OfEvent(t))) => Tidy(y \o ts, t)
  BY TidyCat
<1>15. y \o ts \in Seq(Events)
  BY ConcatProperties
<1>16. w \in Seq(Events) /\ Marks(w, OfEvent(t)) = U \cup T /\ Tidy(w, t)
  <2>1. Below(U, T)
    BY <1>12 DEF Below
  <2>2. w = y \o ts
    BY <1>1, <1>13
  <2>3. Marks(y, OfEvent(t)) = U /\ Marks(ts, OfEvent(t)) = T /\ Tidy(y, t) /\ Tidy(ts, t)
    BY <1>4, <1>11, <1>13
  <2> QED BY <1>14, <1>15, <2>1, <2>2, <2>3
<1>17. PICK b : b = FlattenSeq([i \in DOMAIN w |-> Carried(w[i], t)])
  OBVIOUS
<1>18. b \in Seq(Nat) /\ Marks(b, OfNumber) = U \cup T /\ Rises(b, OfNumber)
  <2>1. b \in Seq(Nat) /\ Marks(b, OfNumber) = Marks(w, OfEvent(t)) /\ (Tidy(w, t) => Rises(b, OfNumber))
    BY <1>16, <1>17, CarriedAll
  <2> QED BY <1>16, <2>1
<1>19. PICK a : a = FramesOf(d)
  OBVIOUS
<1>20. a \in Seq(Nat) /\ Marks(a, OfNumber) = D /\ Rises(a, OfNumber)
  <2>1. PICK g : g = OfShown
    OBVIOUS
  <2>2. g = [n \in Shown |-> {n.tag} \ {0}]
    BY <2>1 DEF OfShown
  <2>3. \A n \in Shown : n.tag \in Nat
    BY DEF Shown
  <2>4. a \in Seq(Nat) /\ Marks(a, OfNumber) = Marks(d, g) /\ (Rises(d, g) => Rises(a, OfNumber))
    BY <1>19, <2>2, <2>3, FramesAre
  <2> QED BY <1>4, <1>11, <2>1, <2>4
<1>21. PICK c, q : c = FramesOf(k.stash) /\ q = FramesOf(k.queue)
  OBVIOUS
<1>22. /\ c \in Seq(Nat) /\ Marks(c, OfNumber) = C /\ Rises(c, OfNumber)
       /\ q \in Seq(Nat) /\ Marks(q, OfNumber) = Q /\ Rises(q, OfNumber)
  <2>1. PICK g : g = OfFrame
    OBVIOUS
  <2>2. g = [n \in Frames |-> {n.tag} \ {0}]
    BY <2>1 DEF OfFrame
  <2>3. \A n \in Frames : n.tag \in Nat
    BY DEF Frames
  <2>4. ASSUME NEW r \in Seq(Frames), NEW v, v = FramesOf(r)
        PROVE  v \in Seq(Nat) /\ Marks(v, OfNumber) = Marks(r, g) /\ (Rises(r, g) => Rises(v, OfNumber))
    BY <2>2, <2>3, <2>4, FramesAre
  <2> QED BY <1>5, <1>6, <1>10, <1>21, <2>1, <2>4
<1>23. Parts(a, b, c, q, D, U \cup T, C, Q)
  BY <1>10, <1>11, <1>12, <1>18, <1>20, <1>22 DEF Parts, Below
<1>24. PICK r : r = a \o b \o c \o q
  OBVIOUS
<1>25. r \in Seq(Nat) /\ Marks(r, OfNumber) = D \cup (U \cup T) \cup C \cup Q /\ Rises(r, OfNumber)
  <2>1. PICK B : B = U \cup T
    OBVIOUS
  <2>2. Parts(a, b, c, q, D, B, C, Q)
    BY <1>23, <2>1
  <2>3. /\ a \o b \o c \o q \in Seq(Nat) /\ Marks(a \o b \o c \o q, OfNumber) = D \cup B \cup C \cup Q
        /\ Rises(a \o b \o c \o q, OfNumber)
    BY <1>18, <1>20, <1>22, <2>2, PartsRise
  <2> QED BY <1>24, <2>1, <2>3
<1>26. line = r
  BY <1>2, <1>17, <1>19, <1>21, <1>24 DEF WholeLine
<1>27. D \cup (U \cup T) \cup C \cup Q = Kin(s, 0, x.parsed, t)
  BY <1>12
<1> QED BY <1>25, <1>26, <1>27

\* What this says of the numbers of the line.
LEMMA LineTells ==
  ASSUME NEW s, NEW t, NEW n, NEW line \in Seq(Nat), Marks(line, OfNumber) = Kin(s, 0, n, t), Rises(line, OfNumber)
  PROVE  /\ {line[i] : i \in DOMAIN line} \ {0} = {i \in 1 .. n : s[i].kind = t}
         /\ \A i, j \in DOMAIN line : i < j /\ line[i] > 0 /\ line[j] > 0 => line[i] < line[j]
<1>1. \A i \in DOMAIN line : line[i] \in Nat
  BY ElementOfSeq
<1>2. \A i \in DOMAIN line : OfNumber[line[i]] = {line[i]} \ {0}
  BY <1>1 DEF OfNumber
<1>3. {line[i] : i \in DOMAIN line} \ {0} = Marks(line, OfNumber)
  BY <1>2 DEF Marks
<1>4. Kin(s, 0, n, t) = {i \in 1 .. n : s[i].kind = t}
  BY DEF Kin
<1>5. ASSUME NEW i \in DOMAIN line, NEW j \in DOMAIN line, i < j, line[i] > 0, line[j] > 0
      PROVE  line[i] < line[j]
  <2>1. Below(OfNumber[line[i]], OfNumber[line[j]])
    BY <1>5 DEF Rises
  <2>2. line[i] \in OfNumber[line[i]] /\ line[j] \in OfNumber[line[j]]
    BY <1>1, <1>2, <1>5
  <2> QED BY <2>1, <2>2 DEF Below
<1> QED BY <1>3, <1>4, <1>5
=============================================================================
