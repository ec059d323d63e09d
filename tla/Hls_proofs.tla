----------------------------- MODULE Hls_proofs ------------------------------
(* The two halves of HLS. The writer cuts a stream of any length into         *)
(* segments that decode, for frames of any length and any times; the ring of  *)
(* the newest of them, of any size, gives any number of players what their    *)
(* playlists announced.                                                       *)
EXTENDS HlsWriter, TsCache, FiniteSetTheorems, SequenceTheorems, WellFoundedInduction, TLAPS

-----------------------------------------------------------------------------
(* Induction, and sequences put one after the other.                         *)

\* A set of naturals has a least element.
LEMMA Least ==
  ASSUME NEW T, T \subseteq Nat, T # {}
  PROVE  \E m \in T : \A n \in T : m <= n
<1> DEFINE R == OpToRel(<, Nat)
<1>1. IsWellFoundedOn(R, Nat)
  BY NatLessThanWellFounded
<1>2. \A m, n \in T : n < m => <<n, m>> \in R
  BY DEF OpToRel
<1> HIDE DEF R
<1>3. PICK m \in T : \A n \in T : ~(<<n, m>> \in R)
  BY <1>1, WFMin
<1>4. \A n \in T : ~(n < m)
  BY <1>2, <1>3
<1> QED BY <1>4

\* Induction over the naturals, for a set.
LEMMA SetInduction ==
  ASSUME NEW S, 0 \in S, \A n \in Nat : n \in S => n + 1 \in S
  PROVE  Nat \subseteq S
<1> SUFFICES ASSUME ~(Nat \subseteq S) PROVE FALSE
  OBVIOUS
<1> DEFINE T == Nat \ S
<1>1. PICK m \in T : \A n \in T : m <= n
  <2>1. T \subseteq Nat /\ T # {}
    OBVIOUS
  <2> HIDE DEF T
  <2> QED BY <2>1, Least
<1>2. m # 0
  OBVIOUS
<1>3. m - 1 \in Nat /\ m - 1 \notin T
  BY <1>1, <1>2
<1>4. m - 1 + 1 = m
  BY <1>1
<1> QED BY <1>3, <1>4

\* The function by which FlattenSeq is defined, up to n.
Unfolds(f, W, n) == f = [i \in 1 .. n |-> IF i = 1 THEN W[i] ELSE f[i - 1] \o W[i]]

\* What it is at each i.
LEMMA UnfoldsAt ==
  ASSUME NEW f, NEW W, NEW n, Unfolds(f, W, n), NEW i \in 1 .. n
  PROVE  f[i] = IF i = 1 THEN W[i] ELSE f[i - 1] \o W[i]
<1> DEFINE Item(j) == IF j = 1 THEN W[j] ELSE f[j - 1] \o W[j]
<1>1. f = [j \in 1 .. n |-> Item(j)]
  BY DEF Unfolds
<1> HIDE DEF Item
<1>2. f[i] = Item(i)
  BY <1>1
<1> QED BY <1>2 DEF Item

\* It exists.
LEMMA FlattenExists ==
  ASSUME NEW W, NEW n \in Nat
  PROVE  \E f : Unfolds(f, W, n)
<1> DEFINE S == {k \in Nat : \E f : Unfolds(f, W, k)}
<1>1. 0 \in S
  <2>1. Unfolds([i \in 1 .. 0 |-> 0], W, 0)
    BY DEF Unfolds
  <2> QED BY <2>1
<1>2. ASSUME NEW k \in Nat, k \in S PROVE k + 1 \in S
  <2>1. PICK f : Unfolds(f, W, k)
    BY <1>2
  <2> DEFINE g == [i \in 1 .. k + 1 |-> IF i = 1 THEN W[i]
                     ELSE IF i = k + 1 THEN f[i - 1] \o W[i] ELSE f[i]]
  <2>2. ASSUME NEW i \in 1 .. k + 1
        PROVE  g[i] = IF i = 1 THEN W[i] ELSE g[i - 1] \o W[i]
    <3>1. CASE i = 1
      BY <3>1
    <3>2. CASE i # 1
      <4>1. i - 1 \in 1 .. k + 1 /\ i - 1 # k + 1 /\ i - 1 \in 1 .. k
        BY <3>2
      <4>2. g[i - 1] = f[i - 1]
        BY <2>1, <4>1 DEF Unfolds
      <4>3. g[i] = f[i - 1] \o W[i]
        <5>1. CASE i = k + 1
          BY <3>2, <5>1
        <5>2. CASE i # k + 1
          <6>1. i \in 1 .. k
            BY <5>2
          <6> QED BY <2>1, <3>2, <5>2, <6>1 DEF Unfolds
        <5> QED BY <5>1, <5>2
      <4> QED BY <3>2, <4>2, <4>3
    <3> QED BY <3>1, <3>2
  <2>3. Unfolds(g, W, k + 1)
    <3>1. g = [i \in 1 .. k + 1 |-> g[i]]
      OBVIOUS
    <3> HIDE DEF g
    <3> QED BY <2>2, <3>1 DEF Unfolds
  <2> HIDE DEF g
  <2> QED BY <2>3
<1>3. Nat \subseteq S
  <2> HIDE DEF S
  <2> QED BY <1>1, <1>2, SetInduction
<1> QED BY <1>3

\* FlattenSeq puts one after the other.
LEMMA FlattenUnfolds ==
  ASSUME NEW W, Len(W) \in Nat, Len(W) # 0
  PROVE  \E f : Unfolds(f, W, Len(W)) /\ FlattenSeq(W) = f[Len(W)]
<1> DEFINE g == CHOOSE f : Unfolds(f, W, Len(W))
<1>1. Unfolds(g, W, Len(W))
  BY FlattenExists
<1>2. FlattenSeq(W) = g[Len(W)]
  BY DEF FlattenSeq, Unfolds
<1> HIDE DEF g
<1> QED BY <1>1, <1>2

\* One more sequence goes behind the others.
LEMMA FlattenMore ==
  ASSUME NEW S, NEW W \in Seq(Seq(S)), NEW V \in Seq(Seq(S)), NEW n \in Nat, Len(W) = n,
         Len(V) = n + 1, \A i \in 1 .. n : V[i] = W[i]
  PROVE  FlattenSeq(W) \in Seq(S) /\ FlattenSeq(V) = FlattenSeq(W) \o V[n + 1]
<1>1. /\ \A i \in 1 .. n : W[i] \in Seq(S)
      /\ V[n + 1] \in Seq(S) /\ Len(V) \in Nat /\ Len(V) # 0
  <2>1. n + 1 \in 1 .. Len(V)
    OBVIOUS
  <2> QED BY <2>1, ElementOfSeq
<1>2. PICK f : Unfolds(f, V, Len(V)) /\ FlattenSeq(V) = f[Len(V)]
  BY <1>1, FlattenUnfolds
<1>3. Unfolds(f, V, n + 1) /\ FlattenSeq(V) = f[n + 1]
  BY <1>2
<1>4. /\ n = 0 => f[n + 1] = V[n + 1]
      /\ n # 0 => f[n + 1] = f[n] \o V[n + 1]
  <2>1. n + 1 \in 1 .. n + 1 /\ n + 1 - 1 = n /\ (n = 0 <=> n + 1 = 1)
    OBVIOUS
  <2>2. f[n + 1] = IF n + 1 = 1 THEN V[n + 1] ELSE f[n + 1 - 1] \o V[n + 1]
    BY <1>3, <2>1, UnfoldsAt
  <2> QED BY <2>1, <2>2
<1>5. CASE n = 0
  <2>1. W = <<>>
    BY <1>5, EmptySeq
  <2>2. FlattenSeq(W) = <<>>
    BY <1>5, <2>1 DEF FlattenSeq
  <2>3. <<>> \o V[n + 1] = V[n + 1] /\ <<>> \in Seq(S)
    BY <1>1, ConcatEmptySeq
  <2> QED BY <1>3, <1>4, <1>5, <2>2, <2>3
<1>6. CASE n # 0
  <2>1. PICK g : Unfolds(g, W, Len(W)) /\ FlattenSeq(W) = g[Len(W)]
    BY <1>6, FlattenUnfolds
  <2>2. Unfolds(g, W, n) /\ FlattenSeq(W) = g[n]
    BY <2>1
  <2> DEFINE T == {k \in Nat : k \in 1 .. n => f[k] = g[k] /\ g[k] \in Seq(S)}
  <2>3. 0 \in T
    OBVIOUS
  <2>4. ASSUME NEW k \in Nat, k \in T PROVE k + 1 \in T
    <3> SUFFICES ASSUME k + 1 \in 1 .. n PROVE f[k + 1] = g[k + 1] /\ g[k + 1] \in Seq(S)
      OBVIOUS
    <3>1. k + 1 \in 1 .. n + 1 /\ n + 1 \in Nat /\ V[k + 1] = W[k + 1] /\ W[k + 1] \in Seq(S)
      BY <1>1
    <3>2. /\ k = 0 => f[k + 1] = V[k + 1]
          /\ k # 0 => f[k + 1] = f[k] \o V[k + 1]
      <4>1. k + 1 \in 1 .. n + 1 /\ k + 1 - 1 = k /\ (k = 0 <=> k + 1 = 1)
        OBVIOUS
      <4>2. f[k + 1] = IF k + 1 = 1 THEN V[k + 1] ELSE f[k + 1 - 1] \o V[k + 1]
        BY <1>3, <4>1, UnfoldsAt
      <4> QED BY <4>1, <4>2
    <3>3. /\ k = 0 => g[k + 1] = W[k + 1]
          /\ k # 0 => k \in 1 .. n /\ g[k + 1] = g[k] \o W[k + 1]
      <4>1. k + 1 - 1 = k /\ (k = 0 <=> k + 1 = 1) /\ (k # 0 => k \in 1 .. n)
        OBVIOUS
      <4>2. g[k + 1] = IF k + 1 = 1 THEN W[k + 1] ELSE g[k + 1 - 1] \o W[k + 1]
        BY <2>2, UnfoldsAt
      <4> QED BY <4>1, <4>2
    <3>4. CASE k = 0
      BY <3>1, <3>2, <3>3, <3>4
    <3>5. CASE k # 0
      <4>1. f[k] = g[k] /\ g[k] \in Seq(S)
        BY <2>4, <3>3, <3>5
      <4>2. g[k] \o W[k + 1] \in Seq(S)
        BY <3>1, <4>1, ConcatProperties
      <4> QED BY <3>1, <3>2, <3>3, <3>5, <4>1, <4>2
    <3> QED BY <3>4, <3>5
  <2>5. n \in T
    <3> HIDE DEF T
    <3> QED BY <2>3, <2>4, SetInduction
  <2>6. f[n] = g[n] /\ g[n] \in Seq(S)
    BY <1>6, <2>5
  <2> QED BY <1>3, <1>4, <1>6, <2>2, <2>6
<1> QED BY <1>5, <1>6

\* No sequence makes no sequence.
LEMMA FlattenEmpty == FlattenSeq(<<>>) = <<>>
BY DEF FlattenSeq

-----------------------------------------------------------------------------
(* The transport packets of a frame.                                         *)

Laid == [at : Int, size : Nat, from : Int]
Fine(p) == p.at = p.from /\ p.at + p.size = Mux!Packet
Spoilt(key, total) == key /\ total < Mux!Body /\ total # Mux!Body - 8

\* A turn of the loop takes some of what is left; what it writes is where a
\* decoder looks for it, but for the first packet of a key frame that leaves no
\* room for the stuffing behind the PCR.
LEMMA LayIs ==
  ASSUME NEW first \in BOOLEAN, NEW key \in BOOLEAN, NEW left \in Nat \ {0}
  PROVE  /\ Mux!Lay(first, key, left) \in Laid
         /\ Mux!Lay(first, key, left).size \in 1 .. left
         /\ Fine(Mux!Lay(first, key, left)) <=> ~(first /\ Spoilt(key, left))
<1> USE DEF Mux!Lay, Mux!Body, Mux!Packet, Mux!Byte, Laid, Fine, Spoilt
<1>1. CASE left >= 184
  BY <1>1
<1>2. CASE left < 184 /\ ~(first /\ key)
  <2>1. (184 - left - 0) % 256 = 184 - left /\ (4 + (184 - left)) % 256 = 188 - left
    BY <1>2
  <2> QED BY <1>2, <2>1
<1>3. CASE left <= 176 /\ first /\ key
  <2>1. (184 - left - 8) % 256 = 176 - left /\ (12 + (176 - left)) % 256 = 188 - left
    BY <1>3
  <2> QED BY <1>3, <2>1
<1>4. CASE left > 176 /\ left < 184 /\ first /\ key
  <2>1. (184 - left - 8) % 256 = 432 - left /\ (12 + (432 - left)) % 256 = 188 - left
    BY <1>4
  <2> QED BY <1>4, <2>1
<1> QED BY <1>1, <1>2, <1>3, <1>4

\* The function by which Layout is defined, up to n bytes.
Turn(key, total, left) == Mux!Lay(left = total, key, left)
Walks(f, key, total, n) ==
  f = [left \in 0 .. n |->
         IF left = 0 THEN <<>>
         ELSE <<Turn(key, total, left)>> \o f[left - Turn(key, total, left).size]]

\* What it is at each number of bytes.
LEMMA WalksAt ==
  ASSUME NEW f, NEW key, NEW total, NEW n, Walks(f, key, total, n), NEW left \in 0 .. n
  PROVE  f[left] = IF left = 0 THEN <<>>
                   ELSE <<Turn(key, total, left)>> \o f[left - Turn(key, total, left).size]
<1> DEFINE Rest(j) == IF j = 0 THEN <<>>
                      ELSE <<Turn(key, total, j)>> \o f[j - Turn(key, total, j).size]
<1>1. f = [j \in 0 .. n |-> Rest(j)]
  BY DEF Walks
<1> HIDE DEF Rest
<1>2. f[left] = Rest(left)
  BY <1>1
<1> QED BY <1>2 DEF Rest

\* A turn leaves less.
LEMMA TurnIs ==
  ASSUME NEW key \in BOOLEAN, NEW total \in Nat, NEW left \in Nat \ {0}
  PROVE  /\ Turn(key, total, left) \in Laid
         /\ Turn(key, total, left).size \in 1 .. left
         /\ Fine(Turn(key, total, left)) <=> ~(left = total /\ Spoilt(key, total))
BY LayIs DEF Turn

\* It exists.
LEMMA WalkExists ==
  ASSUME NEW key \in BOOLEAN, NEW total \in Nat, NEW n \in Nat
  PROVE  \E f : Walks(f, key, total, n)
<1> DEFINE S == {k \in Nat : \E f : Walks(f, key, total, k)}
<1>1. 0 \in S
  <2> DEFINE g == [left \in 0 .. 0 |-> <<>>]
  <2>1. g = [left \in 0 .. 0 |->
               IF left = 0 THEN <<>>
               ELSE <<Turn(key, total, left)>> \o g[left - Turn(key, total, left).size]]
    OBVIOUS
  <2> HIDE DEF g
  <2>2. Walks(g, key, total, 0)
    BY <2>1 DEF Walks
  <2> QED BY <2>2
<1>2. ASSUME NEW k \in Nat, k \in S PROVE k + 1 \in S
  <2>1. PICK f : Walks(f, key, total, k)
    BY <1>2
  <2> DEFINE top(left) == <<Turn(key, total, left)>> \o f[left - Turn(key, total, left).size]
             g == [left \in 0 .. k + 1 |-> IF left = k + 1 THEN top(left) ELSE f[left]]
  <2>2. ASSUME NEW left \in 0 .. k + 1
        PROVE  g[left] = IF left = 0 THEN <<>>
                         ELSE <<Turn(key, total, left)>> \o g[left - Turn(key, total, left).size]
    <3>1. CASE left = 0
      <4>1. 0 \in 0 .. k /\ 0 # k + 1 /\ 0 \in 0 .. k + 1
        OBVIOUS
      <4>2. f[0] = <<>>
        BY <2>1, <4>1, WalksAt
      <4> QED BY <3>1, <4>1, <4>2
    <3>2. CASE left # 0
      <4> DEFINE rest == left - Turn(key, total, left).size
      <4>1. Turn(key, total, left).size \in 1 .. left
        BY <3>2, TurnIs
      <4>2. rest \in 0 .. k + 1 /\ rest # k + 1
        BY <4>1
      <4> HIDE DEF rest
      <4>3. g[rest] = f[rest]
        BY <4>2
      <4>6. g[left] = IF left = k + 1 THEN top(left) ELSE f[left]
        OBVIOUS
      <4> HIDE DEF g
      <4>4. CASE left = k + 1
        <5>1. g[left] = <<Turn(key, total, left)>> \o f[rest]
          BY <4>4, <4>6 DEF rest
        <5> QED BY <3>2, <4>3, <5>1 DEF rest
      <4>5. CASE left # k + 1
        <5>1. left \in 0 .. k
          BY <4>5
        <5>2. f[left] = IF left = 0 THEN <<>>
                        ELSE <<Turn(key, total, left)>> \o f[left - Turn(key, total, left).size]
          BY <2>1, <5>1, WalksAt
        <5> QED BY <3>2, <4>3, <4>5, <4>6, <5>2 DEF rest
      <4> QED BY <4>4, <4>5
    <3> QED BY <3>1, <3>2
  <2>3. Walks(g, key, total, k + 1)
    <3>1. g = [left \in 0 .. k + 1 |-> g[left]]
      OBVIOUS
    <3> HIDE DEF g
    <3> QED BY <2>2, <3>1 DEF Walks
  <2> HIDE DEF g
  <2> QED BY <2>3
<1>3. Nat \subseteq S
  <2> HIDE DEF S
  <2> QED BY <1>1, <1>2, SetInduction
<1> QED BY <1>3

\* Layout is that function of all the bytes.
LEMMA LayoutWalks ==
  ASSUME NEW key \in BOOLEAN, NEW total \in Nat
  PROVE  \E f : Walks(f, key, total, total) /\ Mux!Layout(key, total) = f[total]
<1> DEFINE g == CHOOSE f : Walks(f, key, total, total)
<1>1. Walks(g, key, total, total)
  BY WalkExists
<1>2. Mux!Layout(key, total) = g[total]
  BY DEF Mux!Layout, Walks, Turn
<1> HIDE DEF g
<1> QED BY <1>1, <1>2

\* The packets that follow another.
LEMMA InFront ==
  ASSUME NEW p \in Laid, NEW s \in Seq(Laid), NEW t, t = <<p>> \o s
  PROVE  /\ t \in Seq(Laid)
         /\ Mux!Reassembles(t) <=> Fine(p) /\ Mux!Reassembles(s)
<1>1. <<p>> \in Seq(Laid) /\ Len(<<p>>) = 1 /\ <<p>>[1] = p /\ Len(s) \in Nat
  OBVIOUS
<1>2. /\ t \in Seq(Laid) /\ Len(t) = 1 + Len(s)
      /\ \A i \in 1 .. 1 + Len(s) : t[i] = IF i <= 1 THEN <<p>>[i] ELSE s[i - 1]
  BY <1>1, ConcatProperties
<1>3. DOMAIN t = 1 .. Len(t) /\ DOMAIN s = 1 .. Len(s)
  BY <1>2
<1>4. Mux!Reassembles(t) <=> \A i \in 1 .. Len(t) : Fine(t[i])
  BY <1>3 DEF Mux!Reassembles, Fine
<1>5. Mux!Reassembles(s) <=> \A i \in 1 .. Len(s) : Fine(s[i])
  BY <1>3 DEF Mux!Reassembles, Fine
<1>6. 1 \in 1 .. Len(t) /\ t[1] = p
  BY <1>1, <1>2
<1>7. \A i \in 1 .. Len(s) : i + 1 \in 1 .. Len(t) /\ t[i + 1] = s[i]
  <2> TAKE i \in 1 .. Len(s)
  <2>1. i + 1 \in 1 .. 1 + Len(s) /\ ~(i + 1 <= 1) /\ i + 1 - 1 = i
    BY <1>1
  <2> QED BY <1>2, <2>1
<1>8. \A i \in 1 .. Len(t) : t[i] = p \/ (i - 1 \in 1 .. Len(s) /\ t[i] = s[i - 1])
  <2> TAKE i \in 1 .. Len(t)
  <2>1. i = 1 \/ (i - 1 \in 1 .. Len(s) /\ ~(i <= 1))
    BY <1>1, <1>2
  <2> QED BY <1>2, <1>6, <2>1
<1>9. (\A i \in 1 .. Len(t) : Fine(t[i])) <=> Fine(p) /\ \A i \in 1 .. Len(s) : Fine(s[i])
  BY <1>6, <1>7, <1>8
<1> QED BY <1>2, <1>4, <1>5, <1>9

\* A frame reassembles, but for a key frame that just fits into one packet with
\* the PCR and leaves no room for the stuffing behind it: any frame, any size.
LEMMA LayoutIs ==
  ASSUME NEW key \in BOOLEAN, NEW total \in Nat \ {0}
  PROVE  /\ Mux!Layout(key, total) \in Seq(Laid)
         /\ Mux!Reassembles(Mux!Layout(key, total)) <=> ~Spoilt(key, total)
<1>1. PICK f : Walks(f, key, total, total) /\ Mux!Layout(key, total) = f[total]
  BY LayoutWalks
<1> DEFINE Right(k) == /\ f[k] \in Seq(Laid)
                       /\ Mux!Reassembles(f[k]) <=> ~(k = total /\ Spoilt(key, total))
           S == {n \in Nat : \A k \in 0 .. n : k <= total => Right(k)}
<1>2. 0 \in S
  <2>1. 0 \in 0 .. total /\ 0 # total
    OBVIOUS
  <2>2. f[0] = <<>>
    BY <1>1, <2>1, WalksAt
  <2>3. Mux!Reassembles(<<>>) /\ <<>> \in Seq(Laid)
    BY DEF Mux!Reassembles
  <2>4. Right(0)
    BY <2>1, <2>2, <2>3
  <2> HIDE DEF Right
  <2>5. \A k \in 0 .. 0 : k = 0
    OBVIOUS
  <2> QED BY <2>4, <2>5
<1>3. ASSUME NEW n \in Nat, n \in S PROVE n + 1 \in S
  <2>1. ASSUME n + 1 <= total PROVE Right(n + 1)
    <3> DEFINE left == n + 1
               p == Turn(key, total, left)
    <3>1. left \in Nat \ {0} /\ left \in 0 .. total /\ left # 0 /\ total \in Nat
      BY <2>1
    <3> HIDE DEF left
    <3>2. /\ p \in Laid /\ p.size \in 1 .. left
          /\ Fine(p) <=> ~(left = total /\ Spoilt(key, total))
      BY <3>1, TurnIs
    <3>3. f[left] = <<p>> \o f[left - p.size]
      <4> DEFINE m == total
      <4>1. Walks(f, key, total, m) /\ left \in 0 .. m
        BY <1>1, <3>1
      <4> HIDE DEF m
      <4>2. f[left] = IF left = 0 THEN <<>>
                      ELSE <<Turn(key, total, left)>> \o f[left - Turn(key, total, left).size]
        BY <4>1, WalksAt
      <4> QED BY <3>1, <4>2
    <3> HIDE DEF p
    <3> DEFINE rest == left - p.size
    <3>4. rest \in 0 .. n /\ rest <= total /\ rest # total
      BY <2>1, <3>1, <3>2 DEF left
    <3> HIDE DEF rest
    <3>5. Right(rest)
      <4> HIDE DEF Right
      <4> QED BY <1>3, <3>4
    <3>6. f[left] \in Seq(Laid) /\ (Mux!Reassembles(f[left]) <=> Fine(p) /\ Mux!Reassembles(f[rest]))
      <4>1. f[left] = <<p>> \o f[rest] /\ f[rest] \in Seq(Laid)
        BY <3>3, <3>5 DEF rest
      <4> QED BY <3>2, <4>1, InFront
    <3>7. Right(left)
      BY <3>2, <3>4, <3>5, <3>6
    <3> QED BY <3>7 DEF left
  <2> HIDE DEF Right
  <2>2. \A k \in 0 .. n + 1 : k \in 0 .. n \/ k = n + 1
    OBVIOUS
  <2> QED BY <1>3, <2>1, <2>2
<1>4. total \in S
  <2> HIDE DEF S
  <2> QED BY <1>2, <1>3, SetInduction
<1>5. total \in 0 .. total /\ total <= total
  OBVIOUS
<1>6. Right(total)
  <2> HIDE DEF Right
  <2> QED BY <1>4, <1>5
<1> QED BY <1>1, <1>6

-----------------------------------------------------------------------------
(* What the parts of the handler do to a writer's fields.                    *)

Pids == Tables \cup Tracks
Units == [pid : Pids, packets : Nat, frames : Seq(Nat), pts : Int, whole : BOOLEAN, cc : Int]
Stats == [set : BOOLEAN, first : Int, last : Int]
Stored == [units : Seq(Units), duration : Int]
Writers == [config : BOOLEAN, stat : Stats, alignNum : Int, alignBase : Int, cache : Seq(Nat),
            cachePts : Int, file : Seq(Units), segments : Seq(Stored), firstCut : BOOLEAN,
            cc : [Pids -> Int]]
ShapeFits == shape \in [size : Nat \ {0}, hasDts : BOOLEAN]

\* One unit more in the file, with the counter that was due.
Wrote(x, y, u) ==
  /\ x \in Writers /\ y \in Writers /\ u \in Units /\ u.cc = x.cc[u.pid]
  /\ y.file = Append(x.file, u)
  /\ y.cc = [x.cc EXCEPT ![u.pid] = (@ + u.packets) % CcModulus]
  /\ y.stat = x.stat /\ y.segments = x.segments /\ y.firstCut = x.firstCut
Tabled(x, y, u, pid) ==
  /\ Wrote(x, y, u) /\ y.cache = x.cache /\ y.cachePts = x.cachePts
  /\ u.pid = pid /\ u.frames = <<>> /\ u.whole
Filmed(x, y, u, id, key) ==
  /\ Wrote(x, y, u) /\ y.cache = x.cache /\ y.cachePts = x.cachePts
  /\ u.pid = "video" /\ u.frames = <<id>>
  /\ u.whole <=> ~Spoilt(key, shape.size + Mux!PesHeader(shape.hasDts))
Grouped(x, y, u) ==
  /\ Wrote(x, y, u) /\ x.cache # <<>> /\ y.cache = <<>>
  /\ u.pid = "audio" /\ u.frames = x.cache /\ u.pts = (x.cachePts \div Hz) * Hz /\ u.whole

\* A frame, or a group of them, in transport packets.
IsPes(u, x, track, key, ids, pts, total) ==
  /\ u \in Units /\ u.cc = x.cc[u.pid] /\ u.pid = track /\ u.frames = ids /\ u.pts = pts
  /\ u.whole <=> ~Spoilt(key, total)

\* status.update counts a frame.
Counted(x, y, t) ==
  /\ x \in Writers /\ y \in Writers
  /\ y.stat = [set |-> TRUE, last |-> t, first |-> IF x.stat.set THEN x.stat.first ELSE t]
  /\ y.cache = x.cache /\ y.cachePts = x.cachePts /\ y.file = x.file
  /\ y.segments = x.segments /\ y.firstCut = x.firstCut /\ y.cc = x.cc

\* audioCache.cache keeps a frame; the first of a group has the aligned time.
Stashed(x, y, id, t) ==
  /\ x \in Writers /\ y \in Writers /\ y.cache = Append(x.cache, id)
  /\ x.cache = <<>> => y.cachePts - t * Hz \in -(SyncMs * Hz) .. SyncMs * Hz
  /\ x.cache # <<>> => y.cachePts = x.cachePts
  /\ y.stat = x.stat /\ y.file = x.file /\ y.segments = x.segments
  /\ y.firstCut = x.firstCut /\ y.cc = x.cc

\* flush2Cache stores the file and starts the next.
Moved(x, y) ==
  /\ x \in Writers /\ y \in Writers
  /\ y.segments = Append(x.segments, [units |-> x.file, duration |-> x.stat.last - x.stat.first])
  /\ y.file = <<>> /\ y.stat = NewStatus
  /\ y.cache = x.cache /\ y.cachePts = x.cachePts /\ y.firstCut = x.firstCut /\ y.cc = x.cc

\* What Written makes of a unit with the counter that is due.
LEMMA WrittenIs ==
  ASSUME NEW x \in Writers, NEW u \in Units, u.cc = x.cc[u.pid]
  PROVE  /\ Wrote(x, Written(x, u), u)
         /\ Written(x, u).cache = x.cache /\ Written(x, u).cachePts = x.cachePts
<1> DEFINE y == Written(x, u)
<1>1. u.pid \in Pids /\ u.packets \in Nat /\ x.file \in Seq(Units) /\ x.cc \in [Pids -> Int]
  BY DEF Writers, Units
<1>2. (x.cc[u.pid] + u.packets) % CcModulus \in Int
  BY <1>1 DEF CcModulus
<1>3. /\ y.file = Append(x.file, u)
      /\ y.cc = [x.cc EXCEPT ![u.pid] = (@ + u.packets) % CcModulus]
      /\ y.stat = x.stat /\ y.segments = x.segments /\ y.firstCut = x.firstCut
      /\ y.cache = x.cache /\ y.cachePts = x.cachePts
      /\ y.config = x.config /\ y.alignNum = x.alignNum /\ y.alignBase = x.alignBase
  BY DEF Written, Writers
<1>4. y.cc \in [Pids -> Int]
  BY <1>1, <1>2, <1>3
<1>5. y.file \in Seq(Units)
  BY <1>1, <1>3, AppendProperties
<1>6. y \in Writers
  BY <1>3, <1>4, <1>5 DEF Written, Writers
<1> QED BY <1>3, <1>6 DEF Wrote

\* A table.
LEMMA TableIs ==
  ASSUME NEW x \in Writers, NEW pid \in Tables
  PROVE  Tabled(x, Written(x, Table(x, pid)), Table(x, pid), pid)
<1> DEFINE u == Table(x, pid)
<1>1. pid \in Pids /\ x.cc \in [Pids -> Int] /\ <<>> \in Seq(Nat)
  BY DEF Writers, Pids
<1>2. u \in Units /\ u.cc = x.cc[u.pid] /\ u.pid = pid /\ u.frames = <<>> /\ u.whole
  BY <1>1 DEF Table, Units
<1> HIDE DEF u
<1> QED BY <1>2, WrittenIs DEF Tabled, u

\* A frame in its transport packets.
LEMMA PesIs ==
  ASSUME NEW x \in Writers, NEW track \in Tracks, NEW key \in BOOLEAN, NEW ids \in Seq(Nat),
         NEW pts \in Int, NEW total \in Nat \ {0}
  PROVE  IsPes(Pes(x, track, key, ids, pts, total), x, track, key, ids, pts, total)
<1> DEFINE layout == Mux!Layout(key, total)
<1>1. layout \in Seq(Laid) /\ (Mux!Reassembles(layout) <=> ~Spoilt(key, total))
  BY LayoutIs
<1>2. Len(layout) \in Nat /\ Mux!Reassembles(layout) \in BOOLEAN
  BY <1>1 DEF Mux!Reassembles
<1>3. Pes(x, track, key, ids, pts, total) = [pid |-> track, packets |-> Len(layout), frames |-> ids, pts |-> pts,
           whole |-> Mux!Reassembles(layout), cc |-> x.cc[track]]
  BY DEF Pes
<1> HIDE DEF layout
<1>4. track \in Pids /\ x.cc[track] \in Int
  BY DEF Pids, Writers
<1> QED BY <1>1, <1>2, <1>3, <1>4 DEF Units, IsPes

\* A video frame.
LEMMA MuxVideoIs ==
  ASSUME ShapeFits, NEW x \in Writers, NEW id \in Nat, NEW t \in Int, NEW key \in BOOLEAN
  PROVE  \E u : Filmed(x, MuxVideo(x, id, t, key), u, id, key)
<1> DEFINE total == shape.size + Mux!PesHeader(shape.hasDts)
           ids == <<id>>
           pts == t * Hz
           u == Pes(x, "video", key, ids, pts, total)
<1>1. total \in Nat \ {0} /\ ids \in Seq(Nat) /\ pts \in Int /\ "video" \in Tracks
  BY DEF ShapeFits, Mux!PesHeader, Hz, Tracks
<1> HIDE DEF total, ids, pts
<1>5. IsPes(u, x, "video", key, ids, pts, total)
  BY <1>1, PesIs
<1> HIDE DEF u
<1>2. /\ u \in Units /\ u.cc = x.cc[u.pid] /\ u.pid = "video" /\ u.frames = <<id>>
      /\ u.whole <=> ~Spoilt(key, total)
  BY <1>5 DEF IsPes, ids
<1>3. MuxVideo(x, id, t, key) = Written(x, u)
  BY DEF MuxVideo, total, u, ids, pts
<1>4. Filmed(x, Written(x, u), u, id, key)
  BY <1>2, WrittenIs DEF Filmed, total
<1> QED BY <1>3, <1>4

\* A group of audio frames, or none.
LEMMA MuxAudioIs ==
  ASSUME ShapeFits, NEW x \in Writers, NEW limit \in Nat \ {0}
  PROVE  \/ Len(x.cache) < limit /\ MuxAudio(x, limit) = x
         \/ Len(x.cache) >= limit /\ \E u : Grouped(x, MuxAudio(x, limit), u)
<1>1. x.cache \in Seq(Nat) /\ x.cachePts \in Int
  BY DEF Writers
<1>2. CASE Len(x.cache) < limit
  BY <1>2 DEF MuxAudio
<1>3. CASE ~(Len(x.cache) < limit)
  <2> DEFINE z == [x EXCEPT !.cache = <<>>]
             total == Len(x.cache) * shape.size + Mux!PesHeader(FALSE)
             ids == x.cache
             pts == (x.cachePts \div Hz) * Hz
             u == Pes(x, "audio", FALSE, ids, pts, total)
  <2>1. total \in Nat \ {0}
    <3>1. Len(x.cache) \in Nat /\ shape.size \in Nat
      BY <1>1 DEF ShapeFits
    <3>2. Len(x.cache) * shape.size \in Nat
      BY <3>1
    <3> QED BY <3>2 DEF Mux!PesHeader
  <2>2. ids \in Seq(Nat) /\ pts \in Int /\ "audio" \in Tracks /\ FALSE \in BOOLEAN
    BY <1>1 DEF Hz, Tracks
  <2> HIDE DEF total, ids, pts
  <2>0. IsPes(u, x, "audio", FALSE, ids, pts, total)
    BY <2>1, <2>2, PesIs
  <2> HIDE DEF u
  <2>3. /\ u \in Units /\ u.cc = x.cc[u.pid] /\ u.pid = "audio" /\ u.frames = x.cache
        /\ u.pts = (x.cachePts \div Hz) * Hz
        /\ u.whole <=> ~Spoilt(FALSE, total)
    BY <2>0 DEF IsPes, ids, pts
  <2>4. u.whole
    BY <2>3 DEF Spoilt
  <2>5. MuxAudio(x, limit) = Written(z, u)
    BY <1>3 DEF MuxAudio, AudioGroup, total, u, ids, pts
  <2>6. /\ z \in Writers /\ z.cache = <<>> /\ z.file = x.file /\ z.cc = x.cc /\ z.stat = x.stat
        /\ z.segments = x.segments /\ z.firstCut = x.firstCut
    <3>1. <<>> \in Seq(Nat)
      OBVIOUS
    <3> QED BY <3>1 DEF Writers
  <2> HIDE DEF z
  <2>7. Wrote(z, Written(z, u), u) /\ Written(z, u).cache = z.cache
    BY <2>3, <2>6, WrittenIs
  <2>8. x.cache # <<>> /\ Len(x.cache) >= limit
    BY <1>1, <1>3, EmptySeq
  <2>9. Grouped(x, Written(z, u), u)
    BY <2>3, <2>4, <2>6, <2>7, <2>8 DEF Grouped, Wrote
  <2> QED BY <2>5, <2>8, <2>9
<1> QED BY <1>2, <1>3

\* The status.
LEMMA StatUpdateIs ==
  ASSUME NEW x \in Writers, NEW t \in Int
  PROVE  Counted(x, StatUpdate(x, t), t)
BY DEF Counted, StatUpdate, Writers, Stats

\* The cache of audio frames.
LEMMA CacheAudioIs ==
  ASSUME NEW x \in Writers, NEW id \in Nat, NEW t \in Int
  PROVE  \E y : Stashed(x, y, id, t) /\ CacheAudio(x, id, t) = MuxAudio(y, CacheMaxFrames)
<1> DEFINE a == Aligned(x, t * Hz)
           y == [a.x EXCEPT !.cache = Append(@, id),
                            !.cachePts = IF x.cache = <<>> THEN a.to ELSE @]
           est == x.alignBase + x.alignNum * Inc
<1>1. /\ t * Hz \in Int /\ est \in Int /\ x.alignNum + 1 \in Int /\ x.cache \in Seq(Nat)
  BY Bounds DEF Writers, Hz
<1> HIDE DEF est
<1>2. /\ a.x \in Writers /\ a.x.cache = x.cache /\ a.x.cachePts = x.cachePts /\ a.x.stat = x.stat
      /\ a.x.file = x.file /\ a.x.segments = x.segments /\ a.x.firstCut = x.firstCut /\ a.x.cc = x.cc
      /\ a.to \in Int /\ a.to - t * Hz \in -(SyncMs * Hz) .. SyncMs * Hz
  <2>1. CASE Near(est, t * Hz)
    <3>1. a = [to |-> est, x |-> [x EXCEPT !.alignNum = @ + 1]]
      BY <2>1 DEF Aligned, est
    <3>2. [x EXCEPT !.alignNum = @ + 1] \in Writers
      BY <1>1 DEF Writers
    <3>3. est - t * Hz \in -(SyncMs * Hz) .. SyncMs * Hz
      BY <1>1, <2>1 DEF Near, SyncMs, Hz
    <3> HIDE DEF a
    <3> QED BY <1>1, <3>1, <3>2, <3>3 DEF Writers
  <2>2. CASE ~Near(est, t * Hz)
    <3>1. a = [to |-> t * Hz, x |-> [x EXCEPT !.alignNum = 1, !.alignBase = t * Hz]]
      BY <2>2 DEF Aligned, est
    <3>2. [x EXCEPT !.alignNum = 1, !.alignBase = t * Hz] \in Writers
      <4> DEFINE base == t * Hz
      <4>1. base \in Int /\ 1 \in Int
        BY <1>1
      <4> HIDE DEF base
      <4>2. [x EXCEPT !.alignNum = 1, !.alignBase = base] \in Writers
        <5> DEFINE z == [x EXCEPT !.alignNum = 1]
        <5>1. z \in Writers
          BY <4>1 DEF Writers
        <5> HIDE DEF z
        <5>2. [z EXCEPT !.alignBase = base] \in Writers
          BY <4>1, <5>1 DEF Writers
        <5> QED BY <5>2 DEF z
      <4> QED BY <4>2 DEF base
    <3>3. t * Hz - t * Hz \in -(SyncMs * Hz) .. SyncMs * Hz
      BY <1>1 DEF SyncMs, Hz
    <3> HIDE DEF a
    <3> QED BY <1>1, <3>1, <3>2, <3>3 DEF Writers
  <2> QED BY <2>1, <2>2
<1> HIDE DEF a
<1>3. Append(x.cache, id) \in Seq(Nat)
  BY <1>1, AppendProperties
<1>4. /\ y.cache = Append(x.cache, id)
      /\ y.cachePts = IF x.cache = <<>> THEN a.to ELSE x.cachePts
      /\ y.stat = x.stat /\ y.file = x.file /\ y.segments = x.segments
      /\ y.firstCut = x.firstCut /\ y.cc = x.cc /\ y \in Writers
  BY <1>2, <1>3 DEF Writers
<1>5. CacheAudio(x, id, t) = MuxAudio(y, CacheMaxFrames)
  BY DEF CacheAudio, a
<1> HIDE DEF y
<1>6. Stashed(x, y, id, t)
  BY <1>2, <1>4 DEF Stashed
<1> QED BY <1>5, <1>6

-----------------------------------------------------------------------------
(* The units of all segments and of the file, one after the other.           *)

Sources(x) == [k \in DOMAIN x.segments |-> x.segments[k].units]
AllOf(x) == FlattenSeq(Sources(x)) \o x.file

\* Sequences put one after the other are a sequence.
LEMMA FlattenType ==
  ASSUME NEW S, NEW W \in Seq(Seq(S))
  PROVE  FlattenSeq(W) \in Seq(S)
<1> DEFINE V == Append(W, <<>>)
<1>1. <<>> \in Seq(S)
  OBVIOUS
<1>2. V \in Seq(Seq(S)) /\ Len(V) = Len(W) + 1 /\ \A i \in 1 .. Len(W) : V[i] = W[i]
  BY <1>1, AppendProperties
<1>3. Len(W) \in Nat
  OBVIOUS
<1> HIDE DEF V
<1> QED BY <1>2, <1>3, FlattenMore

\* The stored segments' units are sequences of units.
LEMMA SourcesType ==
  ASSUME NEW x \in Writers
  PROVE  /\ Sources(x) \in Seq(Seq(Units)) /\ Len(Sources(x)) = Len(x.segments)
         /\ FlattenSeq(Sources(x)) \in Seq(Units) /\ x.file \in Seq(Units)
         /\ AllOf(x) \in Seq(Units)
<1>1. x.segments \in Seq(Stored) /\ x.file \in Seq(Units)
  BY DEF Writers
<1>2. \A k \in 1 .. Len(x.segments) : x.segments[k].units \in Seq(Units)
  <2>1. \A k \in 1 .. Len(x.segments) : x.segments[k] \in Stored
    BY <1>1, ElementOfSeq
  <2> QED BY <2>1 DEF Stored
<1>3. Sources(x) = [k \in 1 .. Len(x.segments) |-> x.segments[k].units]
  BY <1>1 DEF Sources
<1>4. Sources(x) \in Seq(Seq(Units)) /\ Len(Sources(x)) = Len(x.segments)
  BY <1>1, <1>2, <1>3
<1>5. FlattenSeq(Sources(x)) \in Seq(Units)
  BY <1>4, FlattenType
<1> QED BY <1>1, <1>4, <1>5, ConcatProperties DEF AllOf

\* Appending to the second of two sequences.
LEMMA ConcatAppend ==
  ASSUME NEW S, NEW s \in Seq(S), NEW t \in Seq(S), NEW e \in S
  PROVE  s \o Append(t, e) = Append(s \o t, e)
<1>1. s \o t \in Seq(S) /\ <<e>> \in Seq(S)
  BY ConcatProperties
<1>2. Append(t, e) = t \o <<e>> /\ Append(s \o t, e) = (s \o t) \o <<e>>
  BY <1>1, AppendIsConcat
<1>3. (s \o t) \o <<e>> = s \o (t \o <<e>>)
  BY <1>1, ConcatAssociative
<1> QED BY <1>2, <1>3

\* A unit written comes behind them all.
LEMMA AllWrote ==
  ASSUME NEW x, NEW y, NEW u, Wrote(x, y, u)
  PROVE  AllOf(x) \in Seq(Units) /\ u \in Units /\ AllOf(y) = Append(AllOf(x), u)
<1> DEFINE F == FlattenSeq(Sources(x))
<1>1. x \in Writers /\ u \in Units /\ y.file = Append(x.file, u) /\ Sources(y) = Sources(x)
  BY DEF Wrote, Sources
<1>2. F \in Seq(Units) /\ x.file \in Seq(Units) /\ AllOf(x) \in Seq(Units)
  BY <1>1, SourcesType
<1>3. AllOf(y) = F \o Append(x.file, u) /\ AllOf(x) = F \o x.file
  BY <1>1 DEF AllOf
<1> HIDE DEF F
<1>4. F \o Append(x.file, u) = Append(F \o x.file, u)
  BY <1>1, <1>2, ConcatAppend
<1> QED BY <1>1, <1>2, <1>3, <1>4

\* A file stored leaves them as they are.
LEMMA AllMoved ==
  ASSUME NEW x, NEW y, Moved(x, y)
  PROVE  AllOf(y) = AllOf(x)
<1> DEFINE F == FlattenSeq(Sources(x))
           s == [units |-> x.file, duration |-> x.stat.last - x.stat.first]
           n == Len(x.segments)
<1>1. x \in Writers /\ y \in Writers /\ y.segments = Append(x.segments, s) /\ y.file = <<>>
  BY DEF Moved
<1>2. /\ Sources(x) \in Seq(Seq(Units)) /\ Len(Sources(x)) = n /\ x.file \in Seq(Units)
      /\ F \in Seq(Units)
  BY <1>1, SourcesType
<1>3. Sources(y) \in Seq(Seq(Units)) /\ Len(Sources(y)) = Len(y.segments)
  BY <1>1, SourcesType
<1>4. n \in Nat /\ x.segments \in Seq(Stored) /\ s.units = x.file
  BY <1>1 DEF Writers
<1>5. s \in Stored
  <2>1. x.stat.last \in Int /\ x.stat.first \in Int
    BY <1>1 DEF Writers, Stats
  <2> QED BY <1>2, <2>1 DEF Stored
<1> HIDE DEF s
<1>6. /\ Len(y.segments) = n + 1 /\ y.segments[n + 1] = s
      /\ \A k \in 1 .. n : y.segments[k] = x.segments[k]
  BY <1>1, <1>4, <1>5, AppendProperties
<1>7. DOMAIN y.segments = 1 .. n + 1 /\ DOMAIN x.segments = 1 .. n
  BY <1>1, <1>4, <1>6 DEF Writers
<1> HIDE DEF n
<1>8. /\ \A k \in 1 .. n : Sources(y)[k] = Sources(x)[k]
      /\ Sources(y)[n + 1] = x.file
  <2>1. n + 1 \in 1 .. n + 1 /\ \A k \in 1 .. n : k \in 1 .. n + 1
    BY <1>4
  <2> QED BY <1>4, <1>6, <1>7, <2>1 DEF Sources
<1>9. FlattenSeq(Sources(y)) = F \o Sources(y)[n + 1]
  <2> DEFINE W == Sources(x)
             V == Sources(y)
  <2>1. /\ W \in Seq(Seq(Units)) /\ V \in Seq(Seq(Units)) /\ n \in Nat /\ Len(W) = n
        /\ Len(V) = n + 1 /\ \A i \in 1 .. n : V[i] = W[i]
    BY <1>2, <1>3, <1>4, <1>6, <1>8
  <2> HIDE DEF W, V, F
  <2>2. FlattenSeq(V) = FlattenSeq(W) \o V[n + 1]
    BY <2>1, FlattenMore
  <2> QED BY <2>2 DEF V, W, F
<1>10. AllOf(y) = (F \o x.file) \o <<>>
  BY <1>1, <1>8, <1>9 DEF AllOf
<1>11. F \o x.file \in Seq(Units)
  BY <1>2, ConcatProperties
<1>12. (F \o x.file) \o <<>> = F \o x.file
  BY <1>11, ConcatEmptySeq
<1> QED BY <1>10, <1>12 DEF AllOf

-----------------------------------------------------------------------------
(* Counters, frames that reassemble and stamps.                              *)

\* The counters of the units run on, and cc has the next of each.
Continues(s, cc) ==
  /\ \A i, j \in DOMAIN s :
       i < j /\ s[i].pid = s[j].pid /\ (\A m \in i + 1 .. j - 1 : s[m].pid # s[i].pid)
         => s[j].cc = (s[i].cc + s[i].packets) % CcModulus
  /\ \A i \in DOMAIN s :
       (\A m \in i + 1 .. Len(s) : s[m].pid # s[i].pid)
         => cc[s[i].pid] = (s[i].cc + s[i].packets) % CcModulus

\* A unit with the counter that is due lets them run on.
LEMMA ContinuesMore ==
  ASSUME NEW s \in Seq(Units), NEW u \in Units, NEW cc \in [Pids -> Int], u.cc = cc[u.pid],
         Continues(s, cc)
  PROVE  Continues(Append(s, u), [cc EXCEPT ![u.pid] = (@ + u.packets) % CcModulus])
<1> DEFINE v == Append(s, u)
           n == Len(s)
           d == [cc EXCEPT ![u.pid] = (@ + u.packets) % CcModulus]
<1>1. /\ n \in Nat /\ Len(v) = n + 1 /\ DOMAIN v = 1 .. n + 1 /\ DOMAIN s = 1 .. n
      /\ v[n + 1] = u /\ \A i \in 1 .. n : v[i] = s[i]
  BY AppendProperties
<1>2. /\ \A i \in 1 .. n : s[i].pid \in Pids
      /\ u.pid \in Pids
  BY <1>1, ElementOfSeq DEF Units
<1>3. d[u.pid] = (u.cc + u.packets) % CcModulus /\ \A p \in Pids : p # u.pid => d[p] = cc[p]
  BY <1>2
<1> HIDE DEF v, d, n
<1>4. ASSUME NEW i \in 1 .. n + 1, NEW j \in 1 .. n + 1, i < j, v[i].pid = v[j].pid,
             \A m \in i + 1 .. j - 1 : v[m].pid # v[i].pid
      PROVE  v[j].cc = (v[i].cc + v[i].packets) % CcModulus
  <2>1. i \in 1 .. n /\ v[i] = s[i]
    BY <1>1, <1>4
  <2>2. \A m \in i + 1 .. j - 1 : s[m].pid # s[i].pid
    <3>1. \A m \in i + 1 .. j - 1 : m \in 1 .. n
      BY <1>1, <2>1
    <3> QED BY <1>1, <1>4, <2>1, <3>1
  <2>3. CASE j = n + 1
    <3>1. \A m \in i + 1 .. Len(s) : s[m].pid # s[i].pid
      BY <1>1, <2>2, <2>3 DEF n
    <3>2. cc[s[i].pid] = (s[i].cc + s[i].packets) % CcModulus
      BY <1>1, <2>1, <3>1 DEF Continues
    <3> QED BY <1>1, <1>4, <2>1, <2>3, <3>2
  <2>4. CASE j # n + 1
    <3>1. j \in 1 .. n /\ v[j] = s[j]
      BY <1>1, <2>4
    <3>2. i \in DOMAIN s /\ j \in DOMAIN s /\ i < j /\ s[i].pid = s[j].pid
      BY <1>1, <1>4, <2>1, <3>1
    <3>3. s[j].cc = (s[i].cc + s[i].packets) % CcModulus
      BY <2>2, <3>2 DEF Continues
    <3> QED BY <2>1, <3>1, <3>3
  <2> QED BY <2>3, <2>4
<1>5. ASSUME NEW i \in 1 .. n + 1, \A m \in i + 1 .. n + 1 : v[m].pid # v[i].pid
      PROVE  d[v[i].pid] = (v[i].cc + v[i].packets) % CcModulus
  <2>1. CASE i = n + 1
    BY <1>1, <1>3, <2>1
  <2>2. CASE i # n + 1
    <3>1. i \in 1 .. n /\ v[i] = s[i] /\ n + 1 \in i + 1 .. n + 1
      BY <1>1, <2>2
    <3>2. s[i].pid # u.pid /\ s[i].pid \in Pids
      BY <1>1, <1>2, <1>5, <3>1
    <3>3. \A m \in i + 1 .. Len(s) : s[m].pid # s[i].pid
      <4>1. \A m \in i + 1 .. Len(s) : m \in i + 1 .. n + 1 /\ m \in 1 .. n
        BY <1>1, <3>1 DEF n
      <4> QED BY <1>1, <1>5, <3>1, <4>1
    <3>4. cc[s[i].pid] = (s[i].cc + s[i].packets) % CcModulus
      BY <1>1, <3>1, <3>3 DEF Continues
    <3> QED BY <1>3, <3>1, <3>2, <3>4
  <2> QED BY <2>1, <2>2
<1>6. Continues(v, d)
  BY <1>1, <1>4, <1>5 DEF Continues
<1> QED BY <1>6 DEF v, d

-----------------------------------------------------------------------------
(* The inductive invariant: x is the writer, fs the frames accepted.          *)

Frame == [kind : Kinds, time : Int]
FramesFit(fs) == fs \in Seq(Frame)
Typed ==
  /\ ShapeFits /\ time \in Int /\ FramesFit(frames) /\ w \in Writers /\ gone \in BOOLEAN

\* A group is early by what aligning and rounding may take.
Stamp(id, pts, early, fs) ==
  id \in DOMAIN fs /\ pts - fs[id].time * Hz \in -(early * Hz) .. SyncMs * Hz

\* What reassembles, and what a group is stamped with.
UnitFits(u, fs) ==
  \/ u.pid \in Tables /\ u.whole
  \/ /\ u.pid = "video" /\ u.frames[1] \in DOMAIN fs
     /\ u.whole <=> ~Spoilt(fs[u.frames[1]].kind = "key", shape.size + Mux!PesHeader(shape.hasDts))
  \/ u.pid = "audio" /\ u.whole /\ Stamp(u.frames[1], u.pts, SyncMs + 1, fs)
Fits(units, fs) == \A i \in DOMAIN units : UnitFits(units[i], fs)
FitsAll(x, fs) ==
  /\ Fits(x.file, fs) /\ Fits(AllOf(x), fs)
  /\ \A k \in DOMAIN x.segments : Fits(x.segments[k].units, fs)
Pending(x, fs) == x.cache # <<>> => Stamp(x.cache[1], x.cachePts, SyncMs, fs)

\* Where a player can start.
KeyUnit(u, fs) == u.pid = "video" /\ fs[u.frames[1]].kind = "key"
TablesFirst(units, fs) ==
  \E i \in DOMAIN units :
     /\ i + 1 \in DOMAIN units /\ units[i].pid = "pat" /\ units[i + 1].pid = "pmt"
     /\ \A j \in DOMAIN units : KeyUnit(units[j], fs) => i < j
Begun(units, fs) ==
  /\ Len(units) >= 2 /\ units[1].pid = "pat" /\ units[2].pid = "pmt"
  /\ Len(units) > 2 => KeyUnit(units[3], fs)
Begins(x, fs) ==
  /\ ~x.firstCut => x.segments = <<>> /\ \A i \in DOMAIN x.file : ~KeyUnit(x.file[i], fs)
  /\ x.firstCut => TablesFirst(x.file, fs)
  /\ x.segments # <<>> => Begun(x.file, fs)
  /\ \A k \in DOMAIN x.segments :
       TablesFirst(x.segments[k].units, fs) /\ (k > 1 => Begun(x.segments[k].units, fs))
Ready(x) == x.segments # <<>> => Len(x.file) > 2

\* The frames from a to b: what status says of them, and its key frames.
StatOf(fs, a, b) ==
  IF a <= b THEN [set |-> TRUE, first |-> fs[a].time, last |-> fs[b].time] ELSE NewStatus
KeysEarly(fs, a, b) ==
  \A i \in a + 1 .. b : fs[i].kind = "key" =>
    \/ fs[i - 1].time - fs[a].time < Duration
    \/ \A j \in DOMAIN fs : fs[j].kind = "key" => i <= j

\* The file and the cache hold the frames from lo to n, a segment some before.
Held(x) == Ids(x.file) \cup ToSet(x.cache)
Counts(x, fs, n, lo) ==
  /\ lo \in 1 .. n + 1 /\ Held(x) = lo .. n
  /\ x.stat = StatOf(fs, lo, n) /\ KeysEarly(fs, lo, n)
Honest(s, fs) ==
  \E b \in 0 .. Len(fs) : \E a \in 1 .. b + 1 :
     /\ Ids(s.units) = a .. b /\ KeysEarly(fs, a, b)
     /\ s.duration = StatOf(fs, a, b).last - StatOf(fs, a, b).first
AllHonest(x, fs) == \A k \in DOMAIN x.segments : Honest(x.segments[k], fs)
LongEnough(x, over) ==
  \A k \in DOMAIN x.segments :
     k < Len(x.segments) \/ ~over => x.segments[k].duration >= Duration
NoKeyYet(x, fs) == ~x.firstCut => \A i \in DOMAIN fs : fs[i].kind # "key"

IInv ==
  /\ Typed
  /\ FitsAll(w, frames) /\ Pending(w, frames)
  /\ Continues(AllOf(w), w.cc)
  /\ Begins(w, frames) /\ (~gone => Ready(w))
  /\ \E lo \in 1 .. Len(frames) + 1 : Counts(w, frames, Len(frames), lo)
  /\ AllHonest(w, frames) /\ LongEnough(w, gone) /\ NoKeyYet(w, frames)

\* fs has one frame more in gs.
Accepted(fs, gs, f) ==
  /\ fs \in Seq(Frame) /\ gs \in Seq(Frame) /\ f \in Frame /\ Len(gs) = Len(fs) + 1
  /\ gs[Len(fs) + 1] = f /\ \A i \in 1 .. Len(fs) : gs[i] = fs[i]

-----------------------------------------------------------------------------
(* Units and stamps.                                                         *)

\* A unit more that fits.
LEMMA FitsMore ==
  ASSUME NEW fs, NEW s \in Seq(Units), NEW u \in Units, Fits(s, fs), UnitFits(u, fs)
  PROVE  Fits(Append(s, u), fs)
<1> DEFINE v == Append(s, u)
<1>1. /\ DOMAIN v = 1 .. Len(s) + 1 /\ DOMAIN s = 1 .. Len(s) /\ Len(s) \in Nat
      /\ v[Len(s) + 1] = u /\ \A i \in 1 .. Len(s) : v[i] = s[i]
  BY AppendProperties
<1> HIDE DEF v
<1>2. ASSUME NEW i \in DOMAIN v PROVE UnitFits(v[i], fs)
  <2>1. CASE i = Len(s) + 1
    BY <1>1, <2>1
  <2>2. CASE i # Len(s) + 1
    <3>1. i \in DOMAIN s /\ v[i] = s[i]
      BY <1>1, <2>2
    <3> QED BY <3>1 DEF Fits
  <2> QED BY <2>1, <2>2
<1> QED BY <1>2 DEF Fits, v

\* It is written.
LEMMA FitsWrote ==
  ASSUME NEW x, NEW y, NEW u, NEW fs, Wrote(x, y, u), FitsAll(x, fs), UnitFits(u, fs)
  PROVE  FitsAll(y, fs)
<1>1. AllOf(x) \in Seq(Units) /\ u \in Units /\ AllOf(y) = Append(AllOf(x), u)
  BY AllWrote
<1>2. x.file \in Seq(Units) /\ y.file = Append(x.file, u) /\ y.segments = x.segments
  BY DEF Wrote, Writers
<1>3. Fits(AllOf(y), fs)
  BY <1>1, FitsMore DEF FitsAll
<1>4. Fits(y.file, fs)
  BY <1>1, <1>2, FitsMore DEF FitsAll
<1> QED BY <1>2, <1>3, <1>4 DEF FitsAll

\* The segment that is stored.
LEMMA MovedSegments ==
  ASSUME NEW x, NEW y, Moved(x, y)
  PROVE  /\ x.segments \in Seq(Stored) /\ y.segments \in Seq(Stored)
         /\ Len(x.segments) \in Nat /\ Len(y.segments) = Len(x.segments) + 1
         /\ DOMAIN x.segments = 1 .. Len(x.segments)
         /\ DOMAIN y.segments = 1 .. Len(x.segments) + 1
         /\ y.segments[Len(x.segments) + 1].units = x.file
         /\ y.segments[Len(x.segments) + 1].duration = x.stat.last - x.stat.first
         /\ \A k \in 1 .. Len(x.segments) : y.segments[k] = x.segments[k]
<1> DEFINE s == [units |-> x.file, duration |-> x.stat.last - x.stat.first]
<1>1. x \in Writers /\ y \in Writers /\ y.segments = Append(x.segments, s)
  BY DEF Moved
<1>2. x.segments \in Seq(Stored) /\ y.segments \in Seq(Stored) /\ s \in Stored
  <2>1. x.stat.last \in Int /\ x.stat.first \in Int /\ x.file \in Seq(Units)
    BY <1>1 DEF Writers, Stats
  <2> QED BY <1>1, <2>1 DEF Stored, Writers
<1>3. s.units = x.file /\ s.duration = x.stat.last - x.stat.first
  OBVIOUS
<1> HIDE DEF s
<1>4. /\ Len(y.segments) = Len(x.segments) + 1 /\ y.segments[Len(x.segments) + 1] = s
      /\ \A k \in 1 .. Len(x.segments) : y.segments[k] = x.segments[k]
  BY <1>1, <1>2, AppendProperties
<1> QED BY <1>2, <1>3, <1>4

\* What the file's units fit, the segment's do.
LEMMA FitsMoved ==
  ASSUME NEW x, NEW y, NEW fs, Moved(x, y), FitsAll(x, fs)
  PROVE  FitsAll(y, fs)
<1> DEFINE n == Len(x.segments)
<1>1. /\ n \in Nat /\ DOMAIN x.segments = 1 .. n /\ DOMAIN y.segments = 1 .. n + 1
      /\ y.segments[n + 1].units = x.file /\ \A k \in 1 .. n : y.segments[k] = x.segments[k]
  BY MovedSegments
<1>2. y.file = <<>> /\ AllOf(y) = AllOf(x)
  BY AllMoved DEF Moved
<1> HIDE DEF n
<1>3. ASSUME NEW k \in DOMAIN y.segments PROVE Fits(y.segments[k].units, fs)
  <2>1. CASE k = n + 1
    BY <1>1, <2>1 DEF FitsAll
  <2>2. CASE k # n + 1
    <3>1. k \in DOMAIN x.segments /\ y.segments[k] = x.segments[k]
      BY <1>1, <2>2
    <3> QED BY <3>1 DEF FitsAll
  <2> QED BY <2>1, <2>2
<1>4. Fits(y.file, fs)
  BY <1>2 DEF Fits
<1> QED BY <1>2, <1>3, <1>4 DEF FitsAll

\* What fits, fits with a frame more.
LEMMA FitsGrows ==
  ASSUME NEW x, NEW fs, NEW gs, NEW f, Accepted(fs, gs, f), FitsAll(x, fs), Pending(x, fs)
  PROVE  FitsAll(x, gs) /\ Pending(x, gs)
<1>1. \A i \in DOMAIN fs : i \in DOMAIN gs /\ gs[i] = fs[i]
  BY DEF Accepted
<1>2. \A id, pts, early : Stamp(id, pts, early, fs) => Stamp(id, pts, early, gs)
  BY <1>1 DEF Stamp
<1>3. ASSUME NEW u, UnitFits(u, fs) PROVE UnitFits(u, gs)
  <2>1. CASE u.pid \in Tables /\ u.whole
    BY <2>1 DEF UnitFits
  <2>2. CASE u.pid = "video" /\ u.frames[1] \in DOMAIN fs
             /\ (u.whole <=> ~Spoilt(fs[u.frames[1]].kind = "key", shape.size + Mux!PesHeader(shape.hasDts)))
    BY <1>1, <2>2 DEF UnitFits
  <2>3. CASE u.pid = "audio" /\ u.whole /\ Stamp(u.frames[1], u.pts, SyncMs + 1, fs)
    BY <1>2, <2>3 DEF UnitFits
  <2> QED BY <1>3, <2>1, <2>2, <2>3 DEF UnitFits
<1>4. \A units : Fits(units, fs) => Fits(units, gs)
  BY <1>3 DEF Fits
<1> QED BY <1>2, <1>4 DEF FitsAll, Pending

\* Counters run on when a unit is written or a file stored.
LEMMA ContinuesWrote ==
  ASSUME NEW x, NEW y, NEW u, Wrote(x, y, u), Continues(AllOf(x), x.cc)
  PROVE  Continues(AllOf(y), y.cc)
<1>1. AllOf(x) \in Seq(Units) /\ u \in Units /\ AllOf(y) = Append(AllOf(x), u)
  BY AllWrote
<1>2. x.cc \in [Pids -> Int] /\ u.cc = x.cc[u.pid]
      /\ y.cc = [x.cc EXCEPT ![u.pid] = (@ + u.packets) % CcModulus]
  BY DEF Wrote, Writers
<1> QED BY <1>1, <1>2, ContinuesMore

\* The group's stamp is its first frame's, in milliseconds.
LEMMA GroupFits ==
  ASSUME NEW x, NEW y, NEW u, NEW fs, FramesFit(fs), Grouped(x, y, u), Pending(x, fs)
  PROVE  UnitFits(u, fs)
<1> DEFINE id == x.cache[1]
           pts == x.cachePts
           at == fs[id].time
<1>1. /\ u.pid = "audio" /\ u.whole /\ u.frames[1] = id /\ u.pts = (pts \div Hz) * Hz
      /\ pts \in Int /\ Stamp(id, pts, SyncMs, fs)
  BY DEF Grouped, Wrote, Writers, Pending
<1>2. id \in DOMAIN fs /\ at \in Int /\ pts - at * Hz \in -(SyncMs * Hz) .. SyncMs * Hz
  <2>1. id \in DOMAIN fs /\ pts - at * Hz \in -(SyncMs * Hz) .. SyncMs * Hz
    BY <1>1 DEF Stamp
  <2>2. fs[id] \in Frame
    BY <2>1, ElementOfSeq DEF FramesFit
  <2> QED BY <2>1, <2>2 DEF Frame
<1> HIDE DEF pts, at
<1>3. (pts \div Hz) * Hz - at * Hz \in -((SyncMs + 1) * Hz) .. SyncMs * Hz
  BY <1>1, <1>2 DEF SyncMs, Hz
<1> QED BY <1>1, <1>2, <1>3 DEF UnitFits, Stamp, at

-----------------------------------------------------------------------------
(* Where segments begin.                                                     *)

\* What Append makes of a sequence of units.
LEMMA UnitsMore ==
  ASSUME NEW s \in Seq(Units), NEW u \in Units
  PROVE  /\ Append(s, u) \in Seq(Units)
         /\ DOMAIN Append(s, u) = 1 .. Len(s) + 1 /\ DOMAIN s = 1 .. Len(s) /\ Len(s) \in Nat
         /\ Len(Append(s, u)) = Len(s) + 1
         /\ Append(s, u)[Len(s) + 1] = u /\ \A i \in 1 .. Len(s) : Append(s, u)[i] = s[i]
BY AppendProperties

\* A unit more comes behind the tables.
LEMMA TablesFirstMore ==
  ASSUME NEW fs, NEW s \in Seq(Units), NEW u \in Units, TablesFirst(s, fs)
  PROVE  TablesFirst(Append(s, u), fs)
<1> DEFINE v == Append(s, u)
           n == Len(s)
<1>1. /\ DOMAIN v = 1 .. n + 1 /\ DOMAIN s = 1 .. n /\ n \in Nat
      /\ v[n + 1] = u /\ \A i \in 1 .. n : v[i] = s[i]
  BY UnitsMore
<1>2. PICK i \in DOMAIN s :
        /\ i + 1 \in DOMAIN s /\ s[i].pid = "pat" /\ s[i + 1].pid = "pmt"
        /\ \A j \in DOMAIN s : KeyUnit(s[j], fs) => i < j
  BY DEF TablesFirst
<1> HIDE DEF v, n
<1>3. i \in DOMAIN v /\ i + 1 \in DOMAIN v /\ v[i].pid = "pat" /\ v[i + 1].pid = "pmt"
  BY <1>1, <1>2
<1>4. ASSUME NEW j \in DOMAIN v, KeyUnit(v[j], fs) PROVE i < j
  <2>1. CASE j = n + 1
    BY <1>1, <1>2, <2>1
  <2>2. CASE j # n + 1
    <3>1. j \in DOMAIN s /\ v[j] = s[j]
      BY <1>1, <2>2
    <3> QED BY <1>2, <1>4, <3>1
  <2> QED BY <2>1, <2>2
<1> QED BY <1>3, <1>4 DEF TablesFirst, v

\* The tables behind units that are no key frames.
LEMMA TwoTables ==
  ASSUME NEW fs, NEW s \in Seq(Units), NEW u \in Units, NEW v \in Units, u.pid = "pat",
         v.pid = "pmt", \A i \in DOMAIN s : ~KeyUnit(s[i], fs)
  PROVE  TablesFirst(Append(Append(s, u), v), fs)
<1> DEFINE a == Append(s, u)
           b == Append(a, v)
           n == Len(s)
<1>1. /\ a \in Seq(Units) /\ DOMAIN a = 1 .. n + 1 /\ DOMAIN s = 1 .. n /\ n \in Nat
      /\ Len(a) = n + 1 /\ a[n + 1] = u /\ \A i \in 1 .. n : a[i] = s[i]
  BY UnitsMore
<1> HIDE DEF a
<1>2. /\ DOMAIN b = 1 .. Len(a) + 1 /\ b[Len(a) + 1] = v /\ \A i \in 1 .. Len(a) : b[i] = a[i]
  BY <1>1, UnitsMore
<1> HIDE DEF b, n
<1>3. DOMAIN b = 1 .. n + 2 /\ b[n + 2] = v /\ b[n + 1] = u /\ \A i \in 1 .. n : b[i] = s[i]
  BY <1>1, <1>2
<1>4. ~KeyUnit(u, fs) /\ ~KeyUnit(v, fs)
  BY DEF KeyUnit
<1>5. ASSUME NEW j \in DOMAIN b, KeyUnit(b[j], fs) PROVE n + 1 < j
  <2>1. j \in 1 .. n \/ j = n + 1 \/ j = n + 2
    BY <1>1, <1>3
  <2>2. j \notin 1 .. n
    BY <1>1, <1>3, <1>5
  <2> QED BY <1>1, <1>3, <1>4, <1>5, <2>1, <2>2
<1>6. n + 1 \in DOMAIN b /\ n + 1 + 1 \in DOMAIN b /\ n + 1 + 1 = n + 2
  BY <1>1, <1>3
<1>7. TablesFirst(b, fs)
  BY <1>3, <1>5, <1>6 DEF TablesFirst
<1> QED BY <1>7 DEF a, b

\* Third comes a key frame.
LEMMA BegunMore ==
  ASSUME NEW fs, NEW s \in Seq(Units), NEW u \in Units, Begun(s, fs),
         Len(s) > 2 \/ KeyUnit(u, fs)
  PROVE  Begun(Append(s, u), fs) /\ Len(Append(s, u)) > 2
<1> DEFINE v == Append(s, u)
<1>1. /\ Len(v) = Len(s) + 1 /\ Len(s) \in Nat
      /\ v[Len(s) + 1] = u /\ \A i \in 1 .. Len(s) : v[i] = s[i]
  BY UnitsMore
<1> HIDE DEF v
<1>2. Len(s) >= 2 /\ Len(v) > 2 /\ v[1] = s[1] /\ v[2] = s[2]
  BY <1>1 DEF Begun
<1>3. KeyUnit(v[3], fs)
  <2>1. CASE Len(s) > 2
    <3>1. v[3] = s[3]
      BY <1>1, <2>1
    <3> QED BY <2>1, <3>1 DEF Begun
  <2>2. CASE ~(Len(s) > 2)
    <3>1. v[3] = u
      BY <1>1, <1>2, <2>2
    <3> QED BY <2>2, <3>1
  <2> QED BY <2>1, <2>2
<1>4. Begun(v, fs)
  BY <1>2, <1>3 DEF Begun
<1> QED BY <1>2, <1>4 DEF v

\* A unit written where it may be.
LEMMA BeginsWrote ==
  ASSUME NEW x, NEW y, NEW u, NEW fs, Wrote(x, y, u), Begins(x, fs),
         x.firstCut \/ ~KeyUnit(u, fs), Ready(x) \/ KeyUnit(u, fs)
  PROVE  Begins(y, fs) /\ Ready(y)
<1>1. /\ x.file \in Seq(Units) /\ u \in Units /\ y.file = Append(x.file, u)
      /\ y.segments = x.segments /\ y.firstCut = x.firstCut
  BY DEF Wrote, Writers
<1>2. ASSUME ~x.firstCut PROVE \A i \in DOMAIN y.file : ~KeyUnit(y.file[i], fs)
  <2> DEFINE s == x.file
             v == Append(s, u)
  <2>1. s \in Seq(Units) /\ v = y.file /\ \A i \in DOMAIN s : ~KeyUnit(s[i], fs)
    BY <1>1, <1>2 DEF Begins
  <2>2. /\ DOMAIN v = 1 .. Len(s) + 1 /\ DOMAIN s = 1 .. Len(s) /\ Len(s) \in Nat
        /\ v[Len(s) + 1] = u /\ \A i \in 1 .. Len(s) : v[i] = s[i]
    BY <1>1, UnitsMore
  <2> HIDE DEF s, v
  <2> SUFFICES ASSUME NEW i \in DOMAIN v PROVE ~KeyUnit(v[i], fs)
    BY <2>1
  <2>3. CASE i = Len(s) + 1
    BY <1>2, <2>2, <2>3
  <2>4. CASE i # Len(s) + 1
    <3>1. i \in DOMAIN s /\ v[i] = s[i]
      BY <2>2, <2>4
    <3> QED BY <2>1, <3>1
  <2> QED BY <2>3, <2>4
<1>3. x.firstCut => TablesFirst(y.file, fs)
  BY <1>1, TablesFirstMore DEF Begins
<1>4. y.segments # <<>> => Begun(y.file, fs) /\ Len(y.file) > 2
  <2> SUFFICES ASSUME x.segments # <<>> PROVE Begun(y.file, fs) /\ Len(y.file) > 2
    BY <1>1
  <2>1. Begun(x.file, fs) /\ (Len(x.file) > 2 \/ KeyUnit(u, fs))
    BY DEF Begins, Ready
  <2> QED BY <1>1, <2>1, BegunMore
<1>5. Begins(y, fs)
  BY <1>1, <1>2, <1>3, <1>4 DEF Begins
<1> QED BY <1>4, <1>5 DEF Ready

\* WriteTables
PutTables(x, y) ==
  \E z, u, v : Tabled(x, z, u, "pat") /\ Tabled(z, y, v, "pmt")

\* It leaves the rest of the fields.
LEMMA TablesLeave ==
  ASSUME NEW x, NEW y, PutTables(x, y)
  PROVE  /\ x \in Writers /\ y \in Writers /\ y.segments = x.segments /\ y.firstCut = x.firstCut
         /\ y.cache = x.cache /\ y.cachePts = x.cachePts /\ y.stat = x.stat
         /\ \E u, v \in Units :
              /\ u.pid = "pat" /\ v.pid = "pmt" /\ u.frames = <<>> /\ v.frames = <<>>
              /\ y.file = Append(Append(x.file, u), v)
<1>1. PICK z, u, v : Tabled(x, z, u, "pat") /\ Tabled(z, y, v, "pmt")
  BY DEF PutTables
<1>2. /\ x \in Writers /\ u \in Units /\ u.pid = "pat" /\ u.frames = <<>>
      /\ z.file = Append(x.file, u) /\ z.segments = x.segments /\ z.firstCut = x.firstCut
      /\ z.cache = x.cache /\ z.cachePts = x.cachePts /\ z.stat = x.stat
  BY <1>1 DEF Tabled, Wrote
<1>3. /\ y \in Writers /\ v \in Units /\ v.pid = "pmt" /\ v.frames = <<>>
      /\ y.file = Append(z.file, v) /\ y.segments = z.segments /\ y.firstCut = z.firstCut
      /\ y.cache = z.cache /\ y.cachePts = z.cachePts /\ y.stat = z.stat
  BY <1>1 DEF Tabled, Wrote
<1> QED BY <1>2, <1>3

\* The first cut puts the tables behind what there is.
LEMMA BeginsFirst ==
  ASSUME NEW x, NEW y, NEW fs, PutTables(x, y), x.firstCut, x.segments = <<>>,
         \A i \in DOMAIN x.file : ~KeyUnit(x.file[i], fs)
  PROVE  Begins(y, fs) /\ Ready(y)
<1>1. x \in Writers /\ y.segments = <<>> /\ y.firstCut
  BY TablesLeave
<1>2. PICK u, v \in Units :
        u.pid = "pat" /\ v.pid = "pmt" /\ y.file = Append(Append(x.file, u), v)
  BY TablesLeave
<1>3. x.file \in Seq(Units)
  BY <1>1 DEF Writers
<1>4. TablesFirst(y.file, fs)
  BY <1>2, <1>3, TwoTables
<1> QED BY <1>1, <1>4 DEF Begins, Ready

\* A flush ends a segment that has its tables; the next begins with them.
LEMMA BeginsFlushed ==
  ASSUME NEW x, NEW y, NEW z, NEW fs, Moved(x, y), PutTables(y, z), x.firstCut, Begins(x, fs)
  PROVE  Begins(z, fs)
<1> DEFINE n == Len(x.segments)
<1>1. /\ n \in Nat /\ DOMAIN x.segments = 1 .. n /\ DOMAIN y.segments = 1 .. n + 1
      /\ y.segments[n + 1].units = x.file /\ \A k \in 1 .. n : y.segments[k] = x.segments[k]
  BY MovedSegments
<1>2. y.file = <<>> /\ y.firstCut
  BY DEF Moved
<1>3. z.segments = y.segments /\ z.firstCut
  BY <1>2, TablesLeave
<1>4. PICK u, v \in Units :
        u.pid = "pat" /\ v.pid = "pmt" /\ z.file = Append(Append(y.file, u), v)
  BY TablesLeave
<1>5. <<>> \in Seq(Units) /\ \A i \in DOMAIN <<>> : ~KeyUnit(<<>>[i], fs)
  OBVIOUS
<1>6. TablesFirst(z.file, fs)
  BY <1>2, <1>4, <1>5, TwoTables
<1>7. Begun(z.file, fs)
  <2> DEFINE o == <<>>
             a == Append(o, u)
             b == Append(a, v)
  <2>1. o \in Seq(Units) /\ Len(o) = 0 /\ z.file = b
    BY <1>2, <1>4, <1>5
  <2> HIDE DEF o
  <2>2. a \in Seq(Units) /\ Len(a) = 1 /\ a[1] = u
    BY <2>1, UnitsMore
  <2> HIDE DEF a
  <2>3. Len(b) = Len(a) + 1 /\ b[Len(a) + 1] = v /\ \A i \in 1 .. Len(a) : b[i] = a[i]
    BY <2>2, UnitsMore
  <2> HIDE DEF b
  <2>4. Len(b) = 2 /\ b[1] = u /\ b[2] = v
    BY <2>2, <2>3
  <2> QED BY <1>4, <2>1, <2>4 DEF Begun
<1>8. ASSUME NEW k \in DOMAIN z.segments
      PROVE  /\ TablesFirst(z.segments[k].units, fs)
             /\ k > 1 => Begun(z.segments[k].units, fs)
  <2>1. CASE k = n + 1
    <3>1. z.segments[k].units = x.file
      BY <1>1, <1>3, <2>1
    <3>2. TablesFirst(x.file, fs)
      BY DEF Begins
    <3>3. ASSUME k > 1 PROVE Begun(x.file, fs)
      <4>1. x.segments # <<>>
        BY <1>1, <2>1, <3>3
      <4> QED BY <4>1 DEF Begins
    <3> QED BY <3>1, <3>2, <3>3
  <2>2. CASE k # n + 1
    <3>1. k \in DOMAIN x.segments /\ z.segments[k] = x.segments[k]
      BY <1>1, <1>3, <2>2
    <3> QED BY <3>1 DEF Begins
  <2> QED BY <2>1, <2>2
<1> QED BY <1>3, <1>6, <1>7, <1>8 DEF Begins

\* A frame more changes no unit's kind.
LEMMA BeginsGrows ==
  ASSUME NEW x \in Writers, NEW fs, NEW gs, NEW f, Accepted(fs, gs, f), FitsAll(x, fs), Begins(x, fs)
  PROVE  Begins(x, gs)
<1>1. \A i \in DOMAIN fs : gs[i] = fs[i]
  BY DEF Accepted
<1>2. ASSUME NEW u, UnitFits(u, fs) PROVE KeyUnit(u, gs) <=> KeyUnit(u, fs)
  <2>1. u.pid = "video" => u.frames[1] \in DOMAIN fs
    BY <1>2 DEF UnitFits, Tables
  <2> QED BY <1>1, <2>1 DEF KeyUnit
<1>3. ASSUME NEW s, Fits(s, fs)
      PROVE  \A i \in DOMAIN s : KeyUnit(s[i], gs) <=> KeyUnit(s[i], fs)
  BY <1>2, <1>3 DEF Fits
<1>4. ASSUME NEW s, Fits(s, fs), TablesFirst(s, fs) PROVE TablesFirst(s, gs)
  BY <1>3, <1>4 DEF TablesFirst
<1>5. ASSUME NEW s \in Seq(Units), Fits(s, fs), Begun(s, fs) PROVE Begun(s, gs)
  <2>1. Len(s) > 2 => 3 \in DOMAIN s
    OBVIOUS
  <2> QED BY <1>3, <1>5, <2>1 DEF Begun
<1>6. x.file \in Seq(Units) /\ Fits(x.file, fs)
  BY DEF Writers, FitsAll
<1>7. ASSUME NEW k \in DOMAIN x.segments
      PROVE  x.segments[k].units \in Seq(Units) /\ Fits(x.segments[k].units, fs)
  <2>1. x.segments \in Seq(Stored)
    BY DEF Writers
  <2>2. x.segments[k] \in Stored
    BY <2>1, ElementOfSeq
  <2> QED BY <2>2 DEF Stored, FitsAll
<1>8. ~x.firstCut => \A i \in DOMAIN x.file : ~KeyUnit(x.file[i], gs)
  BY <1>3, <1>6 DEF Begins
<1>9. x.firstCut => TablesFirst(x.file, gs)
  BY <1>4, <1>6 DEF Begins
<1>10. x.segments # <<>> => Begun(x.file, gs)
  BY <1>5, <1>6 DEF Begins
<1>11. \A k \in DOMAIN x.segments : TablesFirst(x.segments[k].units, gs)
  BY <1>4, <1>7 DEF Begins
<1>12. \A k \in DOMAIN x.segments : k > 1 => Begun(x.segments[k].units, gs)
  BY <1>5, <1>7 DEF Begins
<1> QED BY <1>8, <1>9, <1>10, <1>11, <1>12 DEF Begins

-----------------------------------------------------------------------------
(* The frames of the file and what status says of them.                      *)

\* The frames of a sequence one longer.
LEMMA ToSetMore ==
  ASSUME NEW c \in Seq(Nat), NEW id \in Nat
  PROVE  ToSet(Append(c, id)) = ToSet(c) \cup {id}
<1> DEFINE d == Append(c, id)
           n == Len(c)
<1>1. /\ DOMAIN d = 1 .. n + 1 /\ DOMAIN c = 1 .. n /\ n \in Nat
      /\ d[n + 1] = id /\ \A i \in 1 .. n : d[i] = c[i]
  BY AppendProperties
<1> HIDE DEF d, n
<1>2. 1 .. n + 1 = 1 .. n \cup {n + 1}
  BY <1>1
<1>3. ToSet(d) = {d[i] : i \in 1 .. n} \cup {d[n + 1]}
  BY <1>1, <1>2 DEF ToSet
<1>4. {d[i] : i \in 1 .. n} = {c[i] : i \in 1 .. n}
  BY <1>1
<1> QED BY <1>1, <1>3, <1>4 DEF ToSet, d

\* The frames of a unit more.
LEMMA IdsMore ==
  ASSUME NEW s \in Seq(Units), NEW u \in Units
  PROVE  Ids(Append(s, u)) = Ids(s) \cup ToSet(u.frames)
<1> DEFINE v == Append(s, u)
           n == Len(s)
<1>1. /\ DOMAIN v = 1 .. n + 1 /\ DOMAIN s = 1 .. n /\ n \in Nat
      /\ v[n + 1] = u /\ \A i \in 1 .. n : v[i] = s[i]
  BY UnitsMore
<1> HIDE DEF v, n
<1>2. ASSUME NEW id PROVE id \in Ids(v) <=> id \in Ids(s) \cup ToSet(u.frames)
  <2>1. id \in Ids(v) <=> \E i \in 1 .. n + 1 : id \in ToSet(v[i].frames)
    BY <1>1 DEF Ids
  <2>2. id \in Ids(s) <=> \E i \in 1 .. n : id \in ToSet(s[i].frames)
    BY <1>1 DEF Ids
  <2>3. (\E i \in 1 .. n + 1 : id \in ToSet(v[i].frames))
          <=> (\E i \in 1 .. n : id \in ToSet(s[i].frames)) \/ id \in ToSet(u.frames)
    <3>1. n + 1 \in 1 .. n + 1 /\ \A i \in 1 .. n : i \in 1 .. n + 1
      BY <1>1
    <3>2. \A i \in 1 .. n + 1 : i \in 1 .. n \/ i = n + 1
      BY <1>1
    <3> QED BY <1>1, <3>1, <3>2
  <2> QED BY <2>1, <2>2, <2>3
<1>3. Ids(v) = Ids(s) \cup ToSet(u.frames)
  BY <1>2
<1> QED BY <1>3 DEF v

\* Nothing has no frames.
LEMMA IdsNone == Ids(<<>>) = {} /\ ToSet(<<>>) = {} /\ \A id : ToSet(<<id>>) = {id}
<1>1. Ids(<<>>) = {} /\ ToSet(<<>>) = {}
  BY DEF Ids, ToSet
<1>2. ASSUME NEW id PROVE ToSet(<<id>>) = {id}
  <2>1. DOMAIN <<id>> = {1} /\ <<id>>[1] = id
    OBVIOUS
  <2> QED BY <2>1 DEF ToSet
<1> QED BY <1>1, <1>2

\* What is written comes to the frames of the file.
LEMMA IdsWrote ==
  ASSUME NEW x, NEW y, NEW u, Wrote(x, y, u)
  PROVE  Ids(y.file) = Ids(x.file) \cup ToSet(u.frames)
<1>1. x.file \in Seq(Units) /\ u \in Units /\ y.file = Append(x.file, u)
  BY DEF Wrote, Writers
<1> QED BY <1>1, IdsMore

\* A table leaves the frames that are held the same.
LEMMA HeldTabled ==
  ASSUME NEW x, NEW y, NEW u, NEW pid, Tabled(x, y, u, pid)
  PROVE  Held(y) = Held(x)
<1>1. Wrote(x, y, u) /\ y.cache = x.cache /\ u.frames = <<>>
  BY DEF Tabled
<1> QED BY <1>1, IdsWrote, IdsNone DEF Held

\* Both tables leave the frames that are held the same.
LEMMA HeldTables ==
  ASSUME NEW x, NEW y, PutTables(x, y)
  PROVE  Held(y) = Held(x)
<1>1. PICK z, u, v : Tabled(x, z, u, "pat") /\ Tabled(z, y, v, "pmt")
  BY DEF PutTables
<1>2. Held(z) = Held(x)
  BY <1>1, HeldTabled
<1>3. Held(y) = Held(z)
  BY <1>1, HeldTabled
<1> QED BY <1>2, <1>3

\* A group written from the cache leaves them the same.
LEMMA HeldGrouped ==
  ASSUME NEW x, NEW y, NEW u, Grouped(x, y, u)
  PROVE  Held(y) = Held(x)
<1>1. Wrote(x, y, u) /\ y.cache = <<>> /\ u.frames = x.cache
  BY DEF Grouped
<1> QED BY <1>1, IdsWrote, IdsNone DEF Held

\* A video frame written is one more.
LEMMA HeldFilmed ==
  ASSUME NEW x, NEW y, NEW u, NEW id, NEW key, Filmed(x, y, u, id, key)
  PROVE  Held(y) = Held(x) \cup {id}
<1>1. Wrote(x, y, u) /\ y.cache = x.cache /\ u.frames = <<id>>
  BY DEF Filmed
<1>2. ToSet(u.frames) = {id}
  BY <1>1, IdsNone
<1>3. Ids(y.file) = Ids(x.file) \cup {id}
  BY <1>1, <1>2, IdsWrote
<1> QED BY <1>1, <1>3 DEF Held

\* An audio frame cached is one more.
LEMMA HeldKept ==
  ASSUME NEW x, NEW y, NEW id \in Nat, NEW t, Stashed(x, y, id, t)
  PROVE  Held(y) = Held(x) \cup {id}
<1>1. x.cache \in Seq(Nat) /\ y.file = x.file /\ y.cache = Append(x.cache, id)
  BY DEF Stashed, Writers
<1>2. ToSet(y.cache) = ToSet(x.cache) \cup {id}
  BY <1>1, ToSetMore
<1> QED BY <1>1, <1>2 DEF Held

\* Early key frames stay early: a frame more is behind them.
LEMMA KeysGrow ==
  ASSUME NEW fs, NEW gs, NEW f, Accepted(fs, gs, f), NEW a \in Nat \ {0}, NEW b \in 0 .. Len(fs),
         KeysEarly(fs, a, b)
  PROVE  KeysEarly(gs, a, b) /\ StatOf(gs, a, b) = StatOf(fs, a, b)
<1> DEFINE n == Len(fs)
<1>1. /\ n \in Nat /\ DOMAIN fs = 1 .. n /\ DOMAIN gs = 1 .. n + 1
      /\ \A i \in 1 .. n : gs[i] = fs[i]
  BY DEF Accepted
<1>2. b \in 0 .. n
  OBVIOUS
<1> HIDE DEF n
<1>3. ASSUME NEW i \in a + 1 .. b, gs[i].kind = "key"
      PROVE  \/ gs[i - 1].time - gs[a].time < Duration
             \/ \A j \in DOMAIN gs : gs[j].kind = "key" => i <= j
  <2>1. i \in 1 .. n /\ i - 1 \in 1 .. n /\ a \in 1 .. n
    BY <1>1, <1>2
  <2>2. gs[i] = fs[i] /\ gs[i - 1] = fs[i - 1] /\ gs[a] = fs[a]
    BY <1>1, <2>1
  <2>3. CASE fs[i - 1].time - fs[a].time < Duration
    BY <2>2, <2>3
  <2>4. CASE \A j \in DOMAIN fs : fs[j].kind = "key" => i <= j
    <3> SUFFICES ASSUME NEW j \in 1 .. n + 1, gs[j].kind = "key" PROVE i <= j
      BY <1>1
    <3>1. CASE j = n + 1
      BY <1>1, <2>1, <3>1
    <3>2. CASE j # n + 1
      <4>1. j \in 1 .. n
        BY <1>1, <3>2
      <4> QED BY <1>1, <2>4, <4>1
    <3> QED BY <3>1, <3>2
  <2> QED BY <1>3, <2>2, <2>3, <2>4 DEF KeysEarly
<1>4. StatOf(gs, a, b) = StatOf(fs, a, b)
  <2>1. CASE a <= b
    <3>1. gs[a] = fs[a] /\ gs[b] = fs[b]
      BY <1>1, <1>2, <2>1
    <3> QED BY <3>1 DEF StatOf
  <2>2. CASE ~(a <= b)
    BY <2>2 DEF StatOf
  <2> QED BY <2>1, <2>2
<1> QED BY <1>3, <1>4 DEF KeysEarly

\* What status counts and what segments are listed with stays right.
LEMMA CountsGrow ==
  ASSUME NEW x, NEW fs, NEW gs, NEW f, Accepted(fs, gs, f), NEW lo, Counts(x, fs, Len(fs), lo),
         AllHonest(x, fs)
  PROVE  Counts(x, gs, Len(fs), lo) /\ AllHonest(x, gs)
<1>1. Len(fs) \in Nat /\ Len(gs) = Len(fs) + 1
  BY DEF Accepted
<1>2. Counts(x, gs, Len(fs), lo)
  <2>1. lo \in 1 .. Len(fs) + 1 /\ KeysEarly(fs, lo, Len(fs))
    BY DEF Counts
  <2>2. lo \in Nat \ {0} /\ Len(fs) \in 0 .. Len(fs)
    BY <1>1, <2>1
  <2>3. KeysEarly(gs, lo, Len(fs)) /\ StatOf(gs, lo, Len(fs)) = StatOf(fs, lo, Len(fs))
    BY <2>1, <2>2, KeysGrow
  <2> QED BY <2>3 DEF Counts
<1>3. ASSUME NEW k \in DOMAIN x.segments PROVE Honest(x.segments[k], gs)
  <2>1. PICK b \in 0 .. Len(fs) : \E a \in 1 .. b + 1 :
          /\ Ids(x.segments[k].units) = a .. b /\ KeysEarly(fs, a, b)
          /\ x.segments[k].duration = StatOf(fs, a, b).last - StatOf(fs, a, b).first
    BY DEF AllHonest, Honest
  <2>2. PICK a \in 1 .. b + 1 :
          /\ Ids(x.segments[k].units) = a .. b /\ KeysEarly(fs, a, b)
          /\ x.segments[k].duration = StatOf(fs, a, b).last - StatOf(fs, a, b).first
    BY <2>1
  <2>3. a \in Nat \ {0} /\ b \in 0 .. Len(gs)
    BY <1>1
  <2>4. KeysEarly(gs, a, b) /\ StatOf(gs, a, b) = StatOf(fs, a, b)
    BY <2>2, <2>3, KeysGrow
  <2> QED BY <2>2, <2>3, <2>4 DEF Honest
<1> QED BY <1>2, <1>3 DEF AllHonest

\* A frame counted and taken in.
LEMMA CountsNext ==
  ASSUME NEW x, NEW y, NEW z, NEW gs \in Seq(Frame), NEW n \in Nat, Len(gs) = n + 1, NEW lo,
         Counts(x, gs, n, lo), Counted(x, y, gs[n + 1].time),
         Held(z) = Held(x) \cup {n + 1}, z.stat = y.stat,
         gs[n + 1].kind = "key" =>
           \/ lo = n + 1
           \/ \A j \in 1 .. n : gs[j].kind # "key"
           \/ gs[n].time - gs[lo].time < Duration
  PROVE  Counts(z, gs, n + 1, lo)
<1>1. lo \in 1 .. n + 1 /\ Held(x) = lo .. n /\ x.stat = StatOf(gs, lo, n) /\ KeysEarly(gs, lo, n)
  BY DEF Counts
<1>2. Held(z) = lo .. n + 1 /\ lo \in 1 .. n + 1 + 1
  BY <1>1
<1>3. z.stat = StatOf(gs, lo, n + 1)
  <2>1. z.stat = [set |-> TRUE, last |-> gs[n + 1].time,
                  first |-> IF x.stat.set THEN x.stat.first ELSE gs[n + 1].time]
    BY DEF Counted
  <2>2. CASE lo <= n
    <3>1. x.stat.set /\ x.stat.first = gs[lo].time /\ lo <= n + 1
      BY <1>1, <2>2 DEF StatOf
    <3> QED BY <2>1, <3>1 DEF StatOf
  <2>3. CASE ~(lo <= n)
    <3>1. lo = n + 1 /\ ~x.stat.set
      BY <1>1, <2>3 DEF StatOf, NewStatus
    <3> QED BY <2>1, <3>1 DEF StatOf
  <2> QED BY <2>2, <2>3
<1>4. ASSUME NEW i \in lo + 1 .. n + 1, gs[i].kind = "key"
      PROVE  \/ gs[i - 1].time - gs[lo].time < Duration
             \/ \A j \in DOMAIN gs : gs[j].kind = "key" => i <= j
  <2>1. CASE i = n + 1
    <3>1. DOMAIN gs = 1 .. n + 1 /\ lo # n + 1 /\ i - 1 = n
      BY <1>1, <2>1
    <3>2. CASE gs[n].time - gs[lo].time < Duration
      BY <2>1, <3>1, <3>2
    <3>3. CASE \A j \in 1 .. n : gs[j].kind # "key"
      <4>1. \A j \in DOMAIN gs : j \in 1 .. n \/ j = n + 1
        BY <3>1
      <4> QED BY <2>1, <3>3, <4>1
    <3> QED BY <1>4, <2>1, <3>1, <3>2, <3>3
  <2>2. CASE i # n + 1
    <3>1. i \in lo + 1 .. n
      BY <1>1, <2>2
    <3> QED BY <1>1, <1>4, <3>1 DEF KeysEarly
  <2> QED BY <2>1, <2>2
<1> QED BY <1>2, <1>3, <1>4 DEF Counts, KeysEarly

\* A file with all the frames, stored with what status counted, is honest.
LEMMA CountsMoved ==
  ASSUME NEW x, NEW y, NEW fs \in Seq(Frame), NEW lo, Moved(x, y), x.cache = <<>>,
         Counts(x, fs, Len(fs), lo), AllHonest(x, fs)
  PROVE  Counts(y, fs, Len(fs), Len(fs) + 1) /\ AllHonest(y, fs)
<1> DEFINE m == Len(x.segments)
           n == Len(fs)
<1>1. /\ m \in Nat /\ DOMAIN x.segments = 1 .. m /\ DOMAIN y.segments = 1 .. m + 1
      /\ y.segments[m + 1].units = x.file
      /\ y.segments[m + 1].duration = x.stat.last - x.stat.first
      /\ \A k \in 1 .. m : y.segments[k] = x.segments[k]
  BY MovedSegments
<1>2. y.file = <<>> /\ y.cache = <<>> /\ y.stat = NewStatus /\ n \in Nat
  BY DEF Moved
<1>3. lo \in 1 .. n + 1 /\ Held(x) = lo .. n /\ x.stat = StatOf(fs, lo, n) /\ KeysEarly(fs, lo, n)
  BY DEF Counts
<1> HIDE DEF m
<1>4. Ids(x.file) = lo .. n
  BY <1>3, IdsNone DEF Held
<1>5. Honest(y.segments[m + 1], fs)
  <2>1. n \in 0 .. Len(fs)
    BY <1>2
  <2> HIDE DEF n
  <2> QED BY <1>1, <1>3, <1>4, <2>1 DEF Honest
<1>6. ASSUME NEW k \in DOMAIN y.segments PROVE Honest(y.segments[k], fs)
  <2>1. CASE k = m + 1
    BY <1>5, <2>1
  <2>2. CASE k # m + 1
    <3>1. k \in DOMAIN x.segments /\ y.segments[k] = x.segments[k]
      BY <1>1, <2>2
    <3> QED BY <3>1 DEF AllHonest
  <2> QED BY <2>1, <2>2
<1>7. Counts(y, fs, n, n + 1)
  <2>1. Held(y) = {}
    BY <1>2, IdsNone DEF Held
  <2> HIDE DEF n
  <2>2. n + 1 \in 1 .. n + 1 /\ n + 1 .. n = {} /\ ~(n + 1 <= n) /\ n + 1 + 1 .. n = {}
    BY <1>2
  <2>3. StatOf(fs, n + 1, n) = NewStatus /\ KeysEarly(fs, n + 1, n)
    BY <2>2 DEF StatOf, KeysEarly
  <2> QED BY <1>2, <2>1, <2>2, <2>3 DEF Counts
<1> QED BY <1>6, <1>7 DEF AllHonest

-----------------------------------------------------------------------------
(* The handlers, step by step.                                               *)

Emptied(x, y) == (x.cache = <<>> /\ y = x) \/ \E u : Grouped(x, y, u)
Flushed(x, y) == \E a, b : Emptied(x, a) /\ Moved(a, b) /\ PutTables(b, y)
Opened(x, y) ==
  /\ x \in Writers /\ y \in Writers /\ ~x.firstCut /\ y.firstCut
  /\ y.stat = x.stat /\ y.cache = x.cache /\ y.cachePts = x.cachePts /\ y.file = x.file
  /\ y.segments = x.segments /\ y.cc = x.cc
IsCut(x, y) ==
  \/ \E a : Opened(x, a) /\ PutTables(a, y)
  \/ x.firstCut /\ DurationMs(x) >= Duration /\ Flushed(x, y)
  \/ x.firstCut /\ ~(DurationMs(x) >= Duration) /\ y = x
Filming(x, y, id, t, key) == \E a, u : Counted(x, a, t) /\ Filmed(a, y, u, id, key)
Keeping(x, y, id, t) ==
  \E a, b : Counted(x, a, t) /\ Stashed(a, b, id, t) /\ (y = b \/ \E u : Grouped(b, y, u))

\* Both tables.
LEMMA WriteTablesIs ==
  ASSUME NEW x \in Writers
  PROVE  PutTables(x, WriteTables(x))
<1> DEFINE u == Table(x, "pat")
           y == Written(x, u)
           v == Table(y, "pmt")
<1>1. Tabled(x, y, u, "pat")
  <2>1. "pat" \in Tables
    BY DEF Tables
  <2> QED BY <2>1, TableIs
<1>2. y \in Writers
  <2> HIDE DEF y, u
  <2> QED BY <1>1 DEF Tabled, Wrote
<1>3. WriteTables(x) = Written(y, v)
  BY DEF WriteTables
<1> HIDE DEF y, u
<1>4. Tabled(y, Written(y, v), v, "pmt")
  <2>1. "pmt" \in Tables
    BY DEF Tables
  <2> QED BY <1>2, <2>1, TableIs
<1> QED BY <1>1, <1>3, <1>4 DEF PutTables

\* A flush: the cached audio, the segment, the tables.
LEMMA FlushIs ==
  ASSUME ShapeFits, NEW x \in Writers
  PROVE  Flushed(x, Flush(x))
<1> DEFINE a == MuxAudio(x, 1)
           b == [a EXCEPT !.segments = Append(@, [units |-> a.file, duration |-> DurationMs(a)]),
                          !.file = <<>>, !.stat = NewStatus]
<1>1. Emptied(x, a) /\ a \in Writers
  <2>1. \/ Len(x.cache) < 1 /\ a = x
        \/ \E u : Grouped(x, a, u)
    <3>1. 1 \in Nat \ {0}
      OBVIOUS
    <3> QED BY <3>1, MuxAudioIs
  <2>2. x.cache \in Seq(Nat)
    BY DEF Writers
  <2>3. Len(x.cache) < 1 => x.cache = <<>>
    BY <2>2, EmptySeq
  <2> HIDE DEF a
  <2> QED BY <2>1, <2>3 DEF Emptied, Grouped, Wrote
<1>2. Flush(x) = WriteTables(b)
  BY DEF Flush
<1> HIDE DEF a
<1>3. Moved(a, b)
  <2> DEFINE s == [units |-> a.file, duration |-> a.stat.last - a.stat.first]
  <2>1. /\ a.stat.last \in Int /\ a.stat.first \in Int /\ a.file \in Seq(Units)
        /\ a.segments \in Seq(Stored) /\ <<>> \in Seq(Units) /\ NewStatus \in Stats
    BY <1>1 DEF Writers, Stats, NewStatus
  <2>2. s \in Stored /\ DurationMs(a) = a.stat.last - a.stat.first
    BY <2>1 DEF Stored, DurationMs
  <2>3. b = [a EXCEPT !.segments = Append(@, s), !.file = <<>>, !.stat = NewStatus]
    BY <2>2
  <2>4. Append(a.segments, s) \in Seq(Stored)
    BY <2>1, <2>2, AppendProperties
  <2> DEFINE ss == Append(a.segments, s)
             c == [a EXCEPT !.segments = ss]
             d == [c EXCEPT !.file = <<>>]
             e == [d EXCEPT !.stat = NewStatus]
  <2>5. b = e
    BY <1>1, <2>3 DEF Writers
  <2> HIDE DEF b, s
  <2>6. ss \in Seq(Stored)
    BY <2>4
  <2> HIDE DEF ss
  <2>7. c \in Writers /\ c.segments = ss /\ c.cache = a.cache /\ c.cachePts = a.cachePts
        /\ c.firstCut = a.firstCut /\ c.cc = a.cc
    BY <1>1, <2>6 DEF Writers
  <2> HIDE DEF c
  <2>8. d \in Writers /\ d.segments = ss /\ d.cache = a.cache /\ d.cachePts = a.cachePts
        /\ d.firstCut = a.firstCut /\ d.cc = a.cc /\ d.file = <<>>
    BY <2>1, <2>7 DEF Writers
  <2> HIDE DEF d
  <2>9. e \in Writers /\ e.segments = ss /\ e.cache = a.cache /\ e.cachePts = a.cachePts
        /\ e.firstCut = a.firstCut /\ e.cc = a.cc /\ e.file = <<>> /\ e.stat = NewStatus
    BY <2>1, <2>8 DEF Writers
  <2> HIDE DEF e
  <2> QED BY <1>1, <2>5, <2>9 DEF Moved, ss, s
<1>4. b \in Writers
  BY <1>3 DEF Moved
<1> HIDE DEF b
<1>5. PutTables(b, WriteTables(b))
  BY <1>4, WriteTablesIs
<1> QED BY <1>1, <1>2, <1>3, <1>5 DEF Flushed

\* A cut.
LEMMA CutIs ==
  ASSUME ShapeFits, NEW x \in Writers
  PROVE  IsCut(x, Cut(x))
<1>1. CASE ~x.firstCut
  <2> DEFINE a == [x EXCEPT !.firstCut = TRUE]
  <2>1. Opened(x, a)
    BY <1>1 DEF Opened, Writers
  <2>2. Cut(x) = WriteTables(a)
    BY <1>1 DEF Cut
  <2> HIDE DEF a
  <2>3. PutTables(a, WriteTables(a))
    BY <2>1, WriteTablesIs DEF Opened
  <2> QED BY <2>1, <2>2, <2>3 DEF IsCut
<1>2. CASE x.firstCut /\ DurationMs(x) >= Duration
  <2>1. Cut(x) = Flush(x)
    BY <1>2 DEF Cut
  <2> QED BY <1>2, <2>1, FlushIs DEF IsCut
<1>3. CASE x.firstCut /\ ~(DurationMs(x) >= Duration)
  BY <1>3 DEF Cut, IsCut
<1> QED BY <1>1, <1>2, <1>3

\* A video frame.
LEMMA FilmingIs ==
  ASSUME ShapeFits, NEW x \in Writers, NEW id \in Nat, NEW t \in Int, NEW key \in BOOLEAN
  PROVE  Filming(x, MuxVideo(StatUpdate(x, t), id, t, key), id, t, key)
<1> DEFINE a == StatUpdate(x, t)
<1>1. Counted(x, a, t)
  BY StatUpdateIs
<1> HIDE DEF a
<1>2. a \in Writers
  BY <1>1 DEF Counted
<1>3. PICK u : Filmed(a, MuxVideo(a, id, t, key), u, id, key)
  BY <1>2, MuxVideoIs
<1> QED BY <1>1, <1>3 DEF Filming, a

\* An audio frame.
LEMMA KeepingIs ==
  ASSUME ShapeFits, NEW x \in Writers, NEW id \in Nat, NEW t \in Int
  PROVE  Keeping(x, CacheAudio(StatUpdate(x, t), id, t), id, t)
<1> DEFINE a == StatUpdate(x, t)
           y == CacheAudio(a, id, t)
<1>1. Counted(x, a, t)
  BY StatUpdateIs
<1> HIDE DEF a
<1>2. a \in Writers
  BY <1>1 DEF Counted
<1>3. PICK b : Stashed(a, b, id, t) /\ y = MuxAudio(b, CacheMaxFrames)
  BY <1>2, CacheAudioIs
<1> HIDE DEF y
<1>4. b \in Writers /\ CacheMaxFrames \in Nat \ {0}
  BY <1>3, Bounds DEF Stashed
<1>5. y = b \/ \E u : Grouped(b, y, u)
  BY <1>3, <1>4, MuxAudioIs
<1> QED BY <1>1, <1>3, <1>5 DEF Keeping, y, a

-----------------------------------------------------------------------------
(* What the steps keep.                                                      *)

\* All of the invariant but how the file begins.
Sane(x, fs, n, lo) ==
  /\ x \in Writers /\ FitsAll(x, fs) /\ Pending(x, fs) /\ Continues(AllOf(x), x.cc)
  /\ Counts(x, fs, n, lo) /\ AllHonest(x, fs)

\* A group written.
LEMMA SaneGrouped ==
  ASSUME NEW x, NEW y, NEW u, NEW fs, NEW n, NEW lo, FramesFit(fs), Grouped(x, y, u),
         Sane(x, fs, n, lo), Begins(x, fs), Ready(x)
  PROVE  /\ Sane(y, fs, n, lo) /\ Begins(y, fs) /\ Ready(y) /\ y.cache = <<>>
         /\ y.segments = x.segments /\ y.firstCut = x.firstCut /\ y.stat = x.stat
<1>1. /\ Wrote(x, y, u) /\ y.cache = <<>> /\ u.pid = "audio" /\ y \in Writers
      /\ y.segments = x.segments /\ y.firstCut = x.firstCut /\ y.stat = x.stat
  BY DEF Grouped, Wrote
<1>2. UnitFits(u, fs)
  BY GroupFits DEF Sane
<1>3. FitsAll(y, fs)
  BY <1>1, <1>2, FitsWrote DEF Sane
<1>4. Continues(AllOf(y), y.cc)
  BY <1>1, ContinuesWrote DEF Sane
<1>5. Pending(y, fs)
  BY <1>1 DEF Pending
<1>6. Held(y) = Held(x)
  BY HeldGrouped
<1>7. Counts(y, fs, n, lo) /\ AllHonest(y, fs)
  BY <1>1, <1>6 DEF Sane, Counts, AllHonest
<1>8. ~KeyUnit(u, fs)
  BY <1>1 DEF KeyUnit
<1>9. Begins(y, fs) /\ Ready(y)
  BY <1>1, <1>8, BeginsWrote
<1> QED BY <1>1, <1>3, <1>4, <1>5, <1>7, <1>9 DEF Sane

\* The tables written.
LEMMA SaneTables ==
  ASSUME NEW x, NEW y, NEW fs, NEW n, NEW lo, PutTables(x, y), Sane(x, fs, n, lo)
  PROVE  Sane(y, fs, n, lo)
<1>1. PICK z, u, v : Tabled(x, z, u, "pat") /\ Tabled(z, y, v, "pmt")
  BY DEF PutTables
<1>2. ASSUME NEW a, NEW b, NEW t, NEW pid \in Tables, Tabled(a, b, t, pid), FitsAll(a, fs),
             Continues(AllOf(a), a.cc)
      PROVE  FitsAll(b, fs) /\ Continues(AllOf(b), b.cc)
  <2>1. Wrote(a, b, t) /\ UnitFits(t, fs)
    BY <1>2 DEF Tabled, UnitFits
  <2>2. FitsAll(b, fs)
    BY <1>2, <2>1, FitsWrote
  <2>3. Continues(AllOf(b), b.cc)
    BY <1>2, <2>1, ContinuesWrote
  <2> QED BY <2>2, <2>3
<1>3. "pat" \in Tables /\ "pmt" \in Tables
  BY DEF Tables
<1>4. FitsAll(z, fs) /\ Continues(AllOf(z), z.cc)
  BY <1>1, <1>2, <1>3 DEF Sane
<1>5. FitsAll(y, fs) /\ Continues(AllOf(y), y.cc)
  BY <1>1, <1>2, <1>3, <1>4
<1>6. /\ y \in Writers /\ y.segments = x.segments /\ y.cache = x.cache
      /\ y.cachePts = x.cachePts /\ y.stat = x.stat
  BY TablesLeave
<1>7. Held(y) = Held(x)
  BY HeldTables
<1>8. Counts(y, fs, n, lo) /\ AllHonest(y, fs) /\ Pending(y, fs)
  BY <1>6, <1>7 DEF Sane, Counts, AllHonest, Pending
<1> QED BY <1>5, <1>6, <1>8 DEF Sane

\* The first cut notes that it was made.
LEMMA SaneOpened ==
  ASSUME NEW x, NEW y, NEW fs, NEW n, NEW lo, Opened(x, y), Sane(x, fs, n, lo)
  PROVE  Sane(y, fs, n, lo)
<1>1. /\ y \in Writers /\ y.stat = x.stat /\ y.cache = x.cache /\ y.cachePts = x.cachePts
      /\ y.file = x.file /\ y.segments = x.segments /\ y.cc = x.cc
  BY DEF Opened
<1>2. AllOf(y) = AllOf(x) /\ Held(y) = Held(x)
  BY <1>1 DEF AllOf, Sources, Held
<1> QED BY <1>1, <1>2 DEF Sane, FitsAll, Pending, Counts, AllHonest

\* The file stored, with the cache empty.
LEMMA SaneMoved ==
  ASSUME NEW x, NEW y, NEW fs, NEW lo, FramesFit(fs), Moved(x, y), x.cache = <<>>,
         Sane(x, fs, Len(fs), lo)
  PROVE  Sane(y, fs, Len(fs), Len(fs) + 1)
<1>1. y \in Writers /\ y.cache = <<>> /\ y.cc = x.cc
  BY DEF Moved
<1>2. FitsAll(y, fs)
  BY FitsMoved DEF Sane
<1>3. Continues(AllOf(y), y.cc)
  BY <1>1, AllMoved DEF Sane
<1>4. Counts(y, fs, Len(fs), Len(fs) + 1) /\ AllHonest(y, fs)
  BY CountsMoved DEF Sane, FramesFit
<1> QED BY <1>1, <1>2, <1>3, <1>4 DEF Sane, Pending

\* A flush stores what status counted and begins the next segment.
LEMMA SaneFlushed ==
  ASSUME NEW x, NEW y, NEW fs, NEW lo, FramesFit(fs), Flushed(x, y), Sane(x, fs, Len(fs), lo),
         Begins(x, fs), Ready(x), x.firstCut
  PROVE  /\ Sane(y, fs, Len(fs), Len(fs) + 1) /\ Begins(y, fs) /\ y.firstCut /\ y.cache = <<>>
         /\ x.segments \in Seq(Stored) /\ y.segments \in Seq(Stored)
         /\ Len(y.segments) = Len(x.segments) + 1
         /\ y.segments[Len(x.segments) + 1].duration = DurationMs(x)
         /\ \A k \in 1 .. Len(x.segments) : y.segments[k] = x.segments[k]
<1>1. PICK a, b : Emptied(x, a) /\ Moved(a, b) /\ PutTables(b, y)
  BY DEF Flushed
<1>2. /\ Sane(a, fs, Len(fs), lo) /\ Begins(a, fs) /\ Ready(a) /\ a.cache = <<>>
      /\ a.segments = x.segments /\ a.firstCut = x.firstCut /\ a.stat = x.stat
  <2>1. CASE x.cache = <<>> /\ a = x
    BY <2>1
  <2>2. CASE \E u : Grouped(x, a, u)
    BY <2>2, SaneGrouped
  <2> QED BY <1>1, <2>1, <2>2 DEF Emptied
<1>3. Sane(b, fs, Len(fs), Len(fs) + 1)
  BY <1>1, <1>2, SaneMoved
<1>4. Sane(y, fs, Len(fs), Len(fs) + 1)
  BY <1>1, <1>3, SaneTables
<1>5. Begins(y, fs)
  BY <1>1, <1>2, BeginsFlushed
<1>6. b.firstCut /\ b.cache = <<>>
  BY <1>1, <1>2 DEF Moved
<1>7. y.firstCut = b.firstCut /\ y.segments = b.segments /\ y.cache = b.cache
  BY <1>1, TablesLeave
<1>8. /\ a.segments \in Seq(Stored) /\ b.segments \in Seq(Stored)
      /\ Len(b.segments) = Len(a.segments) + 1
      /\ b.segments[Len(a.segments) + 1].duration = a.stat.last - a.stat.first
      /\ \A k \in 1 .. Len(a.segments) : b.segments[k] = a.segments[k]
  BY <1>1, MovedSegments
<1> QED BY <1>2, <1>4, <1>5, <1>6, <1>7, <1>8 DEF DurationMs

\* A cut leaves the writer ready for a key frame that is early enough.
LEMMA SaneCut ==
  ASSUME NEW x, NEW y, NEW fs, NEW lo, FramesFit(fs), IsCut(x, y), Sane(x, fs, Len(fs), lo),
         Begins(x, fs), Ready(x), NoKeyYet(x, fs), LongEnough(x, FALSE)
  PROVE  /\ Begins(y, fs) /\ y.firstCut /\ LongEnough(y, FALSE)
         /\ \E m : /\ Sane(y, fs, Len(fs), m)
                   /\ \/ m = Len(fs) + 1
                      \/ \A j \in 1 .. Len(fs) : fs[j].kind # "key"
                      \/ fs[Len(fs)].time - fs[m].time < Duration
<1>1. ASSUME NEW a, Opened(x, a), PutTables(a, y)
      PROVE  /\ Begins(y, fs) /\ y.firstCut /\ LongEnough(y, FALSE) /\ Sane(y, fs, Len(fs), lo)
             /\ \A j \in 1 .. Len(fs) : fs[j].kind # "key"
  <2>1. ~x.firstCut /\ a.firstCut /\ a.segments = x.segments /\ a.file = x.file
    BY <1>1 DEF Opened
  <2>2. x.segments = <<>> /\ \A i \in DOMAIN x.file : ~KeyUnit(x.file[i], fs)
    BY <2>1 DEF Begins
  <2>3. Begins(y, fs)
    BY <1>1, <2>1, <2>2, BeginsFirst
  <2>4. Sane(a, fs, Len(fs), lo)
    BY <1>1, SaneOpened
  <2>5. Sane(y, fs, Len(fs), lo)
    BY <1>1, <2>4, SaneTables
  <2>6. y.firstCut /\ y.segments = <<>>
    BY <1>1, <2>1, <2>2, TablesLeave
  <2>7. LongEnough(y, FALSE)
    BY <2>6 DEF LongEnough
  <2>8. \A j \in 1 .. Len(fs) : fs[j].kind # "key"
    BY <2>1 DEF NoKeyYet, FramesFit
  <2> QED BY <2>3, <2>5, <2>6, <2>7, <2>8
<1>2. ASSUME x.firstCut, DurationMs(x) >= Duration, Flushed(x, y)
      PROVE  /\ Begins(y, fs) /\ y.firstCut /\ LongEnough(y, FALSE)
             /\ Sane(y, fs, Len(fs), Len(fs) + 1)
  <2> DEFINE n == Len(x.segments)
  <2>1. /\ Sane(y, fs, Len(fs), Len(fs) + 1) /\ Begins(y, fs) /\ y.firstCut
        /\ x.segments \in Seq(Stored) /\ y.segments \in Seq(Stored)
        /\ Len(y.segments) = n + 1
        /\ y.segments[n + 1].duration = DurationMs(x)
        /\ \A k \in 1 .. n : y.segments[k] = x.segments[k]
    BY <1>2, SaneFlushed
  <2>2. n \in Nat /\ DOMAIN x.segments = 1 .. n /\ DOMAIN y.segments = 1 .. n + 1
    BY <2>1
  <2> HIDE DEF n
  <2>3. ASSUME NEW k \in DOMAIN y.segments PROVE y.segments[k].duration >= Duration
    <3>1. CASE k = n + 1
      BY <1>2, <2>1, <3>1
    <3>2. CASE k # n + 1
      <4>1. k \in DOMAIN x.segments /\ y.segments[k] = x.segments[k]
        BY <2>1, <2>2, <3>2
      <4> QED BY <4>1 DEF LongEnough
    <3> QED BY <3>1, <3>2
  <2> QED BY <2>1, <2>3 DEF LongEnough
<1>3. ASSUME ~(DurationMs(x) >= Duration)
      PROVE  lo = Len(fs) + 1 \/ fs[Len(fs)].time - fs[lo].time < Duration
  <2> DEFINE n == Len(fs)
  <2>1. lo \in 1 .. n + 1 /\ x.stat = StatOf(fs, lo, n) /\ n \in Nat /\ fs \in Seq(Frame)
    BY DEF Sane, Counts, FramesFit
  <2>2. CASE lo <= n
    <3>1. x.stat.last = fs[n].time /\ x.stat.first = fs[lo].time
      BY <2>1, <2>2 DEF StatOf
    <3>2. fs[n].time \in Int /\ fs[lo].time \in Int
      <4>1. n \in 1 .. Len(fs) /\ lo \in 1 .. Len(fs)
        BY <2>1, <2>2
      <4>2. fs[n] \in Frame
        BY <2>1, <4>1, ElementOfSeq
      <4>3. fs[lo] \in Frame
        BY <2>1, <4>1, ElementOfSeq
      <4> QED BY <4>2, <4>3 DEF Frame
    <3>3. fs[n].time - fs[lo].time < Duration
      BY <1>3, <3>1, <3>2, Bounds DEF DurationMs
    <3> QED BY <3>3
  <2>3. CASE ~(lo <= n)
    BY <2>1, <2>3
  <2> QED BY <2>2, <2>3
<1>4. CASE \E a : Opened(x, a) /\ PutTables(a, y)
  BY <1>1, <1>4
<1>5. CASE x.firstCut /\ DurationMs(x) >= Duration /\ Flushed(x, y)
  BY <1>2, <1>5
<1>6. CASE x.firstCut /\ ~(DurationMs(x) >= Duration) /\ y = x
  BY <1>3, <1>6
<1> QED BY <1>4, <1>5, <1>6 DEF IsCut

\* A frame more is accepted.
LEMMA SaneGrows ==
  ASSUME NEW x, NEW fs, NEW gs, NEW f, NEW lo, Accepted(fs, gs, f), Sane(x, fs, Len(fs), lo),
         Begins(x, fs)
  PROVE  Sane(x, gs, Len(fs), lo) /\ Begins(x, gs)
<1>1. x \in Writers /\ FitsAll(x, fs) /\ Pending(x, fs) /\ Counts(x, fs, Len(fs), lo) /\ AllHonest(x, fs)
  BY DEF Sane
<1>2. FitsAll(x, gs) /\ Pending(x, gs)
  BY <1>1, FitsGrows
<1>3. Counts(x, gs, Len(fs), lo) /\ AllHonest(x, gs)
  BY <1>1, CountsGrow
<1>4. Begins(x, gs)
  BY <1>1, BeginsGrows
<1> QED BY <1>2, <1>3, <1>4 DEF Sane

\* The newest frame is n + 1, and a key frame is early enough.
Early(gs, n, lo) ==
  gs[n + 1].kind = "key" =>
    \/ lo = n + 1
    \/ \A j \in 1 .. n : gs[j].kind # "key"
    \/ gs[n].time - gs[lo].time < Duration

\* A video frame, counted and written.
LEMMA SaneFilming ==
  ASSUME NEW x, NEW y, NEW gs \in Seq(Frame), NEW n \in Nat, Len(gs) = n + 1, NEW lo,
         NEW key \in BOOLEAN, key <=> gs[n + 1].kind = "key",
         Filming(x, y, n + 1, gs[n + 1].time, key), Sane(x, gs, n, lo), Begins(x, gs),
         x.firstCut \/ ~key, Ready(x) \/ key, Early(gs, n, lo)
  PROVE  /\ Sane(y, gs, n + 1, lo) /\ Begins(y, gs) /\ Ready(y)
         /\ y.segments = x.segments /\ y.firstCut = x.firstCut
<1> DEFINE t == gs[n + 1].time
           id == n + 1
<1>1. PICK a, u : Counted(x, a, t) /\ Filmed(a, y, u, id, key)
  BY DEF Filming
<1>2. /\ a.cache = x.cache /\ a.cachePts = x.cachePts /\ a.file = x.file
      /\ a.segments = x.segments /\ a.firstCut = x.firstCut /\ a.cc = x.cc
  BY <1>1 DEF Counted
<1>3. /\ Wrote(a, y, u) /\ y.cache = a.cache /\ y.cachePts = a.cachePts
      /\ u.pid = "video" /\ u.frames = <<id>>
      /\ u.whole <=> ~Spoilt(key, shape.size + Mux!PesHeader(shape.hasDts))
  BY <1>1 DEF Filmed
<1>4. /\ y.segments = a.segments /\ y.firstCut = a.firstCut /\ y.stat = a.stat /\ y \in Writers
  BY <1>3 DEF Wrote
<1>5. u.frames[1] = id /\ id \in DOMAIN gs
  BY <1>3
<1>6. UnitFits(u, gs) /\ (KeyUnit(u, gs) <=> key)
  BY <1>3, <1>5 DEF UnitFits, KeyUnit
<1>7. AllOf(a) = AllOf(x) /\ Held(a) = Held(x)
  BY <1>2 DEF AllOf, Sources, Held
<1>8. FitsAll(a, gs) /\ Continues(AllOf(a), a.cc) /\ Begins(a, gs) /\ (Ready(a) \/ key)
  BY <1>2, <1>7 DEF Sane, FitsAll, Begins, Ready
<1>9. FitsAll(y, gs)
  BY <1>3, <1>6, <1>8, FitsWrote
<1>10. Continues(AllOf(y), y.cc)
  BY <1>3, <1>8, ContinuesWrote
<1>11. Begins(y, gs) /\ Ready(y)
  <2>1. (a.firstCut \/ ~KeyUnit(u, gs)) /\ (Ready(a) \/ KeyUnit(u, gs))
    BY <1>2, <1>6, <1>8
  <2> QED BY <1>3, <1>8, <2>1, BeginsWrote
<1>12. Held(y) = Held(x) \cup {n + 1}
  BY <1>1, <1>7, HeldFilmed
<1>13. Counts(y, gs, n + 1, lo)
  BY <1>1, <1>4, <1>12, CountsNext DEF Sane, Early
<1>14. AllHonest(y, gs) /\ Pending(y, gs)
  BY <1>2, <1>3, <1>4 DEF Sane, AllHonest, Pending
<1> QED BY <1>2, <1>4, <1>9, <1>10, <1>11, <1>13, <1>14 DEF Sane

\* An audio frame, counted, cached and perhaps written with its group.
LEMMA SaneKeeping ==
  ASSUME NEW x, NEW y, NEW gs \in Seq(Frame), NEW n \in Nat, Len(gs) = n + 1, NEW lo,
         gs[n + 1].kind # "key",
         Keeping(x, y, n + 1, gs[n + 1].time), Sane(x, gs, n, lo), Begins(x, gs), Ready(x)
  PROVE  /\ Sane(y, gs, n + 1, lo) /\ Begins(y, gs) /\ Ready(y)
         /\ y.segments = x.segments /\ y.firstCut = x.firstCut
<1> DEFINE t == gs[n + 1].time
           id == n + 1
<1>1. PICK a, b : Counted(x, a, t) /\ Stashed(a, b, id, t) /\ (y = b \/ \E u : Grouped(b, y, u))
  BY DEF Keeping
<1>2. /\ a.cache = x.cache /\ a.cachePts = x.cachePts /\ a.file = x.file
      /\ a.segments = x.segments /\ a.firstCut = x.firstCut /\ a.cc = x.cc
  BY <1>1 DEF Counted
<1>3. /\ b \in Writers /\ b.cache = Append(a.cache, id) /\ a.cache \in Seq(Nat)
      /\ a.cache = <<>> => b.cachePts - t * Hz \in -(SyncMs * Hz) .. SyncMs * Hz
      /\ a.cache # <<>> => b.cachePts = a.cachePts
      /\ b.stat = a.stat /\ b.file = a.file /\ b.segments = a.segments
      /\ b.firstCut = a.firstCut /\ b.cc = a.cc
  BY <1>1 DEF Stashed, Writers
<1>4. AllOf(b) = AllOf(x) /\ Held(a) = Held(x)
  BY <1>2, <1>3 DEF AllOf, Sources, Held
<1>5. Pending(b, gs)
  <2>1. /\ a.cache = <<>> => b.cache[1] = id
        /\ a.cache # <<>> => b.cache[1] = a.cache[1]
    <3> DEFINE c == a.cache
               d == Append(c, id)
    <3>1. Len(c) \in Nat /\ d[Len(c) + 1] = id /\ \A i \in 1 .. Len(c) : d[i] = c[i]
      BY <1>3, AppendProperties
    <3>2. c = <<>> => Len(c) = 0
      OBVIOUS
    <3>3. c # <<>> => Len(c) # 0
      BY <1>3, EmptySeq
    <3> HIDE DEF c, d
    <3>4. (c = <<>> => d[1] = id) /\ (c # <<>> => d[1] = c[1])
      BY <3>1, <3>2, <3>3
    <3> QED BY <1>3, <3>4 DEF c, d
  <2>2. CASE a.cache = <<>>
    <3>1. id \in DOMAIN gs
      OBVIOUS
    <3>2. Stamp(id, b.cachePts, SyncMs, gs)
      BY <1>3, <2>2, <3>1 DEF Stamp
    <3> QED BY <2>1, <2>2, <3>2 DEF Pending
  <2>3. CASE a.cache # <<>>
    BY <1>2, <1>3, <2>1, <2>3 DEF Sane, Pending
  <2> QED BY <2>2, <2>3
<1>6. Held(b) = Held(x) \cup {n + 1}
  <2>1. id \in Nat
    OBVIOUS
  <2> QED BY <1>1, <1>4, <2>1, HeldKept
<1>7. Counts(b, gs, n + 1, lo)
  <2>1. Counted(x, a, gs[n + 1].time) /\ b.stat = a.stat /\ Counts(x, gs, n, lo)
    BY <1>1, <1>3 DEF Sane
  <2> QED BY <1>6, <2>1, CountsNext
<1>8. /\ Sane(b, gs, n + 1, lo) /\ Begins(b, gs) /\ Ready(b)
      /\ b.segments = x.segments /\ b.firstCut = x.firstCut
  BY <1>2, <1>3, <1>4, <1>5, <1>7 DEF Sane, FitsAll, AllHonest, Begins, Ready
<1>9. FramesFit(gs)
  BY DEF FramesFit
<1>10. CASE y = b
  BY <1>8, <1>10
<1>11. CASE \E u : Grouped(b, y, u)
  <2> DEFINE m == n + 1
  <2>1. Sane(b, gs, m, lo)
    BY <1>8
  <2>2. PICK u : Grouped(b, y, u)
    BY <1>11
  <2> HIDE DEF m
  <2>3. /\ Sane(y, gs, m, lo) /\ Begins(y, gs) /\ Ready(y)
        /\ y.segments = b.segments /\ y.firstCut = b.firstCut
    BY <1>8, <1>9, <2>1, <2>2, SaneGrouped
  <2> QED BY <1>8, <2>3 DEF m
<1> QED BY <1>1, <1>10, <1>11

-----------------------------------------------------------------------------
(* The invariant.                                                            *)

\* IInv by way of Sane.
LEMMA IInvIs ==
  /\ IInv => /\ Typed /\ Begins(w, frames) /\ (~gone => Ready(w)) /\ LongEnough(w, gone)
             /\ NoKeyYet(w, frames) /\ \E lo : Sane(w, frames, Len(frames), lo)
  /\ \A lo : /\ Typed /\ Begins(w, frames) /\ (~gone => Ready(w)) /\ LongEnough(w, gone)
             /\ NoKeyYet(w, frames) /\ Sane(w, frames, Len(frames), lo)
             => IInv
BY DEF IInv, Sane, Typed, Counts

\* Only shape is read by what is not of the arguments.
LEMMA SanePrimed ==
  ASSUME shape' = shape, NEW lo, Typed', Sane(w', frames', Len(frames'), lo), Begins(w', frames'),
         ~gone' => Ready(w'), LongEnough(w', gone'), NoKeyYet(w', frames')
  PROVE  IInv'
<1>1. FitsAll(w', frames') => FitsAll(w, frames)'
  BY DEF FitsAll, Fits, UnitFits
<1>2. (FitsAll(w, frames))'
  BY <1>1 DEF Sane
<1> QED BY <1>2 DEF IInv, Sane, Counts

\* At first there is nothing.
LEMMA Starts == Init => IInv
<1> SUFFICES ASSUME Init PROVE IInv
  OBVIOUS
<1>1. /\ frames = <<>> /\ time = 0 /\ gone = FALSE /\ shape \in Shapes /\ w.stat = NewStatus
      /\ w.cache = <<>> /\ w.file = <<>> /\ w.segments = <<>> /\ w.firstCut = FALSE
  BY DEF Init
<1>2. w \in Writers
  <2> DEFINE cc == [p \in Tables \cup Tracks |-> IF p \in Tracks THEN 1 ELSE 0]
  <2>1. cc \in [Pids -> Int]
    BY DEF Pids
  <2>2. <<>> \in Seq(Nat) /\ <<>> \in Seq(Units) /\ <<>> \in Seq(Stored) /\ NewStatus \in Stats
    BY DEF NewStatus, Stats
  <2>3. w = [config |-> FALSE, stat |-> NewStatus, alignNum |-> 0, alignBase |-> 0,
             cache |-> <<>>, cachePts |-> 0, file |-> <<>>, segments |-> <<>>,
             firstCut |-> FALSE, cc |-> cc]
    BY DEF Init
  <2> HIDE DEF cc
  <2> QED BY <2>1, <2>2, <2>3 DEF Writers
<1>3. Typed
  <2>1. ShapeFits
    BY <1>1, Bounds DEF ShapeFits
  <2>2. <<>> \in Seq(Frame) /\ 0 \in Int /\ FALSE \in BOOLEAN
    OBVIOUS
  <2>3. frames \in Seq(Frame)
    BY <1>1, <2>2
  <2>4. time \in Int
    BY <1>1
  <2>5. gone \in BOOLEAN
    BY <1>1
  <2> QED BY <1>2, <2>1, <2>3, <2>4, <2>5 DEF Typed, FramesFit
<1>4. AllOf(w) = <<>>
  <2>1. Sources(w) = <<>>
    BY <1>1 DEF Sources
  <2>2. <<>> \o <<>> = <<>>
    OBVIOUS
  <2> QED BY <1>1, <2>1, <2>2, FlattenEmpty DEF AllOf
<1>5. FitsAll(w, frames) /\ Continues(AllOf(w), w.cc)
  BY <1>1, <1>4 DEF FitsAll, Fits, Continues
<1>6. Counts(w, frames, Len(frames), 1)
  <2>1. Len(frames) = 0 /\ Held(w) = {}
    BY <1>1, IdsNone DEF Held
  <2>2. 1 .. 0 = {} /\ 1 + 1 .. 0 = {} /\ 1 \in 1 .. 0 + 1 /\ ~(1 <= 0)
    OBVIOUS
  <2> QED BY <1>1, <2>1, <2>2 DEF Counts, StatOf, KeysEarly
<1>7. /\ Begins(w, frames) /\ Ready(w) /\ LongEnough(w, gone) /\ NoKeyYet(w, frames)
      /\ Pending(w, frames) /\ AllHonest(w, frames)
  BY <1>1 DEF Begins, Ready, LongEnough, NoKeyYet, Pending, AllHonest
<1> QED BY <1>2, <1>3, <1>5, <1>6, <1>7, IInvIs DEF Sane

\* A frame is accepted with the next time.
LEMMA FrameTaken ==
  ASSUME Typed, NEW kind \in Kinds, NEW pause \in Steps, TakeFrame(kind, pause)
  PROVE  /\ time' \in Int /\ Accepted(frames, frames', [kind |-> kind, time |-> time'])
         /\ frames' \in Seq(Frame) /\ frames \in Seq(Frame) /\ Len(frames) \in Nat
         /\ Len(frames') = Len(frames) + 1
         /\ frames'[Len(frames) + 1] = [kind |-> kind, time |-> time']
<1> DEFINE f == [kind |-> kind, time |-> time']
<1>1. time' \in Int
  <2>1. pause \in Int /\ time \in Int
    BY Bounds DEF Typed
  <2>2. time + pause \in Int /\ TimeModulus \in Nat \ {0}
    BY <2>1, Bounds
  <2>3. time' = (time + pause) % TimeModulus
    BY DEF TakeFrame
  <2> QED BY <2>2, <2>3
<1>2. f \in Frame /\ frames \in Seq(Frame) /\ frames' = Append(frames, f)
  BY <1>1 DEF TakeFrame, Frame, Typed, FramesFit
<1> HIDE DEF f
<1>3. Accepted(frames, frames', f)
  BY <1>2, AppendProperties DEF Accepted
<1> QED BY <1>1, <1>3 DEF Accepted, f

\* A key frame.
LEMMA KeyKeeps ==
  ASSUME IInv, NEW pause \in Steps, TakeFrame("key", pause)
  PROVE  IInv'
<1> DEFINE n == Len(frames)
           gs == frames'
           t == time'
           x == Cut(w)
<1>1. /\ Typed /\ Begins(w, frames) /\ (~gone => Ready(w)) /\ LongEnough(w, gone)
      /\ NoKeyYet(w, frames) /\ \E lo : Sane(w, frames, n, lo)
  BY IInvIs
<1>2. /\ t \in Int /\ Accepted(frames, gs, [kind |-> "key", time |-> t])
      /\ gs \in Seq(Frame) /\ n \in Nat /\ Len(gs) = n + 1
      /\ gs[n + 1] = [kind |-> "key", time |-> t]
  BY <1>1, FrameTaken DEF Kinds
<1>3. gone = FALSE /\ gone' = gone /\ shape' = shape /\ w \in Writers /\ ShapeFits /\ FramesFit(frames)
  BY <1>1 DEF TakeFrame, Typed
<1>4. IsCut(w, x)
  BY <1>3, CutIs
<1>5. w' = MuxVideo(StatUpdate(x, t), n + 1, t, TRUE)
  BY <1>2 DEF TakeFrame, Handled
<1> HIDE DEF x
<1>6. PICK lo : Sane(w, frames, n, lo)
  BY <1>1
<1>7. LongEnough(w, FALSE) /\ Ready(w)
  BY <1>1, <1>3
<1>8. /\ Begins(x, frames) /\ x.firstCut /\ LongEnough(x, FALSE)
      /\ \E m : /\ Sane(x, frames, n, m)
                /\ \/ m = n + 1
                   \/ \A j \in 1 .. n : frames[j].kind # "key"
                   \/ frames[n].time - frames[m].time < Duration
  BY <1>1, <1>3, <1>4, <1>6, <1>7, SaneCut
<1>9. PICK m : /\ Sane(x, frames, n, m)
               /\ \/ m = n + 1
                  \/ \A j \in 1 .. n : frames[j].kind # "key"
                  \/ frames[n].time - frames[m].time < Duration
  BY <1>8
<1>10. Sane(x, gs, n, m) /\ Begins(x, gs)
  BY <1>2, <1>8, <1>9, SaneGrows
<1>11. Early(gs, n, m)
  <2>1. m \in 1 .. n + 1
    BY <1>9 DEF Sane, Counts
  <2>2. \A j \in 1 .. n : gs[j] = frames[j]
    BY <1>2 DEF Accepted
  <2>3. m # n + 1 => m \in 1 .. n /\ n \in 1 .. n
    BY <1>2, <2>1
  <2> QED BY <1>9, <2>2, <2>3 DEF Early
<1>12. x \in Writers /\ n + 1 \in Nat /\ TRUE \in BOOLEAN
  BY <1>2, <1>9 DEF Sane
<1>13. Filming(x, w', n + 1, t, TRUE)
  <2> DEFINE id == n + 1
             key == TRUE
  <2>1. id \in Nat /\ key \in BOOLEAN /\ w' = MuxVideo(StatUpdate(x, t), id, t, key)
    BY <1>5, <1>12
  <2> HIDE DEF id, key
  <2>2. Filming(x, w', id, t, key)
    BY <1>2, <1>3, <1>12, <2>1, FilmingIs
  <2> QED BY <2>2 DEF id, key
<1> HIDE DEF n
<1>14. /\ Sane(w', gs, n + 1, m) /\ Begins(w', gs) /\ Ready(w')
       /\ w'.segments = x.segments /\ w'.firstCut = x.firstCut
  <2>1. gs[n + 1].kind = "key" /\ gs[n + 1].time = t
    BY <1>2
  <2> DEFINE key == TRUE
  <2>2. key \in BOOLEAN /\ (key <=> gs[n + 1].kind = "key") /\ Filming(x, w', n + 1, gs[n + 1].time, key)
        /\ (x.firstCut \/ ~key) /\ (Ready(x) \/ key)
    BY <1>8, <1>13, <2>1
  <2> HIDE DEF key
  <2> QED BY <1>2, <1>10, <1>11, <2>2, SaneFilming
<1>15. NoKeyYet(w', gs) /\ LongEnough(w', gone')
  BY <1>3, <1>8, <1>14 DEF NoKeyYet, LongEnough
<1>16. Typed'
  BY <1>2, <1>3, <1>14 DEF Typed, ShapeFits, FramesFit, Sane
<1>17. Sane(w', frames', Len(frames'), m)
  BY <1>2, <1>14
<1> QED BY <1>3, <1>14, <1>15, <1>16, <1>17, SanePrimed

\* A frame that is no key frame.
LEMMA OtherFrameKeeps ==
  ASSUME IInv, NEW kind \in {"inter", "audio"}, NEW pause \in Steps, TakeFrame(kind, pause)
  PROVE  IInv'
<1> DEFINE n == Len(frames)
           gs == frames'
           t == time'
<1>1. /\ Typed /\ Begins(w, frames) /\ (~gone => Ready(w)) /\ LongEnough(w, gone)
      /\ NoKeyYet(w, frames) /\ \E lo : Sane(w, frames, n, lo)
  BY IInvIs
<1>2. /\ t \in Int /\ Accepted(frames, gs, [kind |-> kind, time |-> t])
      /\ gs \in Seq(Frame) /\ n \in Nat /\ Len(gs) = n + 1
      /\ gs[n + 1] = [kind |-> kind, time |-> t]
  BY <1>1, FrameTaken DEF Kinds
<1>3. gone = FALSE /\ gone' = gone /\ shape' = shape /\ w \in Writers /\ ShapeFits /\ Ready(w)
  BY <1>1 DEF TakeFrame, Typed
<1>4. PICK lo : Sane(w, frames, n, lo)
  BY <1>1
<1>5. Sane(w, gs, n, lo) /\ Begins(w, gs)
  BY <1>1, <1>2, <1>4, SaneGrows
<1>6. n + 1 \in Nat /\ gs[n + 1].kind = kind /\ gs[n + 1].time = t /\ gs[n + 1].kind # "key"
  BY <1>2
<1>7. w' = Handled(kind, n + 1, t)
  BY <1>2 DEF TakeFrame
<1> HIDE DEF n
<1>8. /\ Sane(w', gs, n + 1, lo) /\ Begins(w', gs) /\ Ready(w')
      /\ w'.segments = w.segments /\ w'.firstCut = w.firstCut
  <2>1. CASE kind = "inter"
    <3> DEFINE key == FALSE
               id == n + 1
    <3>1. /\ id \in Nat /\ key \in BOOLEAN /\ (key <=> gs[n + 1].kind = "key")
          /\ w' = MuxVideo(StatUpdate(w, t), id, t, key)
          /\ (w.firstCut \/ ~key) /\ (Ready(w) \/ key)
      BY <1>3, <1>6, <1>7, <2>1 DEF Handled
    <3> HIDE DEF key, id
    <3>2. Filming(w, w', id, t, key)
      BY <1>2, <1>3, <3>1, FilmingIs
    <3>3. Filming(w, w', n + 1, gs[n + 1].time, key) /\ Early(gs, n, lo)
      BY <1>6, <3>2 DEF id, Early
    <3>4. /\ gs \in Seq(Frame) /\ n \in Nat /\ Len(gs) = n + 1 /\ key \in BOOLEAN
          /\ (key <=> gs[n + 1].kind = "key") /\ Sane(w, gs, n, lo) /\ Begins(w, gs)
          /\ (w.firstCut \/ ~key) /\ (Ready(w) \/ key)
      BY <1>2, <1>5, <3>1
    <3> HIDE DEF gs
    <3> QED BY <3>3, <3>4, SaneFilming
  <2>2. CASE kind = "audio"
    <3> DEFINE id == n + 1
    <3>1. id \in Nat /\ w' = CacheAudio(StatUpdate(w, t), id, t)
      BY <1>6, <1>7, <2>2 DEF Handled
    <3> HIDE DEF id
    <3>2. Keeping(w, w', id, t)
      BY <1>2, <1>3, <3>1, KeepingIs
    <3>3. Keeping(w, w', n + 1, gs[n + 1].time)
      BY <1>6, <3>2 DEF id
    <3> QED BY <1>2, <1>3, <1>5, <1>6, <3>3, SaneKeeping
  <2> QED BY <2>1, <2>2
<1>9. NoKeyYet(w', gs)
  <2> SUFFICES ASSUME ~w.firstCut, NEW i \in 1 .. n + 1 PROVE gs[i].kind # "key"
    BY <1>2, <1>8 DEF NoKeyYet
  <2>1. CASE i = n + 1
    BY <1>6, <2>1
  <2>2. CASE i # n + 1
    <3>1. i \in DOMAIN frames /\ gs[i] = frames[i]
      BY <1>2, <2>2 DEF Accepted, n
    <3> QED BY <1>1, <3>1 DEF NoKeyYet
  <2> QED BY <2>1, <2>2
<1>10. LongEnough(w', gone')
  BY <1>1, <1>3, <1>8 DEF LongEnough
<1>11. Typed'
  BY <1>2, <1>3, <1>8 DEF Typed, ShapeFits, FramesFit, Sane
<1>12. Sane(w', frames', Len(frames'), lo)
  BY <1>2, <1>8
<1> QED BY <1>3, <1>8, <1>9, <1>10, <1>11, <1>12, SanePrimed

\* The goroutine's end: the last segment may be short.
LEMMA EndKeeps ==
  ASSUME IInv, ~gone, w' = Ended, gone' = TRUE, UNCHANGED <<shape, time, frames>>
  PROVE  IInv'
<1> DEFINE n == Len(frames)
<1>1. /\ Typed /\ Begins(w, frames) /\ Ready(w) /\ LongEnough(w, FALSE)
      /\ NoKeyYet(w, frames) /\ \E lo : Sane(w, frames, n, lo)
  BY IInvIs DEF Typed
<1>2. PICK lo : Sane(w, frames, n, lo)
  BY <1>1
<1>3. w \in Writers /\ ShapeFits /\ FramesFit(frames)
  BY <1>1 DEF Typed
<1>4. CASE w.firstCut
  <2> DEFINE m == Len(w.segments)
  <2>1. Flushed(w, w')
    BY <1>3, <1>4, FlushIs DEF Ended
  <2>2. /\ Sane(w', frames, n, n + 1) /\ Begins(w', frames) /\ w'.firstCut
        /\ w.segments \in Seq(Stored) /\ w'.segments \in Seq(Stored)
        /\ Len(w'.segments) = m + 1
        /\ \A k \in 1 .. m : w'.segments[k] = w.segments[k]
    BY <1>1, <1>2, <1>3, <1>4, <2>1, SaneFlushed
  <2>3. m \in Nat /\ DOMAIN w.segments = 1 .. m /\ DOMAIN w'.segments = 1 .. m + 1
    BY <2>2
  <2> HIDE DEF m
  <2>4. LongEnough(w', gone')
    <3> SUFFICES ASSUME NEW k \in DOMAIN w'.segments, k < m + 1
                 PROVE  w'.segments[k].duration >= Duration
      BY <2>2 DEF LongEnough
    <3>1. k \in DOMAIN w.segments /\ w'.segments[k] = w.segments[k]
      BY <2>2, <2>3
    <3> QED BY <1>1, <3>1 DEF LongEnough
  <2>5. NoKeyYet(w', frames')
    BY <2>2 DEF NoKeyYet
  <2>6. Typed'
    BY <1>1, <2>2 DEF Typed, ShapeFits, FramesFit, Sane
  <2> QED BY <2>2, <2>4, <2>5, <2>6, SanePrimed
<1>5. CASE ~w.firstCut
  <2>1. w' = w
    BY <1>5 DEF Ended
  <2>2. LongEnough(w', gone')
    BY <1>1, <2>1 DEF LongEnough
  <2>3. Typed'
    BY <1>1, <2>1 DEF Typed, ShapeFits, FramesFit
  <2> QED BY <1>1, <1>2, <2>1, <2>2, <2>3, SanePrimed
<1> QED BY <1>4, <1>5

\* The configuration is none of what IInv is about.
LEMMA ConfigKeeps ==
  ASSUME IInv, NEW kind \in Kinds, TakeOther(kind)
  PROVE  IInv'
<1>1. /\ Typed /\ Begins(w, frames) /\ (~gone => Ready(w)) /\ LongEnough(w, gone)
      /\ NoKeyYet(w, frames) /\ \E lo : Sane(w, frames, Len(frames), lo)
  BY IInvIs
<1>2. PICK lo : Sane(w, frames, Len(frames), lo)
  BY <1>1
<1>3. /\ w' = [w EXCEPT !.config = @ \/ kind = "config"]
      /\ UNCHANGED <<shape, time, frames, gone>> /\ w \in Writers
  BY <1>1 DEF TakeOther, Typed
<1>4. /\ w' \in Writers /\ w'.stat = w.stat /\ w'.cache = w.cache /\ w'.cachePts = w.cachePts
      /\ w'.file = w.file /\ w'.segments = w.segments /\ w'.cc = w.cc /\ w'.firstCut = w.firstCut
  BY <1>3 DEF Writers
<1>5. AllOf(w') = AllOf(w) /\ Held(w') = Held(w)
  BY <1>4 DEF AllOf, Sources, Held
<1>6. Sane(w', frames, Len(frames), lo)
  BY <1>2, <1>4, <1>5 DEF Sane, FitsAll, Pending, Counts, AllHonest
<1>7. Begins(w', frames) /\ (~gone => Ready(w')) /\ LongEnough(w', gone) /\ NoKeyYet(w', frames)
  BY <1>1, <1>4 DEF Begins, Ready, LongEnough, NoKeyYet
<1>8. Typed'
  BY <1>1, <1>3, <1>4 DEF Typed, ShapeFits, FramesFit
<1> QED BY <1>3, <1>6, <1>7, <1>8, SanePrimed

\* IInv is inductive.
LEMMA Keeps == IInv /\ [Next]_vars => IInv'
<1> SUFFICES ASSUME IInv, [Next]_vars PROVE IInv'
  OBVIOUS
<1>1. ASSUME NEW kind \in Kinds, NEW pause \in Steps, TakeFrame(kind, pause) PROVE IInv'
  <2>1. kind = "key" \/ kind \in {"inter", "audio"}
    BY <1>1 DEF TakeFrame, Decodes
  <2>2. CASE kind = "key"
    BY <1>1, <2>2, KeyKeeps
  <2>3. CASE kind \in {"inter", "audio"}
    BY <1>1, <2>3, OtherFrameKeeps
  <2> QED BY <2>1, <2>2, <2>3
<1>2. ASSUME NEW kind \in Kinds, TakeOther(kind) PROVE IInv'
  BY <1>2, ConfigKeeps
<1>3. CASE TakeMalformed \/ EndOfQueue
  <2>1. ~gone /\ w' = Ended /\ gone' = TRUE /\ UNCHANGED <<shape, time, frames>>
    BY <1>3 DEF TakeMalformed, EndOfQueue
  <2> QED BY <2>1, EndKeeps
<1>4. CASE UNCHANGED <<shape, time, frames, w, gone>>
  <2>1. PICK lo : /\ Typed /\ Begins(w, frames) /\ (~gone => Ready(w)) /\ LongEnough(w, gone)
                  /\ NoKeyYet(w, frames) /\ Sane(w, frames, Len(frames), lo)
    BY IInvIs
  <2>2. Typed'
    BY <1>4, <2>1 DEF Typed, ShapeFits, FramesFit
  <2>3. Sane(w', frames', Len(frames'), lo)
    BY <1>4, <2>1
  <2>4. Begins(w', frames') /\ (~gone' => Ready(w')) /\ LongEnough(w', gone') /\ NoKeyYet(w', frames')
    BY <1>4, <2>1
  <2> QED BY <1>4, <2>2, <2>3, <2>4, SanePrimed
<1>5. CASE Deregister \/ CloseQueue \/ OtherRegisters \/ OtherDeregisters
  BY <1>4, <1>5 DEF Deregister, CloseQueue, OtherRegisters, OtherDeregisters
<1>6. CASE UNCHANGED vars
  BY <1>4, <1>6 DEF vars
<1> QED BY <1>1, <1>2, <1>3, <1>5, <1>6 DEF Next

\* The invariant holds at all times.
THEOREM Invariance == Spec => []IInv
<1> QED BY Starts, Keeps, PTL DEF Spec

-----------------------------------------------------------------------------
(* What follows from it.                                                     *)

\* A group of audio frames is stamped with its first frame's time, whatever
\* was cached, aligned or flushed before.
THEOREM GroupsInSync == Spec => []AudioInSync
<1>1. IInv => AudioInSync
  <2> SUFFICES ASSUME IInv,
                      NEW u \in ToSet(w.file) \cup UNION {ToSet(s.units) : s \in ToSet(w.segments)},
                      u.pid = "audio"
               PROVE  u.pts - frames[u.frames[1]].time * Hz \in -(SyncMs + 1) * Hz .. SyncMs * Hz
    BY DEF AudioInSync
  <2>1. FitsAll(w, frames)
    BY DEF IInv
  <2>2. UnitFits(u, frames)
    <3>1. CASE u \in ToSet(w.file)
      <4>1. PICK i \in DOMAIN w.file : u = w.file[i]
        BY <3>1 DEF ToSet
      <4> QED BY <2>1, <4>1 DEF FitsAll, Fits
    <3>2. CASE u \in UNION {ToSet(s.units) : s \in ToSet(w.segments)}
      <4>1. PICK k \in DOMAIN w.segments : u \in ToSet(w.segments[k].units)
        BY <3>2 DEF ToSet
      <4>2. PICK i \in DOMAIN w.segments[k].units : u = w.segments[k].units[i]
        BY <4>1 DEF ToSet
      <4> QED BY <2>1, <4>2 DEF FitsAll, Fits
    <3> QED BY <3>1, <3>2
  <2>3. Stamp(u.frames[1], u.pts, SyncMs + 1, frames)
    BY <2>2 DEF UnitFits, Tables
  <2> QED BY <2>3 DEF Stamp, SyncMs, Hz
<1> QED BY <1>1, Invariance, PTL

\* A player can start at any segment, and the counters tell it of no loss.
THEOREM EverySegmentDecodes == Spec => []SegmentsDecode
<1>1. IInv => SegmentsDecode
  <2> SUFFICES ASSUME IInv PROVE SegmentsDecode
    OBVIOUS
  <2> DEFINE all == FlattenSeq([k \in DOMAIN w.segments |-> UnitsOf(k)]) \o w.file
  <2>1. all = AllOf(w)
    BY DEF AllOf, Sources, UnitsOf
  <2>2. \A u : IsKey(u) <=> KeyUnit(u, frames)
    BY DEF IsKey, KeyUnit
  <2> HIDE DEF all
  <2>3. \A i, j \in DOMAIN all :
          i < j /\ all[i].pid = all[j].pid /\ (\A m \in i + 1 .. j - 1 : all[m].pid # all[i].pid)
            => all[j].cc = (all[i].cc + all[i].packets) % CcModulus
    BY <2>1 DEF IInv, Continues
  <2>4. ASSUME NEW i \in DOMAIN all PROVE all[i].whole <=> ~TooSmall(all[i])
    <3>1. UnitFits(all[i], frames)
      BY <2>1 DEF IInv, FitsAll, Fits
    <3> QED BY <2>2, <3>1 DEF UnitFits, TooSmall, KeyUnit, Spoilt, Tables
  <2>5. ASSUME NEW k \in DOMAIN w.segments
        PROVE  LET u == UnitsOf(k) IN
               /\ k > 1 => /\ u[1].pid = "pat" /\ u[2].pid = "pmt"
                           /\ Len(u) > 2 => IsKey(u[3])
               /\ \E i \in DOMAIN u : /\ u[i].pid = "pat" /\ u[i + 1].pid = "pmt"
                                      /\ \A j \in DOMAIN u : IsKey(u[j]) => i < j
    <3>1. /\ TablesFirst(UnitsOf(k), frames)
          /\ k > 1 => Begun(UnitsOf(k), frames)
      BY DEF IInv, Begins, UnitsOf
    <3> QED BY <2>2, <3>1 DEF TablesFirst, Begun
  <2> QED BY <2>3, <2>4, <2>5 DEF SegmentsDecode, all
<1> QED BY <1>1, Invariance, PTL

\* The duration of a segment is its frames', and at least Duration unless the
\* stream ended.
THEOREM DurationsRight == Spec => []DurationsHonest
<1>1. IInv => DurationsHonest
  <2> SUFFICES ASSUME IInv, NEW k \in DOMAIN w.segments
               PROVE
                 LET ids == Ids(UnitsOf(k))
                     first == CHOOSE i \in ids : \A j \in ids : i <= j
                     last == CHOOSE i \in ids : \A j \in ids : i >= j
                     keys == {i \in DOMAIN frames : frames[i].kind = "key"}
                     since(i) == frames[i].time - frames[first].time
                 IN /\ w.segments[k].duration = IF ids = {} THEN 0 ELSE since(last)
                    /\ (k < Len(w.segments) \/ ~gone) => w.segments[k].duration >= Duration
                    /\ \A i \in (ids \cap keys) \ {first} :
                         since(i - 1) < Duration \/ \A j \in keys : i <= j
    BY DEF DurationsHonest
  <2> DEFINE ids == Ids(UnitsOf(k))
             first == CHOOSE i \in ids : \A j \in ids : i <= j
             last == CHOOSE i \in ids : \A j \in ids : i >= j
             keys == {i \in DOMAIN frames : frames[i].kind = "key"}
  <2>1. PICK b \in 0 .. Len(frames) : \E a \in 1 .. b + 1 :
          /\ Ids(w.segments[k].units) = a .. b /\ KeysEarly(frames, a, b)
          /\ w.segments[k].duration = StatOf(frames, a, b).last - StatOf(frames, a, b).first
    BY DEF IInv, AllHonest, Honest
  <2>2. PICK a \in 1 .. b + 1 :
          /\ Ids(w.segments[k].units) = a .. b /\ KeysEarly(frames, a, b)
          /\ w.segments[k].duration = StatOf(frames, a, b).last - StatOf(frames, a, b).first
    BY <2>1
  <2>3. (k < Len(w.segments) \/ ~gone) => w.segments[k].duration >= Duration
    BY DEF IInv, LongEnough
  <2>4. ids = a .. b
    BY <2>2 DEF UnitsOf
  <2>5. ASSUME ids # {} PROVE a <= b /\ first = a /\ last = b
    <3>1. a <= b /\ a \in ids /\ b \in ids
      BY <2>4, <2>5
    <3>2. \E i \in ids : \A j \in ids : i <= j
      BY <2>4, <3>1
    <3>3. first \in ids /\ \A j \in ids : first <= j
      BY <3>2
    <3>4. \E i \in ids : \A j \in ids : i >= j
      BY <2>4, <3>1
    <3>5. last \in ids /\ \A j \in ids : last >= j
      BY <3>4
    <3> HIDE DEF first, last, ids
    <3> QED BY <2>4, <3>1, <3>3, <3>5
  <2> HIDE DEF ids, first, last
  <2>6. w.segments[k].duration = IF ids = {} THEN 0 ELSE frames[last].time - frames[first].time
    <3>1. CASE ids = {}
      <4>1. ~(a <= b)
        BY <2>4, <3>1
      <4> QED BY <2>2, <3>1, <4>1 DEF StatOf, NewStatus
    <3>2. CASE ids # {}
      BY <2>2, <2>5, <3>2 DEF StatOf
    <3> QED BY <3>1, <3>2
  <2>7. ASSUME NEW i \in (ids \cap keys) \ {first}
        PROVE  frames[i - 1].time - frames[first].time < Duration \/ \A j \in keys : i <= j
    <3>1. first = a /\ a <= b /\ i \in a .. b /\ i # a
      BY <2>4, <2>5, <2>7
    <3>2. i \in a + 1 .. b /\ frames[i].kind = "key"
      BY <3>1
    <3> QED BY <2>2, <3>1, <3>2 DEF KeysEarly
  <2> QED BY <2>3, <2>6, <2>7 DEF ids, first, last
<1> QED BY <1>1, Invariance, PTL

-----------------------------------------------------------------------------
(* The writer cuts a stream into segments.                                   *)

PartOf(u, t) == IF u.pid = t THEN u.frames ELSE <<>>
OpenOf(x) ==
  [t \in Tracks |-> InTrack(x.file, t) \o (IF t = "audio" THEN x.cache ELSE <<>>)]
DoneOf(x) == [k \in DOMAIN x.segments |-> [t \in Tracks |-> InTrack(x.segments[k].units, t)]]
Same(x, y) == OpenOf(y) = OpenOf(x) /\ DoneOf(y) = DoneOf(x)
Ends(x, y) == DoneOf(y) = Append(DoneOf(x), OpenOf(x)) /\ OpenOf(y) = [t \in Tracks |-> <<>>]

\* The frames of a track in a sequence of units one longer.
LEMMA InTrackMore ==
  ASSUME NEW s \in Seq(Units), NEW u \in Units, NEW t
  PROVE  /\ InTrack(s, t) \in Seq(Nat)
         /\ InTrack(Append(s, u), t) = InTrack(s, t) \o PartOf(u, t)
<1> DEFINE v == Append(s, u)
           n == Len(s)
           W == [i \in DOMAIN s |-> PartOf(s[i], t)]
           V == [i \in DOMAIN v |-> PartOf(v[i], t)]
<1>1. /\ v \in Seq(Units) /\ DOMAIN v = 1 .. n + 1 /\ DOMAIN s = 1 .. n /\ n \in Nat
      /\ v[n + 1] = u /\ \A i \in 1 .. n : v[i] = s[i]
  BY UnitsMore
<1>2. \A a \in Units : PartOf(a, t) \in Seq(Nat)
  <2>1. <<>> \in Seq(Nat)
    OBVIOUS
  <2> QED BY <2>1 DEF PartOf, Units
<1>3. InTrack(s, t) = FlattenSeq(W) /\ InTrack(v, t) = FlattenSeq(V)
  BY DEF InTrack, PartOf
<1>4. \A i \in 1 .. n : s[i] \in Units
  BY ElementOfSeq
<1> HIDE DEF v, n
<1>5. W = [i \in 1 .. n |-> PartOf(s[i], t)] /\ V = [i \in 1 .. n + 1 |-> PartOf(v[i], t)]
  BY <1>1
<1>6. \A i \in 1 .. n + 1 : PartOf(v[i], t) \in Seq(Nat)
  <2>1. \A i \in 1 .. n + 1 : i \in 1 .. n \/ i = n + 1
    BY <1>1
  <2> QED BY <1>1, <1>2, <1>4, <2>1
<1> HIDE DEF W, V
<1>7. W \in Seq(Seq(Nat)) /\ Len(W) = n
  <2>1. \A i \in 1 .. n : PartOf(s[i], t) \in Seq(Nat)
    BY <1>2, <1>4
  <2>2. W \in [1 .. n -> Seq(Nat)]
    BY <1>5, <2>1
  <2> QED BY <1>1, <2>2, LenProperties
<1>8. V \in Seq(Seq(Nat)) /\ Len(V) = n + 1
  BY <1>1, <1>5, <1>6
<1>9. (\A i \in 1 .. n : V[i] = W[i]) /\ V[n + 1] = PartOf(u, t)
  <2>1. n + 1 \in 1 .. n + 1 /\ \A i \in 1 .. n : i \in 1 .. n + 1
    BY <1>1
  <2> QED BY <1>1, <1>5, <2>1
<1>10. FlattenSeq(W) \in Seq(Nat) /\ FlattenSeq(V) = FlattenSeq(W) \o V[n + 1]
  BY <1>1, <1>7, <1>8, <1>9, FlattenMore
<1> QED BY <1>3, <1>9, <1>10 DEF v

\* No unit has no frames of a track.
LEMMA InTrackNone == \A t : InTrack(<<>>, t) = <<>>
<1> TAKE t
<1>1. [i \in DOMAIN <<>> |-> IF <<>>[i].pid = t THEN <<>>[i].frames ELSE <<>>] = <<>>
  OBVIOUS
<1> QED BY <1>1, FlattenEmpty DEF InTrack

\* A writer's file has frames of both tracks.
LEMMA OpenType ==
  ASSUME NEW x \in Writers
  PROVE  /\ \A t : InTrack(x.file, t) \in Seq(Nat)
         /\ x.cache \in Seq(Nat) /\ OpenOf(x) \in [Tracks -> Seq(Nat)]
         /\ OpenOf(x)["audio"] = InTrack(x.file, "audio") \o x.cache
         /\ OpenOf(x)["video"] = InTrack(x.file, "video")
<1>1. x.file \in Seq(Units) /\ x.cache \in Seq(Nat) /\ <<>> \in Seq(Nat)
  BY DEF Writers
<1>2. ASSUME NEW t PROVE InTrack(x.file, t) \in Seq(Nat)
  <2> DEFINE u == [pid |-> "pat", packets |-> 1, frames |-> <<>>, pts |-> 0, whole |-> TRUE, cc |-> 0]
  <2>1. u \in Units
    BY <1>1 DEF Units, Pids, Tables
  <2> HIDE DEF u
  <2> QED BY <1>1, <2>1, InTrackMore
<1>3. ASSUME NEW t \in Tracks
      PROVE  InTrack(x.file, t) \o (IF t = "audio" THEN x.cache ELSE <<>>) \in Seq(Nat)
  BY <1>1, <1>2, ConcatProperties
<1>4. OpenOf(x) \in [Tracks -> Seq(Nat)]
  BY <1>3 DEF OpenOf
<1>5. InTrack(x.file, "video") \o <<>> = InTrack(x.file, "video")
  BY <1>2, ConcatEmptySeq
<1> QED BY <1>1, <1>2, <1>4, <1>5 DEF OpenOf, Tracks

\* Functions of the tracks are equal when both tracks are.
LEMMA TracksEqual ==
  ASSUME NEW S, NEW f \in [Tracks -> S], NEW g \in [Tracks -> S], f["video"] = g["video"],
         f["audio"] = g["audio"]
  PROVE  f = g
BY DEF Tracks

\* What a unit written adds to a track.
LEMMA OpenWrote ==
  ASSUME NEW x, NEW y, NEW u, Wrote(x, y, u), NEW t
  PROVE  /\ InTrack(y.file, t) = InTrack(x.file, t) \o PartOf(u, t)
         /\ DoneOf(y) = DoneOf(x) /\ x \in Writers /\ y \in Writers
<1>1. x.file \in Seq(Units) /\ u \in Units /\ y.file = Append(x.file, u)
  BY DEF Wrote, Writers
<1>2. InTrack(y.file, t) = InTrack(x.file, t) \o PartOf(u, t)
  BY <1>1, InTrackMore
<1> QED BY <1>2 DEF Wrote, DoneOf

\* Tables are of no track.
LEMMA TabledSame ==
  ASSUME NEW x, NEW y, NEW u, NEW pid, Tabled(x, y, u, pid)
  PROVE  Same(x, y)
<1>1. Wrote(x, y, u) /\ y.cache = x.cache /\ u.frames = <<>>
  BY DEF Tabled
<1>2. x \in Writers /\ y \in Writers /\ DoneOf(y) = DoneOf(x)
  BY <1>1, OpenWrote
<1>3. ASSUME NEW t PROVE InTrack(y.file, t) = InTrack(x.file, t)
  <2>1. InTrack(y.file, t) = InTrack(x.file, t) \o PartOf(u, t)
    BY <1>1, OpenWrote
  <2>2. PartOf(u, t) = <<>>
    BY <1>1 DEF PartOf
  <2>3. InTrack(x.file, t) \in Seq(Nat)
    BY <1>2, OpenType
  <2>4. InTrack(x.file, t) \o <<>> = InTrack(x.file, t)
    BY <2>3, ConcatEmptySeq
  <2> QED BY <2>1, <2>2, <2>4
<1> QED BY <1>1, <1>2, <1>3 DEF Same, OpenOf

\* Both tables leave the tracks as they are.
LEMMA TablesSame ==
  ASSUME NEW x, NEW y, PutTables(x, y)
  PROVE  Same(x, y)
<1>1. PICK z, u, v : Tabled(x, z, u, "pat") /\ Tabled(z, y, v, "pmt")
  BY DEF PutTables
<1>2. Same(x, z)
  BY <1>1, TabledSame
<1>3. Same(z, y)
  BY <1>1, TabledSame
<1> QED BY <1>2, <1>3 DEF Same

\* A group goes from the cache to the file.
LEMMA GroupedSame ==
  ASSUME NEW x, NEW y, NEW u, Grouped(x, y, u)
  PROVE  Same(x, y)
<1>1. Wrote(x, y, u) /\ y.cache = <<>> /\ u.frames = x.cache /\ u.pid = "audio"
  BY DEF Grouped
<1>2. x \in Writers /\ y \in Writers /\ DoneOf(y) = DoneOf(x)
  BY <1>1, OpenWrote
<1>3. OpenOf(y)["video"] = OpenOf(x)["video"]
  <2>1. InTrack(y.file, "video") = InTrack(x.file, "video") \o PartOf(u, "video")
    BY <1>1, OpenWrote
  <2>2. PartOf(u, "video") = <<>>
    BY <1>1 DEF PartOf
  <2>3. InTrack(x.file, "video") \in Seq(Nat) /\ OpenOf(x)["video"] = InTrack(x.file, "video")
    BY <1>2, OpenType
  <2>4. OpenOf(y)["video"] = InTrack(y.file, "video")
    BY <1>2, OpenType
  <2>5. InTrack(x.file, "video") \o <<>> = InTrack(x.file, "video")
    BY <2>3, ConcatEmptySeq
  <2> QED BY <2>1, <2>2, <2>3, <2>4, <2>5
<1>4. OpenOf(y)["audio"] = OpenOf(x)["audio"]
  <2>1. InTrack(y.file, "audio") = InTrack(x.file, "audio") \o PartOf(u, "audio")
    BY <1>1, OpenWrote
  <2>2. PartOf(u, "audio") = x.cache
    BY <1>1 DEF PartOf
  <2>3. OpenOf(x)["audio"] = InTrack(x.file, "audio") \o x.cache
    BY <1>2, OpenType
  <2>4. OpenOf(y)["audio"] = InTrack(y.file, "audio") \o y.cache /\ InTrack(y.file, "audio") \in Seq(Nat)
    BY <1>2, OpenType
  <2>5. InTrack(y.file, "audio") \o <<>> = InTrack(y.file, "audio")
    BY <2>4, ConcatEmptySeq
  <2> QED BY <1>1, <2>1, <2>2, <2>3, <2>4, <2>5
<1>5. OpenOf(x) \in [Tracks -> Seq(Nat)]
  BY <1>2, OpenType
<1>6. OpenOf(y) \in [Tracks -> Seq(Nat)]
  BY <1>2, OpenType
<1>7. OpenOf(y) = OpenOf(x)
  BY <1>3, <1>4, <1>5, <1>6, TracksEqual
<1> QED BY <1>2, <1>7 DEF Same

\* A frame taken goes behind the others of its track.
Takes(x, y, track, id) ==
  OpenOf(y) = [OpenOf(x) EXCEPT ![track] = Append(@, id)] /\ DoneOf(y) = DoneOf(x)

\* Putting one behind is appending.
LEMMA ConcatOne ==
  ASSUME NEW s \in Seq(Nat), NEW id \in Nat
  PROVE  s \o <<id>> = Append(s, id)
OBVIOUS

\* One behind the second of two is one behind both.
LEMMA ConcatMore ==
  ASSUME NEW s \in Seq(Nat), NEW c \in Seq(Nat), NEW id \in Nat
  PROVE  s \o Append(c, id) = Append(s \o c, id)
OBVIOUS

\* A video frame goes to the file.
LEMMA FilmedTakes ==
  ASSUME NEW x, NEW y, NEW u, NEW id \in Nat, NEW key, Filmed(x, y, u, id, key)
  PROVE  Takes(x, y, "video", id)
<1>1. Wrote(x, y, u) /\ y.cache = x.cache /\ u.frames = <<id>> /\ u.pid = "video"
  BY DEF Filmed
<1>2. x \in Writers /\ y \in Writers /\ DoneOf(y) = DoneOf(x)
  BY <1>1, OpenWrote
<1> DEFINE g == [OpenOf(x) EXCEPT !["video"] = Append(@, id)]
<1>3. OpenOf(x) \in [Tracks -> Seq(Nat)] /\ InTrack(x.file, "video") \in Seq(Nat)
      /\ OpenOf(x)["video"] = InTrack(x.file, "video")
      /\ OpenOf(x)["audio"] = InTrack(x.file, "audio") \o x.cache
      /\ InTrack(x.file, "audio") \in Seq(Nat)
  BY <1>2, OpenType
<1>4. OpenOf(y) \in [Tracks -> Seq(Nat)]
      /\ OpenOf(y)["video"] = InTrack(y.file, "video")
      /\ OpenOf(y)["audio"] = InTrack(y.file, "audio") \o y.cache
  BY <1>2, OpenType
<1>5. OpenOf(y)["video"] = Append(OpenOf(x)["video"], id)
  <2>1. InTrack(y.file, "video") = InTrack(x.file, "video") \o PartOf(u, "video")
    BY <1>1, OpenWrote
  <2>2. PartOf(u, "video") = <<id>>
    BY <1>1 DEF PartOf
  <2>3. InTrack(x.file, "video") \o <<id>> = Append(InTrack(x.file, "video"), id)
    BY <1>3, ConcatOne
  <2> QED BY <1>3, <1>4, <2>1, <2>2, <2>3
<1>6. OpenOf(y)["audio"] = OpenOf(x)["audio"]
  <2>1. InTrack(y.file, "audio") = InTrack(x.file, "audio") \o PartOf(u, "audio")
    BY <1>1, OpenWrote
  <2>2. PartOf(u, "audio") = <<>>
    BY <1>1 DEF PartOf
  <2>3. InTrack(x.file, "audio") \o <<>> = InTrack(x.file, "audio")
    BY <1>3, ConcatEmptySeq
  <2> QED BY <1>1, <1>3, <1>4, <2>1, <2>2, <2>3
<1>7. g["video"] = Append(OpenOf(x)["video"], id) /\ g["audio"] = OpenOf(x)["audio"]
  BY <1>3 DEF Tracks
<1>8. g \in [Tracks -> Seq(Nat)]
  <2>1. Append(OpenOf(x)["video"], id) \in Seq(Nat)
    BY <1>3, AppendProperties
  <2> QED BY <1>3, <2>1
<1> HIDE DEF g
<1>9. OpenOf(y) = g
  BY <1>4, <1>5, <1>6, <1>7, <1>8, TracksEqual
<1> QED BY <1>2, <1>9 DEF Takes, g

\* An audio frame goes to the cache.
LEMMA KeptTakes ==
  ASSUME NEW x, NEW y, NEW id \in Nat, NEW t, Stashed(x, y, id, t)
  PROVE  Takes(x, y, "audio", id)
<1>1. x \in Writers /\ y \in Writers /\ y.cache = Append(x.cache, id) /\ y.file = x.file
      /\ y.segments = x.segments
  BY DEF Stashed
<1> DEFINE g == [OpenOf(x) EXCEPT !["audio"] = Append(@, id)]
           s == InTrack(x.file, "audio")
           c == x.cache
<1>3. OpenOf(x) \in [Tracks -> Seq(Nat)] /\ s \in Seq(Nat) /\ c \in Seq(Nat)
      /\ OpenOf(x)["video"] = InTrack(x.file, "video")
      /\ OpenOf(x)["audio"] = s \o c
  BY <1>1, OpenType
<1>4. OpenOf(y) \in [Tracks -> Seq(Nat)]
      /\ OpenOf(y)["video"] = InTrack(y.file, "video")
      /\ OpenOf(y)["audio"] = InTrack(y.file, "audio") \o y.cache
  BY <1>1, OpenType
<1>5. OpenOf(y)["audio"] = s \o Append(c, id)
  BY <1>1, <1>4
<1> HIDE DEF s, c
<1>6. s \o Append(c, id) = Append(s \o c, id)
  BY <1>3, ConcatMore
<1>7. g["audio"] = Append(s \o c, id) /\ g["video"] = OpenOf(x)["video"]
  BY <1>3 DEF Tracks
<1>8. g \in [Tracks -> Seq(Nat)]
  <2>1. s \o c \in Seq(Nat)
    BY <1>3, ConcatProperties
  <2>2. Append(s \o c, id) \in Seq(Nat)
    BY <2>1, AppendProperties
  <2> QED BY <1>3, <2>2
<1> HIDE DEF g
<1>9. OpenOf(y)["video"] = g["video"] /\ OpenOf(y)["audio"] = g["audio"]
  BY <1>1, <1>3, <1>4, <1>5, <1>6, <1>7
<1>10. OpenOf(y) = g
  BY <1>4, <1>8, <1>9, TracksEqual
<1> QED BY <1>1, <1>10 DEF Takes, g, DoneOf

\* A segment ends with all the frames there are.
LEMMA MovedEnds ==
  ASSUME NEW x, NEW y, Moved(x, y), x.cache = <<>>
  PROVE  Ends(x, y)
<1> DEFINE n == Len(x.segments)
           S == [Tracks -> Seq(Nat)]
           In(s) == [t \in Tracks |-> InTrack(s.units, t)]
           d == Append(DoneOf(x), OpenOf(x))
<1>1. /\ n \in Nat /\ DOMAIN x.segments = 1 .. n /\ DOMAIN y.segments = 1 .. n + 1
      /\ y.segments[n + 1].units = x.file /\ \A k \in 1 .. n : y.segments[k] = x.segments[k]
      /\ x.segments \in Seq(Stored) /\ y.segments \in Seq(Stored)
  BY MovedSegments
<1>2. x \in Writers /\ y.file = <<>> /\ y.cache = <<>>
  BY DEF Moved
<1>3. ASSUME NEW s \in Stored PROVE In(s) \in S
  <2>1. s.units \in Seq(Units) /\ <<>> \in Seq(Nat)
    BY DEF Stored
  <2>2. ASSUME NEW t PROVE InTrack(s.units, t) \in Seq(Nat)
    <3> DEFINE u == [pid |-> "pat", packets |-> 1, frames |-> <<>>, pts |-> 0, whole |-> TRUE, cc |-> 0]
    <3>1. u \in Units
      BY <2>1 DEF Units, Pids, Tables
    <3> HIDE DEF u
    <3> QED BY <2>1, <3>1, InTrackMore
  <2> QED BY <2>2
<1>4. DoneOf(x) = [k \in 1 .. n |-> In(x.segments[k])]
      /\ DoneOf(y) = [k \in 1 .. n + 1 |-> In(y.segments[k])]
  BY <1>1 DEF DoneOf
<1>5. OpenOf(x) = [t \in Tracks |-> InTrack(x.file, t)] /\ OpenOf(x) \in S
  <2>1. \A t : InTrack(x.file, t) \in Seq(Nat)
    BY <1>2, OpenType
  <2>2. \A t : InTrack(x.file, t) \o <<>> = InTrack(x.file, t)
    BY <2>1, ConcatEmptySeq
  <2>3. OpenOf(x) = [t \in Tracks |-> InTrack(x.file, t)]
    BY <2>2 DEF OpenOf
  <2> QED BY <2>1, <2>3
<1>6. In(y.segments[n + 1]) = OpenOf(x)
  BY <1>1, <1>5
<1>7. (\A k \in 1 .. n : x.segments[k] \in Stored) /\ \A k \in 1 .. n + 1 : y.segments[k] \in Stored
  <2>1. Len(y.segments) = n + 1
    BY <1>1
  <2>2. \A k \in 1 .. Len(x.segments) : x.segments[k] \in Stored
    BY <1>1, ElementOfSeq
  <2>3. \A k \in 1 .. Len(y.segments) : y.segments[k] \in Stored
    BY <1>1, ElementOfSeq
  <2> QED BY <2>1, <2>2, <2>3
<1> HIDE DEF In, n, S
<1>8. DoneOf(x) \in Seq(S) /\ Len(DoneOf(x)) = n
  BY <1>1, <1>3, <1>4, <1>7
<1>9. DoneOf(y) \in Seq(S) /\ Len(DoneOf(y)) = n + 1
  <2>1. \A k \in 1 .. n + 1 : In(y.segments[k]) \in S
    BY <1>3, <1>7
  <2> DEFINE m == n + 1
  <2>2. m \in Nat /\ DoneOf(y) = [k \in 1 .. m |-> In(y.segments[k])]
        /\ \A k \in 1 .. m : In(y.segments[k]) \in S
    BY <1>1, <1>4, <2>1
  <2> HIDE DEF m
  <2>3. DoneOf(y) \in Seq(S) /\ Len(DoneOf(y)) = m
    BY <2>2
  <2> QED BY <2>3 DEF m
<1>10. /\ d \in Seq(S) /\ Len(d) = n + 1 /\ d[n + 1] = OpenOf(x)
       /\ \A k \in 1 .. n : d[k] = DoneOf(x)[k]
  BY <1>5, <1>8, AppendProperties
<1> HIDE DEF d
<1>11. ASSUME NEW k \in 1 .. n + 1 PROVE DoneOf(y)[k] = d[k]
  <2>1. DoneOf(y)[k] = In(y.segments[k])
    BY <1>4
  <2>2. CASE k = n + 1
    BY <1>6, <1>10, <2>1, <2>2
  <2>3. CASE k # n + 1
    <3>1. k \in 1 .. n
      BY <1>1, <2>3
    <3>2. DoneOf(x)[k] = In(x.segments[k])
      BY <1>4, <3>1
    <3> QED BY <1>1, <1>10, <2>1, <3>1, <3>2
  <2> QED BY <2>2, <2>3
<1>12. DoneOf(y) = d
  BY <1>9, <1>10, <1>11, SeqEqual
<1>13. OpenOf(y) = [t \in Tracks |-> <<>>]
  <2>1. <<>> \o <<>> = <<>>
    OBVIOUS
  <2> QED BY <1>2, <2>1, InTrackNone DEF OpenOf
<1> QED BY <1>12, <1>13 DEF Ends, d

\* A flush ends the segment.
LEMMA FlushedEnds ==
  ASSUME NEW x, NEW y, Flushed(x, y)
  PROVE  Ends(x, y)
<1>1. PICK a, b : Emptied(x, a) /\ Moved(a, b) /\ PutTables(b, y)
  BY DEF Flushed
<1>2. Same(x, a) /\ a.cache = <<>>
  <2>1. CASE x.cache = <<>> /\ a = x
    BY <2>1 DEF Same
  <2>2. CASE \E u : Grouped(x, a, u)
    <3>1. PICK u : Grouped(x, a, u)
      BY <2>2
    <3>2. Same(x, a)
      BY <3>1, GroupedSame
    <3> QED BY <3>1, <3>2 DEF Grouped
  <2> QED BY <1>1, <2>1, <2>2 DEF Emptied
<1>3. Ends(a, b)
  BY <1>1, <1>2, MovedEnds
<1>4. Same(b, y)
  BY <1>1, TablesSame
<1> QED BY <1>2, <1>3, <1>4 DEF Ends, Same

\* What is counted or opened is not moved.
LEMMA CountedSame ==
  ASSUME NEW x, NEW y, y.file = x.file, y.cache = x.cache, y.segments = x.segments
  PROVE  Same(x, y)
BY DEF Same, OpenOf, DoneOf

\* A cut ends the segment or none.
LEMMA CutEnds ==
  ASSUME NEW x, NEW y, IsCut(x, y)
  PROVE  Same(x, y) \/ Ends(x, y)
<1>1. CASE \E a : Opened(x, a) /\ PutTables(a, y)
  <2>1. PICK a : Opened(x, a) /\ PutTables(a, y)
    BY <1>1
  <2>2. Same(x, a)
    BY <2>1, CountedSame DEF Opened
  <2>3. Same(a, y)
    BY <2>1, TablesSame
  <2> QED BY <2>2, <2>3 DEF Same
<1>2. CASE Flushed(x, y)
  BY <1>2, FlushedEnds
<1>3. CASE y = x
  BY <1>3 DEF Same
<1> QED BY <1>1, <1>2, <1>3 DEF IsCut

\* A video frame, counted and written, is one of its track.
LEMMA FilmingTakes ==
  ASSUME NEW x, NEW y, NEW id \in Nat, NEW t, NEW key, Filming(x, y, id, t, key)
  PROVE  Takes(x, y, "video", id)
<1>1. PICK a, u : Counted(x, a, t) /\ Filmed(a, y, u, id, key)
  BY DEF Filming
<1>2. Same(x, a)
  BY <1>1, CountedSame DEF Counted
<1>3. Takes(a, y, "video", id)
  BY <1>1, FilmedTakes
<1> QED BY <1>2, <1>3 DEF Same, Takes

\* An audio frame, with its group or without.
LEMMA KeepingTakes ==
  ASSUME NEW x, NEW y, NEW id \in Nat, NEW t, Keeping(x, y, id, t)
  PROVE  Takes(x, y, "audio", id)
<1>1. PICK a, b : Counted(x, a, t) /\ Stashed(a, b, id, t) /\ (y = b \/ \E u : Grouped(b, y, u))
  BY DEF Keeping
<1>2. Same(x, a)
  BY <1>1, CountedSame DEF Counted
<1>3. Takes(a, b, "audio", id)
  BY <1>1, KeptTakes
<1>4. Same(b, y)
  <2>1. CASE y = b
    BY <2>1 DEF Same
  <2>2. CASE \E u : Grouped(b, y, u)
    <3>1. PICK u : Grouped(b, y, u)
      BY <2>2
    <3> QED BY <3>1, GroupedSame
  <2> QED BY <1>1, <2>1, <2>2
<1> QED BY <1>2, <1>3, <1>4 DEF Same, Takes

\* The variables of Segmenter are those of a writer.
LEMMA Mapped ==
  /\ Segmented!Init <=> Len(frames) = 0 /\ OpenOf(w) = [t \in Tracks |-> <<>>] /\ DoneOf(w) = <<>>
                        /\ gone = FALSE
  /\ ~gone /\ Len(frames') = Len(frames) + 1 /\ gone' = gone =>
       /\ \A t \in Tracks : Takes(w, w', t, Len(frames')) => Segmented!Next
       /\ \A x : Ends(w, x) /\ Takes(x, w', "video", Len(frames')) => Segmented!Next
  /\ ~gone /\ gone' = TRUE /\ Len(frames') = Len(frames)
     /\ (Ends(w, w') \/ (DoneOf(w) = <<>> /\ Same(w, w'))) => Segmented!Next
  /\ Len(frames') = Len(frames) /\ gone' = gone /\ Same(w, w') => UNCHANGED Segmented!vars
<1> DEFINE Mine == [t \in Tracks |-> InTrack(w.file, t) \o (IF t = "audio" THEN w.cache ELSE <<>>)]
           Theirs == [k \in DOMAIN w.segments |-> [t \in Tracks |-> InTrack(UnitsOf(k), t)]]
<1>1. Mine = OpenOf(w) /\ Theirs = DoneOf(w)
  BY DEF OpenOf, DoneOf, UnitsOf
<1>2. Mine' = OpenOf(w') /\ Theirs' = DoneOf(w')
  BY DEF OpenOf, DoneOf, UnitsOf
<1>3. Segmented!Nothing = [t \in Tracks |-> <<>>]
  BY DEF Segmented!Nothing
<1>4. Segmented!Init <=> Len(frames) = 0 /\ OpenOf(w) = [t \in Tracks |-> <<>>] /\ DoneOf(w) = <<>>
                         /\ gone = FALSE
  BY <1>1, <1>3 DEF Segmented!Init
<1>5. ASSUME ~gone, Len(frames') = Len(frames) + 1, gone' = gone, NEW t \in Tracks,
             Takes(w, w', t, Len(frames'))
      PROVE  Segmented!Next
  <2>1. Segmented!Accept(t)
    BY <1>1, <1>2, <1>5 DEF Segmented!Accept, Takes
  <2> QED BY <2>1 DEF Segmented!Next
<1>6. ASSUME ~gone, Len(frames') = Len(frames) + 1, gone' = gone, NEW x, Ends(w, x),
             Takes(x, w', "video", Len(frames'))
      PROVE  Segmented!Next
  <2>1. DoneOf(w') = Append(DoneOf(w), OpenOf(w))
    BY <1>6 DEF Ends, Takes
  <2>2. OpenOf(w') = [Segmented!Nothing EXCEPT !["video"] = <<Len(frames')>>]
    <3>1. OpenOf(w') = [Segmented!Nothing EXCEPT !["video"] = Append(@, Len(frames'))]
      BY <1>3, <1>6 DEF Ends, Takes
    <3>2. Append(<<>>, Len(frames')) = <<Len(frames')>> /\ Segmented!Nothing["video"] = <<>>
      BY <1>3 DEF Tracks
    <3> QED BY <3>1, <3>2
  <2>3. Segmented!Cut
    BY <1>1, <1>2, <1>6, <2>1, <2>2 DEF Segmented!Cut
  <2> QED BY <2>3 DEF Segmented!Next
<1>7. ASSUME ~gone, gone' = TRUE, Len(frames') = Len(frames),
             Ends(w, w') \/ (DoneOf(w) = <<>> /\ Same(w, w'))
      PROVE  Segmented!Next
  <2>1. Segmented!End
    BY <1>1, <1>2, <1>3, <1>7 DEF Segmented!End, Ends, Same
  <2> QED BY <2>1 DEF Segmented!Next
<1>8. Len(frames') = Len(frames) /\ gone' = gone /\ Same(w, w') => UNCHANGED Segmented!vars
  BY <1>1, <1>2 DEF Segmented!vars, Same
<1> QED BY <1>4, <1>5, <1>6, <1>7, <1>8

\* Every step of the writer cuts the stream as Segmenter has it, or changes
\* nothing of it.
LEMMA StepCuts ==
  ASSUME IInv, [Next]_vars
  PROVE  Segmented!Next \/ UNCHANGED Segmented!vars
<1>1. Typed /\ w \in Writers /\ ShapeFits
  BY DEF IInv, Typed
<1>2. ASSUME NEW kind \in Kinds, NEW pause \in Steps, TakeFrame(kind, pause)
      PROVE  Segmented!Next
  <2> DEFINE id == Len(frames')
             t == time'
  <2>1. t \in Int /\ id = Len(frames) + 1 /\ id \in Nat
    <3>1. t \in Int /\ id = Len(frames) + 1 /\ Len(frames) \in Nat
      BY <1>1, <1>2, FrameTaken
    <3> QED BY <3>1
  <2>2. ~gone /\ gone' = gone /\ w' = Handled(kind, id, t)
    BY <1>2 DEF TakeFrame
  <2>3. kind = "key" \/ kind = "inter" \/ kind = "audio"
    BY <1>2 DEF TakeFrame, Decodes
  <2>4. "video" \in Tracks /\ "audio" \in Tracks /\ TRUE \in BOOLEAN /\ FALSE \in BOOLEAN
    BY DEF Tracks
  <2>5. CASE kind = "key"
    <3> DEFINE x == Cut(w)
    <3>1. IsCut(w, x)
      BY <1>1, CutIs
    <3>2. w' = MuxVideo(StatUpdate(x, t), id, t, TRUE)
      BY <2>2, <2>5 DEF Handled
    <3> HIDE DEF x, id, t
    <3>3. x \in Writers
      <4>1. PICK lo : Sane(w, frames, Len(frames), lo)
        BY IInvIs
      <4>2. Begins(w, frames) /\ Ready(w) /\ NoKeyYet(w, frames) /\ LongEnough(w, FALSE)
        BY <2>2, IInvIs, <1>1 DEF Typed
      <4>3. \E m : Sane(x, frames, Len(frames), m)
        BY <1>1, <3>1, <4>1, <4>2, SaneCut DEF Typed
      <4> QED BY <4>3 DEF Sane
    <3>4. Filming(x, w', id, t, TRUE)
      BY <1>1, <2>1, <2>4, <3>2, <3>3, FilmingIs
    <3>5. Takes(x, w', "video", id)
      BY <2>1, <3>4, FilmingTakes
    <3>6. CASE Same(w, x)
      <4>1. Takes(w, w', "video", id)
        BY <3>5, <3>6 DEF Same, Takes
      <4> QED BY <2>1, <2>2, <2>4, <4>1, Mapped DEF id
    <3>7. CASE Ends(w, x)
      BY <2>1, <2>2, <3>5, <3>7, Mapped DEF id
    <3> QED BY <3>1, <3>6, <3>7, CutEnds
  <2>6. CASE kind = "inter"
    <3>1. w' = MuxVideo(StatUpdate(w, t), id, t, FALSE)
      BY <2>2, <2>6 DEF Handled
    <3> HIDE DEF id, t
    <3>2. Filming(w, w', id, t, FALSE)
      BY <1>1, <2>1, <2>4, <3>1, FilmingIs
    <3>3. Takes(w, w', "video", id)
      BY <2>1, <3>2, FilmingTakes
    <3> QED BY <2>1, <2>2, <2>4, <3>3, Mapped DEF id
  <2>7. CASE kind = "audio"
    <3>1. w' = CacheAudio(StatUpdate(w, t), id, t)
      BY <2>2, <2>7 DEF Handled
    <3> HIDE DEF id, t
    <3>2. Keeping(w, w', id, t)
      BY <1>1, <2>1, <3>1, KeepingIs
    <3>3. Takes(w, w', "audio", id)
      BY <2>1, <3>2, KeepingTakes
    <3> QED BY <2>1, <2>2, <2>4, <3>3, Mapped DEF id
  <2> QED BY <2>3, <2>5, <2>6, <2>7
<1>3. ASSUME NEW kind \in Kinds, TakeOther(kind)
      PROVE  UNCHANGED Segmented!vars
  <2>1. w'.file = w.file /\ w'.cache = w.cache /\ w'.segments = w.segments
    BY <1>1, <1>3 DEF TakeOther, Writers
  <2>2. Same(w, w')
    BY <2>1, CountedSame
  <2>3. frames' = frames /\ gone' = gone
    BY <1>3 DEF TakeOther
  <2> QED BY <2>2, <2>3, Mapped
<1>4. CASE TakeMalformed \/ EndOfQueue
  <2>1. ~gone /\ w' = Ended /\ gone' = TRUE /\ frames' = frames
    BY <1>4 DEF TakeMalformed, EndOfQueue
  <2>2. CASE w.firstCut
    <3>1. Flushed(w, w')
      BY <1>1, <2>1, <2>2, FlushIs DEF Ended
    <3>2. Ends(w, w')
      BY <3>1, FlushedEnds
    <3> QED BY <2>1, <3>2, Mapped
  <2>3. CASE ~w.firstCut
    <3>1. w' = w
      BY <2>1, <2>3 DEF Ended
    <3>2. w.segments = <<>>
      BY <2>3 DEF IInv, Begins
    <3>3. DoneOf(w) = <<>> /\ Same(w, w')
      BY <3>1, <3>2 DEF DoneOf, Same
    <3> QED BY <2>1, <3>3, Mapped
  <2> QED BY <2>2, <2>3
<1>5. CASE UNCHANGED <<frames, w, gone>>
  <2>1. Same(w, w')
    BY <1>5 DEF Same
  <2> QED BY <1>5, <2>1, Mapped
<1>6. CASE Deregister \/ CloseQueue \/ OtherRegisters \/ OtherDeregisters
  BY <1>5, <1>6 DEF Deregister, CloseQueue, OtherRegisters, OtherDeregisters
<1>7. CASE UNCHANGED vars
  BY <1>5, <1>7 DEF vars
<1> QED BY <1>2, <1>3, <1>4, <1>6, <1>7 DEF Next

\* The writer implements Segmenter: every frame goes into one segment, in the
\* order of its track, and what is stored never changes.
THEOREM CutsIt == Spec => CutsTheStream
<1>1. Init => Segmented!Init
  <2> SUFFICES ASSUME Init PROVE Segmented!Init
    OBVIOUS
  <2>1. Len(frames) = 0 /\ gone = FALSE /\ w.file = <<>> /\ w.cache = <<>> /\ w.segments = <<>>
    BY DEF Init
  <2>2. <<>> \o <<>> = <<>>
    OBVIOUS
  <2>3. OpenOf(w) = [t \in Tracks |-> <<>>] /\ DoneOf(w) = <<>>
    BY <2>1, <2>2, InTrackNone DEF OpenOf, DoneOf
  <2> QED BY <2>1, <2>3, Mapped
<1>2. IInv /\ [Next]_vars => [Segmented!Next]_Segmented!vars
  BY StepCuts
<1> QED BY <1>1, <1>2, Invariance, PTL DEF Spec, CutsTheStream, Segmented!Spec

-----------------------------------------------------------------------------
(* The inductive invariant. All of it but Shape and Apart is about the time  *)
(* before two segments are given one name.                                   *)

Items == [seq : 1 .. MaxFlushes, array : Arrays]
Entries == [name : Names, seq : 1 .. MaxFlushes]
Saving == {"stored", "m3u8", "listed", "ts"}

\* How many segments have been stored, the name of the newest, and which
\* segment a slot holds.
Count == IF step = "named" THEN flushes - 1 ELSE flushes
Newest == IF index = -1 THEN 0 ELSE itemList[index]
SegmentIn(i) == IF i <= index THEN Count - index + i ELSE Count - index - Ring + i
Live == {n \in Names : itemMap[n] # NoItem}
Filled(i) == i <= index \/ Count >= Ring

Shape ==
  /\ SaveFileFlag \in BOOLEAN /\ reused \in BOOLEAN
  /\ clock \in Names /\ name \in 0 .. MaxClock /\ flushes \in 0 .. MaxFlushes
  /\ step \in {"idle", "named"} \cup Saving
  /\ step # "idle" => flushes > 0 /\ name \in Names
  /\ ~SaveFileFlag => step \in {"idle", "named"}
  /\ index \in -1 .. Ring - 1 /\ itemList \in [Slots -> 0 .. MaxClock]
  /\ itemMap \in [Names -> {NoItem} \cup Items]
  /\ pool \subseteq Arrays /\ bytes \in [Arrays -> 0 .. MaxFlushes]
  /\ tsFile \in [Names -> 0 .. MaxFlushes]
  /\ player \in [Players -> {"idle", "listed", "sending", "done"}]
  /\ listed = [p \in Players |-> listed[p]] /\ want = [p \in Players |-> want[p]]
  /\ has = [p \in Players |-> has[p]] /\ result = [p \in Players |-> result[p]]

\* Memory that has not been used yet is numbered after a segment to come.
Apart ==
  /\ BuffersApart
  /\ \A n \in Live : itemMap[n].seq <= Count
  /\ \A a \in Arrays : bytes[a] # 0 => a <= Count
  /\ \A a \in pool : bytes[a] # 0

\* The slots hold the newest segments, and the map holds no others.
Ringed ==
  /\ Count < Ring => index = Count - 1
  /\ Count >= Ring => index >= 0
  /\ \A i \in Slots : Filled(i) =>
       itemList[i] \in Live /\ itemMap[itemList[i]].seq = SegmentIn(i)
  /\ \A i \in Slots : ~Filled(i) => itemList[i] = 0
  /\ \A n \in Live : \E i \in Slots : itemList[i] = n

\* Names grow, so a file that is being written is not an older segment's.
Named ==
  /\ name <= clock /\ Newest <= name /\ (step # "named" => name = Newest)
  /\ \A n \in Live : n <= Newest
  /\ \A n \in Names : tsFile[n] # 0 => n <= Newest
  /\ step \in Saving => tsFile[name] = 0
Saved ==
  SaveFileFlag => \A n \in Live : tsFile[n] = itemMap[n].seq \/ (n = name /\ step \in Saving)

\* An entry of a playlist can still be had, or the ring has come round.
Listed(e) == e.name \in Live /\ itemMap[e.name].seq = e.seq
Gone(e) == Count >= e.seq + Ring
OnDisk(l, i) ==
  \/ tsFile[l[i].name] = l[i].seq
  \/ i = Len(l) /\ l[i].name = name /\ l[i].seq = flushes /\ step \in {"listed", "ts"}
Announced(l) ==
  /\ l \in Seq(Entries)
  /\ SaveFileFlag => \A i \in 1 .. Len(l) : OnDisk(l, i)
  /\ ~SaveFileFlag => \A i \in 1 .. Len(l) : Listed(l[i]) \/ Gone(l[i])
Lists ==
  /\ SaveFileFlag => Announced(m3u8File)
  /\ \A p \in Players : player[p] = "listed" => Announced(listed[p])

\* What is being sent is what was asked for, or the ring has come round.
Sent ==
  \A p \in Players :
    /\ player[p] = "sending" =>
         /\ ~SaveFileFlag /\ want[p] \in Entries
         /\ (Listed(want[p]) /\ has[p] = itemMap[want[p].name].array) \/ Gone(want[p])
    /\ player[p] = "done" => want[p] \in Entries

Fresh == Ringed /\ Named /\ Saved /\ Lists /\ Sent /\ BodyIsTheSegment /\ FileIsTheSegment
CacheIInv == Shape /\ Apart /\ (~reused => Fresh)

-----------------------------------------------------------------------------
(* Storing a segment.                                                        *)

\* The next slot is the one after index, or the first.
LEMMA NextSlotIs ==
  ASSUME Shape
  PROVE  /\ NextSlot = IF index + 1 = Ring THEN 0 ELSE index + 1
         /\ NextSlot \in Slots
<1>1. Ring \in Nat /\ Ring > 0 /\ index \in Int /\ -1 <= index /\ index < Ring
  BY TsCacheAssumption DEF Shape
<1>2. CASE index + 1 = Ring
  BY <1>1, <1>2 DEF NextSlot, Slots
<1>3. CASE index + 1 # Ring
  <2>1. (index + 1) % Ring = index + 1
    BY <1>1, <1>3
  <2> QED BY <1>1, <1>3, <2>1 DEF NextSlot, Slots
<1> QED BY <1>2, <1>3

\* What Store does, with the memory it picks.
TakesArray(a) ==
  /\ a \in Arrays
  /\ \/ a \in pool
     \/ \E n \in Live : n = itemList[NextSlot] /\ a = itemMap[n].array
     \/ a = flushes
  /\ itemMap'[name] = [seq |-> flushes, array |-> a]
  /\ bytes' = [bytes EXCEPT ![a] = flushes]
  /\ \A b \in pool' : b # a /\ (b \in pool \/ \E n \in Live : n = itemList[NextSlot]
                                                             /\ b = itemMap[n].array)

\* What Store takes, what it leaves out of the map, and what it counts.
LEMMA StoreDoes ==
  ASSUME Shape, Store
  PROVE  /\ \E a : TakesArray(a)
         /\ name \in Names /\ flushes > 0 /\ step = "named"
         /\ Count = flushes - 1 /\ Count' = flushes
         /\ index' = NextSlot /\ itemList' = [itemList EXCEPT ![NextSlot] = name]
         /\ \A n \in Names \ {name} :
              itemMap'[n] = IF n = itemList[NextSlot] THEN NoItem ELSE itemMap[n]
         /\ ~reused' => ~reused /\ name \notin Live
         /\ UNCHANGED <<SaveFileFlag, clock, flushes, name, fileVars, playerVars>>
         /\ itemMap' \in [Names -> {NoItem} \cup Items]
         /\ pool' \subseteq Arrays /\ bytes' \in [Arrays -> 0 .. MaxFlushes]
         /\ reused' \in BOOLEAN
         /\ step' = IF SaveFileFlag THEN "stored" ELSE "idle"
<1> DEFINE s == NextSlot  old == HeldIn(s)  rest == Recycled(old)
           freed == {itemMap[n].array : n \in old}
<1>1. /\ step = "named" /\ name \in Names /\ flushes > 0 /\ flushes \in Arrays
      /\ itemMap \in [Names -> {NoItem} \cup Items] /\ itemList \in [Slots -> 0 .. MaxClock]
      /\ pool \subseteq Arrays /\ bytes \in [Arrays -> 0 .. MaxFlushes]
      /\ reused \in BOOLEAN
  BY DEF Store, Shape, Arrays
<1>2. PICK a \in pool \cup freed \cup {flushes} :
         /\ pool' = (pool \cup freed) \ {a}
         /\ bytes' = [bytes EXCEPT ![a] = flushes]
         /\ itemMap' = [rest EXCEPT ![name] = [seq |-> flushes, array |-> a]]
  BY DEF Store
<1>3. /\ reused' = (reused \/ rest[name] # NoItem \/ name \in old)
      /\ itemList' = [itemList EXCEPT ![s] = name] /\ index' = s
      /\ step' = IF SaveFileFlag THEN "stored" ELSE "idle"
      /\ UNCHANGED <<SaveFileFlag, clock, flushes, name, fileVars, playerVars>>
  BY DEF Store
<1>4. old = {n \in Live : n = itemList[s]} /\ old \subseteq Names
  BY DEF HeldIn, Live
<1>5. \A n \in Names : rest[n] = IF n \in old THEN NoItem ELSE itemMap[n]
  BY DEF Recycled
<1>6. rest \in [Names -> {NoItem} \cup Items]
  BY <1>1 DEF Recycled
<1>7. freed \subseteq Arrays
  <2>1. \A n \in old : itemMap[n] \in Items
    BY <1>1, <1>4 DEF Live
  <2> QED BY <2>1 DEF Items
<1> HIDE DEF rest, old
<1>8. a \in Arrays
  BY <1>1, <1>2, <1>7
<1>9. [seq |-> flushes, array |-> a] \in Items
  BY <1>1, <1>8 DEF Items, Arrays
<1>10. itemMap' \in [Names -> {NoItem} \cup Items] /\ itemMap'[name] = [seq |-> flushes, array |-> a]
  BY <1>1, <1>2, <1>6, <1>9
<1>11. ASSUME NEW n \in Names \ {name}
       PROVE  itemMap'[n] = IF n = itemList[s] THEN NoItem ELSE itemMap[n]
  <2>1. itemMap'[n] = rest[n]
    BY <1>2, <1>6
  <2>2. rest[n] = IF n \in old THEN NoItem ELSE itemMap[n]
    BY <1>5
  <2>3. n = itemList[s] /\ n \notin old => itemMap[n] = NoItem
    BY <1>4 DEF Live
  <2> QED BY <1>4, <2>1, <2>2, <2>3
<1>12. TakesArray(a)
  <2>1. \A b \in freed : \E n \in Live : n = itemList[s] /\ b = itemMap[n].array
    BY <1>4
  <2>2. \A b \in pool' : b # a /\ (b \in pool \/ b \in freed)
    BY <1>2
  <2> HIDE DEF freed
  <2> QED BY <1>2, <1>8, <1>10, <2>1, <2>2 DEF TakesArray
<1>13. ~reused' => ~reused /\ name \notin Live
  BY <1>1, <1>3, <1>4, <1>5 DEF Live
<1>14. Count = flushes - 1 /\ Count' = flushes
  BY <1>1, <1>3 DEF Count
<1>15. bytes' \in [Arrays -> 0 .. MaxFlushes]
  BY <1>1, <1>2, <1>8 DEF Shape
<1>16. pool' \subseteq Arrays
  BY <1>1, <1>2, <1>7
<1>17. reused' \in BOOLEAN
  BY <1>3
<1> QED BY <1>1, <1>3, <1>10, <1>11, <1>12, <1>13, <1>14, <1>15, <1>16, <1>17

\* The arrays of live items stay apart when a segment is stored.
LEMMA StoreKeepsApart ==
  ASSUME Shape, Apart, Store
  PROVE  Apart'
<1>1. PICK a : TakesArray(a)
  BY StoreDoes
<1>2. /\ name \in Names /\ flushes > 0 /\ Count = flushes - 1 /\ Count' = flushes
      /\ \A n \in Names \ {name} :
           itemMap'[n] = IF n = itemList[NextSlot] THEN NoItem ELSE itemMap[n]
      /\ flushes \in Nat /\ itemMap \in [Names -> {NoItem} \cup Items]
      /\ bytes \in [Arrays -> 0 .. MaxFlushes]
  BY StoreDoes DEF Shape
<1>3. /\ a \in Arrays /\ itemMap'[name] = [seq |-> flushes, array |-> a]
      /\ \A b \in Arrays : bytes'[b] = IF b = a THEN flushes ELSE bytes[b]
      /\ \A b \in pool' : b # a /\ (b \in pool \/ \E n \in Live : n = itemList[NextSlot]
                                                                 /\ b = itemMap[n].array)
  BY <1>1, <1>2 DEF TakesArray
<1>4. \A n \in Live : /\ itemMap[n] \in Items /\ itemMap[n].array \in Arrays
                      /\ itemMap[n].seq \in Nat \ {0} /\ n \in Names
  BY <1>2 DEF Live, Items
<1>5. /\ \A m, n \in Live : /\ itemMap[m].array \notin pool
                            /\ bytes[itemMap[m].array] = itemMap[m].seq
                            /\ m # n => itemMap[m].array # itemMap[n].array
      /\ \A n \in Live : itemMap[n].seq <= Count
      /\ \A b \in Arrays : bytes[b] # 0 => b <= Count
      /\ \A b \in pool : bytes[b] # 0
  BY DEF Apart, BuffersApart, Live
\* Items that stay have memory of their own still.
<1>6. ASSUME NEW n \in Live', n # name
      PROVE  /\ n \in Live /\ n # itemList[NextSlot] /\ itemMap'[n] = itemMap[n]
             /\ itemMap[n].array # a
  <2>1. n \in Names /\ itemMap'[n] # NoItem
    BY <1>6 DEF Live
  <2>2. n \in Live /\ n # itemList[NextSlot] /\ itemMap'[n] = itemMap[n]
    BY <1>2, <1>6, <2>1 DEF Live
  <2>3. a # itemMap[n].array
    <3>1. CASE a \in pool
      BY <1>5, <2>2, <3>1
    <3>2. CASE \E m \in Live : m = itemList[NextSlot] /\ a = itemMap[m].array
      BY <1>5, <2>2, <3>2
    <3>3. CASE a = flushes
      <4>1. itemMap[n].array <= Count
        BY <1>4, <1>5, <2>2
      <4>2. a \in Nat /\ itemMap[n].array \in Nat
        BY <1>3, <1>4, <2>2 DEF Arrays
      <4> QED BY <1>2, <3>3, <4>1, <4>2
    <3> QED BY <1>1, <3>1, <3>2, <3>3 DEF TakesArray
  <2> QED BY <2>2, <2>3
<1>7. ASSUME NEW n \in Live'
      PROVE  /\ itemMap'[n].array \notin pool'
             /\ bytes'[itemMap'[n].array] = itemMap'[n].seq
             /\ itemMap'[n].seq <= Count'
  <2>1. CASE n = name
    BY <1>2, <1>3, <2>1
  <2>2. CASE n # name
    <3>1. /\ n \in Live /\ n # itemList[NextSlot] /\ itemMap'[n] = itemMap[n]
          /\ itemMap[n].array # a
      BY <1>6, <2>2
    <3>2. itemMap[n].array \notin pool'
      BY <1>3, <1>5, <3>1
    <3>3. bytes'[itemMap[n].array] = itemMap[n].seq
      BY <1>3, <1>4, <1>5, <3>1
    <3>4. itemMap[n].seq <= Count /\ itemMap[n].seq \in Nat
      BY <1>4, <1>5, <3>1
    <3> QED BY <1>2, <3>1, <3>2, <3>3, <3>4
  <2> QED BY <2>1, <2>2
<1>8. ASSUME NEW m \in Live', NEW n \in Live', m # n
      PROVE  itemMap'[m].array # itemMap'[n].array
  <2>1. CASE m = name
    BY <1>3, <1>6, <1>8, <2>1
  <2>2. CASE n = name
    BY <1>3, <1>6, <1>8, <2>2
  <2>3. CASE m # name /\ n # name
    BY <1>5, <1>6, <1>8, <2>3
  <2> QED BY <2>1, <2>2, <2>3
<1>9. \A b \in Arrays : bytes'[b] # 0 => b <= Count'
  <2> SUFFICES ASSUME NEW b \in Arrays, bytes'[b] # 0 PROVE b <= Count'
    OBVIOUS
  <2>0. b \in Nat /\ a \in Nat
    BY <1>3 DEF Arrays
  <2>1. CASE b # a
    <3>1. b <= Count
      BY <1>3, <1>5, <2>1
    <3> QED BY <3>1, <2>0, <1>2
  <2>2. CASE b = a
    <3>1. CASE a = flushes
      BY <1>2, <2>0, <2>2, <3>1
    <3>2. CASE \E n \in Live : n = itemList[NextSlot] /\ a = itemMap[n].array
      BY <1>2, <1>4, <1>5, <2>0, <2>2, <3>2
    <3>3. CASE a \in pool
      <4>1. a <= Count
        BY <1>3, <1>5, <3>3
      <4> QED BY <4>1, <2>0, <1>2, <2>2
    <3> QED BY <1>1, <3>1, <3>2, <3>3 DEF TakesArray
  <2> QED BY <2>1, <2>2
<1>10. \A b \in pool' : bytes'[b] # 0
  <2> SUFFICES ASSUME NEW b \in pool' PROVE bytes'[b] # 0
    OBVIOUS
  <2>1. b # a /\ (b \in pool \/ \E n \in Live : n = itemList[NextSlot] /\ b = itemMap[n].array)
    BY <1>3
  <2>2. CASE b \in pool
    <3>1. b \in Arrays
      BY <2>2 DEF Shape
    <3> QED BY <3>1, <1>3, <1>5, <2>1, <2>2
  <2>3. CASE \E n \in Live : n = itemList[NextSlot] /\ b = itemMap[n].array
    BY <1>3, <1>4, <1>5, <2>1, <2>3
  <2> QED BY <2>1, <2>2, <2>3
<1> QED BY <1>7, <1>8, <1>9, <1>10 DEF Apart, BuffersApart, Live

\* Two slots hold different segments, the next one the oldest, and what a slot
\* holds is not renumbered.
LEMMA SlotsDiffer ==
  ASSUME Shape, NEW i \in Slots, NEW j \in Slots, i # j
  PROVE  SegmentIn(i) # SegmentIn(j)
<1>1. /\ Ring \in Nat /\ Ring > 0 /\ index \in Int /\ Count \in Int
      /\ i \in Nat /\ j \in Nat /\ i < Ring /\ j < Ring
  BY TsCacheAssumption DEF Shape, Slots, Count
<1> QED BY <1>1 DEF SegmentIn

\* In which slot the segments go on, before and after one is stored.
LEMMA SlotsGoOn ==
  ASSUME Shape, Count < Ring => index = Count - 1, Count >= Ring => index >= 0, Store
  PROVE  /\ Count' < Ring => index' = Count' - 1
         /\ Count' >= Ring => index' >= 0
         /\ \A i \in Slots \ {NextSlot} : Filled(i)' <=> Filled(i)
         /\ \A i \in Slots \ {NextSlot} : Filled(i) => SegmentIn(i)' = SegmentIn(i)
         /\ \A i \in Slots : i = NextSlot => Filled(i)' /\ SegmentIn(i)' = flushes
         /\ Filled(NextSlot) => Count' = SegmentIn(NextSlot) + Ring
<1>1. /\ Ring \in Nat /\ Ring > 0 /\ index \in Int /\ -1 <= index /\ index < Ring
      /\ Count \in Nat
  <2>1. Count = flushes - 1 /\ flushes > 0
    BY StoreDoes
  <2> QED BY <2>1, TsCacheAssumption DEF Shape
<1>2. /\ NextSlot = IF index + 1 = Ring THEN 0 ELSE index + 1
      /\ NextSlot \in Nat /\ NextSlot < Ring
  BY NextSlotIs, TsCacheAssumption DEF Slots
<1>3. index' = NextSlot /\ Count' = Count + 1 /\ Count' = flushes
  <2>1. index' = NextSlot /\ Count = flushes - 1 /\ Count' = flushes
    BY StoreDoes
  <2> QED BY <2>1, <1>1 DEF Shape
<1>4. \A i \in Slots : i \in Nat /\ i < Ring
  BY <1>1 DEF Slots
<1>5. \A i : /\ SegmentIn(i)' = IF i <= index' THEN Count' - index' + i ELSE Count' - index' - Ring + i
             /\ Filled(i)' <=> i <= index' \/ Count' >= Ring
  BY DEF SegmentIn, Filled
<1> HIDE DEF Count
<1>6. CASE index + 1 = Ring
  <2>1. NextSlot = 0 /\ Count >= Ring
    BY <1>1, <1>2, <1>6
  <2>2. ASSUME NEW i \in Slots \ {NextSlot}
        PROVE  (Filled(i)' <=> Filled(i)) /\ SegmentIn(i)' = SegmentIn(i)
    BY <1>1, <1>3, <1>4, <1>5, <1>6, <2>1 DEF SegmentIn, Filled
  <2>3. \A i \in Slots : i = NextSlot => Filled(i)' /\ SegmentIn(i)' = flushes
    BY <1>1, <1>3, <1>5, <1>6, <2>1
  <2>oldest. Count' = SegmentIn(NextSlot) + Ring
    BY <1>1, <1>3, <1>6, <2>1 DEF SegmentIn
  <2> QED BY <1>1, <1>3, <2>1, <2>2, <2>3, <2>oldest
<1>7. CASE index + 1 # Ring
  <2>1. NextSlot = index + 1
    BY <1>2, <1>7
  <2>2. ASSUME NEW i \in Slots \ {NextSlot}
        PROVE  (Filled(i)' <=> Filled(i)) /\ SegmentIn(i)' = SegmentIn(i)
    BY <1>1, <1>3, <1>4, <1>5, <1>7, <2>1 DEF SegmentIn, Filled
  <2>3. \A i \in Slots : i = NextSlot => Filled(i)' /\ SegmentIn(i)' = flushes
    BY <1>1, <1>3, <1>5, <1>7, <2>1
  <2>oldest. Filled(NextSlot) => Count' = SegmentIn(NextSlot) + Ring
    BY <1>1, <1>3, <1>7, <2>1 DEF SegmentIn, Filled
  <2>4. (Count' < Ring => index' = Count' - 1) /\ (Count' >= Ring => index' >= 0)
    BY <1>1, <1>3, <1>7, <2>1
  <2> QED BY <2>2, <2>3, <2>4, <2>oldest
<1> QED BY <1>6, <1>7

\* Before two segments have one name, the map loses only the oldest.
LEMMA OthersStay ==
  ASSUME Shape, Ringed, Store, ~reused', NEW n \in Live, n # itemList[NextSlot]
  PROVE  n # name /\ n \in Live' /\ itemMap'[n] = itemMap[n]
<1>1. /\ ~reused' => ~reused /\ name \notin Live
      /\ \A k \in Names \ {name} :
           itemMap'[k] = IF k = itemList[NextSlot] THEN NoItem ELSE itemMap[k]
  BY StoreDoes
<1> QED BY <1>1 DEF Live

\* The slots go on holding the newest segments when one is stored.
LEMMA StoreKeepsRinged ==
  ASSUME Shape, Ringed, Store, ~reused'
  PROVE  Ringed'
<1>1. PICK a : TakesArray(a)
  BY StoreDoes
<1>2. /\ NextSlot \in Slots /\ name \in Names
      /\ \A i \in Slots : itemList'[i] = IF i = NextSlot THEN name ELSE itemList[i]
      /\ itemMap'[name] = [seq |-> flushes, array |-> a]
      /\ itemMap' \in [Names -> {NoItem} \cup Items]
  <2>1. itemList \in [Slots -> 0 .. MaxClock]
    BY DEF Shape
  <2> QED BY <1>1, <2>1, NextSlotIs, StoreDoes DEF TakesArray
<1>3. /\ Count' < Ring => index' = Count' - 1
      /\ Count' >= Ring => index' >= 0
      /\ \A i \in Slots \ {NextSlot} : Filled(i)' <=> Filled(i)
      /\ \A i \in Slots \ {NextSlot} : Filled(i) => SegmentIn(i)' = SegmentIn(i)
      /\ \A i \in Slots : i = NextSlot => Filled(i)' /\ SegmentIn(i)' = flushes
  BY SlotsGoOn DEF Ringed
<1>4. name \in Live' /\ itemMap'[name].seq = flushes
  <2>1. flushes # 0
    BY StoreDoes
  <2>2. itemMap'[name].seq = flushes /\ NoItem.seq = 0
    BY <1>2 DEF NoItem
  <2> QED BY <1>2, <2>1, <2>2 DEF Live
<1>5. ASSUME NEW i \in Slots, Filled(i)'
      PROVE  itemList'[i] \in Live' /\ itemMap'[itemList'[i]].seq = SegmentIn(i)'
  <2>1. CASE i = NextSlot
    BY <1>2, <1>3, <1>4, <2>1
  <2>2. CASE i # NextSlot
    <3>1. /\ Filled(i) /\ itemList'[i] = itemList[i] /\ itemList[i] \in Live
          /\ itemMap[itemList[i]].seq = SegmentIn(i) /\ SegmentIn(i)' = SegmentIn(i)
      BY <1>2, <1>3, <1>5, <2>2 DEF Ringed
    <3>2. itemList[i] # itemList[NextSlot]
      <4>1. CASE Filled(NextSlot)
        <5>1. itemMap[itemList[NextSlot]].seq = SegmentIn(NextSlot)
          BY <1>2, <4>1 DEF Ringed
        <5>2. SegmentIn(NextSlot) # SegmentIn(i)
          BY <1>2, <2>2, SlotsDiffer
        <5> QED BY <3>1, <5>1, <5>2
      <4>2. CASE ~Filled(NextSlot)
        <5>1. itemList[NextSlot] = 0
          BY <1>2, <4>2 DEF Ringed
        <5> QED BY <3>1, <5>1 DEF Live, Names
      <4> QED BY <4>1, <4>2
    <3>3. itemList[i] \in Live' /\ itemMap'[itemList[i]] = itemMap[itemList[i]]
      BY <3>1, <3>2, OthersStay
    <3> QED BY <3>1, <3>3
  <2> QED BY <2>1, <2>2
<1>6. ASSUME NEW i \in Slots, ~Filled(i)' PROVE itemList'[i] = 0
  BY <1>2, <1>3, <1>6 DEF Ringed
<1>7. ASSUME NEW n \in Live' PROVE \E i \in Slots : itemList'[i] = n
  <2>1. CASE n = name
    BY <1>2, <2>1
  <2>2. CASE n # name
    <3>1. n \in Live /\ n # itemList[NextSlot]
      <4>1. n \in Names /\ itemMap'[n] # NoItem
        BY <1>7 DEF Live
      <4>2. itemMap'[n] = IF n = itemList[NextSlot] THEN NoItem ELSE itemMap[n]
        BY <2>2, <4>1, StoreDoes
      <4> QED BY <4>1, <4>2 DEF Live
    <3>2. PICK i \in Slots : itemList[i] = n
      BY <3>1 DEF Ringed
    <3> QED BY <1>2, <3>1, <3>2
  <2> QED BY <2>1, <2>2
<1> QED BY <1>3, <1>5, <1>6, <1>7 DEF Ringed

\* An entry that could be had still can, or the ring has come round by now.
LEMMA EntriesAge ==
  ASSUME Shape, Ringed, Store, ~reused', NEW e \in Entries, Listed(e) \/ Gone(e)
  PROVE  (Listed(e)' /\ Listed(e) /\ itemMap'[e.name] = itemMap[e.name]) \/ Gone(e)'
<1>1. Count = flushes - 1 /\ Count' = flushes /\ flushes \in Nat /\ Ring \in Nat /\ e.seq \in Nat
  BY StoreDoes, TsCacheAssumption DEF Shape, Entries
<1>2. CASE Gone(e)
  BY <1>1, <1>2 DEF Gone
<1>3. CASE Listed(e)
  <2>1. e.name \in Live /\ itemMap[e.name].seq = e.seq
    BY <1>3 DEF Listed
  <2>2. CASE e.name # itemList[NextSlot]
    BY <1>3, <2>1, <2>2, OthersStay DEF Listed
  <2>3. CASE e.name = itemList[NextSlot]
    <3>1. NextSlot \in Slots /\ itemList[NextSlot] # 0
      BY <2>1, <2>3, NextSlotIs DEF Live, Names
    <3>2. Filled(NextSlot) /\ e.seq = SegmentIn(NextSlot)
      BY <2>1, <2>3, <3>1 DEF Ringed
    <3>3. Count' = e.seq + Ring
      BY <3>2, SlotsGoOn DEF Ringed
    <3> QED BY <1>1, <3>3 DEF Gone
  <2> QED BY <2>2, <2>3
<1> QED BY <1>2, <1>3

\* Names go on growing.
LEMMA StoreKeepsNamed ==
  ASSUME Shape, Ringed, Named, Saved, Store, ~reused'
  PROVE  Named' /\ Saved'
<1>1. PICK a : TakesArray(a)
  BY StoreDoes
<1>2. /\ NextSlot \in Slots /\ name \in Names /\ index' = NextSlot /\ itemList'[NextSlot] = name
      /\ name \notin Live /\ step = "named" /\ Count = flushes - 1 /\ flushes > 0
      /\ flushes \in Nat
      /\ UNCHANGED <<SaveFileFlag, clock, flushes, name, tsFile>>
      /\ step' = IF SaveFileFlag THEN "stored" ELSE "idle"
      /\ itemMap'[name].seq = flushes
  <2>1. itemList \in [Slots -> 0 .. MaxClock] /\ flushes \in Nat
    BY DEF Shape
  <2> QED BY <1>1, <2>1, NextSlotIs, StoreDoes DEF TakesArray, fileVars
<1>3. Newest' = name
  BY <1>2 DEF Newest, Slots
<1>4. name \in Nat /\ Newest < name
  <2>1. Newest <= name /\ name \in Nat /\ Newest \in Nat
    BY DEF Named, Shape, Newest, Slots
  <2>2. Newest # name
    <3>1. CASE index = -1
      BY <1>2, <3>1 DEF Newest, Names
    <3>2. CASE index # -1
      <4>1. index \in Slots /\ Filled(index)
        BY <3>2 DEF Shape, Slots, Filled
      <4>2. Newest \in Live
        BY <3>2, <4>1 DEF Newest, Ringed
      <4> QED BY <4>2, <1>2
    <3> QED BY <3>1, <3>2
  <2> QED BY <2>1, <2>2
<1>5. ASSUME NEW n \in Live', n # name
      PROVE  n \in Live /\ itemMap'[n] = itemMap[n]
  <2>1. n \in Names /\ itemMap'[n] # NoItem
    BY <1>5 DEF Live
  <2>2. itemMap'[n] = IF n = itemList[NextSlot] THEN NoItem ELSE itemMap[n]
    BY <1>5, <2>1, StoreDoes
  <2> QED BY <2>1, <2>2 DEF Live
<1>6. \A n \in Live' : n <= Newest'
  BY <1>3, <1>4, <1>5 DEF Named, Live, Names, Newest, Shape, Slots
<1>7. \A n \in Names : tsFile'[n] # 0 => n <= Newest'
  BY <1>2, <1>3, <1>4 DEF Named, Names, Newest, Shape, Slots
<1>8. tsFile'[name] = 0
  BY <1>2, <1>4 DEF Named, Names, Newest, Shape, Slots
<1>9. Named'
  BY <1>2, <1>3, <1>4, <1>6, <1>7, <1>8 DEF Named, Saving
<1>10. Saved'
  <2> SUFFICES ASSUME SaveFileFlag', NEW n \in Live'
               PROVE  tsFile'[n] = itemMap'[n].seq \/ (n = name' /\ step' \in Saving)
    BY DEF Saved
  <2>1. CASE n = name
    BY <1>2, <2>1 DEF Saving
  <2>2. CASE n # name
    BY <1>2, <1>5, <2>2 DEF Saved, Saving
  <2> QED BY <2>1, <2>2
<1> QED BY <1>9, <1>10

-----------------------------------------------------------------------------
(* The playlist.                                                             *)

\* How many segments the ring has let go.
Oldest == IF Count > Ring THEN Count - Ring ELSE 0

\* A function on the first n numbers is a sequence of length n.
LEMMA SequenceOf ==
  ASSUME NEW S, NEW n \in Nat, NEW s \in [1 .. n -> S]
  PROVE  s \in Seq(S) /\ Len(s) = n
<1>1. s \in Seq(S)
  BY SeqDef
<1>2. Len(s) \in Nat /\ 1 .. Len(s) = 1 .. n
  BY <1>1, LenProperties
<1> QED BY <1>1, <1>2

\* A list of names that are all in the map is kept as it is.
LEMMA AllAreKept ==
  ASSUME NEW names \in Seq(Names), \A i \in 1 .. Len(names) : itemMap[names[i]] # NoItem
  PROVE  Kept(names) \in Seq(Names) /\ Len(Kept(names)) = Len(names)
         /\ \A i \in 1 .. Len(names) : Kept(names)[i] = names[i]
<1> DEFINE n == Len(names)
           found == {i \in 1 .. n : itemMap[names[i]] # NoItem}
           place(k) == CHOOSE i \in found : Cardinality({j \in found : j <= i}) = k
<1>1. n \in Nat /\ found = 1 .. n
  OBVIOUS
<1> HIDE DEF n
<1>2. Cardinality(found) = n
  <2>1. Cardinality(1 .. n) = n
    <3>1. 1 \in Int /\ n \in Int /\ (IF 1 > n THEN 0 ELSE n - 1 + 1) = n
      BY <1>1
    <3> QED BY <3>1, FS_Interval
  <2> QED BY <1>1, <2>1
<1>3. ASSUME NEW i \in found PROVE Cardinality({j \in found : j <= i}) = i
  <2>1. {j \in found : j <= i} = 1 .. i /\ i \in Nat /\ i > 0
    BY <1>1
  <2>2. Cardinality(1 .. i) = i
    <3>1. 1 \in Int /\ i \in Int /\ (IF 1 > i THEN 0 ELSE i - 1 + 1) = i
      BY <2>1
    <3> QED BY <3>1, FS_Interval
  <2> QED BY <2>1, <2>2
<1> HIDE DEF found
<1>4. ASSUME NEW k \in 1 .. n PROVE place(k) = k
  <2>1. k \in found /\ Cardinality({j \in found : j <= k}) = k
    BY <1>1, <1>3
  <2>2. place(k) \in found /\ Cardinality({j \in found : j <= place(k)}) = k
    BY <2>1
  <2> HIDE DEF place
  <2> QED BY <2>2, <1>3
<1>5. Kept(names) = [k \in 1 .. n |-> names[place(k)]]
  BY <1>2 DEF Kept, found, n
<1> HIDE DEF place
<1>6. \A k \in 1 .. n : Kept(names)[k] = names[k]
  BY <1>4, <1>5
<1>7. Kept(names) \in [1 .. n -> Names]
  <2>1. \A k \in 1 .. n : names[k] \in Names
    BY DEF n
  <2> QED BY <1>4, <1>5, <2>1
<1> QED BY <1>1, <1>6, <1>7, SequenceOf DEF n

\* The slots from the oldest segment to the newest.
LEMMA OrderIs ==
  ASSUME Shape, Ringed, Count \in Nat
  PROVE  /\ OldestFirst \in Seq(Names) /\ Len(OldestFirst) = Count - Oldest
         /\ \A i \in 1 .. Count - Oldest :
              OldestFirst[i] \in Live /\ itemMap[OldestFirst[i]].seq = Oldest + i
<1> DEFINE A == [i \in 1 .. Ring - 1 - index |-> itemList[index + i]]
           B == [i \in 1 .. index + 1 |-> itemList[i - 1]]
<1>1. /\ Ring \in Nat /\ Ring > 0 /\ index \in Int /\ -1 <= index /\ index < Ring
      /\ Count \in Nat /\ itemList \in [Slots -> 0 .. MaxClock]
      /\ Ring - 1 \in Slots
  BY TsCacheAssumption DEF Shape, Slots
<1>2. \A i \in Slots : Filled(i) =>
        itemList[i] \in Live /\ itemMap[itemList[i]].seq = SegmentIn(i)
  BY DEF Ringed
<1>3. Live \subseteq Names /\ 0 \notin Names
  BY DEF Live, Names
<1>4. \A i \in 1 .. index + 1 :
        /\ i - 1 \in Slots /\ Filled(i - 1) /\ B[i] = itemList[i - 1]
        /\ SegmentIn(i - 1) = Count - index - 1 + i
  BY <1>1 DEF Slots, Filled, SegmentIn
<1>5. B \in Seq(Names) /\ Len(B) = index + 1
  <2>1. \A i \in 1 .. index + 1 : B[i] \in Names
    BY <1>2, <1>3, <1>4
  <2>2. B \in [1 .. index + 1 -> Names]
    BY <2>1
  <2> HIDE DEF B
  <2>3. index + 1 \in Nat
    BY <1>1
  <2> QED BY <2>2, <2>3, SequenceOf
<1>6. CASE Count >= Ring
  <2>1. Filled(Ring - 1) /\ itemList[Ring - 1] # 0
    BY <1>1, <1>2, <1>3, <1>6 DEF Filled
  <2>2. OldestFirst = A \o B
    BY <2>1 DEF OldestFirst
  <2>3. \A i \in 1 .. Ring - 1 - index :
          /\ index + i \in Slots /\ Filled(index + i) /\ A[i] = itemList[index + i]
          /\ SegmentIn(index + i) = Count - Ring + i
    BY <1>1, <1>6 DEF Slots, Filled, SegmentIn
  <2>4. A \in Seq(Names) /\ Len(A) = Ring - 1 - index
    <3>1. \A i \in 1 .. Ring - 1 - index : A[i] \in Names
      BY <1>2, <1>3, <2>3
    <3>2. A \in [1 .. Ring - 1 - index -> Names]
      BY <3>1
    <3> HIDE DEF A
    <3>3. Ring - 1 - index \in Nat
      BY <1>1
    <3> QED BY <3>2, <3>3, SequenceOf
  <2> HIDE DEF A, B
  <2>5. /\ A \o B \in Seq(Names) /\ Len(A \o B) = Len(A) + Len(B)
        /\ \A i \in 1 .. Len(A) + Len(B) :
             (A \o B)[i] = IF i <= Len(A) THEN A[i] ELSE B[i - Len(A)]
    BY <1>5, <2>4, ConcatProperties
  <2>6. Oldest = Count - Ring /\ Count - Oldest = Ring /\ Len(A) + Len(B) = Ring
    BY <1>1, <1>5, <1>6, <2>4 DEF Oldest
  <2>7. ASSUME NEW i \in 1 .. Ring
        PROVE  (A \o B)[i] \in Live /\ itemMap[(A \o B)[i]].seq = Oldest + i
    <3>1. CASE i <= Ring - 1 - index
      <4>1. i \in 1 .. Ring - 1 - index /\ (A \o B)[i] = A[i]
        BY <1>1, <2>4, <2>5, <2>6, <3>1
      <4>2. /\ index + i \in Slots /\ Filled(index + i) /\ A[i] = itemList[index + i]
            /\ SegmentIn(index + i) = Count - Ring + i
        BY <2>3, <4>1
      <4> QED BY <1>2, <2>6, <4>1, <4>2
    <3>2. CASE ~(i <= Ring - 1 - index)
      <4> DEFINE j == i - (Ring - 1 - index)
      <4>1. j \in 1 .. index + 1 /\ (A \o B)[i] = B[j]
        BY <1>1, <2>4, <2>5, <2>6, <3>2
      <4>2. Count - index - 1 + j = Oldest + i
        BY <1>1, <2>6
      <4> HIDE DEF j
      <4>3. /\ j - 1 \in Slots /\ Filled(j - 1) /\ B[j] = itemList[j - 1]
            /\ SegmentIn(j - 1) = Count - index - 1 + j
        BY <1>4, <4>1
      <4> QED BY <1>2, <4>1, <4>2, <4>3
    <3> QED BY <3>1, <3>2
  <2> QED BY <2>2, <2>5, <2>6, <2>7
<1>7. CASE Count < Ring
  <2>1. index = Count - 1
    BY <1>7 DEF Ringed
  <2>2. ~Filled(Ring - 1) /\ itemList[Ring - 1] = 0
    BY <1>1, <1>7, <2>1 DEF Filled, Ringed
  <2>3. OldestFirst = <<>> \o B
    BY <2>2 DEF OldestFirst
  <2> HIDE DEF B
  <2>4. OldestFirst = B
    BY <1>5, <2>3, ConcatEmptySeq
  <2>5. Oldest = 0 /\ Count - Oldest = Len(B)
    BY <1>1, <1>5, <1>7, <2>1 DEF Oldest
  <2>6. ASSUME NEW i \in 1 .. index + 1
        PROVE  B[i] \in Live /\ itemMap[B[i]].seq = Oldest + i
    <3>1. /\ i - 1 \in Slots /\ Filled(i - 1) /\ B[i] = itemList[i - 1]
          /\ SegmentIn(i - 1) = Count - index - 1 + i
      BY <1>4
    <3>2. Count - index - 1 + i = Oldest + i
      BY <1>1, <2>1, <2>5
    <3> QED BY <1>2, <3>1, <3>2
  <2> QED BY <1>5, <2>4, <2>5, <2>6
<1> QED BY <1>1, <1>6, <1>7

\* The playlist announces the segments the ring holds, oldest first.
LEMMA PlaylistIs ==
  ASSUME Shape, Ringed
  PROVE  /\ Playlist \in Seq(Entries) /\ Len(Playlist) = Count - Oldest
         /\ \A i \in 1 .. Count - Oldest : /\ Listed(Playlist[i]) /\ Playlist[i].seq = Oldest + i
                                            /\ Playlist[i] \in Entries
<1>1. Count \in Nat /\ Count <= MaxFlushes /\ Oldest \in Nat /\ Oldest <= Count
  BY TsCacheAssumption DEF Shape, Count, Oldest
<1> DEFINE o == OldestFirst  k == Kept(OldestFirst)
<1>2. /\ o \in Seq(Names) /\ Len(o) = Count - Oldest
      /\ \A i \in 1 .. Count - Oldest : o[i] \in Live /\ itemMap[o[i]].seq = Oldest + i
  BY <1>1, OrderIs
<1>3. \A i \in 1 .. Len(o) : itemMap[o[i]] # NoItem
  BY <1>2 DEF Live
<1>4. Len(k) = Len(o) /\ \A i \in 1 .. Len(o) : k[i] = o[i]
  BY <1>2, <1>3, AllAreKept
<1>5. Playlist = [i \in 1 .. Len(k) |-> [name |-> k[i], seq |-> itemMap[k[i]].seq]]
  BY DEF Playlist
<1> HIDE DEF o, k
<1>6. \A i \in 1 .. Count - Oldest : Playlist[i] = [name |-> o[i], seq |-> Oldest + i]
  BY <1>2, <1>4, <1>5
<1>7. ASSUME NEW i \in 1 .. Count - Oldest
      PROVE  /\ Listed(Playlist[i]) /\ Playlist[i].seq = Oldest + i
             /\ Playlist[i] \in Entries
  <2>1. o[i] \in Live /\ o[i] \in Names /\ itemMap[o[i]].seq = Oldest + i
    BY <1>2 DEF Live
  <2>2. MaxFlushes \in Nat /\ i \in Nat /\ 1 <= i /\ i <= Count - Oldest
    BY <1>1, TsCacheAssumption
  <2>3. Oldest + i \in 1 .. MaxFlushes
    BY <1>1, <2>2
  <2>4. Playlist[i] = [name |-> o[i], seq |-> Oldest + i]
    BY <1>6
  <2>5. Playlist[i].name = o[i] /\ Playlist[i].seq = Oldest + i
    BY <2>4
  <2> QED BY <2>1, <2>3, <2>4, <2>5 DEF Listed, Entries
<1>8. Playlist \in [1 .. Count - Oldest -> Entries]
  BY <1>2, <1>4, <1>5, <1>7
<1>9. Count - Oldest \in Nat
  BY <1>1
<1> QED BY <1>7, <1>8, <1>9, SequenceOf

\* Whenever it can be asked for, the playlist is as PlaylistConsecutive says.
LEMMA PlaylistFollows ==
  ASSUME Shape, Ringed
  PROVE  PlaylistConsecutive
<1>1. CASE ~(step \in {"idle", "named"})
  BY <1>1 DEF PlaylistConsecutive
<1>2. CASE step \in {"idle", "named"}
  <2> DEFINE stored == IF step = "idle" THEN flushes ELSE flushes - 1
             oldest == IF stored > Ring THEN stored - Ring ELSE 0
  <2>1. stored = Count /\ oldest = Oldest
    BY <1>2 DEF Count, Oldest
  <2>2. /\ Len(Playlist) = Count - Oldest
        /\ \A i \in 1 .. Count - Oldest : Playlist[i].seq = Oldest + i
    BY PlaylistIs
  <2> HIDE DEF stored, oldest
  <2>3. [i \in 1 .. Len(Playlist) |-> Playlist[i].seq] =
          [i \in 1 .. stored - oldest |-> oldest + i]
    BY <2>1, <2>2
  <2> QED BY <2>3 DEF PlaylistConsecutive, stored, oldest
<1> QED BY <1>1, <1>2

\* The newest segment is in the map under the last name.
LEMMA NewestIs ==
  ASSUME Shape, Ringed, Named, step \in Saving
  PROVE  /\ name = Newest /\ name \in Live /\ itemMap[name].seq = flushes
         /\ Count = flushes /\ tsFile[name] = 0 /\ name \in Names /\ SaveFileFlag
<1>1. Count = flushes /\ step # "named" /\ step # "idle" /\ flushes \in Nat /\ flushes > 0
  BY DEF Count, Saving, Shape
<1>2. name = Newest /\ tsFile[name] = 0 /\ name \in Names /\ SaveFileFlag
  BY <1>1 DEF Named, Shape
<1>3. index \in Slots /\ Filled(index) /\ SegmentIn(index) = Count
  <2>1. /\ Ring \in Nat /\ Ring > 0 /\ index \in Int /\ -1 <= index /\ index < Ring
    BY TsCacheAssumption DEF Shape
  <2>2. index >= 0
    BY <1>1, <2>1 DEF Ringed
  <2> QED BY <1>1, <2>1, <2>2 DEF Slots, Filled, SegmentIn
<1>4. Newest = itemList[index]
  BY <1>3, TsCacheAssumption DEF Newest, Slots
<1> QED BY <1>1, <1>2, <1>3, <1>4 DEF Ringed

-----------------------------------------------------------------------------
(* What the other steps leave alone.                                         *)

\* Nothing has been stored, and no segments have been given one name.
Calm ==
  /\ SaveFileFlag' = SaveFileFlag /\ reused' = reused /\ Count' = Count
  /\ index' = index /\ itemList' = itemList /\ itemMap' = itemMap
  /\ pool' = pool /\ bytes' = bytes

\* Then the ring, the map and the pool are in order still.
LEMMA MemoryStays ==
  ASSUME Calm
  PROVE  /\ Apart => Apart'
         /\ Ringed => Ringed'
         /\ Newest' = Newest /\ Live' = Live
         /\ \A e : (Listed(e)' <=> Listed(e)) /\ (Gone(e)' <=> Gone(e))
<1>1. Live' = Live /\ Newest' = Newest
  BY DEF Calm, Live, Newest
<1>2. Apart => Apart'
  BY <1>1 DEF Calm, Apart, BuffersApart
<1>3. \A i : (Filled(i)' <=> Filled(i)) /\ SegmentIn(i)' = SegmentIn(i)
  BY DEF Calm, Filled, SegmentIn
<1>4. Ringed => Ringed'
  BY <1>1, <1>3 DEF Calm, Ringed
<1>5. \A e : (Listed(e)' <=> Listed(e)) /\ (Gone(e)' <=> Gone(e))
  BY <1>1 DEF Calm, Listed, Gone
<1> QED BY <1>1, <1>2, <1>4, <1>5

\* No player has moved.
PlayersWait ==
  player' = player /\ listed' = listed /\ want' = want /\ has' = has /\ result' = result

\* Then what they have got stays right, if the lists do and segments only age.
LEMMA WaitingKeeps ==
  ASSUME PlayersWait, SaveFileFlag' = SaveFileFlag, flushes' >= flushes, flushes' \in Nat,
         reused => reused', Shape
  PROVE  /\ ~reused' /\ BodyIsTheSegment /\ Sent => BodyIsTheSegment'
         /\ ~reused' /\ FileIsTheSegment => FileIsTheSegment'
         /\ Calm /\ Sent => Sent'
<1>1. flushes \in Nat /\ Ring \in Nat
  BY TsCacheAssumption DEF Shape
<1>2. ASSUME ~reused', BodyIsTheSegment, Sent PROVE BodyIsTheSegment'
  <2> SUFFICES ASSUME NEW p \in Players, player'[p] = "done", ~SaveFileFlag'
               PROVE  result'[p] = want'[p].seq \/ flushes' >= want'[p].seq + Ring
    BY DEF BodyIsTheSegment
  <2>1. /\ result[p] = want[p].seq \/ flushes >= want[p].seq + Ring
        /\ want[p] \in Entries
    BY <1>2 DEF BodyIsTheSegment, PlayersWait, Sent
  <2>2. want[p].seq \in Nat
    BY <2>1 DEF Entries
  <2> QED BY <1>1, <2>1, <2>2 DEF PlayersWait
<1>3. ASSUME ~reused', FileIsTheSegment PROVE FileIsTheSegment'
  BY <1>3 DEF FileIsTheSegment, PlayersWait
<1>4. ASSUME Calm, Sent PROVE Sent'
  <2>1. \A e : (Listed(e)' <=> Listed(e)) /\ (Gone(e)' <=> Gone(e))
    BY <1>4, MemoryStays
  <2> QED BY <1>4, <2>1 DEF Sent, PlayersWait, Calm
<1> QED BY <1>2, <1>3, <1>4

\* Lists that were right stay right while a file is neither written nor opened.
LEMMA ListsStay ==
  ASSUME Calm, tsFile' = tsFile, name' = name \/ step \notin {"listed", "ts"},
         flushes' = flushes \/ step \notin {"listed", "ts"},
         step \in {"listed", "ts"} => step' \in {"listed", "ts"}
  PROVE  \A l : Announced(l) => Announced(l)'
<1>1. \A e : (Listed(e)' <=> Listed(e)) /\ (Gone(e)' <=> Gone(e))
  BY MemoryStays
<1>2. \A l, i : OnDisk(l, i) => OnDisk(l, i)'
  BY DEF OnDisk
<1> QED BY <1>1, <1>2 DEF Announced, Calm

\* A tick of the clock changes nothing but the name of the next segment.
LEMMA TickKeeps ==
  ASSUME CacheIInv, Tick
  PROVE  CacheIInv'
<1>1. /\ clock < MaxClock /\ clock' = clock + 1
      /\ SaveFileFlag' = SaveFileFlag /\ flushes' = flushes /\ step' = step /\ name' = name
      /\ reused' = reused /\ index' = index /\ itemList' = itemList /\ itemMap' = itemMap
      /\ pool' = pool /\ bytes' = bytes /\ m3u8File' = m3u8File /\ tsFile' = tsFile
      /\ PlayersWait
  BY DEF Tick, writerVars, memVars, fileVars, playerVars, PlayersWait
<1>2. Calm
  BY <1>1 DEF Calm, Count
<1>3. Shape
  BY DEF CacheIInv
<1>4. clock \in Nat /\ clock' \in Names /\ clock <= clock'
  BY <1>1, <1>3, TsCacheAssumption DEF Shape, Names
<1>5. Shape'
  BY <1>1, <1>3, <1>4 DEF Shape, PlayersWait
<1>6. Apart'
  BY <1>2, MemoryStays DEF CacheIInv
<1>7. ASSUME ~reused' PROVE Fresh'
  <2>1. Fresh
    BY <1>1, <1>7 DEF CacheIInv
  <2>2. Ringed' /\ Live' = Live /\ Newest' = Newest
    BY <1>2, <2>1, MemoryStays DEF Fresh
  <2>3. Named' /\ Saved'
    <3>1. name <= clock'
      BY <1>1, <1>3, <1>4, <2>1 DEF Shape, Fresh, Named, Names
    <3> QED BY <1>1, <2>1, <2>2, <3>1 DEF Fresh, Named, Saved
  <2>4. Lists'
    <3>1. \A l : Announced(l) => Announced(l)'
      BY <1>1, <1>2, ListsStay
    <3> QED BY <1>1, <2>1, <3>1 DEF Fresh, Lists, PlayersWait
  <2>5. flushes' >= flushes /\ flushes' \in Nat
    BY <1>1, <1>3 DEF Shape
  <2>6. BodyIsTheSegment' /\ FileIsTheSegment' /\ Sent'
    BY <1>1, <1>2, <1>3, <1>7, <2>1, <2>5, WaitingKeeps DEF Fresh
  <2> QED BY <2>2, <2>3, <2>4, <2>6 DEF Fresh
<1> QED BY <1>5, <1>6, <1>7 DEF CacheIInv

\* A segment is counted and named: it is not stored yet.
LEMMA MakeNameKeeps ==
  ASSUME CacheIInv, MakeName
  PROVE  CacheIInv'
<1>1. /\ step = "idle" /\ flushes < MaxFlushes /\ flushes' = flushes + 1
      /\ name' = clock /\ step' = "named" /\ clock' = clock
      /\ SaveFileFlag' = SaveFileFlag
      /\ reused' = reused /\ index' = index /\ itemList' = itemList /\ itemMap' = itemMap
      /\ pool' = pool /\ bytes' = bytes /\ m3u8File' = m3u8File /\ tsFile' = tsFile
      /\ PlayersWait
  BY DEF MakeName, memVars, fileVars, playerVars, PlayersWait
<1>2. Shape
  BY DEF CacheIInv
<1>3. flushes \in Nat /\ flushes' \in 0 .. MaxFlushes /\ flushes' > 0 /\ flushes' \in Nat
  BY <1>1, <1>2, TsCacheAssumption DEF Shape
<1>4. Calm
  BY <1>1, <1>3 DEF Calm, Count
<1>5. Shape'
  <2>1. name' \in 0 .. MaxClock /\ name' \in Names
    BY <1>1, <1>2, TsCacheAssumption DEF Shape, Names
  <2> QED BY <1>1, <1>2, <1>3, <2>1 DEF Shape, PlayersWait
<1>6. Apart'
  BY <1>4, MemoryStays DEF CacheIInv
<1>7. ASSUME ~reused' PROVE Fresh'
  <2>1. Fresh
    BY <1>1, <1>7 DEF CacheIInv
  <2>2. Ringed' /\ Live' = Live /\ Newest' = Newest
    BY <1>4, <2>1, MemoryStays DEF Fresh
  <2>3. Named' /\ Saved'
    <3>1. name = Newest /\ name <= clock /\ clock \in Nat
      BY <1>1, <1>2, <2>1 DEF Fresh, Named, Shape, Names
    <3>2. Named'
      BY <1>1, <2>1, <2>2, <3>1 DEF Fresh, Named, Saving
    <3>3. Saved'
      BY <1>1, <2>1, <2>2 DEF Fresh, Saved, Saving
    <3> QED BY <3>2, <3>3
  <2>4. Lists'
    <3>1. \A l : Announced(l) => Announced(l)'
      BY <1>1, <1>4, ListsStay
    <3> QED BY <1>1, <2>1, <3>1 DEF Fresh, Lists, PlayersWait
  <2>5. flushes' >= flushes
    BY <1>1, <1>3
  <2>6. BodyIsTheSegment' /\ FileIsTheSegment' /\ Sent'
    BY <1>1, <1>2, <1>3, <1>4, <1>7, <2>1, <2>5, WaitingKeeps DEF Fresh
  <2> QED BY <2>2, <2>3, <2>4, <2>6 DEF Fresh
<1> QED BY <1>5, <1>6, <1>7 DEF CacheIInv

\* What the steps that save a segment have in common.
LEMMA SavingKeeps ==
  ASSUME CacheIInv, NEW from, NEW to, SaveStep(from, to), from \in Saving,
         to \in Saving \cup {"idle"}, tsFile' \in [Names -> 0 .. MaxFlushes],
         ~reused => Named' /\ Saved' /\ Lists'
  PROVE  CacheIInv'
<1>1. /\ step = from /\ step' = to /\ step \in Saving /\ step' # "named"
      /\ SaveFileFlag' = SaveFileFlag /\ clock' = clock /\ flushes' = flushes /\ name' = name
      /\ reused' = reused /\ index' = index /\ itemList' = itemList /\ itemMap' = itemMap
      /\ pool' = pool /\ bytes' = bytes /\ PlayersWait
  BY DEF SaveStep, Saving, memVars, playerVars, PlayersWait
<1>2. Shape /\ step # "named"
  BY <1>1 DEF CacheIInv, Saving
<1>3. Calm
  BY <1>1, <1>2 DEF Calm, Count
<1>4. Shape'
  <2>1. SaveFileFlag /\ flushes > 0 /\ name \in Names
    BY <1>1, <1>2 DEF Shape, Saving
  <2> QED BY <1>1, <1>2, <2>1 DEF Shape, PlayersWait
<1>5. Apart'
  BY <1>3, MemoryStays DEF CacheIInv
<1>6. ASSUME ~reused' PROVE Fresh'
  <2>1. Fresh
    BY <1>1, <1>6 DEF CacheIInv
  <2>2. Ringed'
    BY <1>3, <2>1, MemoryStays DEF Fresh
  <2>3. flushes' >= flushes /\ flushes' \in Nat
    BY <1>1, <1>2 DEF Shape
  <2>4. BodyIsTheSegment' /\ FileIsTheSegment' /\ Sent'
    BY <1>1, <1>2, <1>3, <1>6, <2>1, <2>3, WaitingKeeps DEF Fresh
  <2> QED BY <1>1, <1>6, <2>2, <2>4 DEF Fresh
<1> QED BY <1>4, <1>5, <1>6 DEF CacheIInv

\* Saving goes on, and the memory, the name and the lists' order stay.
LEMMA SaveStepIs ==
  ASSUME CacheIInv, NEW from, NEW to, SaveStep(from, to), from \in Saving, to # "named"
  PROVE  /\ Calm /\ PlayersWait /\ step = from /\ step' = to /\ step # "named"
         /\ name' = name /\ flushes' = flushes /\ clock' = clock /\ reused' = reused
         /\ Live' = Live /\ Newest' = Newest
<1>1. /\ step = from /\ step' = to /\ step # "named"
      /\ SaveFileFlag' = SaveFileFlag /\ clock' = clock /\ flushes' = flushes /\ name' = name
      /\ reused' = reused /\ index' = index /\ itemList' = itemList /\ itemMap' = itemMap
      /\ pool' = pool /\ bytes' = bytes /\ PlayersWait
  BY DEF SaveStep, Saving, memVars, playerVars, PlayersWait
<1>2. Calm
  BY <1>1 DEF Calm, Count
<1> QED BY <1>1, <1>2, MemoryStays

\* The playlist file is truncated: it announces nothing.
LEMMA OpenM3U8Keeps ==
  ASSUME CacheIInv, OpenM3U8
  PROVE  CacheIInv'
<1>1. SaveStep("stored", "m3u8") /\ m3u8File' = <<>> /\ tsFile' = tsFile /\ Shape
  BY DEF OpenM3U8, CacheIInv
<1>2. "stored" \in Saving /\ "m3u8" \in Saving
  BY DEF Saving
<1>3. /\ Calm /\ PlayersWait /\ step = "stored" /\ step' = "m3u8"
      /\ name' = name /\ flushes' = flushes /\ clock' = clock /\ reused' = reused
      /\ Live' = Live /\ Newest' = Newest
  BY <1>1, <1>2, SaveStepIs
<1>4. ASSUME ~reused PROVE Named' /\ Saved' /\ Lists'
  <2>1. Named /\ Saved /\ Lists
    BY <1>4 DEF CacheIInv, Fresh
  <2>2. Named'
    BY <1>1, <1>2, <1>3, <2>1 DEF Named
  <2>3. Saved'
    BY <1>1, <1>2, <1>3, <2>1 DEF Saved, Calm
  <2>4. \A l : Announced(l) => Announced(l)'
    BY <1>1, <1>3, ListsStay
  <2>5. Announced(<<>>)'
    BY DEF Announced
  <2> QED BY <1>1, <1>3, <2>1, <2>2, <2>3, <2>4, <2>5 DEF Lists, PlayersWait, Calm
<1>5. tsFile' \in [Names -> 0 .. MaxFlushes]
  BY <1>1 DEF Shape
<1> QED BY <1>1, <1>2, <1>4, <1>5, SavingKeeps

\* Of what the playlist lists only the newest segment may have no file yet.
LEMMA PlaylistIsOnDisk ==
  ASSUME Shape, Ringed, Named, Saved, step \in Saving, NEW i \in 1 .. Len(Playlist)
  PROVE  /\ Playlist[i] \in Entries
         /\ \/ tsFile[Playlist[i].name] = Playlist[i].seq
            \/ i = Len(Playlist) /\ Playlist[i].name = name /\ Playlist[i].seq = flushes
<1>1. /\ name = Newest /\ itemMap[name].seq = flushes /\ Count = flushes /\ SaveFileFlag
  BY NewestIs
<1>2. Count \in Nat /\ Oldest \in Nat
  BY <1>1, TsCacheAssumption DEF Shape, Oldest
<1>3. Len(Playlist) = Count - Oldest
  BY PlaylistIs
<1>4. Listed(Playlist[i]) /\ Playlist[i].seq = Oldest + i /\ Playlist[i] \in Entries
  BY <1>3, PlaylistIs
<1>5. Playlist[i].name \in Live /\ itemMap[Playlist[i].name].seq = Playlist[i].seq
  BY <1>4 DEF Listed
<1>6. CASE Playlist[i].name = name
  <2>1. Oldest + i = Count /\ i \in Nat
    BY <1>1, <1>4, <1>5, <1>6
  <2>2. i = Len(Playlist)
    BY <1>2, <1>3, <2>1
  <2> QED BY <1>1, <1>4, <1>5, <1>6, <2>2
<1>7. CASE Playlist[i].name # name
  BY <1>1, <1>4, <1>5, <1>7 DEF Saved
<1> QED BY <1>6, <1>7

\* The playlist is written: only the segment being saved is not on disk yet.
LEMMA WriteM3U8Keeps ==
  ASSUME CacheIInv, WriteM3U8
  PROVE  CacheIInv'
<1>1. SaveStep("m3u8", "listed") /\ m3u8File' = Playlist /\ tsFile' = tsFile /\ Shape
  BY DEF WriteM3U8, CacheIInv
<1>2. "m3u8" \in Saving /\ "listed" \in Saving
  BY DEF Saving
<1>3. /\ Calm /\ PlayersWait /\ step = "m3u8" /\ step' = "listed"
      /\ name' = name /\ flushes' = flushes /\ clock' = clock /\ reused' = reused
      /\ Live' = Live /\ Newest' = Newest
  BY <1>1, <1>2, SaveStepIs
<1>4. ASSUME ~reused PROVE Named' /\ Saved' /\ Lists'
  <2>1. Named /\ Saved /\ Lists /\ Ringed
    BY <1>4 DEF CacheIInv, Fresh
  <2>2. Named'
    BY <1>1, <1>2, <1>3, <2>1 DEF Named
  <2>3. Saved'
    BY <1>1, <1>2, <1>3, <2>1 DEF Saved, Calm
  <2>4. \A l : Announced(l) => Announced(l)'
    BY <1>1, <1>3, ListsStay
  <2>5. Announced(m3u8File)'
    <3>1. SaveFileFlag
      BY <1>1, <1>2, <1>3, <2>1, NewestIs
    <3>2. \A i \in 1 .. Len(Playlist) :
            \/ tsFile[Playlist[i].name] = Playlist[i].seq
            \/ i = Len(Playlist) /\ Playlist[i].name = name /\ Playlist[i].seq = flushes
      BY <1>1, <1>2, <1>3, <2>1, PlaylistIsOnDisk
    <3>3. Playlist \in Seq(Entries)
      BY <1>1, <2>1, PlaylistIs
    <3>4. \A i \in 1 .. Len(m3u8File') : OnDisk(m3u8File, i)'
      <4> HIDE DEF Playlist
      <4> QED BY <1>1, <1>3, <3>2 DEF OnDisk
    <3> QED BY <1>1, <1>3, <3>1, <3>3, <3>4 DEF Announced, Calm
  <2>6. \A p \in Players : player'[p] = "listed" => Announced(listed[p])'
    BY <1>3, <2>1, <2>4 DEF Lists, PlayersWait
  <2>7. Lists'
    BY <2>5, <2>6 DEF Lists
  <2> QED BY <2>2, <2>3, <2>7
<1>5. tsFile' \in [Names -> 0 .. MaxFlushes]
  BY <1>1 DEF Shape
<1> QED BY <1>1, <1>2, <1>4, <1>5, SavingKeeps

\* The segment's file is opened: it is a new one, so nothing is truncated.
LEMMA OpenTsKeeps ==
  ASSUME CacheIInv, OpenTs
  PROVE  CacheIInv'
<1>1. /\ SaveStep("listed", "ts") /\ m3u8File' = m3u8File /\ Shape
      /\ tsFile' = [tsFile EXCEPT ![name] = 0]
  BY DEF OpenTs, CacheIInv
<1>2. "listed" \in Saving /\ "ts" \in Saving
  BY DEF Saving
<1>3. /\ Calm /\ PlayersWait /\ step = "listed" /\ step' = "ts"
      /\ name' = name /\ flushes' = flushes /\ clock' = clock /\ reused' = reused
      /\ Live' = Live /\ Newest' = Newest
  BY <1>1, <1>2, SaveStepIs
<1>4. ASSUME ~reused PROVE Named' /\ Saved' /\ Lists'
  <2>1. Named /\ Saved /\ Lists /\ Ringed
    BY <1>4 DEF CacheIInv, Fresh
  <2>0. tsFile' = tsFile
    BY <1>1, <1>2, <1>3, <2>1, NewestIs DEF Shape
  <2>2. Named'
    BY <1>2, <1>3, <2>0, <2>1 DEF Named
  <2>3. Saved'
    BY <1>2, <1>3, <2>0, <2>1 DEF Saved, Calm
  <2>4. \A l : Announced(l) => Announced(l)'
    BY <1>3, <2>0, ListsStay
  <2> QED BY <1>1, <1>3, <2>1, <2>2, <2>3, <2>4 DEF Lists, PlayersWait, Calm
<1>5. tsFile' \in [Names -> 0 .. MaxFlushes]
  <2>1. tsFile \in [Names -> 0 .. MaxFlushes] /\ 0 \in 0 .. MaxFlushes
    BY <1>1, TsCacheAssumption DEF Shape
  <2> QED BY <1>1, <2>1
<1> QED BY <1>1, <1>2, <1>4, <1>5, SavingKeeps

\* The segment is in its file, which no playlist announced for another one.
LEMMA WriteTsKeeps ==
  ASSUME CacheIInv, WriteTs
  PROVE  CacheIInv'
<1>1. /\ SaveStep("ts", "idle") /\ m3u8File' = m3u8File /\ Shape
      /\ tsFile' = [tsFile EXCEPT ![name] = flushes]
  BY DEF WriteTs, CacheIInv
<1>2. "ts" \in Saving
  BY DEF Saving
<1>3. /\ Calm /\ PlayersWait /\ step = "ts" /\ step' = "idle"
      /\ name' = name /\ flushes' = flushes /\ clock' = clock /\ reused' = reused
      /\ Live' = Live /\ Newest' = Newest
  BY <1>1, <1>2, SaveStepIs
<1>4. ASSUME ~reused PROVE Named' /\ Saved' /\ Lists'
  <2>1. Named /\ Saved /\ Lists /\ Ringed
    BY <1>4 DEF CacheIInv, Fresh
  <2>0. /\ name = Newest /\ name \in Names /\ itemMap[name].seq = flushes /\ tsFile[name] = 0
        /\ SaveFileFlag
    BY <1>1, <1>2, <1>3, <2>1, NewestIs
  <2>9. \A n \in Names : tsFile'[n] = IF n = name THEN flushes ELSE tsFile[n]
    BY <1>1, <2>0 DEF Shape
  <2>2. Named'
    <3>1. \A n \in Names : tsFile'[n] # 0 => n <= Newest
      <4>1. Newest <= Newest
        BY <2>0 DEF Names
      <4> QED BY <2>0, <2>1, <2>9, <4>1 DEF Named
    <3> QED BY <1>2, <1>3, <2>1, <3>1 DEF Named, Saving
  <2>3. Saved'
    BY <1>2, <1>3, <2>0, <2>1, <2>9 DEF Saved, Calm, Live
  <2>4. ASSUME NEW l, Announced(l) PROVE Announced(l)'
    <3>1. ASSUME NEW i \in 1 .. Len(l) PROVE OnDisk(l, i)'
      <4>1. OnDisk(l, i) /\ l[i] \in Entries
        BY <2>0, <2>4 DEF Announced
      <4>2. l[i].name \in Names /\ l[i].seq # 0
        BY <4>1 DEF Entries
      <4> QED BY <1>3, <2>0, <2>9, <4>1, <4>2 DEF OnDisk
    <3> QED BY <1>3, <2>0, <2>4, <3>1 DEF Announced, Calm
  <2> QED BY <1>1, <1>3, <2>1, <2>2, <2>3, <2>4 DEF Lists, PlayersWait, Calm
<1>5. tsFile' \in [Names -> 0 .. MaxFlushes]
  BY <1>1, TsCacheAssumption DEF Shape
<1> QED BY <1>1, <1>2, <1>4, <1>5, SavingKeeps

-----------------------------------------------------------------------------
(* Storing, and the players.                                                 *)

\* What lists announce can still be had, or the ring has come round by now.
LEMMA StoreKeepsLists ==
  ASSUME Shape, Ringed, Lists, Store, ~reused'
  PROVE  Lists'
<1>1. /\ Count = flushes - 1 /\ Count' = flushes /\ step = "named"
      /\ SaveFileFlag' = SaveFileFlag /\ m3u8File' = m3u8File /\ tsFile' = tsFile
      /\ PlayersWait
  BY StoreDoes DEF fileVars, playerVars, PlayersWait
<1>2. ASSUME NEW l, Announced(l) PROVE Announced(l)'
  <2>1. l \in Seq(Entries)
    BY <1>2 DEF Announced
  <2>2. ASSUME SaveFileFlag, NEW i \in 1 .. Len(l) PROVE OnDisk(l, i)'
    BY <1>1, <1>2, <2>2 DEF Announced, OnDisk
  <2>3. ASSUME ~SaveFileFlag, NEW i \in 1 .. Len(l) PROVE Listed(l[i])' \/ Gone(l[i])'
    <3>1. l[i] \in Entries /\ (Listed(l[i]) \/ Gone(l[i]))
      BY <1>2, <2>1, <2>3 DEF Announced
    <3>2. ASSUME NEW e \in Entries, Listed(e) \/ Gone(e) PROVE Listed(e)' \/ Gone(e)'
      BY <3>2, EntriesAge
    <3> QED BY <3>1, <3>2
  <2> QED BY <1>1, <2>1, <2>2, <2>3 DEF Announced
<1> QED BY <1>1, <1>2 DEF Lists, PlayersWait

\* What is being sent stays where it is, or the ring has come round.
LEMMA StoreKeepsSent ==
  ASSUME Shape, Ringed, Sent, Store, ~reused'
  PROVE  Sent'
<1>1. SaveFileFlag' = SaveFileFlag /\ PlayersWait
  BY StoreDoes DEF playerVars, PlayersWait
<1>2. ASSUME NEW e \in Entries, Listed(e) \/ Gone(e)
      PROVE  (Listed(e)' /\ Listed(e) /\ itemMap'[e.name] = itemMap[e.name]) \/ Gone(e)'
  BY <1>2, EntriesAge
<1>3. ASSUME NEW e \in Entries, Gone(e) PROVE Gone(e)'
  <2>1. Count = flushes - 1 /\ Count' = flushes /\ flushes \in Nat
    BY StoreDoes DEF Shape
  <2>2. e.seq \in Nat /\ Ring \in Nat /\ Count >= e.seq + Ring
    BY <1>3, TsCacheAssumption DEF Gone, Entries
  <2>3. Count' >= e.seq + Ring
    <3> HIDE DEF Count
    <3> QED BY <2>1, <2>2
  <2> QED BY <2>3 DEF Gone
<1>4. ASSUME NEW p \in Players, player'[p] = "sending"
      PROVE  /\ ~SaveFileFlag' /\ want'[p] \in Entries
             /\ (Listed(want[p])' /\ has'[p] = itemMap'[want'[p].name].array) \/ Gone(want[p])'
  <2>1. /\ ~SaveFileFlag /\ want[p] \in Entries
        /\ (Listed(want[p]) /\ has[p] = itemMap[want[p].name].array) \/ Gone(want[p])
    BY <1>1, <1>4 DEF Sent, PlayersWait
  <2>2. want'[p] = want[p] /\ has'[p] = has[p]
    BY <1>1 DEF PlayersWait
  <2>3. ASSUME NEW e \in Entries, NEW h, e = want[p], h = has[p],
               (Listed(e) /\ h = itemMap[e.name].array) \/ Gone(e)
        PROVE  (Listed(e)' /\ h = itemMap'[e.name].array) \/ Gone(e)'
    <3>1. CASE Gone(e) /\ ~Listed(e)
      BY <1>2, <2>3, <3>1
    <3>2. CASE Listed(e)
      <4>1. (Listed(e)' /\ itemMap'[e.name] = itemMap[e.name]) \/ Gone(e)'
        BY <1>2, <3>2
      <4>2. CASE Gone(e)
        BY <1>3, <4>2
      <4>3. CASE ~Gone(e)
        <5>1. h = itemMap[e.name].array
          BY <2>3, <4>3
        <5> QED BY <4>1, <5>1
      <4> QED BY <4>2, <4>3
    <3> QED BY <2>3, <3>1, <3>2
  <2>4. ASSUME NEW e, e = want[p] PROVE /\ Listed(want[p])' <=> Listed(e)'
                                        /\ Gone(want[p])' <=> Gone(e)'
    BY <2>2, <2>4 DEF Listed, Gone
  <2> QED BY <1>1, <2>1, <2>2, <2>3, <2>4 DEF PlayersWait
<1> QED BY <1>1, <1>4 DEF Sent, PlayersWait

\* Storing a segment keeps the invariant.
LEMMA StoreKeeps ==
  ASSUME CacheIInv, Store
  PROVE  CacheIInv'
<1>1. /\ name \in Names /\ flushes > 0 /\ index' = NextSlot
      /\ itemList' = [itemList EXCEPT ![NextSlot] = name]
      /\ ~reused' => ~reused
      /\ SaveFileFlag' = SaveFileFlag /\ clock' = clock /\ flushes' = flushes /\ name' = name
      /\ m3u8File' = m3u8File /\ tsFile' = tsFile /\ PlayersWait
      /\ itemMap' \in [Names -> {NoItem} \cup Items]
      /\ pool' \subseteq Arrays /\ bytes' \in [Arrays -> 0 .. MaxFlushes]
      /\ reused' \in BOOLEAN /\ reused \in BOOLEAN
      /\ step' = IF SaveFileFlag THEN "stored" ELSE "idle"
      /\ Shape /\ Apart
  BY StoreDoes DEF CacheIInv, fileVars, playerVars, PlayersWait, Shape
<1>2. Shape'
  <2>1. index' \in -1 .. Ring - 1
    BY <1>1, NextSlotIs, TsCacheAssumption DEF Slots
  <2>2. itemList' \in [Slots -> 0 .. MaxClock]
    <3>1. itemList \in [Slots -> 0 .. MaxClock] /\ name \in 0 .. MaxClock
      BY <1>1 DEF Shape
    <3> QED BY <1>1, <3>1
  <2>3. step' \in {"idle", "named"} \cup Saving /\ (~SaveFileFlag' => step' \in {"idle", "named"})
    BY <1>1 DEF Saving
  <2> QED BY <1>1, <2>1, <2>2, <2>3 DEF Shape, PlayersWait
<1>3. Apart'
  BY <1>1, StoreKeepsApart
<1>4. ASSUME ~reused' PROVE Fresh'
  <2>1. Fresh
    BY <1>1, <1>4 DEF CacheIInv
  <2>2. Ringed' /\ Named' /\ Saved' /\ Lists' /\ Sent'
    BY <1>1, <1>4, <2>1, StoreKeepsRinged, StoreKeepsNamed, StoreKeepsLists, StoreKeepsSent
       DEF Fresh
  <2>3. flushes' >= flushes /\ flushes' \in Nat /\ (reused => reused')
    BY <1>1 DEF Shape
  <2>4. BodyIsTheSegment' /\ FileIsTheSegment'
    BY <1>1, <1>4, <2>1, <2>3, WaitingKeeps DEF Fresh
  <2> QED BY <2>2, <2>4 DEF Fresh
<1> QED BY <1>2, <1>3, <1>4 DEF CacheIInv

\* A player gets the playlist: what it lists can be had.
LEMMA GetPlaylistKeeps ==
  ASSUME CacheIInv, NEW p \in Players, GetPlaylist(p)
  PROVE  CacheIInv'
<1>1. /\ player[p] = "idle" /\ (SaveFileFlag \/ step \in {"idle", "named"})
      /\ listed' = [listed EXCEPT ![p] = IF SaveFileFlag THEN m3u8File ELSE Playlist]
      /\ player' = [player EXCEPT ![p] = "listed"]
      /\ SaveFileFlag' = SaveFileFlag /\ clock' = clock /\ flushes' = flushes /\ name' = name
      /\ step' = step /\ reused' = reused /\ index' = index /\ itemList' = itemList
      /\ itemMap' = itemMap /\ pool' = pool /\ bytes' = bytes
      /\ m3u8File' = m3u8File /\ tsFile' = tsFile /\ want' = want /\ has' = has
      /\ result' = result
  BY DEF GetPlaylist, writerVars, memVars, fileVars
<1>2. Calm
  BY <1>1 DEF Calm, Count
<1>3. Shape
  BY DEF CacheIInv
<1>4. Shape'
  BY <1>1, <1>3 DEF Shape
<1>5. Apart'
  BY <1>2, MemoryStays DEF CacheIInv
<1>6. \A q \in Players : player'[q] = IF q = p THEN "listed" ELSE player[q]
  BY <1>1, <1>3 DEF Shape
<1>7. ASSUME ~reused' PROVE Fresh'
  <2>1. Fresh
    BY <1>1, <1>7 DEF CacheIInv
  <2>2. /\ Ringed' /\ Live' = Live /\ Newest' = Newest
        /\ \A e : (Listed(e)' <=> Listed(e)) /\ (Gone(e)' <=> Gone(e))
    BY <1>2, <2>1, MemoryStays DEF Fresh
  <2>3. Named' /\ Saved'
    BY <1>1, <2>1, <2>2 DEF Fresh, Named, Saved
  <2>4. \A l : Announced(l) => Announced(l)'
    BY <1>1, <1>2, ListsStay
  <2>5. Announced(IF SaveFileFlag THEN m3u8File ELSE Playlist)
    <3>1. CASE SaveFileFlag
      BY <2>1, <3>1 DEF Fresh, Lists
    <3>2. CASE ~SaveFileFlag
      <4>1. /\ Playlist \in Seq(Entries)
            /\ \A i \in 1 .. Len(Playlist) : Listed(Playlist[i])
        BY <1>3, <2>1, PlaylistIs DEF Fresh
      <4> HIDE DEF Playlist
      <4> QED BY <3>2, <4>1 DEF Announced
    <3> QED BY <3>1, <3>2
  <2>6. Lists'
    <3> DEFINE got == IF SaveFileFlag THEN m3u8File ELSE Playlist
    <3>1. listed' = [listed EXCEPT ![p] = got] /\ Announced(got)
      BY <1>1, <2>5
    <3> HIDE DEF got
    <3>2. ASSUME NEW q \in Players, player'[q] = "listed" PROVE Announced(listed'[q])
      <4>1. listed'[q] = IF q = p THEN got ELSE listed[q]
        BY <1>3, <3>1 DEF Shape
      <4> QED BY <1>6, <2>1, <3>1, <3>2, <4>1 DEF Fresh, Lists
    <3>3. SaveFileFlag => Announced(m3u8File)
      BY <2>1 DEF Fresh, Lists
    <3>4. ASSUME NEW q \in Players, player'[q] = "listed" PROVE Announced(listed[q])'
      <4>1. ASSUME NEW l, l = listed'[q] PROVE Announced(l)' <=> Announced(listed[q])'
        BY <4>1 DEF Announced, OnDisk
      <4> QED BY <2>4, <3>2, <3>4, <4>1
    <3>5. SaveFileFlag => Announced(m3u8File)'
      <4>1. ASSUME NEW l, l = m3u8File' PROVE Announced(l)' <=> Announced(m3u8File)'
        BY <4>1 DEF Announced, OnDisk
      <4> QED BY <1>1, <2>4, <3>3, <4>1
    <3> QED BY <1>1, <3>4, <3>5 DEF Lists
  <2>7. Sent'
    BY <1>1, <1>6, <2>1, <2>2 DEF Fresh, Sent
  <2>8. BodyIsTheSegment' /\ FileIsTheSegment'
    <3>1. \A q \in Players : player'[q] = "done" => q # p /\ player[q] = "done" /\ listed'[q] = listed[q]
      BY <1>1, <1>3, <1>6 DEF Shape
    <3> QED BY <1>1, <2>1, <3>1 DEF Fresh, BodyIsTheSegment, FileIsTheSegment
  <2> QED BY <2>2, <2>3, <2>6, <2>7, <2>8 DEF Fresh
<1> QED BY <1>4, <1>5, <1>7 DEF CacheIInv

\* A player asks for a segment of its list and gets the slice of the buffer.
LEMMA GetItemKeeps ==
  ASSUME CacheIInv, NEW p \in Players, GetItem(p)
  PROVE  CacheIInv'
<1>1. /\ player[p] = "listed" /\ ~SaveFileFlag
      /\ player' = [player EXCEPT ![p] = "sending"]
      /\ SaveFileFlag' = SaveFileFlag /\ clock' = clock /\ flushes' = flushes /\ name' = name
      /\ step' = step /\ reused' = reused /\ index' = index /\ itemList' = itemList
      /\ itemMap' = itemMap /\ pool' = pool /\ bytes' = bytes
      /\ m3u8File' = m3u8File /\ tsFile' = tsFile /\ listed' = listed
      /\ result' = result
  BY DEF GetItem, writerVars, memVars, fileVars
<1>2. PICK i \in 1 .. Len(listed[p]) :
        /\ want' = [want EXCEPT ![p] = listed[p][i]]
        /\ has' = [has EXCEPT ![p] = itemMap[listed[p][i].name].array]
  BY DEF GetItem
<1>3. Calm
  BY <1>1 DEF Calm, Count
<1>4. Shape
  BY DEF CacheIInv
<1>5. Shape'
  BY <1>1, <1>2, <1>4 DEF Shape
<1>6. Apart'
  BY <1>3, MemoryStays DEF CacheIInv
<1>7. \A q \in Players : player'[q] = IF q = p THEN "sending" ELSE player[q]
  BY <1>1, <1>4 DEF Shape
<1>8. \A q \in Players : q # p => want'[q] = want[q] /\ has'[q] = has[q]
  BY <1>2, <1>4 DEF Shape
<1>9. want'[p] = listed[p][i] /\ has'[p] = itemMap[listed[p][i].name].array
  BY <1>2, <1>4 DEF Shape
<1>10. ASSUME ~reused' PROVE Fresh'
  <2>1. Fresh
    BY <1>1, <1>10 DEF CacheIInv
  <2>2. /\ Ringed' /\ Live' = Live /\ Newest' = Newest
        /\ \A e : (Listed(e)' <=> Listed(e)) /\ (Gone(e)' <=> Gone(e))
    BY <1>3, <2>1, MemoryStays DEF Fresh
  <2>3. Named' /\ Saved'
    BY <1>1, <2>1, <2>2 DEF Fresh, Named, Saved
  <2>4. \A l : Announced(l) => Announced(l)'
    BY <1>1, <1>3, ListsStay
  <2>5. Lists'
    BY <1>1, <1>7, <2>1, <2>4 DEF Fresh, Lists
  <2>6. Announced(listed[p])
    BY <1>1, <2>1 DEF Fresh, Lists
  <2>7. listed[p][i] \in Entries /\ (Listed(listed[p][i]) \/ Gone(listed[p][i]))
    BY <1>1, <2>6 DEF Announced
  <2>8. Sent'
    <3>1. ASSUME NEW q \in Players, q # p
          PROVE  /\ player'[q] = "sending" =>
                      /\ ~SaveFileFlag' /\ want'[q] \in Entries
                      /\ (Listed(want[q])' /\ has'[q] = itemMap'[want'[q].name].array) \/ Gone(want[q])'
                 /\ player'[q] = "done" => want'[q] \in Entries
      <4>1. /\ player[q] = "sending" =>
                 /\ ~SaveFileFlag /\ want[q] \in Entries
                 /\ (Listed(want[q]) /\ has[q] = itemMap[want[q].name].array) \/ Gone(want[q])
            /\ player[q] = "done" => want[q] \in Entries
        BY <2>1 DEF Fresh, Sent
      <4>2. (Listed(want[q])' <=> Listed(want[q])) /\ (Gone(want[q])' <=> Gone(want[q]))
        BY <1>3, <1>8, <2>2, <3>1 DEF Listed, Gone, Calm
      <4> QED BY <1>1, <1>7, <1>8, <3>1, <4>1, <4>2
    <3>2. /\ ~SaveFileFlag' /\ want'[p] \in Entries
          /\ (Listed(want[p])' /\ has'[p] = itemMap'[want'[p].name].array) \/ Gone(want[p])'
      <4>1. (Listed(want[p])' <=> Listed(listed[p][i])) /\ (Gone(want[p])' <=> Gone(listed[p][i]))
        BY <1>3, <1>9, <2>2 DEF Listed, Gone, Calm
      <4> QED BY <1>1, <1>9, <2>7, <4>1
    <3> QED BY <1>7, <3>1, <3>2 DEF Sent
  <2>9. BodyIsTheSegment' /\ FileIsTheSegment'
    <3>1. \A q \in Players : player'[q] = "done" => q # p /\ player[q] = "done" /\ want'[q] = want[q]
      BY <1>7, <1>8
    <3> QED BY <1>1, <2>1, <3>1 DEF Fresh, BodyIsTheSegment, FileIsTheSegment
  <2> QED BY <2>2, <2>3, <2>5, <2>8, <2>9 DEF Fresh
<1> QED BY <1>5, <1>6, <1>10 DEF CacheIInv

\* The body is sent: the bytes are still the segment's if its item is there.
LEMMA SendBodyKeeps ==
  ASSUME CacheIInv, NEW p \in Players, SendBody(p)
  PROVE  CacheIInv'
<1>1. /\ player[p] = "sending"
      /\ result' = [result EXCEPT ![p] = IF has[p] = 0 THEN 0 ELSE bytes[has[p]]]
      /\ player' = [player EXCEPT ![p] = "done"]
      /\ SaveFileFlag' = SaveFileFlag /\ clock' = clock /\ flushes' = flushes /\ name' = name
      /\ step' = step /\ reused' = reused /\ index' = index /\ itemList' = itemList
      /\ itemMap' = itemMap /\ pool' = pool /\ bytes' = bytes
      /\ m3u8File' = m3u8File /\ tsFile' = tsFile /\ listed' = listed
      /\ want' = want /\ has' = has
  BY DEF SendBody, writerVars, memVars, fileVars
<1>2. Calm
  BY <1>1 DEF Calm, Count
<1>3. Shape
  BY DEF CacheIInv
<1>4. Shape'
  BY <1>1, <1>3 DEF Shape
<1>5. Apart'
  BY <1>2, MemoryStays DEF CacheIInv
<1>6. \A q \in Players : player'[q] = IF q = p THEN "done" ELSE player[q]
  BY <1>1, <1>3 DEF Shape
<1>7. \A q \in Players : q # p => result'[q] = result[q]
  BY <1>1, <1>3 DEF Shape
<1>8. result'[p] = IF has[p] = 0 THEN 0 ELSE bytes[has[p]]
  BY <1>1, <1>3 DEF Shape
<1>9. ASSUME ~reused' PROVE Fresh'
  <2>1. Fresh
    BY <1>1, <1>9 DEF CacheIInv
  <2>2. /\ Ringed' /\ Live' = Live /\ Newest' = Newest
        /\ \A e : (Listed(e)' <=> Listed(e)) /\ (Gone(e)' <=> Gone(e))
    BY <1>2, <2>1, MemoryStays DEF Fresh
  <2>3. Named' /\ Saved'
    BY <1>1, <2>1, <2>2 DEF Fresh, Named, Saved
  <2>4. \A l : Announced(l) => Announced(l)'
    BY <1>1, <1>2, ListsStay
  <2>5. Lists'
    BY <1>1, <1>6, <2>1, <2>4 DEF Fresh, Lists
  <2>6. /\ ~SaveFileFlag /\ want[p] \in Entries
        /\ (Listed(want[p]) /\ has[p] = itemMap[want[p].name].array) \/ Gone(want[p])
    BY <1>1, <2>1 DEF Fresh, Sent
  <2>7. Sent'
    BY <1>1, <1>6, <2>1, <2>2, <2>6 DEF Fresh, Sent
  <2>8. result'[p] = want[p].seq \/ flushes >= want[p].seq + Ring
    <3>1. CASE Listed(want[p]) /\ has[p] = itemMap[want[p].name].array
      <4>1. /\ want[p].name \in Live /\ itemMap[want[p].name].seq = want[p].seq
            /\ itemMap[want[p].name] \in Items
        BY <1>3, <3>1 DEF Listed, Live, Shape
      <4>2. itemMap[want[p].name].array # 0
        BY <4>1 DEF Items, Arrays
      <4>3. bytes[itemMap[want[p].name].array] = itemMap[want[p].name].seq
        BY <4>1 DEF CacheIInv, Apart, BuffersApart, Live
      <4> QED BY <1>8, <3>1, <4>1, <4>2, <4>3
    <3>2. CASE Gone(want[p])
      <4>1. Count \in Int /\ Count <= flushes /\ flushes \in Int
        BY <1>3 DEF Shape, Count
      <4>2. want[p].seq \in Int /\ Ring \in Int /\ Count >= want[p].seq + Ring
        BY <2>6, <3>2, TsCacheAssumption DEF Gone, Entries
      <4> HIDE DEF Count
      <4> QED BY <4>1, <4>2
    <3> QED BY <2>6, <3>1, <3>2
  <2>9. BodyIsTheSegment' /\ FileIsTheSegment'
    <3>1. ASSUME NEW q \in Players, q # p, player'[q] = "done"
          PROVE  player[q] = "done" /\ want'[q] = want[q] /\ result'[q] = result[q]
      BY <1>1, <1>6, <1>7, <3>1
    <3>2. BodyIsTheSegment'
      <4> SUFFICES ASSUME NEW q \in Players, player'[q] = "done", ~SaveFileFlag'
                   PROVE  result'[q] = want'[q].seq \/ flushes' >= want'[q].seq + Ring
        BY DEF BodyIsTheSegment
      <4>1. CASE q = p
        BY <1>1, <2>8, <4>1
      <4>2. CASE q # p
        BY <1>1, <1>9, <2>1, <3>1, <4>2 DEF Fresh, BodyIsTheSegment
      <4> QED BY <4>1, <4>2
    <3>3. FileIsTheSegment'
      BY <1>1, <2>6 DEF FileIsTheSegment
    <3> QED BY <3>2, <3>3
  <2> QED BY <2>2, <2>3, <2>5, <2>7, <2>9 DEF Fresh
<1> QED BY <1>4, <1>5, <1>9 DEF CacheIInv

\* A player reads a segment's file: it has been written, or is to be written.
LEMMA GetFileKeeps ==
  ASSUME CacheIInv, NEW p \in Players, GetFile(p)
  PROVE  CacheIInv'
<1>1. /\ player[p] = "listed" /\ SaveFileFlag
      /\ player' = [player EXCEPT ![p] = "done"]
      /\ SaveFileFlag' = SaveFileFlag /\ clock' = clock /\ flushes' = flushes /\ name' = name
      /\ step' = step /\ reused' = reused /\ index' = index /\ itemList' = itemList
      /\ itemMap' = itemMap /\ pool' = pool /\ bytes' = bytes
      /\ m3u8File' = m3u8File /\ tsFile' = tsFile /\ listed' = listed
      /\ has' = has
  BY DEF GetFile, writerVars, memVars, fileVars
<1>2. PICK i \in 1 .. Len(listed[p]) :
        /\ want' = [want EXCEPT ![p] = listed[p][i]]
        /\ result' = [result EXCEPT ![p] = tsFile[listed[p][i].name]]
  BY DEF GetFile
<1>3. Calm
  BY <1>1 DEF Calm, Count
<1>4. Shape
  BY DEF CacheIInv
<1>5. Shape'
  BY <1>1, <1>2, <1>4 DEF Shape
<1>6. Apart'
  BY <1>3, MemoryStays DEF CacheIInv
<1>7. \A q \in Players : player'[q] = IF q = p THEN "done" ELSE player[q]
  BY <1>1, <1>4 DEF Shape
<1>8. \A q \in Players : q # p => want'[q] = want[q] /\ result'[q] = result[q]
  BY <1>2, <1>4 DEF Shape
<1>9. want'[p] = listed[p][i] /\ result'[p] = tsFile[listed[p][i].name]
  BY <1>2, <1>4 DEF Shape
<1>10. ASSUME ~reused' PROVE Fresh'
  <2>1. Fresh
    BY <1>1, <1>10 DEF CacheIInv
  <2>2. /\ Ringed' /\ Live' = Live /\ Newest' = Newest
    BY <1>3, <2>1, MemoryStays DEF Fresh
  <2>3. Named' /\ Saved'
    BY <1>1, <2>1, <2>2 DEF Fresh, Named, Saved
  <2>4. \A l : Announced(l) => Announced(l)'
    BY <1>1, <1>3, ListsStay
  <2>5. Lists'
    BY <1>1, <1>7, <2>1, <2>4 DEF Fresh, Lists
  <2>6. listed[p][i] \in Entries /\ OnDisk(listed[p], i)
    BY <1>1, <2>1 DEF Fresh, Lists, Announced
  <2>7. Sent'
    <3>1. ASSUME NEW q \in Players PROVE player'[q] # "sending"
      <4>1. player[q] = "sending" => ~SaveFileFlag
        BY <2>1 DEF Fresh, Sent
      <4> QED BY <1>1, <1>7, <4>1
    <3>2. ASSUME NEW q \in Players, player'[q] = "done" PROVE want'[q] \in Entries
      BY <1>7, <1>8, <1>9, <2>1, <2>6, <3>2 DEF Fresh, Sent
    <3> QED BY <3>1, <3>2 DEF Sent
  <2>8. \/ result'[p] = want'[p].seq
        \/ result'[p] = 0 /\ want'[p] = listed'[p][Len(listed'[p])]
    <3>1. CASE tsFile[listed[p][i].name] = listed[p][i].seq
      BY <1>9, <3>1
    <3>2. CASE i = Len(listed[p]) /\ listed[p][i].name = name /\ step \in {"listed", "ts"}
      <4>1. step \in Saving
        BY <3>2 DEF Saving
      <4>2. tsFile[name] = 0
        BY <2>1, <4>1 DEF Fresh, Named
      <4> QED BY <1>1, <1>9, <3>2, <4>2
    <3> QED BY <2>6, <3>1, <3>2 DEF OnDisk
  <2>9. BodyIsTheSegment' /\ FileIsTheSegment'
    <3>1. BodyIsTheSegment'
      BY <1>1 DEF BodyIsTheSegment
    <3>2. FileIsTheSegment'
      <4> SUFFICES ASSUME NEW q \in Players, player'[q] = "done"
                   PROVE  \/ result'[q] = want'[q].seq
                          \/ result'[q] = 0 /\ want'[q] = listed'[q][Len(listed'[q])]
        BY DEF FileIsTheSegment
      <4>1. CASE q = p
        BY <2>8, <4>1
      <4>2. CASE q # p
        <5>1. player[q] = "done" /\ want'[q] = want[q] /\ result'[q] = result[q]
          BY <1>7, <1>8, <4>2
        <5> QED BY <1>1, <1>10, <2>1, <5>1 DEF Fresh, FileIsTheSegment
      <4> QED BY <4>1, <4>2
    <3> QED BY <3>1, <3>2
  <2> QED BY <2>2, <2>3, <2>5, <2>7, <2>9 DEF Fresh
<1> QED BY <1>5, <1>6, <1>10 DEF CacheIInv

-----------------------------------------------------------------------------
(* The theorems.                                                             *)

\* Nothing is stored at first.
LEMMA InitHolds == CacheInit => CacheIInv
<1> SUFFICES ASSUME CacheInit PROVE CacheIInv
  OBVIOUS
<1>1. /\ SaveFileFlag \in BOOLEAN /\ clock = 1 /\ flushes = 0 /\ index = -1
      /\ itemList = [i \in Slots |-> 0] /\ itemMap = [n \in Names |-> NoItem]
      /\ pool = {} /\ bytes = [a \in Arrays |-> 0] /\ step = "idle" /\ name = 0
      /\ m3u8File = <<>> /\ tsFile = [n \in Names |-> 0]
      /\ player = [p \in Players |-> "idle"] /\ listed = [p \in Players |-> <<>>]
      /\ want = [p \in Players |-> NoItem] /\ has = [p \in Players |-> 0]
      /\ result = [p \in Players |-> 0] /\ reused = FALSE
  BY DEF CacheInit
<1>2. /\ Ring \in Nat /\ Ring > 0 /\ MaxFlushes \in Nat /\ MaxClock \in Nat /\ MaxClock > 0
  BY TsCacheAssumption
<1>3. Shape
  <2>1. /\ clock \in Names /\ name \in 0 .. MaxClock /\ flushes \in 0 .. MaxFlushes
        /\ index \in -1 .. Ring - 1
    BY <1>1, <1>2 DEF Names
  <2>2. itemList \in [Slots -> 0 .. MaxClock] /\ tsFile \in [Names -> 0 .. MaxFlushes]
    BY <1>1, <1>2
  <2>3. bytes \in [Arrays -> 0 .. MaxFlushes]
    BY <1>1, <1>2
  <2>4. /\ itemMap \in [Names -> {NoItem} \cup Items] /\ pool \subseteq Arrays
        /\ player \in [Players -> {"idle", "listed", "sending", "done"}]
    BY <1>1
  <2>5. /\ listed = [p \in Players |-> listed[p]] /\ want = [p \in Players |-> want[p]]
        /\ has = [p \in Players |-> has[p]] /\ result = [p \in Players |-> result[p]]
    BY <1>1
  <2> QED BY <1>1, <2>1, <2>2, <2>3, <2>4, <2>5 DEF Shape
<1>4. Live = {} /\ Count = 0 /\ Newest = 0
  BY <1>1 DEF Live, Count, Newest
<1>5. Apart
  BY <1>1, <1>4 DEF Apart, BuffersApart
<1>6. Ringed
  <2>1. \A i \in Slots : ~Filled(i) /\ itemList[i] = 0
    BY <1>1, <1>2, <1>4 DEF Filled, Slots
  <2> QED BY <1>1, <1>2, <1>4, <2>1 DEF Ringed
<1>7. Named /\ Saved
  BY <1>1, <1>4 DEF Named, Saved, Saving
<1>8. Lists
  <2>1. Announced(m3u8File)
    BY <1>1 DEF Announced
  <2> QED BY <1>1, <2>1 DEF Lists
<1>9. Sent /\ BodyIsTheSegment /\ FileIsTheSegment
  BY <1>1 DEF Sent, BodyIsTheSegment, FileIsTheSegment
<1> QED BY <1>3, <1>5, <1>6, <1>7, <1>8, <1>9 DEF CacheIInv, Fresh

\* A step that changes nothing.
LEMMA StutterKeeps ==
  ASSUME CacheIInv, UNCHANGED cacheVars
  PROVE  CacheIInv'
<1>1. /\ SaveFileFlag' = SaveFileFlag /\ clock' = clock /\ flushes' = flushes /\ name' = name
      /\ step' = step /\ reused' = reused /\ index' = index /\ itemList' = itemList
      /\ itemMap' = itemMap /\ pool' = pool /\ bytes' = bytes
      /\ m3u8File' = m3u8File /\ tsFile' = tsFile /\ PlayersWait
  BY DEF cacheVars, writerVars, memVars, fileVars, playerVars, PlayersWait
<1>2. Calm
  BY <1>1 DEF Calm, Count
<1>3. Shape /\ flushes \in Nat
  BY DEF CacheIInv, Shape
<1>4. Shape'
  BY <1>1, <1>3 DEF Shape, PlayersWait
<1>5. Apart'
  BY <1>2, MemoryStays DEF CacheIInv
<1>6. ASSUME ~reused' PROVE Fresh'
  <2>1. Fresh
    BY <1>1, <1>6 DEF CacheIInv
  <2>2. Ringed' /\ Live' = Live /\ Newest' = Newest
    BY <1>2, <2>1, MemoryStays DEF Fresh
  <2>3. Named' /\ Saved'
    BY <1>1, <2>1, <2>2 DEF Fresh, Named, Saved
  <2>4. \A l : Announced(l) => Announced(l)'
    BY <1>1, <1>2, ListsStay
  <2>5. Lists'
    BY <1>1, <2>1, <2>4 DEF Fresh, Lists, PlayersWait
  <2>6. flushes' >= flushes /\ flushes' \in Nat
    BY <1>1, <1>3
  <2>7. BodyIsTheSegment' /\ FileIsTheSegment' /\ Sent'
    BY <1>1, <1>2, <1>3, <1>6, <2>1, <2>6, WaitingKeeps DEF Fresh
  <2> QED BY <2>2, <2>3, <2>5, <2>7 DEF Fresh
<1> QED BY <1>4, <1>5, <1>6 DEF CacheIInv

\* The ring, the pool, the files and the players keep to the invariant, however
\* the writer's steps and the players' are interleaved (hls/cache.go 124-195).
THEOREM CacheInvariance == CacheSpec => []CacheIInv
<1>1. CacheInit => CacheIInv
  BY InitHolds
<1>2. CacheIInv /\ [CacheNext]_cacheVars => CacheIInv'
  <2> SUFFICES ASSUME CacheIInv, [CacheNext]_cacheVars PROVE CacheIInv'
    OBVIOUS
  <2>1. CASE Tick
    BY <2>1, TickKeeps
  <2>2. CASE MakeName
    BY <2>2, MakeNameKeeps
  <2>3. CASE Store
    BY <2>3, StoreKeeps
  <2>4. CASE OpenM3U8
    BY <2>4, OpenM3U8Keeps
  <2>5. CASE WriteM3U8
    BY <2>5, WriteM3U8Keeps
  <2>6. CASE OpenTs
    BY <2>6, OpenTsKeeps
  <2>7. CASE WriteTs
    BY <2>7, WriteTsKeeps
  <2>8. ASSUME NEW p \in Players, GetPlaylist(p) PROVE CacheIInv'
    BY <2>8, GetPlaylistKeeps
  <2>9. ASSUME NEW p \in Players, GetItem(p) PROVE CacheIInv'
    BY <2>9, GetItemKeeps
  <2>10. ASSUME NEW p \in Players, SendBody(p) PROVE CacheIInv'
    BY <2>10, SendBodyKeeps
  <2>11. ASSUME NEW p \in Players, GetFile(p) PROVE CacheIInv'
    BY <2>11, GetFileKeeps
  <2>12. CASE UNCHANGED cacheVars
    BY <2>12, StutterKeeps
  <2> QED BY <2>1, <2>2, <2>3, <2>4, <2>5, <2>6, <2>7, <2>8, <2>9, <2>10, <2>11, <2>12 DEF CacheNext
<1> QED BY <1>1, <1>2, PTL DEF CacheSpec

\* No buffer is in two places, even when two segments were given one name.
THEOREM BuffersStayApart == CacheSpec => []BuffersApart
<1>1. CacheIInv => BuffersApart
  BY DEF CacheIInv, Apart
<1> QED BY <1>1, CacheInvariance, PTL

\* The playlist lists the newest segments, without a gap.
THEOREM PlaylistGoesOn == CacheSpec => []PlaylistConsecutive
<1>1. CacheIInv => PlaylistConsecutive
  <2>1. CASE reused
    BY <2>1 DEF PlaylistConsecutive
  <2>2. ASSUME CacheIInv, ~reused PROVE PlaylistConsecutive
    BY <2>2, PlaylistFollows DEF CacheIInv, Fresh
  <2> QED BY <2>1, <2>2
<1> QED BY <1>1, CacheInvariance, PTL

\* A body from memory is the announced segment, or the ring has come round.
THEOREM BodiesAreRight == CacheSpec => []BodyIsTheSegment
<1>1. CacheIInv => BodyIsTheSegment
  BY DEF CacheIInv, Fresh, BodyIsTheSegment
<1> QED BY <1>1, CacheInvariance, PTL

\* A file holds the announced segment, or is the newest and not written yet.
THEOREM FilesAreRight == CacheSpec => []FileIsTheSegment
<1>1. CacheIInv => FileIsTheSegment
  BY DEF CacheIInv, Fresh, FileIsTheSegment
<1> QED BY <1>1, CacheInvariance, PTL
=============================================================================
