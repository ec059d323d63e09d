-------------------------- MODULE StreamCache_proofs -------------------------
(* The ring of groups of pictures implements the sliding window, and what a  *)
(* viewer is handed, from the cache and then live, has no gap in it and the  *)
(* headers before what they decode: for every number of groups and every     *)
(* stream.                                                                   *)
EXTENDS StreamCache, SequenceTheorems, WellFoundedInduction, TLAPS

\* A ring that has gone round has no empty slot; before that the slots up to
\* the index are the ones in use.
Full == queue[GopNum - 1] # <<>>
RingShape ==
  /\ index \in -1 .. GopNum - 1
  /\ queue \in [Slots -> Seq(Packets)]
  /\ start \in BOOLEAN /\ (start <=> index # -1) /\ (Full => start)
  /\ \A i \in Slots : queue[i] # <<>> <=> (i <= index \/ Full)
  /\ published \in Seq(Kinds)

\* What send goes through, slot by slot: from behind the index if the ring has
\* gone round, from the first slot otherwise.
Wrapped(i) == IF index + i < GopNum THEN index + i ELSE index + i - GopNum
SlotOrder ==
  /\ GopsOldestFirst \in Seq(Seq(Packets))
  /\ Full => /\ Len(GopsOldestFirst) = GopNum
             /\ \A i \in 1 .. GopNum : GopsOldestFirst[i] = queue[Wrapped(i)]
  /\ ~Full => /\ Len(GopsOldestFirst) = index + 1
              /\ \A i \in 1 .. index + 1 : GopsOldestFirst[i] = queue[i - 1]

\* The ring has at least one slot.
LEMMA GopNumPositive == GopNum \in Nat /\ GopNum >= 1
BY CacheAssumption DEF GopNum

\* The next slot of the ring.
LEMMA NextSlot ==
  ASSUME index \in -1 .. GopNum - 1
  PROVE  (index + 1) % GopNum = IF index = GopNum - 1 THEN 0 ELSE index + 1
BY GopNumPositive

\* What is stored from the oldest slot on is what the ring's indices say.
LEMMA InOrder == RingShape => SlotOrder
<1> SUFFICES ASSUME RingShape PROVE SlotOrder
  OBVIOUS
<1> DEFINE old == [i \in 1 .. GopNum - 1 - index |-> queue[index + i]]
           new == [i \in 1 .. index + 1 |-> queue[i - 1]]
<1> USE GopNumPositive DEF RingShape, Slots
<1>1. old \in Seq(Seq(Packets)) /\ Len(old) = GopNum - 1 - index
  OBVIOUS
<1>2. new \in Seq(Seq(Packets)) /\ Len(new) = index + 1
  OBVIOUS
<1>3. CASE Full
  <2>1. GopsOldestFirst = old \o new
    BY <1>3 DEF Full, GopsOldestFirst
  <2>2. /\ GopsOldestFirst \in Seq(Seq(Packets))
        /\ Len(GopsOldestFirst) = GopNum
        /\ \A i \in 1 .. GopNum :
             GopsOldestFirst[i] =
               IF i <= Len(old) THEN old[i] ELSE new[i - Len(old)]
    <3> HIDE DEF old, new, RingShape, Slots
    <3>1. /\ old \o new \in Seq(Seq(Packets))
          /\ Len(old \o new) = Len(old) + Len(new)
          /\ \A i \in 1 .. Len(old) + Len(new) :
               (old \o new)[i] = IF i <= Len(old) THEN old[i] ELSE new[i - Len(old)]
      BY <1>1, <1>2, ConcatProperties
    <3>2. Len(old) + Len(new) = GopNum
      BY <1>1, <1>2 DEF RingShape
    <3> QED
      BY <2>1, <3>1, <3>2
  <2>3. ASSUME NEW i \in 1 .. GopNum
        PROVE  GopsOldestFirst[i] =
                 queue[IF index + i < GopNum THEN index + i
                       ELSE index + i - GopNum]
    <3>0. GopsOldestFirst[i] = IF i <= GopNum - 1 - index THEN old[i]
                               ELSE new[i - (GopNum - 1 - index)]
      <4> HIDE DEF old, new, RingShape
      <4> QED
        BY <1>1, <2>2
    <3>1. CASE i <= GopNum - 1 - index
      <4>1. old[i] = queue[index + i]
        BY <3>1
      <4> QED
        BY <3>0, <3>1, <4>1
    <3>2. CASE i > GopNum - 1 - index
      <4>1. GopsOldestFirst[i] = new[i - (GopNum - 1 - index)]
        BY <3>0, <3>2
      <4>2. i - (GopNum - 1 - index) \in 1 .. index + 1
        BY <3>2
      <4>3. new[i - (GopNum - 1 - index)] = queue[i - (GopNum - 1 - index) - 1]
        BY <4>2
      <4>4. i - (GopNum - 1 - index) - 1 = index + i - GopNum
        OBVIOUS
      <4> QED
        BY <3>2, <4>1, <4>3, <4>4
    <3> QED
      BY <3>1, <3>2
  <2> QED
    BY <1>3, <2>2, <2>3 DEF SlotOrder, Wrapped
<1>4. CASE ~Full
  <2>1. GopsOldestFirst = new
    BY <1>2, <1>4 DEF Full, GopsOldestFirst
  <2> QED
    BY <1>2, <1>4, <2>1 DEF SlotOrder
<1> QED
  BY <1>3, <1>4

\* Every step keeps the ring's shape.
LEMMA RingStep == RingShape /\ [Next]_vars => RingShape'
<1> SUFFICES ASSUME RingShape, [Next]_vars PROVE RingShape'
  OBVIOUS
<1> USE GopNumPositive DEF RingShape, Slots
<1>1. CASE UNCHANGED vars \/ Join
  <2>1. UNCHANGED <<start, index, queue, published>>
    BY <1>1 DEF vars, ringVars, Join
  <2> QED
    BY <2>1 DEF Full
<1>2. ASSUME NEW kind \in Sent, Publish(kind) PROVE RingShape'
  <2> DEFINE p == [kind |-> kind, n |-> Len(published) + 1]
  <2>1. p \in Packets /\ p.kind = kind /\ published' \in Seq(Kinds) /\ CacheAdd(p)
    BY <1>2, CacheAssumption DEF Publish, Packets
  <2> HIDE DEF p
  <2>2. CASE UNCHANGED ringVars
    BY <2>1, <2>2 DEF ringVars, Full
  <2>3. CASE kind = "key"
    <3>1. /\ start' = TRUE
          /\ index' = IF index = GopNum - 1 THEN 0 ELSE index + 1
          /\ queue' = [queue EXCEPT ![index'] = <<p>>]
      BY <2>1, <2>3, NextSlot DEF CacheAdd, RingAdd
    <3> QED
      BY <2>1, <3>1 DEF Full
  <2>4. CASE kind = "inter" /\ start
    <3>1. /\ UNCHANGED <<start, index>>
          /\ queue' = [queue EXCEPT ![index] = Append(@, p)]
      BY <2>1, <2>4 DEF CacheAdd, RingAdd
    <3>2. index \in Slots /\ queue[index] \in Seq(Packets)
      BY <2>4
    <3>3. Append(queue[index], p) \in Seq(Packets) /\ Append(queue[index], p) # <<>>
      <4> HIDE DEF RingShape, Slots
      <4> QED
        BY <2>1, <3>2, AppendProperties
    <3>4. \A i \in Slots : queue'[i] # <<>> <=> queue[i] # <<>>
      BY <2>4, <3>1, <3>2, <3>3
    <3>5. queue' \in [Slots -> Seq(Packets)]
      BY <3>1, <3>2, <3>3
    <3>6. Full' <=> Full
      BY <3>4 DEF Full
    <3> QED
      BY <2>1, <3>1, <3>4, <3>5, <3>6
  <2> QED
    BY <2>1, <2>2, <2>3, <2>4 DEF CacheAdd, RingAdd, ringVars
<1> QED
  BY <1>1, <1>2 DEF Next

-----------------------------------------------------------------------------
(* Every step of the ring is a step of the window.                           *)

\* A key frame: a new group at the end, and the oldest leaves a full window.
LEMMA KeyFrameStep ==
  ASSUME RingShape, RingShape', NEW p \in Packets, p.kind = "key", RingAdd(p)
  PROVE  GopsOldestFirst' =
           Append(IF Len(GopsOldestFirst) = GopNum THEN Tail(GopsOldestFirst)
                  ELSE GopsOldestFirst, <<p>>)
<1> DEFINE kept == IF Len(GopsOldestFirst) = GopNum THEN Tail(GopsOldestFirst)
                   ELSE GopsOldestFirst
<1>1. SlotOrder /\ SlotOrder'
  BY InOrder, PTL
<1>2. /\ index' = IF index = GopNum - 1 THEN 0 ELSE index + 1
      /\ queue' = [queue EXCEPT ![index'] = <<p>>]
  BY NextSlot DEF RingAdd, RingShape
<1>3. Full' <=> (Full \/ index' = GopNum - 1)
  BY <1>2, GopNumPositive DEF Full, RingShape, Slots
<1>4. /\ ~Full => index < GopNum - 1
      /\ Len(GopsOldestFirst) = GopNum <=> Full
  <2>1. ~Full => index < GopNum - 1
    BY GopNumPositive DEF RingShape, Slots, Full
  <2> QED
    BY <1>1, <2>1, GopNumPositive DEF SlotOrder, RingShape
<1>5. /\ kept \in Seq(Seq(Packets)) /\ Len(kept) = Len(GopsOldestFirst') - 1
      /\ \A i \in 1 .. Len(kept) : kept[i] = GopsOldestFirst'[i]
  <2>1. CASE Full
    <3>1. GopsOldestFirst # <<>> /\ GopsOldestFirst \in Seq(Seq(Packets))
      BY <1>1, <2>1, GopNumPositive DEF SlotOrder
    <3>2. /\ kept \in Seq(Seq(Packets)) /\ Len(kept) = GopNum - 1
          /\ \A i \in 1 .. GopNum - 1 : kept[i] = GopsOldestFirst[i + 1]
      BY <1>1, <1>4, <2>1, <3>1, HeadTailProperties DEF SlotOrder
    <3>3. Len(GopsOldestFirst') = GopNum
      BY <1>1, <1>3, <2>1 DEF SlotOrder
    <3>4. ASSUME NEW i \in 1 .. GopNum - 1
          PROVE  kept[i] = GopsOldestFirst'[i]
      <4> HIDE DEF kept
      <4>1. /\ Wrapped(i + 1) \in Slots /\ Wrapped(i + 1) # index'
            /\ Wrapped(i)' = Wrapped(i + 1)
        BY <1>2, GopNumPositive DEF RingShape, Slots, Wrapped
      <4>2. kept[i] = queue[Wrapped(i + 1)]
        <5>1. i + 1 \in 1 .. GopNum
          BY GopNumPositive
        <5> QED
          BY <1>1, <2>1, <3>2, <5>1 DEF SlotOrder
      <4>3. GopsOldestFirst'[i] = queue'[Wrapped(i)']
        <5>1. i \in 1 .. GopNum
          BY GopNumPositive
        <5> QED
          BY <1>1, <1>3, <2>1, <5>1 DEF SlotOrder
      <4> QED
        BY <1>2, <4>1, <4>2, <4>3 DEF RingShape
    <3> QED
      BY <3>2, <3>3, <3>4
  <2>2. CASE ~Full
    <3>1. kept = GopsOldestFirst /\ index' = index + 1
      BY <1>2, <1>4, <2>2 DEF RingShape
    <3> HIDE DEF kept
    <3>2. Len(kept) = index + 1 /\ kept \in Seq(Seq(Packets))
      BY <1>1, <2>2, <3>1 DEF SlotOrder
    <3>3. Len(GopsOldestFirst') = index + 2
      BY <1>1, <1>3, <2>2, <3>1, GopNumPositive DEF SlotOrder, RingShape
    <3>4. ASSUME NEW i \in 1 .. index + 1
          PROVE  kept[i] = GopsOldestFirst'[i]
      <4>1. i - 1 \in Slots /\ i - 1 # index'
        BY <3>1, GopNumPositive DEF RingShape, Slots
      <4>2. kept[i] = queue[i - 1]
        BY <1>1, <2>2, <3>1 DEF SlotOrder
      <4>3. GopsOldestFirst'[i] = queue'[i - 1]
        <5>1. CASE Full'
          <6>1. i \in 1 .. GopNum /\ Wrapped(i)' = i - 1
            BY <1>3, <2>2, <3>1, <5>1, GopNumPositive DEF Wrapped, RingShape
          <6> QED
            BY <1>1, <5>1, <6>1 DEF SlotOrder
        <5>2. CASE ~Full'
          <6>1. i \in 1 .. index' + 1
            BY <3>1 DEF RingShape
          <6> QED
            BY <1>1, <5>2, <6>1 DEF SlotOrder
        <5> QED
          BY <5>1, <5>2
      <4> QED
        BY <1>2, <4>1, <4>2, <4>3 DEF RingShape
    <3>5. index \in Int /\ index + 1 = index + 2 - 1
      BY DEF RingShape
    <3> QED
      BY <3>2, <3>3, <3>4, <3>5
  <2> QED
    BY <2>1, <2>2
<1>6. GopsOldestFirst'[Len(kept) + 1] = <<p>>
  <2> DEFINE last == Len(GopsOldestFirst')
  <2>1. last = Len(kept) + 1
    <3> HIDE DEF kept
    <3> QED
      BY <1>1, <1>5 DEF SlotOrder
  <2>2. GopsOldestFirst'[last] = queue'[index']
    <3>1. CASE Full'
      <4>1. GopNum \in 1 .. GopNum /\ Wrapped(GopNum)' = index'
        BY <1>2, GopNumPositive DEF Wrapped, RingShape
      <4> QED
        BY <1>1, <3>1, <4>1 DEF SlotOrder
    <3>2. CASE ~Full'
      <4>1. index' + 1 \in 1 .. index' + 1 /\ (index' + 1) - 1 = index'
        BY <1>2, GopNumPositive DEF RingShape
      <4> QED
        BY <1>1, <3>2, <4>1 DEF SlotOrder
    <3> QED
      BY <3>1, <3>2
  <2>3. queue'[index'] = <<p>>
    BY <1>2, GopNumPositive DEF RingShape, Slots
  <2> QED
    BY <2>1, <2>2, <2>3
<1>7. <<p>> \in Seq(Packets)
  OBVIOUS
<1> HIDE DEF kept
<1>8. /\ Append(kept, <<p>>) \in Seq(Seq(Packets))
      /\ Len(Append(kept, <<p>>)) = Len(GopsOldestFirst')
      /\ \A i \in 1 .. Len(GopsOldestFirst') :
           Append(kept, <<p>>)[i] = GopsOldestFirst'[i]
  <2>1. kept \in Seq(Seq(Packets))
    BY <1>5
  <2>2. /\ Append(kept, <<p>>) \in Seq(Seq(Packets))
        /\ Len(Append(kept, <<p>>)) = Len(kept) + 1
        /\ \A i \in 1 .. Len(kept) : Append(kept, <<p>>)[i] = kept[i]
        /\ Append(kept, <<p>>)[Len(kept) + 1] = <<p>>
    BY <1>7, <2>1, AppendProperties
  <2>3. Len(kept) \in Nat /\ Len(GopsOldestFirst') = Len(kept) + 1
    BY <1>1, <1>5 DEF SlotOrder
  <2> QED
    BY <1>5, <1>6, <2>2, <2>3
<1>9. GopsOldestFirst' = Append(kept, <<p>>)
  BY <1>1, <1>8, SeqEqual DEF SlotOrder
<1> QED
  BY <1>9 DEF kept

\* Any other frame: the newest group grows, unless there is none yet.
LEMMA InterFrameStep ==
  ASSUME RingShape, RingShape', NEW p \in Packets, p.kind # "key", RingAdd(p)
  PROVE  GopsOldestFirst' =
           IF GopsOldestFirst = <<>> THEN GopsOldestFirst
           ELSE [GopsOldestFirst EXCEPT ![Len(GopsOldestFirst)] = Append(@, p)]
<1>1. SlotOrder /\ SlotOrder'
  BY InOrder, PTL
<1>2. CASE ~start
  <2>1. GopsOldestFirst = <<>>
    BY <1>1, <1>2, GopNumPositive DEF SlotOrder, RingShape
  <2>2. UNCHANGED <<index, queue>>
    BY <1>2 DEF RingAdd
  <2> QED
    BY <2>1, <2>2 DEF GopsOldestFirst
<1>3. CASE start
  <2> DEFINE grown == [GopsOldestFirst EXCEPT ![Len(GopsOldestFirst)] = Append(@, p)]
  <2>1. index' = index /\ queue' = [queue EXCEPT ![index] = Append(@, p)]
    BY <1>3 DEF RingAdd
  <2>2. index \in Slots /\ queue[index] # <<>>
    BY <1>3 DEF RingShape, Slots
  <2>3. Full' <=> Full
    <3>1. queue[index] \in Seq(Packets) /\ queue'[index] = Append(queue[index], p)
      BY <2>1, <2>2 DEF RingShape
    <3>2. queue'[index] # <<>>
      BY <3>1, AppendProperties
    <3>3. GopNum - 1 \in Slots
      BY GopNumPositive DEF Slots
    <3> QED
      BY <2>1, <2>2, <3>2, <3>3 DEF Full, RingShape
  <2>4. GopsOldestFirst # <<>> /\ Len(GopsOldestFirst') = Len(GopsOldestFirst)
    BY <1>1, <2>1, <2>2, <2>3 DEF SlotOrder, RingShape, Slots
  <2>5. \A i \in 1 .. Len(GopsOldestFirst) :
          GopsOldestFirst'[i] =
            IF i = Len(GopsOldestFirst) THEN Append(GopsOldestFirst[i], p)
            ELSE GopsOldestFirst[i]
    <3> TAKE i \in 1 .. Len(GopsOldestFirst)
    <3> DEFINE s == IF Full THEN Wrapped(i) ELSE i - 1
    <3>1. GopsOldestFirst[i] = queue[s] /\ GopsOldestFirst'[i] = queue'[s]
      <4>1. Wrapped(i)' = Wrapped(i)
        BY <2>1 DEF Wrapped
      <4> QED
        BY <1>1, <2>1, <2>3, <2>4, <4>1 DEF SlotOrder
    <3>2. s \in Slots /\ (s = index <=> i = Len(GopsOldestFirst))
      <4>1. CASE Full
        <5>1. Len(GopsOldestFirst) = GopNum
          BY <1>1, <4>1 DEF SlotOrder
        <5> QED
          BY <2>2, <4>1, <5>1, GopNumPositive DEF Slots, Wrapped
      <4>2. CASE ~Full
        <5>1. Len(GopsOldestFirst) = index + 1
          BY <1>1, <4>2 DEF SlotOrder
        <5> QED
          BY <2>2, <4>2, <5>1, GopNumPositive DEF Slots
      <4> QED
        BY <4>1, <4>2
    <3> QED
      BY <2>1, <3>1, <3>2 DEF RingShape
  <2>6. Len(GopsOldestFirst) \in 1 .. Len(GopsOldestFirst)
    BY <1>1, <2>4 DEF SlotOrder
  <2>7. Append(GopsOldestFirst[Len(GopsOldestFirst)], p) \in Seq(Packets)
    BY <1>1, <2>6, AppendProperties DEF SlotOrder
  <2>8. grown \in Seq(Seq(Packets)) /\ Len(grown) = Len(GopsOldestFirst)
    BY <1>1, <2>6, <2>7, ExceptSeq DEF SlotOrder
  <2>9. \A i \in 1 .. Len(GopsOldestFirst) : grown[i] = GopsOldestFirst'[i]
    BY <1>1, <2>5, <2>6 DEF SlotOrder
  <2> HIDE DEF grown
  <2>10. GopsOldestFirst' = grown
    BY <1>1, <2>4, <2>8, <2>9, SeqEqual DEF SlotOrder
  <2> QED
    BY <2>4, <2>10 DEF grown
<1> QED
  BY <1>2, <1>3 DEF RingShape

\* The empty ring is the empty window.
LEMMA InitRing == Init => RingShape /\ Window!Init
<1> SUFFICES ASSUME Init PROVE RingShape /\ Window!Init
  OBVIOUS
<1> USE GopNumPositive DEF Init
<1>1. RingShape
  <2>1. ~Full /\ \A i \in Slots : queue[i] = <<>> /\ ~(i <= index)
    BY DEF Full, Slots
  <2>2. queue \in [Slots -> Seq(Packets)] /\ index \in -1 .. GopNum - 1
    OBVIOUS
  <2>3. start = FALSE /\ index = -1 /\ published \in Seq(Kinds)
    OBVIOUS
  <2> QED
    BY <2>1, <2>2, <2>3 DEF RingShape
<1>2. SlotOrder
  BY <1>1, InOrder
<1>3. GopsOldestFirst = <<>>
  BY <1>2 DEF SlotOrder, Full, Slots
<1> QED
  BY <1>1, <1>3 DEF Window!Init

\* Every step of the ring is a step of the window, or none.
LEMMA WindowStep ==
  RingShape /\ RingShape' /\ [Next]_vars => [Window!Next]_(Window!vars)
<1> SUFFICES ASSUME RingShape, RingShape', [Next]_vars
             PROVE  [Window!Next]_(Window!vars)
  OBVIOUS
<1>1. CASE UNCHANGED vars \/ Join
  BY <1>1 DEF vars, headerVars, ringVars, Join, Window!vars, GopsOldestFirst
<1>2. ASSUME NEW kind \in Sent, Publish(kind)
      PROVE  Window!Next
  <2> DEFINE p == Window!Newest(kind)
  <2>1. /\ p \in Packets /\ p.kind = kind /\ published' = Append(published, kind)
        /\ CacheAdd(p)
    BY <1>2, CacheAssumption DEF Publish, Packets, Window!Newest, RingShape
  <2>2. UNCHANGED ringVars => UNCHANGED GopsOldestFirst
    BY DEF ringVars, GopsOldestFirst
  <2>3. CASE kind \in {"metadata", "videoSeq", "audioSeq"}
    BY <2>1, <2>2, <2>3 DEF CacheAdd, Window!Next, Window!Header
  <2>4. CASE kind = "audio"
    BY <2>1, <2>2, <2>4 DEF CacheAdd, Window!Next, Window!Audio
  <2>5. CASE kind = "key"
    BY <2>1, <2>5, KeyFrameStep DEF CacheAdd, Window!Next, Window!KeyFrame
  <2>6. CASE kind = "inter"
    BY <2>1, <2>6, InterFrameStep DEF CacheAdd, Window!Next, Window!InterFrame
  <2> QED
    BY <2>3, <2>4, <2>5, <2>6, CacheAssumption DEF Kinds
<1> QED
  BY <1>1, <1>2 DEF Next

\* The ring of groups of pictures is a sliding window: for any number of groups
\* asked for and any stream, what gopRingQueue.send goes through is the groups
\* of the newest key frames, oldest first, and the headers are the newest.
THEOREM RingIsWindow == Spec => SlidingWindow
<1>1. RingShape /\ [Next]_vars => RingShape' /\ [Window!Next]_(Window!vars)
  BY RingStep, WindowStep
<1> QED
  BY <1>1, InitRing, PTL DEF Spec, SlidingWindow, Window!Spec

-----------------------------------------------------------------------------
(* Induction, and sequences put one after the other.                         *)

\* A set of naturals has a least element.
LEMMA Least ==
  ASSUME NEW T, T \subseteq Nat, T # {}
  PROVE  \E m \in T : \A n \in T : m <= n
<1> DEFINE R == OpToRel(<, Nat)
<1>1. IsWellFoundedOn(R, Nat)
  BY NatLessThanWellFounded
<1>2. \A m, n \in T : n < m => <<n, m>> \in R
  BY DEF OpToRel
<1> HIDE DEF R
<1>3. PICK m \in T : \A n \in T : ~(<<n, m>> \in R)
  BY <1>1, WFMin
<1>4. \A n \in T : ~(n < m)
  BY <1>2, <1>3
<1> QED BY <1>4

\* Induction over the naturals, for a set.
LEMMA SetInduction ==
  ASSUME NEW S, 0 \in S, \A n \in Nat : n \in S => n + 1 \in S
  PROVE  Nat \subseteq S
<1> SUFFICES ASSUME ~(Nat \subseteq S) PROVE FALSE
  OBVIOUS
<1> DEFINE T == Nat \ S
<1>1. PICK m \in T : \A n \in T : m <= n
  <2>1. T \subseteq Nat /\ T # {}
    OBVIOUS
  <2> HIDE DEF T
  <2> QED BY <2>1, Least
<1>2. m # 0
  OBVIOUS
<1>3. m - 1 \in Nat /\ m - 1 \notin T
  BY <1>1, <1>2
<1>4. m - 1 + 1 = m
  BY <1>1
<1> QED BY <1>3, <1>4

\* A bounded set of naturals has a greatest element, and Max is it.
LEMMA MaxIs ==
  ASSUME NEW T, T \subseteq Nat, T # {}, NEW b \in Nat, \A n \in T : n <= b
  PROVE  Max(T) \in T /\ \A n \in T : n <= Max(T)
<1> DEFINE B == {c \in Nat : \A n \in T : n <= c}
<1>1. PICK m \in B : \A c \in B : m <= c
  <2>1. B \subseteq Nat /\ B # {}
    OBVIOUS
  <2> HIDE DEF B
  <2> QED BY <2>1, Least
<1>2. m \in T
  <2> SUFFICES ASSUME m \notin T PROVE FALSE
    OBVIOUS
  <2>1. \A n \in T : n <= m - 1
    BY <1>1
  <2>2. PICK n \in T : n <= m - 1
    BY <2>1
  <2>3. m - 1 \in Nat
    BY <1>1, <2>2
  <2>4. m - 1 \in B
    BY <2>1, <2>3
  <2> QED BY <1>1, <2>4
<1>3. \E x \in T : \A y \in T : x >= y
  BY <1>1, <1>2
<1> QED BY <1>3 DEF Max

\* The function by which FlattenSeq is defined, up to n.
Unfolds(f, W, n) == f = [i \in 1 .. n |-> IF i = 1 THEN W[i] ELSE f[i - 1] \o W[i]]

\* What it is at each i.
LEMMA UnfoldsAt ==
  ASSUME NEW f, NEW W, NEW n, Unfolds(f, W, n), NEW i \in 1 .. n
  PROVE  f[i] = IF i = 1 THEN W[i] ELSE f[i - 1] \o W[i]
<1> DEFINE Item(j) == IF j = 1 THEN W[j] ELSE f[j - 1] \o W[j]
<1>1. f = [j \in 1 .. n |-> Item(j)]
  BY DEF Unfolds
<1> HIDE DEF Item
<1>2. f[i] = Item(i)
  BY <1>1
<1> QED BY <1>2 DEF Item

\* It exists.
LEMMA FlattenExists ==
  ASSUME NEW W, NEW n \in Nat
  PROVE  \E f : Unfolds(f, W, n)
<1> DEFINE S == {k \in Nat : \E f : Unfolds(f, W, k)}
<1>1. 0 \in S
  <2>1. Unfolds([i \in 1 .. 0 |-> 0], W, 0)
    BY DEF Unfolds
  <2> QED BY <2>1
<1>2. ASSUME NEW k \in Nat, k \in S PROVE k + 1 \in S
  <2>1. PICK f : Unfolds(f, W, k)
    BY <1>2
  <2> DEFINE g == [i \in 1 .. k + 1 |-> IF i = 1 THEN W[i]
                     ELSE IF i = k + 1 THEN f[i - 1] \o W[i] ELSE f[i]]
  <2>2. ASSUME NEW i \in 1 .. k + 1
        PROVE  g[i] = IF i = 1 THEN W[i] ELSE g[i - 1] \o W[i]
    <3>1. CASE i = 1
      BY <3>1
    <3>2. CASE i # 1
      <4>1. i - 1 \in 1 .. k + 1 /\ i - 1 # k + 1 /\ i - 1 \in 1 .. k
        BY <3>2
      <4>2. g[i - 1] = f[i - 1]
        BY <2>1, <4>1 DEF Unfolds
      <4>3. g[i] = f[i - 1] \o W[i]
        <5>1. CASE i = k + 1
          BY <3>2, <5>1
        <5>2. CASE i # k + 1
          <6>1. i \in 1 .. k
            BY <5>2
          <6> QED BY <2>1, <3>2, <5>2, <6>1 DEF Unfolds
        <5> QED BY <5>1, <5>2
      <4> QED BY <3>2, <4>2, <4>3
    <3> QED BY <3>1, <3>2
  <2>3. Unfolds(g, W, k + 1)
    <3>1. g = [i \in 1 .. k + 1 |-> g[i]]
      OBVIOUS
    <3> HIDE DEF g
    <3> QED BY <2>2, <3>1 DEF Unfolds
  <2> HIDE DEF g
  <2> QED BY <2>3
<1>3. Nat \subseteq S
  <2> HIDE DEF S
  <2> QED BY <1>1, <1>2, SetInduction
<1> QED BY <1>3

\* FlattenSeq puts one after the other.
LEMMA FlattenUnfolds ==
  ASSUME NEW W, Len(W) \in Nat, Len(W) # 0
  PROVE  \E f : Unfolds(f, W, Len(W)) /\ FlattenSeq(W) = f[Len(W)]
<1> DEFINE g == CHOOSE f : Unfolds(f, W, Len(W))
<1>1. Unfolds(g, W, Len(W))
  BY FlattenExists
<1>2. FlattenSeq(W) = g[Len(W)]
  BY DEF FlattenSeq, Unfolds
<1> HIDE DEF g
<1> QED BY <1>1, <1>2

\* A window: groups that are not empty, with numbers that rise.
Rising(s) == \A i, j \in 1 .. Len(s) : i < j => s[i].n < s[j].n
Ordered(W) ==
  /\ W \in Seq(Seq(Packets)) /\ \A g \in 1 .. Len(W) : W[g] # <<>> /\ Rising(W[g])
  /\ \A g, h \in 1 .. Len(W) : g < h =>
       \A i \in 1 .. Len(W[g]), j \in 1 .. Len(W[h]) : W[g][i].n < W[h][j].n

\* The first k groups in one sequence.
Flat(s, W, k) ==
  /\ s \in Seq(Packets) /\ s # <<>> /\ s[1] = W[1][1] /\ Rising(s)
  /\ \A i \in 1 .. Len(s) : \E g \in 1 .. k : \E j \in 1 .. Len(W[g]) : s[i] = W[g][j]
  /\ \A g \in 1 .. k : \A j \in 1 .. Len(W[g]) : \E i \in 1 .. Len(s) : s[i] = W[g][j]

\* One more group.
LEMMA FlatStep ==
  ASSUME NEW W, Ordered(W), NEW k \in Nat, k + 1 \in 1 .. Len(W), k # 0,
         NEW s, Flat(s, W, k)
  PROVE  Flat(s \o W[k + 1], W, k + 1)
<1> DEFINE t == s \o W[k + 1]
<1>1. /\ s \in Seq(Packets) /\ W[k + 1] \in Seq(Packets)
      /\ Len(s) \in Nat /\ Len(s) # 0 /\ Len(W[k + 1]) \in Nat
  BY EmptySeq DEF Flat, Ordered
<1>2. /\ t \in Seq(Packets) /\ Len(t) = Len(s) + Len(W[k + 1])
      /\ \A i \in 1 .. Len(s) + Len(W[k + 1]) :
           t[i] = IF i <= Len(s) THEN s[i] ELSE W[k + 1][i - Len(s)]
  BY <1>1, ConcatProperties
<1> HIDE DEF t
<1>3. t # <<>> /\ t[1] = W[1][1]
  BY <1>1, <1>2 DEF Flat
<1>4. \A i \in 1 .. Len(s) : t[i] = s[i]
  BY <1>1, <1>2
<1>5. \A j \in 1 .. Len(W[k + 1]) : Len(s) + j \in 1 .. Len(t) /\ t[Len(s) + j] = W[k + 1][j]
  <2> TAKE j \in 1 .. Len(W[k + 1])
  <2>1. Len(s) + j \in 1 .. Len(s) + Len(W[k + 1]) /\ ~(Len(s) + j <= Len(s)) /\ Len(s) + j - Len(s) = j
    BY <1>1
  <2> QED BY <1>2, <2>1
<1>6. ASSUME NEW i \in 1 .. Len(t)
      PROVE  \/ i \in 1 .. Len(s) /\ t[i] = s[i]
             \/ i - Len(s) \in 1 .. Len(W[k + 1]) /\ t[i] = W[k + 1][i - Len(s)]
  BY <1>1, <1>2
<1>7. Rising(t)
  <2> SUFFICES ASSUME NEW i \in 1 .. Len(t), NEW j \in 1 .. Len(t), i < j
               PROVE  t[i].n < t[j].n
    BY DEF Rising
  <2>1. CASE j \in 1 .. Len(s)
    <3>1. i \in 1 .. Len(s)
      BY <1>1, <2>1
    <3> QED BY <1>4, <2>1, <3>1 DEF Flat, Rising
  <2>2. CASE i \in 1 .. Len(s) /\ j \notin 1 .. Len(s)
    <3>1. j - Len(s) \in 1 .. Len(W[k + 1]) /\ t[j] = W[k + 1][j - Len(s)]
      BY <1>6, <2>2
    <3>2. PICK g \in 1 .. k : \E m \in 1 .. Len(W[g]) : s[i] = W[g][m]
      BY <2>2 DEF Flat
    <3>3. g \in 1 .. Len(W) /\ g < k + 1
      BY <1>1 DEF Ordered
    <3> QED BY <1>4, <2>2, <3>1, <3>2, <3>3 DEF Ordered
  <2>3. CASE i \notin 1 .. Len(s)
    <3>1. /\ i - Len(s) \in 1 .. Len(W[k + 1]) /\ t[i] = W[k + 1][i - Len(s)]
          /\ j - Len(s) \in 1 .. Len(W[k + 1]) /\ t[j] = W[k + 1][j - Len(s)]
      BY <1>1, <1>2, <1>6, <2>3
    <3>2. i - Len(s) < j - Len(s)
      BY <1>1
    <3> QED BY <3>1, <3>2 DEF Ordered, Rising
  <2> QED BY <2>1, <2>2, <2>3
<1>8. ASSUME NEW i \in 1 .. Len(t)
      PROVE  \E g \in 1 .. k + 1 : \E j \in 1 .. Len(W[g]) : t[i] = W[g][j]
  <2>1. CASE i \in 1 .. Len(s)
    <3>1. PICK g \in 1 .. k : \E j \in 1 .. Len(W[g]) : s[i] = W[g][j]
      BY <2>1 DEF Flat
    <3>2. g \in 1 .. k + 1 /\ t[i] = s[i]
      BY <1>4, <2>1
    <3> QED BY <3>1, <3>2
  <2>2. CASE i \notin 1 .. Len(s)
    <3>1. k + 1 \in 1 .. k + 1
      OBVIOUS
    <3> QED BY <1>6, <2>2, <3>1
  <2> QED BY <2>1, <2>2
<1>9. ASSUME NEW g \in 1 .. k + 1, NEW j \in 1 .. Len(W[g])
      PROVE  \E i \in 1 .. Len(t) : t[i] = W[g][j]
  <2>1. CASE g = k + 1
    BY <1>5, <2>1
  <2>2. CASE g # k + 1
    <3>1. g \in 1 .. k
      BY <2>2
    <3>2. PICK i \in 1 .. Len(s) : s[i] = W[g][j]
      BY <3>1 DEF Flat
    <3>3. i \in 1 .. Len(t)
      BY <1>1, <1>2
    <3> QED BY <1>4, <3>2, <3>3
  <2> QED BY <2>1, <2>2
<1> QED
  <2>1. Flat(t, W, k + 1)
    BY <1>2, <1>3, <1>7, <1>8, <1>9 DEF Flat
  <2> QED BY <2>1 DEF t

\* All of them: what FlattenSeq makes of a window.
LEMMA Flattened ==
  ASSUME NEW W, Ordered(W), W # <<>>
  PROVE  Flat(FlattenSeq(W), W, Len(W))
<1>1. Len(W) \in Nat /\ Len(W) # 0
  BY EmptySeq DEF Ordered
<1>2. PICK f : Unfolds(f, W, Len(W)) /\ FlattenSeq(W) = f[Len(W)]
  BY <1>1, FlattenUnfolds
<1> DEFINE S == {k \in Nat : k \in 1 .. Len(W) => Flat(f[k], W, k)}
<1>3. 0 \in S
  BY <1>1
<1>4. ASSUME NEW k \in Nat, k \in S PROVE k + 1 \in S
  <2> SUFFICES ASSUME k + 1 \in 1 .. Len(W) PROVE Flat(f[k + 1], W, k + 1)
    OBVIOUS
  <2>1. CASE k = 0
    <3>1. f[1] = W[1] /\ 1 \in 1 .. Len(W)
      BY <1>1, <1>2, <2>1 DEF Unfolds
    <3>2. W[1] \in Seq(Packets) /\ W[1] # <<>> /\ Rising(W[1])
      BY <3>1 DEF Ordered
    <3>3. Flat(W[1], W, 1)
      <4>1. \A g \in 1 .. 1 : g = 1
        OBVIOUS
      <4>2. 1 \in 1 .. 1
        OBVIOUS
      <4> QED BY <3>2, <4>1, <4>2 DEF Flat
    <3> QED BY <2>1, <3>1, <3>3
  <2>2. CASE k # 0
    <3>1. k \in 1 .. Len(W) /\ k + 1 # 1 /\ k + 1 - 1 = k
      BY <1>1, <2>2
    <3>2. f[k + 1] = f[k] \o W[k + 1]
      <4>1. f[k + 1] = IF k + 1 = 1 THEN W[k + 1] ELSE f[k + 1 - 1] \o W[k + 1]
        BY <1>2, UnfoldsAt
      <4> QED BY <3>1, <4>1
    <3>3. Flat(f[k], W, k)
      BY <1>4, <3>1
    <3> QED BY <2>2, <3>2, <3>3, FlatStep
  <2> QED BY <2>1, <2>2
<1>5. Len(W) \in S
  <2> HIDE DEF S
  <2> QED BY <1>1, <1>3, <1>4, SetInduction
<1> QED BY <1>1, <1>2, <1>5

-----------------------------------------------------------------------------
(* The window holds every frame from its first key frame on.                 *)

FramesIn(pub) == {n \in 1 .. Len(pub) : pub[n] \in {"key", "inter"}}

Holds(W, pub) ==
  /\ Ordered(W)
  /\ \A g \in 1 .. Len(W) :
       /\ W[g][1].kind = "key"
       /\ \A j \in 1 .. Len(W[g]) :
            /\ IsFrame(W[g][j]) /\ W[g][j].n \in 1 .. Len(pub)
            /\ pub[W[g][j].n] = W[g][j].kind
  /\ W = <<>> => \A n \in 1 .. Len(pub) : pub[n] # "key"
  /\ W # <<>> => \A n \in FramesIn(pub) : W[1][1].n <= n =>
       \E g \in 1 .. Len(W) : \E j \in 1 .. Len(W[g]) : W[g][j].n = n

\* One more packet published.
LEMMA OneMore ==
  ASSUME NEW pub \in Seq(Kinds), NEW kind \in Kinds, NEW new, new = Append(pub, kind)
  PROVE  /\ new \in Seq(Kinds) /\ Len(new) = Len(pub) + 1 /\ Len(pub) \in Nat
         /\ new[Len(pub) + 1] = kind
         /\ \A n \in 1 .. Len(pub) : n \in 1 .. Len(new) /\ new[n] = pub[n]
         /\ \A n \in 1 .. Len(new) : n # Len(pub) + 1 => n \in 1 .. Len(pub)
BY AppendProperties

\* A packet that is no frame leaves the window as it is.
LEMMA HoldsOther ==
  ASSUME NEW W, NEW pub \in Seq(Kinds), NEW kind \in Kinds \ {"key", "inter"}, Holds(W, pub)
  PROVE  Holds(W, Append(pub, kind))
<1> DEFINE new == Append(pub, kind)
<1>1. /\ Len(new) = Len(pub) + 1 /\ Len(pub) \in Nat /\ new[Len(pub) + 1] = kind
      /\ \A n \in 1 .. Len(pub) : n \in 1 .. Len(new) /\ new[n] = pub[n]
      /\ \A n \in 1 .. Len(new) : n # Len(pub) + 1 => n \in 1 .. Len(pub)
  BY OneMore
<1> HIDE DEF new
<1>2. FramesIn(new) = FramesIn(pub)
  BY <1>1 DEF FramesIn
<1>3. \A n \in 1 .. Len(new) : new[n] = "key" => n \in 1 .. Len(pub) /\ pub[n] = "key"
  BY <1>1
<1>4. Holds(W, new)
  BY <1>1, <1>2, <1>3 DEF Holds
<1> QED BY <1>4 DEF new

\* A key frame starts a group, and the oldest leaves a full window.
LEMMA HoldsKey ==
  ASSUME NEW W, NEW pub \in Seq(Kinds), Holds(W, pub), NEW p \in Packets,
         p.kind = "key", p.n = Len(pub) + 1
  PROVE  Holds(Append(IF Len(W) = GopNum THEN Tail(W) ELSE W, <<p>>), Append(pub, "key"))
<1> DEFINE new == Append(pub, "key")
           kept == IF Len(W) = GopNum THEN Tail(W) ELSE W
           V == Append(kept, <<p>>)
<1>1. /\ Len(new) = Len(pub) + 1 /\ Len(pub) \in Nat /\ new[Len(pub) + 1] = "key"
      /\ \A n \in 1 .. Len(pub) : n \in 1 .. Len(new) /\ new[n] = pub[n]
      /\ \A n \in 1 .. Len(new) : n # Len(pub) + 1 => n \in 1 .. Len(pub)
  BY OneMore DEF Kinds
<1>2. W \in Seq(Seq(Packets)) /\ Len(W) \in Nat
  BY DEF Holds, Ordered
<1>3. \E d \in 0 .. 1 : /\ kept \in Seq(Seq(Packets)) /\ Len(kept) = Len(W) - d
                        /\ \A g \in 1 .. Len(kept) : g + d \in 1 .. Len(W) /\ kept[g] = W[g + d]
  <2>1. CASE Len(W) = GopNum
    <3>1. W # <<>>
      BY <1>2, <2>1, GopNumPositive
    <3>2. /\ Tail(W) \in Seq(Seq(Packets)) /\ Len(Tail(W)) = Len(W) - 1
          /\ \A g \in 1 .. Len(Tail(W)) : Tail(W)[g] = W[g + 1]
      BY <1>2, <3>1, HeadTailProperties
    <3>3. \A g \in 1 .. Len(kept) : g + 1 \in 1 .. Len(W)
      BY <1>2, <2>1, <3>2
    <3> QED BY <2>1, <3>2, <3>3
  <2>2. CASE Len(W) # GopNum
    BY <1>2, <2>2
  <2> QED BY <2>1, <2>2
<1> HIDE DEF kept
<1>4. PICK d \in 0 .. 1 :
        /\ kept \in Seq(Seq(Packets)) /\ Len(kept) = Len(W) - d
        /\ \A g \in 1 .. Len(kept) : g + d \in 1 .. Len(W) /\ kept[g] = W[g + d]
  BY <1>3
<1>5. <<p>> \in Seq(Packets) /\ Len(<<p>>) = 1 /\ <<p>>[1] = p /\ <<p>> # <<>>
  OBVIOUS
<1>6. /\ V \in Seq(Seq(Packets)) /\ Len(V) = Len(kept) + 1 /\ V[Len(kept) + 1] = <<p>>
      /\ \A g \in 1 .. Len(kept) : V[g] = kept[g]
  BY <1>4, <1>5, AppendProperties
<1>7. Len(kept) \in Nat
  BY <1>4
<1> HIDE DEF V
<1>8. ASSUME NEW g \in 1 .. Len(V)
      PROVE  \/ /\ g \in 1 .. Len(kept) /\ g + d \in 1 .. Len(W) /\ V[g] = W[g + d]
             \/ g = Len(kept) + 1 /\ V[g] = <<p>>
  <2>1. CASE g = Len(kept) + 1
    BY <1>6, <2>1
  <2>2. CASE g # Len(kept) + 1
    <3>1. g \in 1 .. Len(kept)
      BY <1>6, <1>7, <2>2
    <3> QED BY <1>4, <1>6, <3>1
  <2> QED BY <2>1, <2>2
<1>9. ASSUME NEW g \in 1 .. Len(V)
      PROVE  /\ V[g] # <<>> /\ Rising(V[g]) /\ V[g][1].kind = "key"
             /\ \A j \in 1 .. Len(V[g]) : /\ IsFrame(V[g][j]) /\ V[g][j].n \in 1 .. Len(new)
                                          /\ new[V[g][j].n] = V[g][j].kind
  <2>1. CASE g \in 1 .. Len(kept)
    <3>1. g + d \in 1 .. Len(W) /\ V[g] = W[g + d]
      BY <1>7, <1>8, <2>1
    <3> QED BY <1>1, <3>1 DEF Holds, Ordered
  <2>2. CASE V[g] = <<p>>
    <3>1. \A j \in 1 .. Len(V[g]) : j = 1
      BY <1>5, <2>2
    <3> QED BY <1>1, <1>5, <2>2, <3>1 DEF Rising, IsFrame
  <2> QED BY <1>8, <2>1, <2>2
<1>10. ASSUME NEW g \in 1 .. Len(V), NEW h \in 1 .. Len(V), g < h,
              NEW i \in 1 .. Len(V[g]), NEW j \in 1 .. Len(V[h])
       PROVE  V[g][i].n < V[h][j].n
  <2>1. g \in 1 .. Len(kept) /\ g + d \in 1 .. Len(W) /\ V[g] = W[g + d]
    <3>1. g \in 1 .. Len(kept) /\ g # Len(kept) + 1
      BY <1>6, <1>7, <1>10
    <3> QED BY <1>8, <3>1
  <2>2. CASE h \in 1 .. Len(kept)
    <3>1. h + d \in 1 .. Len(W) /\ V[h] = W[h + d] /\ g + d < h + d
      <4>1. h # Len(kept) + 1 /\ g + d < h + d
        BY <1>7, <1>10, <2>2
      <4> QED BY <1>8, <4>1
    <3> QED BY <2>1, <3>1 DEF Holds, Ordered
  <2>3. CASE V[h] = <<p>>
    <3>1. W[g + d][i].n \in 1 .. Len(pub)
      BY <2>1 DEF Holds
    <3>2. j = 1
      BY <1>5, <2>3
    <3> QED BY <1>1, <1>5, <2>1, <2>3, <3>1, <3>2
  <2> QED BY <1>8, <2>2, <2>3
<1>11. V # <<>>
  BY <1>6, <1>7
<1>12. ASSUME NEW n \in FramesIn(new), V[1][1].n <= n
       PROVE  \E g \in 1 .. Len(V) : \E j \in 1 .. Len(V[g]) : V[g][j].n = n
  <2>1. CASE n = Len(pub) + 1
    <3>1. Len(kept) + 1 \in 1 .. Len(V) /\ 1 \in 1 .. Len(<<p>>)
      BY <1>5, <1>6, <1>7
    <3> QED BY <1>5, <1>6, <2>1, <3>1
  <2>2. CASE n # Len(pub) + 1
    <3>1. n \in FramesIn(pub) /\ n \in Nat /\ n < Len(pub) + 1
      BY <1>1, <2>2 DEF FramesIn
    <3>2. Len(kept) # 0
      <4> SUFFICES ASSUME Len(kept) = 0 PROVE FALSE
        OBVIOUS
      <4>1. V[1] = <<p>>
        BY <1>6
      <4> QED BY <1>1, <1>5, <1>12, <3>1, <4>1
    <3>3. /\ 1 \in 1 .. Len(kept) /\ 1 \in 1 .. Len(V) /\ V[1] = W[1 + d]
          /\ 1 \in 1 .. Len(W) /\ 1 + d \in 1 .. Len(W)
      <4>1. 1 \in 1 .. Len(kept) /\ 1 \in 1 .. Len(V)
        BY <1>6, <1>7, <3>2
      <4>2. 1 + d \in 1 .. Len(W) /\ V[1] = W[1 + d]
        BY <1>4, <1>6, <4>1
      <4> QED BY <1>2, <4>1, <4>2
    <3>4. /\ W[1] # <<>> /\ W[1] \in Seq(Packets) /\ W[1 + d] # <<>> /\ W[1 + d] \in Seq(Packets)
      BY <1>2, <3>3 DEF Holds, Ordered
    <3>5. 1 \in 1 .. Len(W[1]) /\ 1 \in 1 .. Len(W[1 + d])
      BY <3>4, EmptySeq
    <3>6. W[1][1] \in Packets /\ W[1 + d][1] \in Packets /\ W[1][1].n \in Nat /\ W[1 + d][1].n \in Nat
      <4>1. W[1][1] \in Packets /\ W[1 + d][1] \in Packets
        BY <3>4, <3>5, ElementOfSeq
      <4> QED BY <4>1 DEF Packets
    <3>7. W[1][1].n <= W[1 + d][1].n
      <4>1. CASE d = 0
        BY <3>6, <4>1
      <4>2. CASE d = 1
        <5>1. 1 < 1 + d
          BY <4>2
        <5>2. W[1][1].n < W[1 + d][1].n
          BY <3>3, <3>5, <5>1 DEF Holds, Ordered
        <5> QED BY <3>6, <5>2
      <4> QED BY <4>1, <4>2
    <3>8. W # <<>> /\ W[1][1].n <= n
      BY <1>12, <3>1, <3>3, <3>6, <3>7
    <3>9. PICK g \in 1 .. Len(W) : \E j \in 1 .. Len(W[g]) : W[g][j].n = n
      BY <3>1, <3>8 DEF Holds
    <3>10. PICK j \in 1 .. Len(W[g]) : W[g][j].n = n
      BY <3>9
    <3>11. g - d \in 1 .. Len(kept)
      <4> SUFFICES ASSUME ~(g - d \in 1 .. Len(kept)) PROVE FALSE
        OBVIOUS
      <4>1. g = 1 /\ d = 1
        BY <1>2, <1>4
      <4>2. g < 1 + d
        BY <4>1
      <4>3. W[g][j].n < W[1 + d][1].n
        BY <3>3, <3>5, <4>2 DEF Holds, Ordered
      <4> QED BY <1>12, <3>1, <3>3, <3>6, <3>10, <4>3
    <3>12. g - d \in 1 .. Len(V) /\ V[g - d] = W[g]
      <4>1. g - d + d = g
        OBVIOUS
      <4>2. kept[g - d] = W[g]
        BY <1>4, <3>11, <4>1
      <4> QED BY <1>6, <1>7, <3>11, <4>2
    <3> QED BY <3>10, <3>12
  <2> QED BY <2>1, <2>2
<1>13. Ordered(V)
  BY <1>6, <1>9, <1>10 DEF Ordered
<1>14. Holds(V, new)
  BY <1>9, <1>11, <1>12, <1>13 DEF Holds
<1> QED BY <1>14 DEF V, kept, new

\* Another frame joins the newest group, if there is one.
LEMMA HoldsInter ==
  ASSUME NEW W, NEW pub \in Seq(Kinds), Holds(W, pub), NEW p \in Packets,
         p.kind = "inter", p.n = Len(pub) + 1
  PROVE  Holds(IF W = <<>> THEN W ELSE [W EXCEPT ![Len(W)] = Append(@, p)],
               Append(pub, "inter"))
<1> DEFINE new == Append(pub, "inter")
           V == [W EXCEPT ![Len(W)] = Append(@, p)]
<1>1. /\ Len(new) = Len(pub) + 1 /\ Len(pub) \in Nat /\ new[Len(pub) + 1] = "inter"
      /\ \A n \in 1 .. Len(pub) : n \in 1 .. Len(new) /\ new[n] = pub[n]
      /\ \A n \in 1 .. Len(new) : n # Len(pub) + 1 => n \in 1 .. Len(pub)
  BY OneMore DEF Kinds
<1>2. W \in Seq(Seq(Packets)) /\ Len(W) \in Nat
  BY DEF Holds, Ordered
<1> HIDE DEF new
<1>3. CASE W = <<>>
  <2>1. Holds(W, new)
    <3>1. \A n \in 1 .. Len(new) : new[n] # "key"
      BY <1>1, <1>3 DEF Holds
    <3>2. Len(W) = 0
      BY <1>3
    <3> QED BY <1>3, <3>1, <3>2 DEF Holds
  <2> QED BY <1>3, <2>1 DEF new
<1>4. CASE W # <<>>
  <2>1. Len(W) \in 1 .. Len(W) /\ 1 \in 1 .. Len(W)
    BY <1>2, <1>4, EmptySeq
  <2> DEFINE last == W[Len(W)]
  <2>2. last \in Seq(Packets) /\ Len(last) \in Nat /\ last # <<>> /\ Rising(last)
    BY <1>2, <2>1 DEF Holds, Ordered
  <2>3. /\ Append(last, p) \in Seq(Packets) /\ Len(Append(last, p)) = Len(last) + 1
        /\ Append(last, p)[Len(last) + 1] = p
        /\ \A j \in 1 .. Len(last) : Append(last, p)[j] = last[j]
    BY <2>2, AppendProperties
  <2>4. V \in Seq(Seq(Packets)) /\ Len(V) = Len(W)
    BY <1>2, <2>1, <2>3, ExceptSeq
  <2>5. V[Len(W)] = Append(last, p) /\ \A g \in 1 .. Len(W) : g # Len(W) => V[g] = W[g]
    BY <1>2, <2>1
  <2> HIDE DEF V, last
  <2>6. \A g \in 1 .. Len(W) : \A j \in 1 .. Len(W[g]) : j \in 1 .. Len(V[g]) /\ V[g][j] = W[g][j]
    <3> TAKE g \in 1 .. Len(W)
    <3>1. CASE g = Len(W)
      BY <2>2, <2>3, <2>5, <3>1 DEF last
    <3>2. CASE g # Len(W)
      BY <2>5, <3>2
    <3> QED BY <3>1, <3>2
  <2>7. ASSUME NEW g \in 1 .. Len(W), NEW j \in 1 .. Len(V[g])
        PROVE  \/ j \in 1 .. Len(W[g]) /\ V[g][j] = W[g][j]
               \/ g = Len(W) /\ V[g][j] = p
    <3>1. CASE g = Len(W)
      <4>1. j \in 1 .. Len(last) + 1
        BY <2>3, <2>5, <3>1
      <4>2. CASE j = Len(last) + 1
        BY <2>3, <2>5, <3>1, <4>2
      <4>3. CASE j # Len(last) + 1
        <5>1. j \in 1 .. Len(last)
          BY <2>2, <4>1, <4>3
        <5> QED BY <2>3, <2>5, <3>1, <5>1 DEF last
      <4> QED BY <4>2, <4>3
    <3>2. CASE g # Len(W)
      BY <2>5, <3>2
    <3> QED BY <3>1, <3>2
  <2>8. \A g \in 1 .. Len(W) : V[g] # <<>> /\ 1 \in 1 .. Len(W[g]) /\ V[g][1] = W[g][1]
    <3> TAKE g \in 1 .. Len(W)
    <3>1. W[g] \in Seq(Packets) /\ W[g] # <<>>
      BY <1>2 DEF Holds, Ordered
    <3>2. 1 \in 1 .. Len(W[g])
      BY <3>1, EmptySeq
    <3>3. 1 \in 1 .. Len(V[g]) /\ V[g][1] = W[g][1]
      BY <2>6, <3>2
    <3>4. V[g] # <<>>
      BY <3>3
    <3> QED BY <3>2, <3>3, <3>4
  <2>9. \A g \in 1 .. Len(W) : \A j \in 1 .. Len(W[g]) : W[g][j].n \in 1 .. Len(pub) /\ W[g][j].n < p.n
    BY <1>1 DEF Holds
  <2>10. ASSUME NEW g \in 1 .. Len(W) PROVE Rising(V[g])
    <3> SUFFICES ASSUME NEW i \in 1 .. Len(V[g]), NEW j \in 1 .. Len(V[g]), i < j
                 PROVE  V[g][i].n < V[g][j].n
      BY DEF Rising
    <3>1. CASE j \in 1 .. Len(W[g])
      <4>1. i \in 1 .. Len(W[g])
        BY <3>1
      <4>2. W[g][i].n < W[g][j].n
        BY <3>1, <4>1 DEF Holds, Ordered, Rising
      <4> QED BY <2>6, <3>1, <4>1, <4>2
    <3>2. CASE ~(j \in 1 .. Len(W[g]))
      <4>1. g = Len(W) /\ V[g][j] = p
        BY <2>7, <3>2
      <4>2. i \in 1 .. Len(W[g])
        <5>1. Len(V[g]) = Len(W[g]) + 1 /\ Len(W[g]) \in Nat
          BY <2>2, <2>3, <2>5, <4>1 DEF last
        <5> QED BY <5>1
      <4> QED BY <2>6, <2>9, <4>1, <4>2
    <3> QED BY <3>1, <3>2
  <2>11. ASSUME NEW g \in 1 .. Len(W), NEW h \in 1 .. Len(W), g < h,
                NEW i \in 1 .. Len(V[g]), NEW j \in 1 .. Len(V[h])
         PROVE  V[g][i].n < V[h][j].n
    <3>1. g # Len(W)
      BY <1>2, <2>11
    <3>2. i \in 1 .. Len(W[g]) /\ V[g][i] = W[g][i]
      BY <2>7, <3>1
    <3>3. CASE j \in 1 .. Len(W[h])
      <4>1. W[g][i].n < W[h][j].n
        BY <2>11, <3>2, <3>3 DEF Holds, Ordered
      <4> QED BY <2>6, <3>2, <3>3, <4>1
    <3>4. CASE ~(j \in 1 .. Len(W[h]))
      BY <2>7, <2>9, <3>2, <3>4
    <3> QED BY <3>3, <3>4
  <2>12. Ordered(V)
    BY <2>4, <2>8, <2>10, <2>11 DEF Ordered
  <2>13. ASSUME NEW g \in 1 .. Len(W), NEW j \in 1 .. Len(V[g])
         PROVE  /\ IsFrame(V[g][j]) /\ V[g][j].n \in 1 .. Len(new)
                /\ new[V[g][j].n] = V[g][j].kind
    <3>1. CASE j \in 1 .. Len(W[g]) /\ V[g][j] = W[g][j]
      BY <1>1, <3>1 DEF Holds
    <3>2. CASE V[g][j] = p
      BY <1>1, <3>2 DEF IsFrame
    <3> QED BY <2>7, <3>1, <3>2
  <2>14. \A g \in 1 .. Len(W) : V[g][1].kind = "key"
    BY <2>8 DEF Holds
  <2>15. V # <<>>
    BY <2>1, <2>4
  <2>16. ASSUME NEW n \in FramesIn(new), V[1][1].n <= n
         PROVE  \E g \in 1 .. Len(W) : \E j \in 1 .. Len(V[g]) : V[g][j].n = n
    <3>1. CASE n = Len(pub) + 1
      <4>1. Len(last) + 1 \in 1 .. Len(V[Len(W)]) /\ V[Len(W)][Len(last) + 1] = p
        BY <2>2, <2>3, <2>5
      <4> QED BY <2>1, <3>1, <4>1
    <3>2. CASE n # Len(pub) + 1
      <4>1. n \in FramesIn(pub)
        BY <1>1, <3>2 DEF FramesIn
      <4>2. W[1][1].n <= n
        BY <2>1, <2>8, <2>16
      <4>3. PICK g \in 1 .. Len(W) : \E j \in 1 .. Len(W[g]) : W[g][j].n = n
        BY <1>4, <4>1, <4>2 DEF Holds
      <4> QED BY <2>6, <4>3
    <3> QED BY <3>1, <3>2
  <2>17. Holds(V, new)
    BY <2>4, <2>12, <2>13, <2>14, <2>15, <2>16 DEF Holds
  <2> QED BY <1>4, <2>17 DEF V, new
<1> QED BY <1>3, <1>4

\* The window always holds what it should.
LEMMA WindowHolds ==
  ASSUME RingShape, RingShape', Holds(GopsOldestFirst, published), [Next]_vars
  PROVE  Holds(GopsOldestFirst, published)'
<1>1. CASE UNCHANGED vars \/ Join
  <2>1. UNCHANGED <<GopsOldestFirst, published>>
    BY <1>1 DEF vars, ringVars, Join, GopsOldestFirst
  <2> QED BY <2>1
<1>2. ASSUME NEW kind \in Sent, Publish(kind)
      PROVE  Holds(GopsOldestFirst, published)'
  <2> DEFINE p == [kind |-> kind, n |-> Len(published) + 1]
  <2>1. /\ p \in Packets /\ p.kind = kind /\ p.n = Len(published) + 1
        /\ published' = Append(published, kind) /\ CacheAdd(p) /\ published \in Seq(Kinds)
    BY <1>2, CacheAssumption DEF Publish, Packets, RingShape
  <2> HIDE DEF p
  <2>2. CASE kind = "key"
    <3>1. GopsOldestFirst' =
            Append(IF Len(GopsOldestFirst) = GopNum THEN Tail(GopsOldestFirst)
                   ELSE GopsOldestFirst, <<p>>)
      BY <2>1, <2>2, KeyFrameStep DEF CacheAdd
    <3> QED BY <2>1, <2>2, <3>1, HoldsKey
  <2>3. CASE kind = "inter"
    <3>1. GopsOldestFirst' =
            IF GopsOldestFirst = <<>> THEN GopsOldestFirst
            ELSE [GopsOldestFirst EXCEPT ![Len(GopsOldestFirst)] = Append(@, p)]
      BY <2>1, <2>3, InterFrameStep DEF CacheAdd
    <3> QED BY <2>1, <2>3, <3>1, HoldsInter
  <2>4. CASE kind \notin {"key", "inter"}
    <3>1. GopsOldestFirst' = GopsOldestFirst
      BY <2>1, <2>4 DEF CacheAdd, ringVars, GopsOldestFirst
    <3>2. kind \in Kinds \ {"key", "inter"}
      BY <2>4, CacheAssumption
    <3> QED BY <2>1, <3>1, <3>2, HoldsOther
  <2> QED BY <2>2, <2>3, <2>4
<1> QED BY <1>1, <1>2 DEF Next

-----------------------------------------------------------------------------
(* What the cache sends.                                                     *)

\* A header is the newest of its kind.
Newest(h, kind, pub) ==
  \/ h = NoPacket /\ \A n \in 1 .. Len(pub) : pub[n] # kind
  \/ /\ h \in Packets /\ h.kind = kind /\ h.n \in 1 .. Len(pub) /\ pub[h.n] = kind
     /\ \A n \in 1 .. Len(pub) : pub[n] = kind => n <= h.n

HeadersNewest ==
  /\ Newest(metadata, "metadata", published)
  /\ Newest(videoSeq, "videoSeq", published)
  /\ Newest(audioSeq, "audioSeq", published)

\* First k headers, of which the newest, then the frames since a key frame.
Cached(c, k, pub, v, a) ==
  /\ c \in Seq(Packets) /\ k \in Nat /\ k <= Len(c)
  /\ \A i \in 1 .. Len(c) : c[i].n \in 1 .. Len(pub) /\ pub[c[i].n] = c[i].kind
  /\ \A i \in 1 .. k :
       /\ c[i].kind \in {"metadata", "videoSeq", "audioSeq"}
       /\ c[i].kind = "videoSeq" => c[i] = v
       /\ c[i].kind = "audioSeq" => c[i] = a
  /\ v # NoPacket => \E i \in 1 .. k : c[i] = v
  /\ a # NoPacket => \E i \in 1 .. k : c[i] = a
  /\ \A i \in k + 1 .. Len(c) : IsFrame(c[i])
  /\ \A i, j \in k + 1 .. Len(c) : i < j => c[i].n < c[j].n
  /\ k < Len(c) => /\ c[k + 1].kind = "key"
                   /\ \A n \in FramesIn(pub) : c[k + 1].n <= n =>
                        \E i \in k + 1 .. Len(c) : c[i].n = n
  /\ k = Len(c) => \A n \in 1 .. Len(pub) : pub[n] # "key"

Has(s, x) == \E i \in 1 .. Len(s) : s[i] = x

\* Two sequences have between them what each of them has.
LEMMA ConcatHas ==
  ASSUME NEW S, NEW s \in Seq(S), NEW t \in Seq(S)
  PROVE  s \o t \in Seq(S) /\ \A x : Has(s \o t, x) <=> Has(s, x) \/ Has(t, x)
<1> DEFINE u == s \o t
<1>1. /\ u \in Seq(S) /\ Len(u) = Len(s) + Len(t)
      /\ \A i \in 1 .. Len(s) + Len(t) : u[i] = IF i <= Len(s) THEN s[i] ELSE t[i - Len(s)]
  BY ConcatProperties
<1>2. Len(s) \in Nat /\ Len(t) \in Nat
  OBVIOUS
<1> HIDE DEF u
<1>3. ASSUME NEW i \in 1 .. Len(u)
      PROVE  Has(s, u[i]) \/ Has(t, u[i])
  <2>1. CASE i <= Len(s)
    <3>1. i \in 1 .. Len(s) /\ u[i] = s[i]
      BY <1>1, <1>2, <2>1
    <3> QED BY <3>1 DEF Has
  <2>2. CASE ~(i <= Len(s))
    <3>1. i - Len(s) \in 1 .. Len(t) /\ u[i] = t[i - Len(s)]
      BY <1>1, <1>2, <2>2
    <3> QED BY <3>1 DEF Has
  <2> QED BY <2>1, <2>2
<1>4. ASSUME NEW j \in 1 .. Len(s) PROVE Has(u, s[j])
  <2>1. j \in 1 .. Len(u) /\ u[j] = s[j]
    BY <1>1, <1>2
  <2> QED BY <2>1 DEF Has
<1>5. ASSUME NEW j \in 1 .. Len(t) PROVE Has(u, t[j])
  <2>1. Len(s) + j \in 1 .. Len(u) /\ ~(Len(s) + j <= Len(s)) /\ Len(s) + j - Len(s) = j
    BY <1>1, <1>2
  <2>2. u[Len(s) + j] = t[j]
    BY <1>1, <2>1
  <2> QED BY <2>1, <2>2 DEF Has
<1>6. ASSUME NEW x PROVE Has(u, x) <=> Has(s, x) \/ Has(t, x)
  <2>1. ASSUME Has(u, x) PROVE Has(s, x) \/ Has(t, x)
    <3>1. PICK i \in 1 .. Len(u) : u[i] = x
      BY <2>1 DEF Has
    <3> QED BY <1>3, <3>1
  <2>2. ASSUME Has(s, x) PROVE Has(u, x)
    <3>1. PICK j \in 1 .. Len(s) : s[j] = x
      BY <2>2 DEF Has
    <3> QED BY <1>4, <3>1
  <2>3. ASSUME Has(t, x) PROVE Has(u, x)
    <3>1. PICK j \in 1 .. Len(t) : t[j] = x
      BY <2>3 DEF Has
    <3> QED BY <1>5, <3>1
  <2> QED BY <2>1, <2>2, <2>3
<1> QED BY <1>1, <1>6 DEF u

HeaderSeq(p) == IF p = NoPacket THEN <<>> ELSE <<p>>

\* The headers that there are come one after the other.
LEMMA HeadersSent ==
  ASSUME NEW m \in Packets \cup {NoPacket}, NEW v \in Packets \cup {NoPacket},
         NEW a \in Packets \cup {NoPacket}
  PROVE  /\ HeaderSeq(m) \o HeaderSeq(v) \o HeaderSeq(a) \in Seq(Packets)
         /\ \A x : Has(HeaderSeq(m) \o HeaderSeq(v) \o HeaderSeq(a), x) <=>
                     x \in {m, v, a} \ {NoPacket}
<1>1. ASSUME NEW p \in Packets \cup {NoPacket}
      PROVE  HeaderSeq(p) \in Seq(Packets) /\ \A x : Has(HeaderSeq(p), x) <=> x = p /\ p # NoPacket
  <2>1. CASE p = NoPacket
    <3>1. HeaderSeq(p) = <<>> /\ Len(<<>>) = 0
      BY <2>1 DEF HeaderSeq
    <3> QED BY <2>1, <3>1 DEF Has
  <2>2. CASE p # NoPacket
    <3>1. HeaderSeq(p) = <<p>> /\ Len(<<p>>) = 1 /\ <<p>>[1] = p /\ <<p>> \in Seq(Packets)
      BY <2>2 DEF HeaderSeq
    <3>2. \A i \in 1 .. 1 : i = 1
      OBVIOUS
    <3>3. \A x : Has(<<p>>, x) <=> x = p
      BY <3>1, <3>2 DEF Has
    <3> QED BY <2>2, <3>1, <3>3
  <2> QED BY <2>1, <2>2
<1>2. /\ HeaderSeq(m) \in Seq(Packets) /\ HeaderSeq(v) \in Seq(Packets)
      /\ HeaderSeq(a) \in Seq(Packets)
  BY <1>1
<1> DEFINE g == HeaderSeq(m) \o HeaderSeq(v)
<1>3. g \in Seq(Packets) /\ \A x : Has(g, x) <=> Has(HeaderSeq(m), x) \/ Has(HeaderSeq(v), x)
  BY <1>2, ConcatHas
<1> HIDE DEF g
<1>4. /\ g \o HeaderSeq(a) \in Seq(Packets)
      /\ \A x : Has(g \o HeaderSeq(a), x) <=> Has(g, x) \/ Has(HeaderSeq(a), x)
  BY <1>2, <1>3, ConcatHas
<1>5. \A x : Has(g \o HeaderSeq(a), x) <=> x \in {m, v, a} \ {NoPacket}
  BY <1>1, <1>3, <1>4
<1> QED BY <1>4, <1>5 DEF g

\* What is sent is the newest headers and what the window holds.
LEMMA CachedIs ==
  RingShape /\ Holds(GopsOldestFirst, published) /\ HeadersNewest
    => \E k \in Nat : Cached(CacheSends, k, published, videoSeq, audioSeq)
<1> SUFFICES ASSUME RingShape, Holds(GopsOldestFirst, published), HeadersNewest
             PROVE  \E k \in Nat : Cached(CacheSends, k, published, videoSeq, audioSeq)
  OBVIOUS
<1> DEFINE W == GopsOldestFirst
           flat == FlattenSeq(GopsOldestFirst)
<1>1. /\ metadata \in Packets \cup {NoPacket} /\ videoSeq \in Packets \cup {NoPacket}
      /\ audioSeq \in Packets \cup {NoPacket}
  BY DEF HeadersNewest, Newest
<1> DEFINE h == HeaderSeq(metadata) \o HeaderSeq(videoSeq) \o HeaderSeq(audioSeq)
<1>2. /\ h \in Seq(Packets)
      /\ \A x : Has(h, x) <=> x \in {metadata, videoSeq, audioSeq} \ {NoPacket}
  BY <1>1, HeadersSent
<1>3. CacheSends = h \o flat
  BY DEF CacheSends, HeaderSeq
<1> HIDE DEF h
<1>4. /\ flat \in Seq(Packets) /\ Rising(flat)
      /\ \A i \in 1 .. Len(flat) : /\ IsFrame(flat[i]) /\ flat[i].n \in 1 .. Len(published)
                                   /\ published[flat[i].n] = flat[i].kind
      /\ flat # <<>> => /\ flat[1].kind = "key"
                        /\ \A n \in FramesIn(published) : flat[1].n <= n =>
                             \E i \in 1 .. Len(flat) : flat[i].n = n
      /\ flat = <<>> => \A n \in 1 .. Len(published) : published[n] # "key"
  <2>1. CASE W = <<>>
    <3>1. flat = <<>>
      BY <2>1 DEF FlattenSeq
    <3>2. Len(flat) = 0 /\ flat \in Seq(Packets)
      BY <3>1
    <3> HIDE DEF flat
    <3> QED BY <2>1, <3>1, <3>2 DEF Holds, Rising
  <2>2. CASE W # <<>>
    <3>1. Flat(flat, W, Len(W))
      BY <2>2, Flattened DEF Holds
    <3> HIDE DEF flat, W
    <3>2. \A i \in 1 .. Len(flat) : /\ IsFrame(flat[i]) /\ flat[i].n \in 1 .. Len(published)
                                   /\ published[flat[i].n] = flat[i].kind
      <4> TAKE i \in 1 .. Len(flat)
      <4>1. PICK g \in 1 .. Len(W) : \E j \in 1 .. Len(W[g]) : flat[i] = W[g][j]
        BY <3>1 DEF Flat
      <4> QED BY <4>1 DEF Holds, W
    <3>3. 1 \in 1 .. Len(W)
      BY <2>2, EmptySeq DEF Holds, Ordered, W
    <3>4. flat[1].kind = "key"
      BY <3>1, <3>3 DEF Flat, Holds, W
    <3>5. \A n \in FramesIn(published) : flat[1].n <= n => \E i \in 1 .. Len(flat) : flat[i].n = n
      <4> SUFFICES ASSUME NEW n \in FramesIn(published), flat[1].n <= n
                   PROVE  \E i \in 1 .. Len(flat) : flat[i].n = n
        OBVIOUS
      <4>1. W[1][1].n <= n
        BY <3>1 DEF Flat
      <4>2. PICK g \in 1 .. Len(W) : \E j \in 1 .. Len(W[g]) : W[g][j].n = n
        BY <2>2, <4>1 DEF Holds, W
      <4>3. PICK j \in 1 .. Len(W[g]) : W[g][j].n = n
        BY <4>2
      <4>4. PICK i \in 1 .. Len(flat) : flat[i] = W[g][j]
        BY <3>1 DEF Flat
      <4> QED BY <4>3, <4>4
    <3> QED BY <3>1, <3>2, <3>4, <3>5 DEF Flat
  <2> QED BY <2>1, <2>2
<1> DEFINE c == h \o flat
           k == Len(h)
<1> HIDE DEF flat, W
<1>5. /\ c \in Seq(Packets) /\ Len(c) = k + Len(flat) /\ k \in Nat /\ Len(flat) \in Nat
      /\ \A i \in 1 .. k + Len(flat) : c[i] = IF i <= k THEN h[i] ELSE flat[i - k]
  BY <1>2, <1>4, ConcatProperties
<1> HIDE DEF c, k
<1>6. \A i \in 1 .. k : i \in 1 .. Len(c) /\ c[i] = h[i]
  BY <1>5
<1>7. \A i \in k + 1 .. Len(c) : i - k \in 1 .. Len(flat) /\ c[i] = flat[i - k]
  BY <1>5
<1>8. \A i \in 1 .. Len(flat) : i + k \in k + 1 .. Len(c) /\ c[i + k] = flat[i]
  <2> TAKE i \in 1 .. Len(flat)
  <2>1. /\ i + k \in k + 1 .. Len(c) /\ i + k - k = i
        /\ i + k \in 1 .. k + Len(flat) /\ ~(i + k <= k)
    BY <1>5
  <2>2. c[i + k] = flat[i + k - k]
    BY <1>5, <2>1
  <2> QED BY <2>1, <2>2
<1>9. \A i \in 1 .. k : c[i] \in {metadata, videoSeq, audioSeq} \ {NoPacket}
  BY <1>2, <1>6 DEF k, Has
<1>10. \A i \in 1 .. k : /\ c[i].n \in 1 .. Len(published) /\ published[c[i].n] = c[i].kind
                         /\ c[i].kind \in {"metadata", "videoSeq", "audioSeq"}
                         /\ c[i].kind = "videoSeq" => c[i] = videoSeq
                         /\ c[i].kind = "audioSeq" => c[i] = audioSeq
  BY <1>9 DEF HeadersNewest, Newest
<1>11. \A p \in {videoSeq, audioSeq} : p # NoPacket => \E i \in 1 .. k : c[i] = p
  BY <1>2, <1>6 DEF k, Has
<1>12. \A i \in k + 1 .. Len(c) : /\ IsFrame(c[i]) /\ c[i].n \in 1 .. Len(published)
                                  /\ published[c[i].n] = c[i].kind
  BY <1>4, <1>7
<1>13. \A i \in 1 .. Len(c) : c[i].n \in 1 .. Len(published) /\ published[c[i].n] = c[i].kind
  <2> TAKE i \in 1 .. Len(c)
  <2>1. i \in 1 .. k \/ i \in k + 1 .. Len(c)
    BY <1>5
  <2> QED BY <1>10, <1>12, <2>1
<1>14. \A i, j \in k + 1 .. Len(c) : i < j => c[i].n < c[j].n
  <2> SUFFICES ASSUME NEW i \in k + 1 .. Len(c), NEW j \in k + 1 .. Len(c), i < j
               PROVE  c[i].n < c[j].n
    OBVIOUS
  <2>1. i - k < j - k
    BY <1>5
  <2> QED BY <1>4, <1>7, <2>1 DEF Rising
<1>15. k < Len(c) => /\ c[k + 1].kind = "key"
                     /\ \A n \in FramesIn(published) : c[k + 1].n <= n =>
                          \E i \in k + 1 .. Len(c) : c[i].n = n
  <2> SUFFICES ASSUME k < Len(c)
               PROVE  /\ c[k + 1].kind = "key"
                      /\ \A n \in FramesIn(published) : c[k + 1].n <= n =>
                           \E i \in k + 1 .. Len(c) : c[i].n = n
    OBVIOUS
  <2>1. 1 \in 1 .. Len(flat) /\ 1 + k = k + 1
    BY <1>5
  <2>2. flat # <<>> /\ c[k + 1] = flat[1]
    BY <1>8, <2>1
  <2>3. ASSUME NEW n \in FramesIn(published), c[k + 1].n <= n
        PROVE  \E i \in k + 1 .. Len(c) : c[i].n = n
    <3>1. PICK i \in 1 .. Len(flat) : flat[i].n = n
      BY <1>4, <2>2, <2>3
    <3> QED BY <1>8, <3>1
  <2> QED BY <1>4, <2>2, <2>3
<1>16. k = Len(c) => \A n \in 1 .. Len(published) : published[n] # "key"
  <2>1. k = Len(c) => flat = <<>>
    BY <1>4, <1>5, EmptySeq
  <2> QED BY <1>4, <2>1
<1>17. Cached(c, k, published, videoSeq, audioSeq)
  BY <1>5, <1>10, <1>11, <1>12, <1>13, <1>14, <1>15, <1>16 DEF Cached
<1> QED BY <1>3, <1>5, <1>17 DEF c

-----------------------------------------------------------------------------
(* What a viewer has been handed.                                            *)

Had(r) == {i \in 1 .. Len(r) : IsFrame(r[i])}
Real(r, pub) ==
  r \in Seq(Packets) /\ \A i \in 1 .. Len(r) : r[i].n \in 1 .. Len(pub) /\ pub[r[i].n] = r[i].kind

NoGap(r, pub) ==
  /\ \A i, j \in Had(r) : i < j => r[i].n <= r[j].n
  /\ \A i, j, k, l \in Had(r) :
       i < j /\ k < l /\ r[i].n = r[j].n /\ r[k].n = r[l].n => i = k /\ j = l
  /\ \A i, j \in Had(r) : \A n \in FramesIn(pub) :
       r[i].n <= n /\ n <= r[j].n => \E k \in Had(r) : r[k].n = n
  /\ \A i \in Had(r) : r[i].kind = "inter" /\ (\A j \in Had(r) : i <= j) =>
       \A n \in 1 .. Len(pub) : pub[n] = "key" => n > r[i].n

\* A live viewer has every frame since its first, or there was no key frame.
AllSince(r, pub) ==
  /\ \A i \in Had(r) : \A n \in FramesIn(pub) : r[i].n <= n => \E k \in Had(r) : r[k].n = n
  /\ Had(r) = {} => \A n \in 1 .. Len(pub) : pub[n] # "key"

\* Packet m, or none, is the last of a kind handed before position i.
LastHanded(r, kind, i, m) ==
  \/ m = 0 /\ \A j \in 1 .. i - 1 : r[j].kind # kind
  \/ \E j \in 1 .. i - 1 :
       /\ r[j].kind = kind /\ r[j].n = m
       /\ \A l \in 1 .. i - 1 : r[l].kind = kind => l <= j \/ r[l].n = m

\* No packet of a kind between m and n.
NoneBetween(pub, kind, m, n) == \A l \in 1 .. Len(pub) : pub[l] = kind /\ l < n => l <= m

AudioDecodes(r, pub, i) ==
  \E m \in Nat : /\ LastHanded(r, "audioSeq", i, m) /\ NoneBetween(pub, "audioSeq", m, r[i].n)
                 /\ m = 0 \/ (m \in 1 .. Len(pub) /\ m < r[i].n /\ pub[m] = "audioSeq")
VideoDecodes(r, pub, i) ==
  \E m \in Nat : LastHanded(r, "videoSeq", i, m) /\ NoneBetween(pub, "videoSeq", m, r[i].n)
Decoded(r, pub) ==
  \A i \in 1 .. Len(r) : /\ r[i].kind = "audio" => AudioDecodes(r, pub, i)
                         /\ IsFrame(r[i]) => VideoDecodes(r, pub, i)

\* The newest headers are the ones the viewer has.
UpToDate(r, v, a) ==
  LastHanded(r, "videoSeq", Len(r) + 1, v.n) /\ LastHanded(r, "audioSeq", Len(r) + 1, a.n)

\* The last of a kind depends on what comes before.
LEMMA HandedSame ==
  ASSUME NEW r, NEW s, NEW kind, NEW i, NEW m, LastHanded(r, kind, i, m),
         \A j \in 1 .. i - 1 : s[j] = r[j]
  PROVE  LastHanded(s, kind, i, m)
BY DEF LastHanded

\* Nothing changes in what a viewer had when one more is published.
LEMMA LaterStill ==
  ASSUME NEW r, NEW pub \in Seq(Kinds), NEW kind \in Kinds,
         Real(r, pub), NoGap(r, pub), Decoded(r, pub)
  PROVE  LET new == Append(pub, kind) IN Real(r, new) /\ NoGap(r, new) /\ Decoded(r, new)
<1> DEFINE new == Append(pub, kind)
<1>1. /\ Len(new) = Len(pub) + 1 /\ Len(pub) \in Nat /\ new[Len(pub) + 1] = kind
      /\ \A n \in 1 .. Len(pub) : n \in 1 .. Len(new) /\ new[n] = pub[n]
      /\ \A n \in 1 .. Len(new) : n # Len(pub) + 1 => n \in 1 .. Len(pub)
  BY OneMore
<1> HIDE DEF new
<1>2. Real(r, new)
  BY <1>1 DEF Real
<1>3. \A i \in 1 .. Len(r) : r[i].n < Len(pub) + 1 /\ r[i].n \in Nat
  BY <1>1 DEF Real
<1>4. \A n \in 1 .. Len(new) : n = Len(pub) + 1 \/ (n \in 1 .. Len(pub) /\ new[n] = pub[n])
  BY <1>1
<1>5. ASSUME NEW i \in Had(r), NEW j \in Had(r), NEW n \in FramesIn(new),
             r[i].n <= n, n <= r[j].n
      PROVE  \E k \in Had(r) : r[k].n = n
  <2>1. j \in 1 .. Len(r) /\ n \in 1 .. Len(new)
    BY DEF Had, FramesIn
  <2>2. n # Len(pub) + 1
    BY <1>1, <1>3, <1>5, <2>1
  <2>3. n \in FramesIn(pub)
    BY <1>4, <2>1, <2>2 DEF FramesIn
  <2> QED BY <1>5, <2>3 DEF NoGap
<1>6. ASSUME NEW i \in Had(r), r[i].kind = "inter", \A j \in Had(r) : i <= j,
             NEW n \in 1 .. Len(new), new[n] = "key"
      PROVE  n > r[i].n
  <2>1. i \in 1 .. Len(r)
    BY DEF Had
  <2>2. CASE n = Len(pub) + 1
    BY <1>3, <2>1, <2>2
  <2>3. CASE n \in 1 .. Len(pub) /\ new[n] = pub[n]
    BY <1>6, <2>3 DEF NoGap
  <2> QED BY <1>4, <2>2, <2>3
<1>7. NoGap(r, new)
  <2>1. /\ \A i, j \in Had(r) : i < j => r[i].n <= r[j].n
        /\ \A i, j, k, l \in Had(r) :
             i < j /\ k < l /\ r[i].n = r[j].n /\ r[k].n = r[l].n => i = k /\ j = l
    BY DEF NoGap
  <2> QED BY <1>5, <1>6, <2>1 DEF NoGap
<1>8. ASSUME NEW i \in 1 .. Len(r), NEW header, NEW m, NoneBetween(pub, header, m, r[i].n)
      PROVE  NoneBetween(new, header, m, r[i].n)
  <2> SUFFICES ASSUME NEW l \in 1 .. Len(new), new[l] = header, l < r[i].n
               PROVE  l <= m
    BY DEF NoneBetween
  <2>1. l # Len(pub) + 1
    BY <1>1, <1>3
  <2>2. l \in 1 .. Len(pub) /\ new[l] = pub[l]
    BY <1>4, <2>1
  <2> QED BY <1>8, <2>2 DEF NoneBetween
<1>9. Decoded(r, new)
  <2> SUFFICES ASSUME NEW i \in 1 .. Len(r)
               PROVE  /\ r[i].kind = "audio" => AudioDecodes(r, new, i)
                      /\ IsFrame(r[i]) => VideoDecodes(r, new, i)
    BY DEF Decoded
  <2>1. ASSUME r[i].kind = "audio" PROVE AudioDecodes(r, new, i)
    <3>1. PICK m \in Nat : /\ LastHanded(r, "audioSeq", i, m) /\ NoneBetween(pub, "audioSeq", m, r[i].n)
                           /\ m = 0 \/ (m \in 1 .. Len(pub) /\ m < r[i].n /\ pub[m] = "audioSeq")
      BY <2>1 DEF Decoded, AudioDecodes
    <3>2. NoneBetween(new, "audioSeq", m, r[i].n)
      BY <1>8, <3>1
    <3>3. m = 0 \/ (m \in 1 .. Len(new) /\ m < r[i].n /\ new[m] = "audioSeq")
      BY <1>1, <3>1
    <3> QED BY <3>1, <3>2, <3>3 DEF AudioDecodes
  <2>2. ASSUME IsFrame(r[i]) PROVE VideoDecodes(r, new, i)
    <3>1. PICK m \in Nat : LastHanded(r, "videoSeq", i, m) /\ NoneBetween(pub, "videoSeq", m, r[i].n)
      BY <2>2 DEF Decoded, VideoDecodes
    <3>2. NoneBetween(new, "videoSeq", m, r[i].n)
      BY <1>8, <3>1
    <3> QED BY <3>1, <3>2 DEF VideoDecodes
  <2> QED BY <2>1, <2>2
<1> QED BY <1>2, <1>7, <1>9 DEF new

\* One more handed over is the last of its kind, and of no other kind.
LEMMA HandedMore ==
  ASSUME NEW r \in Seq(Packets), NEW p \in Packets, NEW kind, NEW h,
         LastHanded(r, kind, Len(r) + 1, h.n)
  PROVE  LastHanded(Append(r, p), kind, Len(Append(r, p)) + 1, (IF p.kind = kind THEN p ELSE h).n)
<1> DEFINE s == Append(r, p)
<1>1. /\ s \in Seq(Packets) /\ Len(s) = Len(r) + 1 /\ Len(r) \in Nat /\ s[Len(r) + 1] = p
      /\ \A j \in 1 .. Len(r) : s[j] = r[j]
  BY AppendProperties
<1> HIDE DEF s
<1>2. CASE p.kind = kind
  <2>1. Len(r) + 1 \in 1 .. Len(s) + 1 - 1 /\ \A l \in 1 .. Len(s) + 1 - 1 : l <= Len(r) + 1
    BY <1>1
  <2> QED BY <1>1, <1>2, <2>1 DEF LastHanded, s
<1>3. CASE p.kind # kind
  <2>1. Len(r) + 1 - 1 = Len(r) /\ Len(s) + 1 - 1 = Len(r) + 1
    BY <1>1
  <2>2. \A j \in 1 .. Len(r) + 1 : j = Len(r) + 1 \/ j \in 1 .. Len(r)
    BY <1>1
  <2>3. \A j \in 1 .. Len(r) + 1 : s[j].kind = kind => j \in 1 .. Len(r) /\ s[j] = r[j]
    BY <1>1, <1>3, <2>2
  <2>4. CASE h.n = 0 /\ \A j \in 1 .. Len(r) : r[j].kind # kind
    <3>1. \A j \in 1 .. Len(r) + 1 : s[j].kind # kind
      BY <2>3, <2>4
    <3> QED BY <1>3, <2>1, <2>4, <3>1 DEF LastHanded, s
  <2>5. CASE \E j \in 1 .. Len(r) : /\ r[j].kind = kind /\ r[j].n = h.n
                                    /\ \A l \in 1 .. Len(r) : r[l].kind = kind => l <= j \/ r[l].n = h.n
    <3>1. PICK j \in 1 .. Len(r) : /\ r[j].kind = kind /\ r[j].n = h.n
                                   /\ \A l \in 1 .. Len(r) : r[l].kind = kind => l <= j \/ r[l].n = h.n
      BY <2>5
    <3>2. j \in 1 .. Len(r) + 1 /\ s[j].kind = kind /\ s[j].n = h.n
      BY <1>1, <3>1
    <3>3. \A l \in 1 .. Len(r) + 1 : s[l].kind = kind => l <= j \/ s[l].n = h.n
      BY <2>3, <3>1
    <3> QED BY <1>3, <2>1, <3>2, <3>3 DEF LastHanded, s
  <2> QED BY <2>1, <2>4, <2>5 DEF LastHanded
<1> QED BY <1>2, <1>3 DEF s

\* No header of a kind is newer than the newest.
LEMMA NewestIs ==
  ASSUME NEW pub \in Seq(Kinds), NEW kind, NEW h, Newest(h, kind, pub)
  PROVE  /\ h.n \in Nat /\ (h.n = 0 \/ (h.n \in 1 .. Len(pub) /\ pub[h.n] = kind))
         /\ \A n \in 1 .. Len(pub) : pub[n] = kind => n <= h.n
<1>1. NoPacket.n = 0 /\ Len(pub) \in Nat
  BY DEF NoPacket
<1>2. CASE h = NoPacket /\ \A n \in 1 .. Len(pub) : pub[n] # kind
  BY <1>1, <1>2
<1>3. CASE /\ h.n \in 1 .. Len(pub) /\ pub[h.n] = kind
           /\ \A n \in 1 .. Len(pub) : pub[n] = kind => n <= h.n
  BY <1>1, <1>3
<1> QED BY <1>2, <1>3 DEF Newest

\* A viewer that is up to date decodes what it is handed next.
LEMMA NextDecodes ==
  ASSUME NEW s, NEW pub \in Seq(Kinds), NEW v, NEW a, NEW i, s[i].n = Len(pub),
         Newest(v, "videoSeq", pub), Newest(a, "audioSeq", pub), pub[Len(pub)] = s[i].kind,
         IsFrame(s[i]) => LastHanded(s, "videoSeq", i, v.n),
         s[i].kind = "audio" => LastHanded(s, "audioSeq", i, a.n)
  PROVE  /\ s[i].kind = "audio" => AudioDecodes(s, pub, i)
         /\ IsFrame(s[i]) => VideoDecodes(s, pub, i)
<1>1. ASSUME NEW h, NEW kind, Newest(h, kind, pub), s[i].kind # kind
      PROVE  /\ h.n \in Nat /\ NoneBetween(pub, kind, h.n, s[i].n)
             /\ h.n = 0 \/ (h.n \in 1 .. Len(pub) /\ h.n < s[i].n /\ pub[h.n] = kind)
  <2>1. /\ h.n \in Nat /\ (h.n = 0 \/ (h.n \in 1 .. Len(pub) /\ pub[h.n] = kind))
        /\ \A n \in 1 .. Len(pub) : pub[n] = kind => n <= h.n
    BY <1>1, NewestIs
  <2>2. h.n # Len(pub) \/ h.n = 0
    BY <1>1, <2>1
  <2> QED BY <2>1, <2>2 DEF NoneBetween
<1>2. ASSUME s[i].kind = "audio" PROVE AudioDecodes(s, pub, i)
  <2>1. s[i].kind # "audioSeq"
    BY <1>2
  <2> QED BY <1>1, <1>2, <2>1 DEF AudioDecodes
<1>3. ASSUME IsFrame(s[i]) PROVE VideoDecodes(s, pub, i)
  <2>1. s[i].kind # "videoSeq"
    BY <1>3 DEF IsFrame
  <2> QED BY <1>1, <1>3, <2>1 DEF VideoDecodes
<1> QED BY <1>2, <1>3

\* The newest of a kind is the packet of that kind published last.
LEMMA NewestStep ==
  ASSUME NEW pub \in Seq(Kinds), NEW p \in Packets, p.n = Len(pub) + 1, NEW kind, NEW h,
         Newest(h, kind, pub)
  PROVE  Newest(IF p.kind = kind THEN p ELSE h, kind, Append(pub, p.kind))
<1> DEFINE new == Append(pub, p.kind)
<1>1. /\ Len(new) = Len(pub) + 1 /\ Len(pub) \in Nat /\ new[Len(pub) + 1] = p.kind
      /\ \A n \in 1 .. Len(pub) : n \in 1 .. Len(new) /\ new[n] = pub[n]
      /\ \A n \in 1 .. Len(new) : n # Len(pub) + 1 => n \in 1 .. Len(pub)
  BY OneMore DEF Packets
<1> HIDE DEF new
<1>2. CASE p.kind = kind
  <2>1. Len(pub) + 1 \in 1 .. Len(new) /\ \A n \in 1 .. Len(new) : n <= Len(pub) + 1
    BY <1>1
  <2>2. Newest(p, kind, new)
    BY <1>1, <1>2, <2>1 DEF Newest
  <2> QED BY <1>2, <2>2 DEF new
<1>3. CASE p.kind # kind
  <2>1. \A n \in 1 .. Len(new) : new[n] = kind => n \in 1 .. Len(pub) /\ pub[n] = kind
    BY <1>1, <1>3
  <2>2. Newest(h, kind, new)
    BY <1>1, <2>1 DEF Newest
  <2> QED BY <1>3, <2>2 DEF new
<1> QED BY <1>2, <1>3

\* One longer than another sequence.
OneLonger(t, s, x) == t = Append(s, x)

\* A live viewer that is handed the packet just published misses nothing.
LEMMA Given ==
  ASSUME NEW r, NEW pub \in Seq(Kinds), NEW p \in Packets, p.n = Len(pub) + 1,
         NEW v, NEW a, NEW v1, NEW a1,
         Real(r, pub), NoGap(r, pub), Decoded(r, pub), AllSince(r, pub), UpToDate(r, v, a),
         v1 = IF p.kind = "videoSeq" THEN p ELSE v,
         a1 = IF p.kind = "audioSeq" THEN p ELSE a,
         NEW new, OneLonger(new, pub, p.kind), NEW s, OneLonger(s, r, p),
         Newest(v1, "videoSeq", new), Newest(a1, "audioSeq", new)
  PROVE  Real(s, new) /\ NoGap(s, new) /\ Decoded(s, new) /\ AllSince(s, new) /\ UpToDate(s, v1, a1)
<1>1. /\ Len(new) = Len(pub) + 1 /\ Len(pub) \in Nat /\ new[Len(pub) + 1] = p.kind
      /\ new \in Seq(Kinds)
      /\ \A n \in 1 .. Len(pub) : n \in 1 .. Len(new) /\ new[n] = pub[n]
      /\ \A n \in 1 .. Len(new) : n # Len(pub) + 1 => n \in 1 .. Len(pub)
  BY OneMore DEF Packets, OneLonger
<1>2. Real(r, new) /\ NoGap(r, new) /\ Decoded(r, new)
  BY LaterStill DEF Packets, OneLonger
<1> DEFINE last == Len(r) + 1
<1>3. /\ s \in Seq(Packets) /\ Len(s) = last /\ Len(r) \in Nat /\ s[last] = p
      /\ \A j \in 1 .. Len(r) : s[j] = r[j]
  BY AppendProperties DEF Real, OneLonger
<1>4. last \in 1 .. Len(s) /\ \A i \in 1 .. Len(s) : i = last \/ (i \in 1 .. Len(r) /\ i < last)
  BY <1>3
<1>5. \A i \in 1 .. Len(r) : i \in 1 .. Len(s) /\ i < last
  BY <1>3
<1> HIDE DEF last
<1>6. \A i \in Had(r) : i \in Had(s) /\ s[i] = r[i] /\ r[i].n \in 1 .. Len(pub) /\ i < last
  BY <1>3, <1>5 DEF Had, Real
<1>7. \A i \in Had(s) : i \in Had(r) \/ (i = last /\ IsFrame(p))
  BY <1>3, <1>4 DEF Had
<1>8. IsFrame(p) => last \in Had(s)
  BY <1>3, <1>4 DEF Had
<1>9. Real(s, new)
  <2>1. \A i \in 1 .. Len(s) : s[i].n \in 1 .. Len(new) /\ new[s[i].n] = s[i].kind
    <3> TAKE i \in 1 .. Len(s)
    <3>1. CASE i = last
      <4>1. Len(pub) + 1 \in 1 .. Len(new)
        BY <1>1
      <4> QED BY <1>1, <1>3, <3>1, <4>1
    <3>2. CASE i \in 1 .. Len(r)
      BY <1>2, <1>3, <3>2 DEF Real
    <3> QED BY <1>4, <3>1, <3>2
  <2> QED BY <1>3, <2>1 DEF Real
<1>10. AllSince(s, new)
  <2>1. ASSUME NEW i \in Had(s), NEW n \in FramesIn(new), s[i].n <= n
        PROVE  \E k \in Had(s) : s[k].n = n
    <3>1. CASE n = Len(pub) + 1
      <4>1. IsFrame(p)
        BY <1>1, <3>1 DEF FramesIn, IsFrame
      <4> QED BY <1>3, <1>8, <3>1, <4>1
    <3>2. CASE n # Len(pub) + 1
      <4>1. n \in FramesIn(pub) /\ n < Len(pub) + 1 /\ n \in Nat
        BY <1>1, <3>2 DEF FramesIn
      <4>2. i # last
        BY <1>1, <1>3, <2>1, <4>1
      <4>3. i \in Had(r) /\ s[i] = r[i]
        BY <1>6, <1>7, <4>2
      <4>4. PICK k \in Had(r) : r[k].n = n
        BY <2>1, <4>1, <4>3 DEF AllSince
      <4> QED BY <1>6, <4>4
    <3> QED BY <3>1, <3>2
  <2>2. ASSUME Had(s) = {} PROVE \A n \in 1 .. Len(new) : new[n] # "key"
    <3>1. ~IsFrame(p) /\ Had(r) = {}
      BY <1>6, <1>8, <2>2
    <3>2. p.kind # "key" /\ \A n \in 1 .. Len(pub) : pub[n] # "key"
      BY <3>1 DEF IsFrame, AllSince
    <3> QED BY <1>1, <3>2
  <2> QED BY <2>1, <2>2 DEF AllSince
<1>11. NoGap(s, new)
  <2>1. ASSUME NEW i \in Had(s), NEW j \in Had(s), i < j
        PROVE  i \in Had(r) /\ s[i].n <= s[j].n /\ (s[i].n = s[j].n => j \in Had(r))
    <3>1. j \in Had(r) \/ j = last
      BY <1>7
    <3>2. i \in Had(r)
      <4>1. i # last \/ i \in Had(r)
        BY <1>3, <1>6, <2>1, <3>1 DEF last, Had
      <4> QED BY <1>7, <4>1
    <3>3. CASE j = last
      <4>1. r[i].n \in 1 .. Len(pub) /\ s[i] = r[i] /\ s[j] = p
        BY <1>3, <1>6, <3>2, <3>3
      <4>2. s[i].n < s[j].n
        BY <1>1, <4>1
      <4>3. s[i].n \in Nat /\ s[j].n \in Nat
        BY <1>1, <4>1
      <4> QED BY <3>2, <4>2, <4>3
    <3>4. CASE j \in Had(r)
      <4>1. r[i].n <= r[j].n
        BY <2>1, <3>2, <3>4 DEF NoGap
      <4> QED BY <1>6, <3>2, <3>4, <4>1
    <3> QED BY <3>1, <3>2, <3>3, <3>4
  <2>2. ASSUME NEW i \in Had(s), NEW j \in Had(s), NEW k \in Had(s), NEW l \in Had(s),
               i < j, k < l, s[i].n = s[j].n, s[k].n = s[l].n
        PROVE  i = k /\ j = l
    <3>1. i \in Had(r) /\ j \in Had(r) /\ k \in Had(r) /\ l \in Had(r)
      BY <2>1, <2>2
    <3>2. r[i].n = r[j].n /\ r[k].n = r[l].n
      BY <1>6, <2>2, <3>1
    <3>3. \A e, f, g, h \in Had(r) :
            e < f /\ g < h /\ r[e].n = r[f].n /\ r[g].n = r[h].n => e = g /\ f = h
      BY DEF NoGap
    <3> QED BY <2>2, <3>1, <3>2, <3>3
  <2>3. ASSUME NEW i \in Had(s), s[i].kind = "inter", \A j \in Had(s) : i <= j,
               NEW n \in 1 .. Len(new), new[n] = "key"
        PROVE  n > s[i].n
    <3>1. CASE i \in Had(r)
      <4>1. s[i] = r[i] /\ \A j \in Had(r) : i <= j
        BY <1>6, <2>3, <3>1
      <4> QED BY <1>2, <2>3, <3>1, <4>1 DEF NoGap
    <3>2. CASE i = last
      <4>1. Had(r) = {}
        BY <1>3, <1>6, <2>3, <3>2 DEF Had, last
      <4>2. \A l \in 1 .. Len(pub) : pub[l] # "key"
        BY <4>1 DEF AllSince
      <4>3. p.kind # "key"
        BY <1>3, <2>3, <3>2
      <4> QED BY <1>1, <2>3, <4>2, <4>3
    <3> QED BY <1>7, <3>1, <3>2
  <2>4. \A i, j \in Had(s) : i < j => s[i].n <= s[j].n
    BY <2>1
  <2>5. \A i, j \in Had(s) : \A n \in FramesIn(new) :
          s[i].n <= n /\ n <= s[j].n => \E k \in Had(s) : s[k].n = n
    BY <1>10 DEF AllSince
  <2> QED BY <2>2, <2>3, <2>4, <2>5 DEF NoGap
<1>12. UpToDate(s, v1, a1)
  BY <1>3, HandedMore DEF UpToDate, Real, OneLonger
<1>13. Decoded(s, new)
  <2> SUFFICES ASSUME NEW i \in 1 .. Len(s)
               PROVE  /\ s[i].kind = "audio" => AudioDecodes(s, new, i)
                      /\ IsFrame(s[i]) => VideoDecodes(s, new, i)
    BY DEF Decoded
  <2>1. CASE i = last
    <3>1. s[i] = p /\ s[i].n = Len(new) /\ new[Len(new)] = s[i].kind
      BY <1>1, <1>3, <2>1
    <3>2. \A j \in 1 .. Len(r) + 1 - 1 : s[j] = r[j]
      BY <1>3
    <3>3. IsFrame(p) => v1 = v /\ LastHanded(s, "videoSeq", i, v.n)
      <4>1. LastHanded(r, "videoSeq", Len(r) + 1, v.n)
        BY DEF UpToDate
      <4>2. LastHanded(s, "videoSeq", Len(r) + 1, v.n)
        BY <3>2, <4>1, HandedSame
      <4>3. IsFrame(p) => v1 = v
        BY DEF IsFrame
      <4> QED BY <2>1, <4>2, <4>3 DEF last
    <3>4. p.kind = "audio" => a1 = a /\ LastHanded(s, "audioSeq", i, a.n)
      <4>1. LastHanded(r, "audioSeq", Len(r) + 1, a.n)
        BY DEF UpToDate
      <4>2. LastHanded(s, "audioSeq", Len(r) + 1, a.n)
        BY <3>2, <4>1, HandedSame
      <4>3. p.kind = "audio" => a1 = a
        BY DEF IsFrame
      <4> QED BY <2>1, <4>2, <4>3 DEF last
    <3>5. IsFrame(s[i]) => LastHanded(s, "videoSeq", i, v1.n)
      BY <3>1, <3>3
    <3>6. s[i].kind = "audio" => LastHanded(s, "audioSeq", i, a1.n)
      BY <3>1, <3>4
    <3> QED BY <1>1, <3>1, <3>5, <3>6, NextDecodes
  <2>2. CASE i \in 1 .. Len(r)
    <3>1. s[i] = r[i] /\ \A j \in 1 .. i - 1 : s[j] = r[j]
      BY <1>3, <2>2
    <3>2. ASSUME NEW kind, NEW m, LastHanded(r, kind, i, m) PROVE LastHanded(s, kind, i, m)
      BY <3>1, <3>2, HandedSame
    <3>3. r[i].kind = "audio" => AudioDecodes(r, new, i)
      BY <1>2, <2>2 DEF Decoded
    <3>4. IsFrame(r[i]) => VideoDecodes(r, new, i)
      BY <1>2, <2>2 DEF Decoded
    <3>5. AudioDecodes(r, new, i) => AudioDecodes(s, new, i)
      BY <3>1, <3>2 DEF AudioDecodes
    <3>6. VideoDecodes(r, new, i) => VideoDecodes(s, new, i)
      BY <3>1, <3>2 DEF VideoDecodes
    <3> QED BY <3>1, <3>3, <3>4, <3>5, <3>6
  <2> QED BY <1>4, <2>1, <2>2
<1> QED BY <1>9, <1>10, <1>11, <1>12, <1>13

\* After the cached headers the newest ones are the last handed.
LEMMA CachedHands ==
  ASSUME NEW pub \in Seq(Kinds), NEW c, NEW k, NEW v, NEW a, Cached(c, k, pub, v, a),
         Newest(v, "videoSeq", pub), Newest(a, "audioSeq", pub), NEW i \in k + 1 .. Len(c) + 1
  PROVE  LastHanded(c, "videoSeq", i, v.n) /\ LastHanded(c, "audioSeq", i, a.n)
<1>1. /\ k \in Nat /\ Len(c) \in Nat /\ k <= Len(c)
      /\ \A j \in 1 .. Len(c) : c[j].n \in 1 .. Len(pub) /\ pub[c[j].n] = c[j].kind
      /\ \A j \in k + 1 .. Len(c) : IsFrame(c[j])
  BY DEF Cached
<1>2. \A j \in 1 .. i - 1 : j \in 1 .. Len(c) /\ (j \in 1 .. k \/ j \in k + 1 .. Len(c))
  BY <1>1
<1>3. \A j \in 1 .. k : j \in 1 .. i - 1
  BY <1>1
<1>4. ASSUME NEW h, NEW kind \in {"videoSeq", "audioSeq"}, Newest(h, kind, pub),
             \A j \in 1 .. k : c[j].kind = kind => c[j] = h,
             h # NoPacket => \E j \in 1 .. k : c[j] = h
      PROVE  LastHanded(c, kind, i, h.n)
  <2>1. \A j \in 1 .. i - 1 : c[j].kind = kind => c[j] = h
    BY <1>1, <1>2, <1>4 DEF IsFrame
  <2>2. CASE h = NoPacket /\ \A n \in 1 .. Len(pub) : pub[n] # kind
    <3>1. \A j \in 1 .. i - 1 : c[j].kind # kind
      BY <1>1, <1>2, <2>2
    <3> QED BY <2>2, <3>1 DEF LastHanded, NoPacket
  <2>3. CASE h # NoPacket
    <3>1. PICK j \in 1 .. k : c[j] = h
      BY <1>4, <2>3
    <3>2. j \in 1 .. i - 1 /\ h.kind = kind
      BY <1>3, <1>4, <2>3 DEF Newest
    <3> QED BY <2>1, <3>1, <3>2 DEF LastHanded
  <2>4. (h = NoPacket /\ \A n \in 1 .. Len(pub) : pub[n] # kind) \/ h # NoPacket
    <3>1. h \in Packets => h # NoPacket
      BY DEF Packets, Kinds, NoPacket
    <3> QED BY <1>4, <3>1 DEF Newest
  <2> QED BY <2>2, <2>3, <2>4
<1>5. /\ \A j \in 1 .. k : /\ c[j].kind = "videoSeq" => c[j] = v
                           /\ c[j].kind = "audioSeq" => c[j] = a
      /\ v # NoPacket => \E j \in 1 .. k : c[j] = v
      /\ a # NoPacket => \E j \in 1 .. k : c[j] = a
  BY DEF Cached
<1> QED BY <1>4, <1>5

\* A viewer can decode the frames of the cache.
LEMMA CachedDecodes ==
  ASSUME NEW pub \in Seq(Kinds), NEW c, NEW k, NEW v, NEW a, Cached(c, k, pub, v, a),
         Newest(v, "videoSeq", pub), Newest(a, "audioSeq", pub),
         NEW t \in 0 .. Len(c), NEW s, \A j \in 1 .. t : s[j] = c[j], NEW i \in 1 .. t
  PROVE  /\ s[i].kind = "audio" => AudioDecodes(s, pub, i)
         /\ IsFrame(s[i]) => VideoDecodes(s, pub, i)
<1>1. /\ k \in Nat /\ Len(c) \in Nat /\ k <= Len(c)
      /\ \A j \in k + 1 .. Len(c) : IsFrame(c[j])
      /\ \A j \in 1 .. k : c[j].kind \in {"metadata", "videoSeq", "audioSeq"}
  BY DEF Cached
<1>2. /\ s[i] = c[i] /\ (\A j \in 1 .. i - 1 : s[j] = c[j])
      /\ i \in 1 .. k \/ i \in k + 1 .. Len(c)
  BY <1>1
<1>3. CASE i \in 1 .. k
  BY <1>1, <1>2, <1>3 DEF IsFrame
<1>4. CASE i \in k + 1 .. Len(c)
  <2>1. LastHanded(c, "videoSeq", i, v.n)
    <3>1. i \in k + 1 .. Len(c) + 1
      BY <1>1, <1>4
    <3> QED BY <3>1, CachedHands
  <2>2. LastHanded(s, "videoSeq", i, v.n)
    BY <1>2, <2>1, HandedSame
  <2>3. v.n \in Nat /\ NoneBetween(pub, "videoSeq", v.n, s[i].n)
    BY NewestIs DEF NoneBetween
  <2>4. VideoDecodes(s, pub, i)
    BY <2>2, <2>3 DEF VideoDecodes
  <2> QED BY <1>1, <1>2, <1>4, <2>4 DEF IsFrame
<1> QED BY <1>2, <1>3, <1>4

\* The first t of a sequence.
PrefixOf(s, c, t) == s = SubSeq(c, 1, t)

\* A viewer that left while it was sent the cache.
LEMMA CutShort ==
  ASSUME NEW pub \in Seq(Kinds), NEW c, NEW k, NEW v, NEW a, Cached(c, k, pub, v, a),
         Newest(v, "videoSeq", pub), Newest(a, "audioSeq", pub),
         NEW t \in 0 .. Len(c), NEW s, PrefixOf(s, c, t)
  PROVE  Real(s, pub) /\ NoGap(s, pub) /\ Decoded(s, pub)
<1>1. /\ c \in Seq(Packets) /\ k \in Nat /\ Len(c) \in Nat /\ k <= Len(c)
      /\ \A j \in 1 .. Len(c) : c[j].n \in 1 .. Len(pub) /\ pub[c[j].n] = c[j].kind
      /\ \A j \in k + 1 .. Len(c) : IsFrame(c[j])
      /\ \A j \in 1 .. k : c[j].kind \in {"metadata", "videoSeq", "audioSeq"}
      /\ \A i, j \in k + 1 .. Len(c) : i < j => c[i].n < c[j].n
      /\ k < Len(c) => /\ c[k + 1].kind = "key"
                       /\ \A n \in FramesIn(pub) : c[k + 1].n <= n =>
                            \E i \in k + 1 .. Len(c) : c[i].n = n
  BY DEF Cached
<1>2. /\ s \in Seq(Packets) /\ Len(s) = t /\ t \in Nat
      /\ \A j \in 1 .. t : s[j] = c[j] /\ j \in 1 .. Len(c)
  <2>1. 1 \in 1 .. Len(c) + 1 /\ t \in 1 - 1 .. Len(c)
    BY <1>1
  <2>2. s \in Seq(Packets) /\ Len(s) = t - 1 + 1 /\ \A j \in 1 .. t - 1 + 1 : s[j] = c[1 + j - 1]
    BY <1>1, <2>1, SubSeqProperties DEF PrefixOf
  <2> QED BY <1>1, <2>1, <2>2
<1>3. Real(s, pub)
  BY <1>1, <1>2 DEF Real
<1>4. \A i \in Had(s) : i \in k + 1 .. Len(c) /\ i <= t /\ s[i] = c[i]
  <2> SUFFICES ASSUME NEW i \in Had(s) PROVE i \in k + 1 .. Len(c) /\ i <= t /\ s[i] = c[i]
    OBVIOUS
  <2>1. i \in 1 .. t /\ i \in 1 .. Len(c) /\ s[i] = c[i] /\ c[i].kind \in {"key", "inter"}
    BY <1>2 DEF Had, IsFrame
  <2>2. ~(i \in 1 .. k)
    BY <1>1, <2>1
  <2> QED BY <1>1, <2>1, <2>2
<1>5. \A i \in k + 1 .. Len(c) : i <= t => i \in Had(s) /\ s[i] = c[i]
  BY <1>1, <1>2 DEF Had
<1>6. \A i, j \in Had(s) : i < j => s[i].n < s[j].n
  BY <1>1, <1>4
<1>7. \A i \in Had(s) : s[i].n \in Nat
  <2>1. \A j \in 1 .. Len(c) : c[j].n \in Nat
    BY <1>1
  <2> QED BY <1>2, <2>1 DEF Had
<1>8. ASSUME NEW i \in Had(s), NEW j \in Had(s), NEW n \in FramesIn(pub),
             s[i].n <= n, n <= s[j].n
      PROVE  \E h \in Had(s) : s[h].n = n
  <2>1. i \in k + 1 .. Len(c) /\ k < Len(c) /\ k + 1 \in k + 1 .. Len(c) /\ k + 1 <= i /\ k + 1 <= t
    BY <1>1, <1>2, <1>4
  <2>2. k + 1 \in Had(s) /\ s[k + 1] = c[k + 1]
    BY <1>5, <2>1
  <2>3. s[k + 1].n <= s[i].n
    <3>1. CASE k + 1 = i
      BY <1>7, <3>1
    <3>2. CASE k + 1 < i
      BY <1>6, <1>7, <2>2, <3>2
    <3> QED BY <1>1, <2>1, <3>1, <3>2
  <2>4. n \in Nat
    BY DEF FramesIn
  <2>5. c[k + 1].n <= n
    BY <1>7, <1>8, <2>2, <2>3, <2>4
  <2>6. PICK h \in k + 1 .. Len(c) : c[h].n = n
    BY <1>1, <2>1, <2>5
  <2>7. h <= j
    <3> SUFFICES ASSUME j < h PROVE FALSE
      BY <1>1, <1>4
    <3>1. c[j].n < c[h].n /\ c[j] = s[j]
      BY <1>1, <1>4
    <3> QED BY <1>7, <1>8, <2>4, <2>6, <3>1
  <2>8. h <= t
    BY <1>1, <1>2, <1>4, <2>7
  <2> QED BY <1>5, <2>6, <2>8
<1>9. ASSUME NEW i \in Had(s), s[i].kind = "inter", \A j \in Had(s) : i <= j PROVE FALSE
  <2>1. k < Len(c) /\ k + 1 \in k + 1 .. Len(c) /\ k + 1 <= t
    BY <1>1, <1>2, <1>4
  <2>2. k + 1 \in Had(s)
    BY <1>5, <2>1
  <2>3. i = k + 1
    BY <1>1, <1>4, <1>9, <2>2
  <2> QED BY <1>1, <1>4, <1>9, <2>1, <2>3
<1>10. NoGap(s, pub)
  <2>1. \A i, j \in Had(s) : i < j => s[i].n <= s[j].n /\ s[i].n # s[j].n
    BY <1>6, <1>7
  <2>2. \A i, j \in Had(s) : \A n \in FramesIn(pub) :
          s[i].n <= n /\ n <= s[j].n => \E h \in Had(s) : s[h].n = n
    BY <1>8
  <2>3. \A i \in Had(s) : ~(s[i].kind = "inter" /\ \A j \in Had(s) : i <= j)
    BY <1>9
  <2> QED BY <2>1, <2>2, <2>3 DEF NoGap
<1>11. Decoded(s, pub)
  BY <1>2, CachedDecodes DEF Decoded
<1> QED BY <1>3, <1>10, <1>11

\* A viewer that was sent the whole cache and then the packet just published.
LEMMA Joined ==
  ASSUME NEW pub \in Seq(Kinds), NEW c, NEW k, NEW v, NEW a, Cached(c, k, pub, v, a),
         Newest(v, "videoSeq", pub), Newest(a, "audioSeq", pub),
         NEW p \in Packets, Len(pub) # 0, p.n = Len(pub), pub[Len(pub)] = p.kind,
         NEW s, OneLonger(s, c, p)
  PROVE  Real(s, pub) /\ NoGap(s, pub) /\ Decoded(s, pub) /\ AllSince(s, pub) /\ UpToDate(s, v, a)
<1> DEFINE last == Len(c) + 1
<1>1. /\ c \in Seq(Packets) /\ k \in Nat /\ Len(c) \in Nat /\ k <= Len(c)
      /\ \A j \in 1 .. Len(c) : c[j].n \in 1 .. Len(pub) /\ pub[c[j].n] = c[j].kind
      /\ \A j \in k + 1 .. Len(c) : IsFrame(c[j])
      /\ \A j \in 1 .. k : c[j].kind \in {"metadata", "videoSeq", "audioSeq"}
      /\ \A i, j \in k + 1 .. Len(c) : i < j => c[i].n < c[j].n
      /\ k < Len(c) => /\ c[k + 1].kind = "key"
                       /\ \A n \in FramesIn(pub) : c[k + 1].n <= n =>
                            \E i \in k + 1 .. Len(c) : c[i].n = n
      /\ k = Len(c) => \A n \in 1 .. Len(pub) : pub[n] # "key"
  BY DEF Cached
<1>2. /\ s \in Seq(Packets) /\ Len(s) = last /\ s[last] = p
      /\ \A j \in 1 .. Len(c) : s[j] = c[j]
  BY <1>1, AppendProperties DEF OneLonger
<1>3. Len(pub) \in Nat /\ Len(pub) \in 1 .. Len(pub)
  OBVIOUS
<1>4. /\ last \in 1 .. Len(s)
      /\ \A i \in 1 .. Len(s) : i = last \/ i \in 1 .. Len(c)
      /\ \A i \in 1 .. Len(c) : i \in 1 .. Len(s) /\ (i \in 1 .. k \/ i \in k + 1 .. Len(c))
      /\ \A i \in k + 1 .. Len(c) : i \in 1 .. Len(c) /\ i < last
  BY <1>1, <1>2
<1>5. LastHanded(c, "videoSeq", last, v.n) /\ LastHanded(c, "audioSeq", last, a.n)
  <2>1. last \in k + 1 .. Len(c) + 1
    BY <1>1
  <2> QED BY <2>1, CachedHands
<1>6. UpToDate(s, v, a)
  <2>1. ASSUME NEW kind, NEW h, Newest(h, kind, pub), LastHanded(c, kind, last, h.n)
        PROVE  LastHanded(s, kind, Len(s) + 1, h.n)
    <3>1. LastHanded(s, kind, Len(s) + 1, (IF p.kind = kind THEN p ELSE h).n)
      BY <1>1, <2>1, HandedMore DEF OneLonger
    <3>2. ASSUME p.kind = kind PROVE p.n = h.n
      <4>1. h.n \in Nat /\ (h.n = 0 \/ h.n \in 1 .. Len(pub)) /\ Len(pub) <= h.n
        BY <1>3, <2>1, <3>2, NewestIs
      <4> QED BY <1>3, <4>1
    <3> QED BY <3>1, <3>2
  <2> QED BY <1>5, <2>1 DEF UpToDate
<1> HIDE DEF last
<1>7. /\ \A i \in Had(s) : (i \in k + 1 .. Len(c) /\ s[i] = c[i]) \/ (i = last /\ s[i] = p)
      /\ \A i \in k + 1 .. Len(c) : i \in Had(s) /\ s[i] = c[i]
      /\ IsFrame(p) <=> last \in Had(s)
  <2>1. ASSUME NEW i \in Had(s)
        PROVE  (i \in k + 1 .. Len(c) /\ s[i] = c[i]) \/ (i = last /\ s[i] = p)
    <3>1. i \in 1 .. Len(s) /\ s[i].kind \in {"key", "inter"}
      BY DEF Had, IsFrame
    <3>2. CASE i = last
      BY <1>2, <3>2
    <3>3. CASE i \in 1 .. Len(c)
      <4>1. s[i] = c[i] /\ ~(i \in 1 .. k)
        BY <1>1, <1>2, <3>1, <3>3
      <4> QED BY <1>4, <3>3, <4>1
    <3> QED BY <1>4, <3>1, <3>2, <3>3
  <2>2. \A i \in k + 1 .. Len(c) : i \in Had(s) /\ s[i] = c[i]
    BY <1>1, <1>2, <1>4 DEF Had
  <2>3. IsFrame(p) <=> last \in Had(s)
    BY <1>2, <1>4 DEF Had
  <2> QED BY <2>1, <2>2, <2>3
<1>8. \A i \in Had(s) : s[i].n \in 1 .. Len(pub) /\ (i = last => s[i].n = Len(pub))
  BY <1>1, <1>2, <1>3, <1>4, <1>7
<1>9. Real(s, pub)
  <2>1. \A i \in 1 .. Len(s) : s[i].n \in 1 .. Len(pub) /\ pub[s[i].n] = s[i].kind
    BY <1>1, <1>2, <1>3, <1>4
  <2> QED BY <1>2, <2>1 DEF Real
<1>10. ASSUME NEW i \in Had(s), i # last
       PROVE  /\ k < Len(c) /\ k + 1 \in k + 1 .. Len(c) /\ k + 1 <= i /\ k + 1 \in Had(s)
              /\ s[k + 1].n <= s[i].n
  <2>1. i \in k + 1 .. Len(c)
    BY <1>7, <1>10
  <2>2. k < Len(c) /\ k + 1 \in k + 1 .. Len(c) /\ k + 1 <= i
    BY <1>1, <2>1
  <2>3. k + 1 \in Had(s) /\ s[k + 1] = c[k + 1] /\ s[i] = c[i]
    BY <1>7, <2>1, <2>2
  <2>4. CASE k + 1 = i
    <3>1. s[i].n \in Nat
      BY <1>3, <1>8
    <3> QED BY <2>2, <2>3, <2>4, <3>1
  <2>5. CASE k + 1 < i
    <3>1. s[k + 1].n < s[i].n /\ s[i].n \in Nat /\ s[k + 1].n \in Nat
      BY <1>1, <1>3, <1>8, <2>1, <2>2, <2>3, <2>5
    <3> QED BY <2>2, <2>3, <3>1
  <2> QED BY <1>1, <2>1, <2>2, <2>4, <2>5
<1>11. AllSince(s, pub)
  <2>1. ASSUME NEW i \in Had(s), NEW n \in FramesIn(pub), s[i].n <= n
        PROVE  \E h \in Had(s) : s[h].n = n
    <3>1. n \in 1 .. Len(pub) /\ pub[n] \in {"key", "inter"}
      BY DEF FramesIn
    <3>2. CASE n = Len(pub)
      <4>1. last \in Had(s) /\ s[last] = p
        BY <1>2, <1>7, <3>1, <3>2 DEF IsFrame
      <4> QED BY <3>2, <4>1
    <3>3. CASE n # Len(pub)
      <4>1. i # last
        BY <1>3, <1>8, <2>1, <3>1, <3>3
      <4>2. k < Len(c) /\ k + 1 \in k + 1 .. Len(c) /\ s[k + 1].n <= s[i].n /\ k + 1 \in Had(s)
        BY <1>10, <4>1
      <4>3. s[k + 1] = c[k + 1] /\ s[k + 1].n \in Nat /\ s[i].n \in Nat /\ n \in Nat
        BY <1>3, <1>7, <1>8, <3>1, <4>2
      <4>4. c[k + 1].n <= n
        BY <2>1, <4>2, <4>3
      <4>5. PICK h \in k + 1 .. Len(c) : c[h].n = n
        BY <1>1, <4>2, <4>4
      <4> QED BY <1>7, <4>5
    <3> QED BY <3>2, <3>3
  <2>2. ASSUME Had(s) = {} PROVE \A n \in 1 .. Len(pub) : pub[n] # "key"
    <3>1. ~(k + 1 \in k + 1 .. Len(c))
      BY <1>7, <2>2
    <3>2. k = Len(c)
      BY <1>1, <3>1
    <3> QED BY <1>1, <3>2
  <2> QED BY <2>1, <2>2 DEF AllSince
<1>12. NoGap(s, pub)
  <2>1. ASSUME NEW i \in Had(s), NEW j \in Had(s), i < j
        PROVE  /\ i \in k + 1 .. Len(c) /\ s[i] = c[i] /\ s[i].n <= s[j].n
               /\ s[i].n = s[j].n => j = last /\ s[i].n = Len(pub)
    <3>1. i # last
      BY <1>1, <1>4, <1>7, <2>1 DEF last
    <3>2. i \in k + 1 .. Len(c) /\ s[i] = c[i]
      BY <1>7, <3>1
    <3>3. CASE j = last
      <4>1. s[j].n = Len(pub) /\ s[i].n \in 1 .. Len(pub)
        BY <1>8, <3>3
      <4> QED BY <1>3, <3>2, <3>3, <4>1
    <3>4. CASE j # last
      <4>1. j \in k + 1 .. Len(c) /\ s[j] = c[j]
        BY <1>7, <3>4
      <4>2. s[i].n < s[j].n
        BY <1>1, <2>1, <3>2, <4>1
      <4>3. s[i].n \in Nat /\ s[j].n \in Nat
        BY <1>3, <1>8
      <4> QED BY <3>2, <4>2, <4>3
    <3> QED BY <3>3, <3>4
  <2>2. ASSUME NEW i \in Had(s), NEW j \in Had(s), NEW g \in Had(s), NEW l \in Had(s),
               i < j, g < l, s[i].n = s[j].n, s[g].n = s[l].n
        PROVE  i = g /\ j = l
    <3>1. /\ j = last /\ l = last /\ s[i].n = Len(pub) /\ s[g].n = Len(pub)
          /\ i \in k + 1 .. Len(c) /\ g \in k + 1 .. Len(c) /\ s[i] = c[i] /\ s[g] = c[g]
      BY <2>1, <2>2
    <3>2. ~(i < g) /\ ~(g < i)
      BY <1>1, <1>3, <3>1
    <3> QED BY <1>1, <3>1, <3>2
  <2>3. \A i, j \in Had(s) : \A n \in FramesIn(pub) :
          s[i].n <= n /\ n <= s[j].n => \E h \in Had(s) : s[h].n = n
    BY <1>11 DEF AllSince
  <2>4. ASSUME NEW i \in Had(s), s[i].kind = "inter", \A j \in Had(s) : i <= j
        PROVE  \A n \in 1 .. Len(pub) : pub[n] # "key"
    <3>1. CASE i = last
      <4>1. ~(k + 1 \in k + 1 .. Len(c))
        <5> SUFFICES ASSUME k + 1 \in k + 1 .. Len(c) PROVE FALSE
          OBVIOUS
        <5>1. k + 1 \in Had(s) /\ k + 1 < last /\ last \in Nat
          BY <1>1, <1>4, <1>7 DEF last
        <5> QED BY <1>1, <2>4, <3>1, <5>1
      <4>2. k = Len(c)
        BY <1>1, <4>1
      <4> QED BY <1>1, <4>2
    <3>2. CASE i # last
      <4>1. k < Len(c) /\ k + 1 \in Had(s) /\ k + 1 <= i /\ k + 1 \in k + 1 .. Len(c)
        BY <1>10, <3>2
      <4>2. i = k + 1
        BY <1>1, <1>7, <2>4, <3>2, <4>1
      <4> QED BY <1>1, <1>7, <2>4, <4>1, <4>2
    <3> QED BY <3>1, <3>2
  <2>5. \A i, j \in Had(s) : i < j => s[i].n <= s[j].n
    BY <2>1
  <2> QED BY <2>2, <2>3, <2>4, <2>5 DEF NoGap
<1>13. Decoded(s, pub)
  <2> SUFFICES ASSUME NEW i \in 1 .. Len(s)
               PROVE  /\ s[i].kind = "audio" => AudioDecodes(s, pub, i)
                      /\ IsFrame(s[i]) => VideoDecodes(s, pub, i)
    BY DEF Decoded
  <2>1. CASE i = last
    <3>1. s[i].n = Len(pub) /\ pub[Len(pub)] = s[i].kind
      BY <1>2, <2>1
    <3>2. \A j \in 1 .. i - 1 : s[j] = c[j]
      BY <1>1, <1>2, <2>1 DEF last
    <3>3. LastHanded(s, "videoSeq", i, v.n) /\ LastHanded(s, "audioSeq", i, a.n)
      BY <1>5, <2>1, <3>2, HandedSame
    <3> QED BY <3>1, <3>3, NextDecodes
  <2>2. CASE i \in 1 .. Len(c)
    <3>1. Len(c) \in 0 .. Len(c)
      BY <1>1
    <3> QED BY <1>2, <2>2, <3>1, CachedDecodes
  <2> QED BY <1>4, <2>1, <2>2
<1> QED BY <1>6, <1>9, <1>11, <1>12, <1>13

-----------------------------------------------------------------------------
(* The inductive invariant.                                                  *)

ViewerFits ==
  /\ viewer \in {"absent", "new", "live", "gone"}
  /\ viewer \in {"absent", "new"} => received = <<>>
  /\ Real(received, published) /\ NoGap(received, published) /\ Decoded(received, published)
  /\ viewer = "live" => AllSince(received, published) /\ UpToDate(received, videoSeq, audioSeq)

IInv == RingShape /\ Holds(GopsOldestFirst, published) /\ HeadersNewest /\ ViewerFits

\* Nothing has been handed to nobody.
LEMMA NothingYet == ASSUME NEW pub \in Seq(Kinds) PROVE Real(<<>>, pub) /\ NoGap(<<>>, pub) /\ Decoded(<<>>, pub)
<1>1. Len(<<>>) = 0 /\ <<>> \in Seq(Packets)
  OBVIOUS
<1>2. \A i \in 1 .. 0 : FALSE
  OBVIOUS
<1> QED BY <1>1, <1>2 DEF Real, NoGap, Decoded, Had

\* A publisher starts with no header, no frame and no viewer.
LEMMA InitFits == Init => HeadersNewest /\ Holds(GopsOldestFirst, published) /\ ViewerFits
<1> SUFFICES ASSUME Init PROVE HeadersNewest /\ Holds(GopsOldestFirst, published) /\ ViewerFits
  OBVIOUS
<1>1. RingShape /\ GopsOldestFirst = <<>>
  BY InitRing DEF Window!Init
<1>2. published = <<>> /\ Len(<<>>) = 0 /\ published \in Seq(Kinds) /\ \A i \in 1 .. 0 : FALSE
  BY DEF Init
<1>3. HeadersNewest
  BY <1>2 DEF Init, HeadersNewest, Newest
<1>4. Holds(<<>>, <<>>)
  BY <1>2 DEF Holds, Ordered
<1>5. ViewerFits
  BY <1>2, NothingYet DEF Init, ViewerFits
<1> QED BY <1>1, <1>2, <1>3, <1>4, <1>5

\* What is published is a packet, and the newest of its kind.
LEMMA HeadersStep ==
  ASSUME RingShape, HeadersNewest, NEW kind \in Sent, Publish(kind),
         NEW p, p = [kind |-> kind, n |-> Len(published) + 1]
  PROVE  /\ p \in Packets /\ p.kind = kind /\ p.n = Len(published) + 1
         /\ published' = Append(published, p.kind) /\ Serve(p) /\ HeadersNewest'
         /\ videoSeq' = IF p.kind = "videoSeq" THEN p ELSE videoSeq
         /\ audioSeq' = IF p.kind = "audioSeq" THEN p ELSE audioSeq
<1>1. /\ p \in Packets /\ p.kind = kind /\ p.n = Len(published) + 1
      /\ published' = Append(published, p.kind) /\ Serve(p) /\ CacheAdd(p)
  <2>1. Len(published) \in Nat /\ Len(published) < MaxPackets /\ MaxPackets \in Nat /\ kind \in Kinds
    BY CacheAssumption DEF Publish, RingShape
  <2> QED BY <2>1 DEF Publish, Packets
<1>2. /\ metadata' = IF p.kind = "metadata" THEN p ELSE metadata
      /\ videoSeq' = IF p.kind = "videoSeq" THEN p ELSE videoSeq
      /\ audioSeq' = IF p.kind = "audioSeq" THEN p ELSE audioSeq
  BY <1>1 DEF CacheAdd
<1>3. /\ Newest(metadata', "metadata", Append(published, p.kind))
      /\ Newest(videoSeq', "videoSeq", Append(published, p.kind))
      /\ Newest(audioSeq', "audioSeq", Append(published, p.kind))
  BY <1>1, <1>2, NewestStep DEF HeadersNewest, RingShape
<1>4. HeadersNewest'
  BY <1>1, <1>3 DEF HeadersNewest
<1> QED BY <1>1, <1>2, <1>4

\* What a live viewer has.
Fits(r, pub, v, a) ==
  Real(r, pub) /\ NoGap(r, pub) /\ Decoded(r, pub) /\ AllSince(r, pub) /\ UpToDate(r, v, a)
Renewed(v1, v, kind, p) == v1 = IF p.kind = kind THEN p ELSE v

\* The packet just published reaches a live viewer.
LEMMA LiveStep ==
  ASSUME NEW r, NEW pub, NEW p, NEW v, NEW a, NEW v1, NEW a1, NEW new, NEW s,
         pub \in Seq(Kinds), p \in Packets, p.n = Len(pub) + 1, Fits(r, pub, v, a),
         Renewed(v1, v, "videoSeq", p), Renewed(a1, a, "audioSeq", p),
         OneLonger(new, pub, p.kind), OneLonger(s, r, p),
         Newest(v1, "videoSeq", new), Newest(a1, "audioSeq", new)
  PROVE  Fits(s, new, v1, a1)
<1>1. /\ v1 = IF p.kind = "videoSeq" THEN p ELSE v
      /\ a1 = IF p.kind = "audioSeq" THEN p ELSE a
  BY DEF Renewed
<1>2. Real(r, pub) /\ NoGap(r, pub) /\ Decoded(r, pub) /\ AllSince(r, pub) /\ UpToDate(r, v, a)
  BY DEF Fits
<1>3. Real(s, new) /\ NoGap(s, new) /\ Decoded(s, new) /\ AllSince(s, new) /\ UpToDate(s, v1, a1)
  BY <1>1, <1>2, Given
<1> QED BY <1>3 DEF Fits

\* Every step keeps what the viewer had right.
LEMMA ViewerStep == IInv /\ [Next]_vars => HeadersNewest' /\ ViewerFits'
<1> SUFFICES ASSUME IInv, [Next]_vars PROVE HeadersNewest' /\ ViewerFits'
  OBVIOUS
<1>1. RingShape' /\ Holds(GopsOldestFirst, published)'
  BY RingStep, WindowHolds DEF IInv
<1>2. CASE UNCHANGED vars
  <2>1. /\ UNCHANGED <<metadata, videoSeq, audioSeq, viewer, received, published>>
    BY <1>2 DEF vars, headerVars, viewerVars
  <2> QED BY <2>1 DEF IInv, HeadersNewest, ViewerFits
<1>3. CASE Join
  <2>1. UNCHANGED <<metadata, videoSeq, audioSeq, received, published>> /\ viewer = "absent" /\ viewer' = "new"
    BY <1>3 DEF Join, headerVars
  <2> QED BY <2>1 DEF IInv, HeadersNewest, ViewerFits
<1>4. ASSUME NEW kind \in Sent, Publish(kind) PROVE HeadersNewest' /\ ViewerFits'
  <2> DEFINE p == [kind |-> kind, n |-> Len(published) + 1]
             pub == published
             new == published'
  <2>1. /\ p \in Packets /\ p.kind = kind /\ p.n = Len(pub) + 1
        /\ new = Append(pub, p.kind) /\ Serve(p) /\ HeadersNewest'
        /\ videoSeq' = IF p.kind = "videoSeq" THEN p ELSE videoSeq
        /\ audioSeq' = IF p.kind = "audioSeq" THEN p ELSE audioSeq
    BY <1>4, HeadersStep DEF IInv
  <2> HIDE DEF p, new
  <2>2. /\ pub \in Seq(Kinds) /\ p.kind \in Kinds /\ new \in Seq(Kinds)
        /\ Len(new) = Len(pub) + 1 /\ Len(pub) \in Nat /\ new[Len(pub) + 1] = p.kind
    BY <2>1, OneMore DEF IInv, RingShape, Packets
  <2>3. /\ Newest(videoSeq', "videoSeq", new) /\ Newest(audioSeq', "audioSeq", new)
    BY <2>1 DEF HeadersNewest, new
  <2>4. PICK k \in Nat : Cached(CacheSends', k, new, videoSeq', audioSeq')
    <3>1. (RingShape /\ Holds(GopsOldestFirst, published) /\ HeadersNewest)'
            => (\E k \in Nat : Cached(CacheSends, k, published, videoSeq, audioSeq))'
      BY CachedIs, PTL
    <3> QED BY <1>1, <2>1, <3>1 DEF new
  <2>5. Real(received, pub) /\ NoGap(received, pub) /\ Decoded(received, pub)
    BY DEF IInv, ViewerFits
  <2>6. Real(received, new) /\ NoGap(received, new) /\ Decoded(received, new)
    BY <2>1, <2>2, <2>5, LaterStill
  <2>7. viewer \in {"absent", "new", "live", "gone"} /\ (viewer \in {"absent", "new"} => received = <<>>)
    BY DEF IInv, ViewerFits
  <2>8. CASE viewer \in {"absent", "gone"} /\ UNCHANGED viewerVars
    BY <2>1, <2>6, <2>7, <2>8 DEF viewerVars, ViewerFits, new
  <2>9. CASE viewer = "new" /\ viewer' = "live" /\ received' = Append(CacheSends', p)
    <3>1. OneLonger(received', CacheSends', p)
      BY <2>9 DEF OneLonger
    <3>2. Len(new) # 0 /\ p.n = Len(new) /\ new[Len(new)] = p.kind
      BY <2>1, <2>2
    <3>3. /\ Real(received', new) /\ NoGap(received', new) /\ Decoded(received', new)
          /\ AllSince(received', new) /\ UpToDate(received', videoSeq', audioSeq')
      BY <2>1, <2>2, <2>3, <2>4, <3>1, <3>2, Joined
    <3> QED BY <2>1, <2>9, <3>3 DEF ViewerFits, new
  <2>10. CASE /\ viewer = "new" /\ viewer' = "gone"
              /\ \E taken \in 0 .. Len(CacheSends') : received' = SubSeq(CacheSends', 1, taken)
    <3>1. PICK taken \in 0 .. Len(CacheSends') : received' = SubSeq(CacheSends', 1, taken)
      BY <2>10
    <3>2. PrefixOf(received', CacheSends', taken)
      BY <3>1 DEF PrefixOf
    <3>3. Real(received', new) /\ NoGap(received', new) /\ Decoded(received', new)
      BY <2>2, <2>3, <2>4, <3>2, CutShort
    <3> QED BY <2>1, <2>10, <3>3 DEF ViewerFits, new
  <2>11. CASE viewer = "live" /\ received' = Append(received, p) /\ UNCHANGED viewer
    <3>1. AllSince(received, pub) /\ UpToDate(received, videoSeq, audioSeq)
      BY <2>11 DEF IInv, ViewerFits
    <3>2. OneLonger(received', received, p) /\ OneLonger(new, pub, p.kind)
      BY <2>1, <2>11 DEF OneLonger
    <3>3. /\ Real(received', new) /\ NoGap(received', new) /\ Decoded(received', new)
          /\ AllSince(received', new) /\ UpToDate(received', videoSeq', audioSeq')
      <4> DEFINE v1 == videoSeq'
                 a1 == audioSeq'
                 s == received'
      <4>1. Renewed(v1, videoSeq, "videoSeq", p) /\ Renewed(a1, audioSeq, "audioSeq", p)
        BY <2>1 DEF Renewed
      <4>2. Newest(v1, "videoSeq", new) /\ Newest(a1, "audioSeq", new) /\ OneLonger(s, received, p)
        BY <2>3, <3>2
      <4>3. Fits(received, pub, videoSeq, audioSeq)
        BY <2>5, <3>1 DEF Fits
      <4> HIDE DEF v1, a1, s
      <4>4. Fits(s, new, v1, a1)
        BY <2>1, <2>2, <3>2, <4>1, <4>2, <4>3, LiveStep
      <4> QED BY <4>4 DEF v1, a1, s, Fits
    <3> QED BY <2>1, <2>11, <3>3 DEF ViewerFits, new
  <2>12. CASE viewer = "live" /\ viewer' = "gone" /\ UNCHANGED received
    BY <2>1, <2>6, <2>12 DEF ViewerFits, new
  <2>13. Serve(p)
    BY <2>1
  <2> QED BY <2>1, <2>8, <2>9, <2>10, <2>11, <2>12, <2>13 DEF Serve, viewerVars
<1> QED BY <1>2, <1>3, <1>4 DEF Next

\* The invariant holds in every reachable state.
THEOREM Invariance == Spec => []IInv
<1>1. Init => IInv
  BY InitRing, InitFits DEF IInv
<1>2. IInv /\ [Next]_vars => IInv'
  <2>1. IInv /\ [Next]_vars => RingShape' /\ Holds(GopsOldestFirst, published)'
    BY RingStep, WindowHolds DEF IInv
  <2>2. IInv /\ [Next]_vars => HeadersNewest' /\ ViewerFits'
    BY ViewerStep
  <2> QED BY <2>1, <2>2 DEF IInv
<1> QED BY <1>1, <1>2, PTL DEF Spec

\* A viewer that joined after a key frame starts with one and has every frame
\* from then on, in order, at most one of them twice, whatever the number of
\* groups the cache keeps and however long the stream.
THEOREM NothingMissing == Spec => []GapFree
<1>1. IInv => GapFree
  <2> SUFFICES ASSUME IInv PROVE GapFree
    OBVIOUS
  <2>1. FramesHad = Had(received) /\ FramesAt = FramesIn(published)
    BY DEF FramesHad, Had, FramesAt, At, FramesIn
  <2>2. NoGap(received, published) /\ (viewer = "live" => AllSince(received, published))
    BY DEF IInv, ViewerFits
  <2>3. \A i, j \in FramesHad : i < j => received[i].n <= received[j].n
    BY <2>1, <2>2 DEF NoGap
  <2>4. \A i, j, k, l \in FramesHad :
          i < j /\ k < l /\ received[i].n = received[j].n /\ received[k].n = received[l].n
            => i = k /\ j = l
    BY <2>1, <2>2 DEF NoGap
  <2>5. \A i, j \in FramesHad : \A n \in FramesAt :
          received[i].n <= n /\ (viewer = "live" \/ n <= received[j].n) => IsHad(n)
    BY <2>1, <2>2 DEF NoGap, AllSince, IsHad
  <2>6. \A i \in FramesHad :
          received[i].kind = "inter" /\ (\A j \in FramesHad : i <= j)
            => \A n \in At("key") : n > received[i].n
    BY <2>1, <2>2 DEF NoGap, At
  <2> QED BY <2>3, <2>4, <2>5, <2>6 DEF GapFree
<1> QED BY <1>1, Invariance, PTL

\* The last header handed over is the one LastHanded names.
LEMMA HandedIs ==
  ASSUME NEW header, NEW i \in 1 .. Len(received), NEW m, LastHanded(received, header, i, m),
         received \in Seq(Packets)
  PROVE  Handed(header, i) = m
<1> DEFINE before == {j \in 1 .. i - 1 : received[j].kind = header}
<1>1. Handed(header, i) = IF before = {} THEN 0 ELSE received[Max(before)].n
  BY DEF Handed
<1>2. CASE before = {}
  <2>1. m = 0
    BY <1>2 DEF LastHanded
  <2> QED BY <1>1, <1>2, <2>1
<1>3. CASE before # {}
  <2>1. before \subseteq Nat /\ i \in Nat /\ \A j \in before : j <= i
    OBVIOUS
  <2>2. Max(before) \in before /\ \A j \in before : j <= Max(before)
    <3> HIDE DEF before
    <3> QED BY <1>3, <2>1, MaxIs
  <2>3. PICK j \in 1 .. i - 1 : /\ received[j].kind = header /\ received[j].n = m
                                /\ \A l \in 1 .. i - 1 : received[l].kind = header => l <= j \/ received[l].n = m
    BY <1>3 DEF LastHanded
  <2>4. j \in before
    BY <2>3
  <2>5. Max(before) = j \/ received[Max(before)].n = m
    <3> DEFINE top == Max(before)
    <3>1. top \in 1 .. i - 1 /\ received[top].kind = header /\ j <= top
      BY <2>2, <2>4
    <3> HIDE DEF top
    <3>2. top <= j \/ received[top].n = m
      BY <2>3, <3>1
    <3>3. top = j \/ received[top].n = m
      BY <3>1, <3>2
    <3> QED BY <3>3 DEF top
  <2> QED BY <1>1, <1>3, <2>3, <2>5
<1> QED BY <1>2, <1>3

\* The header in force is the newest before the packet.
LEMMA InForceIs ==
  ASSUME NEW header, NEW n \in Nat, NEW m \in Nat, published \in Seq(Kinds),
         NoneBetween(published, header, m, n)
  PROVE  /\ InForce(header, n) <= m
         /\ m = 0 \/ (m \in 1 .. Len(published) /\ m < n /\ published[m] = header)
              => InForce(header, n) = m
<1> DEFINE T == {0} \cup {l \in At(header) : l < n}
<1>1. InForce(header, n) = Max(T)
  BY DEF InForce
<1>2. T \subseteq Nat /\ T # {} /\ \A l \in T : l <= n
  BY DEF At
<1>3. Max(T) \in T /\ \A l \in T : l <= Max(T)
  <2> HIDE DEF T
  <2> QED BY <1>2, MaxIs
<1>4. \A l \in T : l <= m
  BY DEF At, NoneBetween
<1>5. m = 0 \/ (m \in 1 .. Len(published) /\ m < n /\ published[m] = header) => m \in T
  BY DEF At
<1> DEFINE top == Max(T)
<1>6. top \in Nat /\ top <= m /\ (m \in T => m <= top)
  BY <1>2, <1>3, <1>4
<1> HIDE DEF top, T
<1>7. m \in T => top = m
  BY <1>6
<1> QED BY <1>1, <1>5, <1>6, <1>7 DEF top

\* Every audio frame reaches the viewer's decoder with the header it was coded
\* with, every video frame with that one or a newer.
THEOREM HeadersReachFirst == Spec => []HeadersFirst
<1>1. IInv => HeadersFirst
  <2> SUFFICES ASSUME IInv, NEW i \in 1 .. Len(received)
               PROVE  /\ received[i].kind = "audio" =>
                           Handed("audioSeq", i) = InForce("audioSeq", received[i].n)
                      /\ IsFrame(received[i]) =>
                           Handed("videoSeq", i) >= InForce("videoSeq", received[i].n)
    BY DEF HeadersFirst
  <2>1. received \in Seq(Packets) /\ published \in Seq(Kinds) /\ Decoded(received, published)
    BY DEF IInv, ViewerFits, Real, RingShape
  <2>2. received[i].n \in Nat
    <3>1. received[i] \in Packets
      BY <2>1, ElementOfSeq
    <3> QED BY <3>1 DEF Packets
  <2>3. ASSUME received[i].kind = "audio"
        PROVE  Handed("audioSeq", i) = InForce("audioSeq", received[i].n)
    <3>1. PICK m \in Nat :
            /\ LastHanded(received, "audioSeq", i, m)
            /\ NoneBetween(published, "audioSeq", m, received[i].n)
            /\ m = 0 \/ (m \in 1 .. Len(published) /\ m < received[i].n /\ published[m] = "audioSeq")
      BY <2>1, <2>3 DEF Decoded, AudioDecodes
    <3>2. Handed("audioSeq", i) = m
      BY <2>1, <3>1, HandedIs
    <3> QED BY <2>1, <2>2, <3>1, <3>2, InForceIs
  <2>4. ASSUME IsFrame(received[i])
        PROVE  Handed("videoSeq", i) >= InForce("videoSeq", received[i].n)
    <3>1. PICK m \in Nat : /\ LastHanded(received, "videoSeq", i, m)
                           /\ NoneBetween(published, "videoSeq", m, received[i].n)
      BY <2>1, <2>4 DEF Decoded, VideoDecodes
    <3>2. Handed("videoSeq", i) = m
      BY <2>1, <3>1, HandedIs
    <3>3. InForce("videoSeq", received[i].n) <= m
      BY <2>1, <2>2, <3>1, InForceIs
    <3> QED BY <3>2, <3>3
  <2> QED BY <2>3, <2>4
<1> QED BY <1>1, Invariance, PTL
=============================================================================
