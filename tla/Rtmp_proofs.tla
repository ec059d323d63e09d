----------------------------- MODULE Rtmp_proofs ------------------------------
(* Proofs about what the server does with RTMP: the relay of a stream to its *)
(* viewers (StreamRelay), for any numbers of publishers and viewers, and the *)
(* chunk layer below it (ChunkStream), where the receiver stays in step with *)
(* the sender, for any streams, lengths, chunk sizes and times.              *)
EXTENDS StreamRelay, ChunkStream, SequenceTheorems, TLAPS

-----------------------------------------------------------------------------
(* The relay.                                                                *)


\* A writer is in at most the registry that took it, and has been made.
MembersJoined ==
  \A p \in Publishers :
    \A w \in members[p] : joined[w] = p /\ wstate[w] # "none"

\* A writer that does not exist yet has joined nothing; what a viewer's
\* handler has done so far.
HandlersInOrder ==
  /\ \A w \in Writers : wstate[w] = "none" => joined[w] = None
  /\ \A v \in Viewers :
       /\ vpc[v] \in {"idle", "found"} => wstate[v] = "none"
       /\ vpc[v] = "register" => wstate[v] # "none" /\ joined[v] = None
       /\ vpc[v] \in {"found", "register", "watching"} =>
            target[v] \in Publishers

\* Only a loop that has started meets writers, and only those that joined it.
MetByTheLoop ==
  \A w \in Writers :
    contacted[w] =>
      joined[w] \in Publishers /\ ppc[joined[w]] \notin {"idle", "setup"}

\* The loop works on members: the rest of its snapshot and the writer in hand.
LoopOnMembers ==
  \A p \in Publishers :
    /\ ppc[p] \in {"fanout"} \cup Serving => todo[p] \subseteq members[p]
    /\ ppc[p] \in Serving => cur[p] \in members[p] /\ cur[p] \notin todo[p]
    /\ ppc[p] \in {"drop", "leave"} => wstate[cur[p]] = "closed"

\* Who holds a publisher's lock has marked it closed; so has closeAll.
ClosingMarked ==
  \A p \in Publishers : vlock[p] # None \/ regClosed[p] => closed[p]

\* An entry of the map is under the key its publisher asked for.
MapByKey ==
  \A k \in Keys : publisherMap[k] # None => key[publisherMap[k]] = k

\* NobodySkipped inside a round: a writer the loop has met has been handed
\* the newest packet, or is still in the snapshot, or is in hand.
RoundUnderWay ==
  \A p \in Publishers, w \in Writers :
    ppc[p] \in {"fanout"} \cup Serving /\ w \in members[p] /\ contacted[w]
    /\ wstate[w] = "open" /\ ~regClosed[p] =>
      got[w] = count[p] \/ w \in todo[p] \/ w = cur[p]

\* The parts of the inductive invariant that are proved together.
Membership == MembersJoined /\ HandlersInOrder
RelayControl == MetByTheLoop /\ LoopOnMembers /\ MapByKey /\ MapLeadsToRunning
Round == RoundUnderWay /\ NobodySkipped
Kept == NoneForgotten /\ WaitingMeansRegistered

\* The inductive invariant.
RelayInv == /\ TypeOK /\ Membership /\ RelayControl /\ ClosingMarked
            /\ Round /\ Kept /\ ClosedRegistryIsClosed

-----------------------------------------------------------------------------
(* Frames.                                                                   *)

\* Steps that move a publisher's goroutine and leave registries, writers and
\* viewers alone.
Moves(p) ==
  \/ RegisterPublisher(p) \/ StartLoop(p) \/ CheckClosed(p)
  \/ (\E keeps \in BOOLEAN : ReadPacket(p, keeps))
  \/ GetMembers(p) \/ ReadEOF(p) \/ ReadError(p)
  \/ (\E w \in Writers : PickWriter(p, w))
  \/ FanoutDone(p) \/ CacheSent(p) \/ CacheRefused(p) \/ WriteRefused(p)
  \/ NilPanic(p) \/ DeregisterPublisher(p) \/ PeerLeaves(p)

\* What moves only a publisher leaves writers and viewers alone.
LEMMA MovesFrame ==
  ASSUME NEW p \in Publishers, Moves(p)
  PROVE  UNCHANGED <<regVars, writerVars, viewerVars, shutVars>>
BY DEF Moves, RegisterPublisher, StartLoop, CheckClosed, GetMembers, ReadEOF,
       ReadError, FanoutDone, CacheSent, CacheRefused, WriteRefused,
       NilPanic, DeregisterPublisher, PeerLeaves, ReadPacket,
       PickWriter

\* What RegisterWriter does to the registry.
Joins(p, w) ==
  \/ (closed[p] \/ regClosed[p]) /\ UNCHANGED <<members, joined>>
  \/ /\ ~closed[p] /\ ~regClosed[p]
     /\ members' = [members EXCEPT ![p] = @ \cup {w}]
     /\ joined' = [joined EXCEPT ![w] = p]

\* The two registrations, with the writer and the publisher as plain names.
OwnRegistration(p, w) ==
  /\ w \notin Viewers /\ ppc[p] = "setup" /\ wstate[w] = "none"
  /\ wstate' = [wstate EXCEPT ![w] = "open"]
  /\ Joins(p, w)
  /\ UNCHANGED <<publisherMap, pubVars, closed, vlock, regClosed,
                 contacted, got, viewerVars, shutVars>>

ViewerRegistration(p, v) ==
  /\ target[v] = p /\ Joins(p, v)
  /\ vpc[v] = "register"
  /\ vpc' = [vpc EXCEPT ![v] = IF wstate[v] = "nil" THEN "gone"
                                ELSE "watching"]
  /\ UNCHANGED <<publisherMap, pubVars, closed, vlock, regClosed,
                 wstate, contacted, got, target, shutVars>>

\* A publisher's own writer is registered like any writer.
LEMMA OwnRegisters ==
  ASSUME NEW p \in Publishers, NEW o \in Own, RegisterOwn(p, o)
  PROVE  \E w \in Writers : OwnRegistration(p, w)
<1>1. <<p, o>> \in Writers /\ <<p, o>> \notin Viewers
  BY DistinctAssumption DEF OwnWriters, Writers
<1>2. Joins(p, <<p, o>>)
  BY DEF RegisterOwn, RegisterWriter, Joins
<1> QED
  BY <1>1, <1>2 DEF RegisterOwn, OwnRegistration

\* A viewer's writer is registered with the publisher it has found.
LEMMA ViewerRegisters ==
  ASSUME HandlersInOrder, NEW v \in Viewers, Register(v)
  PROVE  \E p \in Publishers : ViewerRegistration(p, v)
BY DEF Register, RegisterWriter, Joins, HandlersInOrder, VGoto,
       ViewerRegistration

-----------------------------------------------------------------------------
(* One lemma per group, one step per action of Next.                         *)

\* Type correctness; HandlersInOrder says that a handler that registers has
\* found a publisher.
LEMMA TypeStep ==
  TypeOK /\ HandlersInOrder /\ [Next]_vars
    => TypeOK'
<1> SUFFICES ASSUME TypeOK, HandlersInOrder, [Next]_vars
             PROVE  TypeOK'
  OBVIOUS
<1> USE DistinctAssumption, MaxPacketsAssumption DEF TypeOK, HandlersInOrder,
        Locations, Serving, Writers, ClosedBy, Remove, PGoto, VGoto, pubVars,
        regVars, writerVars, viewerVars, shutVars
<1>1. ASSUME UNCHANGED vars PROVE TypeOK'
  BY <1>1 DEF vars, pubVars, regVars, writerVars, viewerVars, shutVars
<1>2. ASSUME NEW p \in Publishers, RegisterPublisher(p) PROVE TypeOK'
  BY <1>2 DEF RegisterPublisher
<1>3. ASSUME NEW p \in Publishers, NEW o \in Own, RegisterOwn(p, o)
      PROVE  TypeOK'
  <2>1. PICK w \in Writers : OwnRegistration(p, w)
    BY <1>3, OwnRegisters
  <2>2. CASE UNCHANGED <<members, joined>>
    BY <2>1, <2>2 DEF OwnRegistration
  <2>3. CASE /\ ~closed[p] /\ ~regClosed[p]
             /\ members' = [members EXCEPT ![p] = @ \cup {w}]
             /\ joined' = [joined EXCEPT ![w] = p]
    BY <2>1, <2>3 DEF OwnRegistration
  <2> QED
    BY <2>1, <2>2, <2>3 DEF OwnRegistration, Joins
<1>4. ASSUME NEW p \in Publishers, FileFails(p) PROVE TypeOK'
  BY <1>4 DEF FileFails, OwnWriters
<1>5. ASSUME NEW p \in Publishers, StartLoop(p) PROVE TypeOK'
  BY <1>5 DEF StartLoop
<1>6. ASSUME NEW p \in Publishers, CheckClosed(p) PROVE TypeOK'
  BY <1>6 DEF CheckClosed
<1>7. ASSUME NEW p \in Publishers, NEW keeps \in BOOLEAN, ReadPacket(p, keeps)
      PROVE  TypeOK'
  BY <1>7 DEF ReadPacket
<1>8. ASSUME NEW p \in Publishers, GetMembers(p) PROVE TypeOK'
  BY <1>8 DEF GetMembers
<1>9. ASSUME NEW p \in Publishers, ReadEOF(p) PROVE TypeOK'
  BY <1>9 DEF ReadEOF
<1>10. ASSUME NEW p \in Publishers, ReadError(p) PROVE TypeOK'
  BY <1>10 DEF ReadError
<1>11. ASSUME NEW p \in Publishers, NEW w \in Writers, PickWriter(p, w)
       PROVE  TypeOK'
  BY <1>11 DEF PickWriter
<1>12. ASSUME NEW p \in Publishers, FanoutDone(p) PROVE TypeOK'
  BY <1>12 DEF FanoutDone
<1>13. ASSUME NEW p \in Publishers, WriteCache(p) PROVE TypeOK'
  <2>1. cur[p] \in Writers /\ count[p] \in Nat
    BY <1>13 DEF WriteCache
  <2>2. contacted' \in [Writers -> BOOLEAN] /\ got' \in [Writers -> Nat]
    BY <1>13, <2>1 DEF WriteCache
  <2>3. /\ ppc[p] = "cache"
        /\ \/ ppc' = [ppc EXCEPT ![p] = "write"]
           \/ ppc' = [ppc EXCEPT ![p] = "leave"]
           \/ ppc' = [ppc EXCEPT ![p] = "caching"]
    BY <1>13 DEF WriteCache
  <2>4. /\ ppc' \in [Publishers -> Locations]
        /\ \A q \in Publishers : (ppc'[q] \in Serving) = (ppc[q] \in Serving)
    BY <2>3
  <2> QED
    BY <1>13, <2>2, <2>4 DEF WriteCache
<1>14. ASSUME NEW p \in Publishers, CacheSent(p) PROVE TypeOK'
  BY <1>14 DEF CacheSent
<1>15. ASSUME NEW p \in Publishers, CacheRefused(p) PROVE TypeOK'
  BY <1>15 DEF CacheRefused
<1>16. ASSUME NEW p \in Publishers, WriteOk(p) PROVE TypeOK'
  BY <1>16 DEF WriteOk
<1>17. ASSUME NEW p \in Publishers, WriteRefused(p) PROVE TypeOK'
  BY <1>17 DEF WriteRefused
<1>18. ASSUME NEW p \in Publishers, DropWriter(p) PROVE TypeOK'
  BY <1>18 DEF DropWriter, Remove, ClosedBy
<1>19. ASSUME NEW p \in Publishers, LeaveLoop(p) PROVE TypeOK'
  BY <1>19 DEF LeaveLoop, Remove, ClosedBy
<1>20. ASSUME NEW p \in Publishers, NilPanic(p) PROVE TypeOK'
  BY <1>20 DEF NilPanic
<1>21. ASSUME NEW p \in Publishers, DeregisterPublisher(p) PROVE TypeOK'
  BY <1>21 DEF DeregisterPublisher
<1>22. ASSUME NEW p \in Publishers, PeerLeaves(p) PROVE TypeOK'
  BY <1>22 DEF PeerLeaves
<1>23. ASSUME NEW p \in Publishers, OwnBeginClose(p) PROVE TypeOK'
  BY <1>23 DEF OwnBeginClose, BeginClose
<1>24. ASSUME NEW p \in Publishers, OwnCloseAll(p) PROVE TypeOK'
  BY <1>24 DEF OwnCloseAll, CloseAll
<1>25. ASSUME NEW v \in Viewers, NEW k \in Keys, Find(v, k) PROVE TypeOK'
  BY <1>25 DEF Find
<1>26. ASSUME NEW v \in Viewers,
              NEW state \in {"open", "nil"}, NewWriter(v, state)
       PROVE  TypeOK'
  BY <1>26 DEF NewWriter
<1>27. ASSUME NEW v \in Viewers, Register(v) PROVE TypeOK'
  <2>1. PICK p \in Publishers : ViewerRegistration(p, v)
    BY <1>27, ViewerRegisters
  <2>2. CASE UNCHANGED <<members, joined>>
    BY <2>1, <2>2 DEF ViewerRegistration
  <2>3. CASE /\ ~closed[p] /\ ~regClosed[p]
             /\ members' = [members EXCEPT ![p] = @ \cup {v}]
             /\ joined' = [joined EXCEPT ![v] = p]
    BY <2>1, <2>3 DEF ViewerRegistration
  <2> QED
    BY <2>1, <2>2, <2>3 DEF ViewerRegistration, Joins
<1>28. ASSUME NEW v \in Viewers, StopWatching(v) PROVE TypeOK'
  BY <1>28 DEF StopWatching
<1>29. ASSUME NEW w \in Writers, WriterFails(w) PROVE TypeOK'
  BY <1>29 DEF WriterFails, ClosedBy
<1>30. ASSUME NEW w \in Writers, HookCloses(w) PROVE TypeOK'
  BY <1>30 DEF HookCloses, ClosedBy
<1>31. ASSUME BeginShutdown PROVE TypeOK'
  BY <1>31 DEF BeginShutdown
<1>32. ASSUME NEW p \in Publishers, ShutdownBeginClose(p) PROVE TypeOK'
  BY <1>32 DEF ShutdownBeginClose, BeginClose
<1>33. ASSUME NEW p \in Publishers, ShutdownCloseAll(p) PROVE TypeOK'
  BY <1>33 DEF ShutdownCloseAll, CloseAll
<1>34. ASSUME EndShutdown PROVE TypeOK'
  BY <1>34 DEF EndShutdown
<1> HIDE DEF TypeOK, HandlersInOrder, Locations, Serving, Writers, ClosedBy,
        Remove
<1> QED
  BY <1>1, <1>2, <1>3, <1>4, <1>5, <1>6, <1>7, <1>8, <1>9, <1>10, <1>11,
     <1>12, <1>13, <1>14, <1>15, <1>16, <1>17, <1>18, <1>19, <1>20, <1>21,
     <1>22, <1>23, <1>24, <1>25, <1>26, <1>27, <1>28, <1>29, <1>30, <1>31,
     <1>32, <1>33, <1>34
  DEF Next, PublisherStep, ViewerStep, ShutdownStep

\* Who is in a registry, and how far the handlers are.
LEMMA MembershipStep ==
  TypeOK /\ MembersJoined /\ HandlersInOrder /\ LoopOnMembers /\ [Next]_vars
    => Membership'
<1> SUFFICES ASSUME TypeOK, MembersJoined, HandlersInOrder, LoopOnMembers,
                   [Next]_vars
             PROVE  Membership'
  OBVIOUS
<1> USE DistinctAssumption DEF TypeOK, Membership, MembersJoined,
        HandlersInOrder, LoopOnMembers, Serving, Writers, PGoto, VGoto,
        pubVars, regVars, writerVars, viewerVars, shutVars
<1>1. ASSUME UNCHANGED vars PROVE Membership'
  BY <1>1 DEF vars, pubVars, regVars, writerVars, viewerVars, shutVars
<1>2. ASSUME NEW p \in Publishers, Moves(p) PROVE Membership'
  BY <1>2, MovesFrame DEF regVars, writerVars, viewerVars, shutVars
<1>3. ASSUME NEW p \in Publishers, NEW o \in Own, RegisterOwn(p, o)
      PROVE  Membership'
  <2>1. PICK w \in Writers : OwnRegistration(p, w)
    BY <1>3, OwnRegisters
  <2>2. CASE UNCHANGED <<members, joined>>
    BY <2>1, <2>2 DEF OwnRegistration
  <2>3. CASE /\ ~closed[p] /\ ~regClosed[p]
             /\ members' = [members EXCEPT ![p] = @ \cup {w}]
             /\ joined' = [joined EXCEPT ![w] = p]
    BY <2>1, <2>3 DEF OwnRegistration
  <2> QED
    BY <2>1, <2>2, <2>3 DEF OwnRegistration, Joins
<1>4. ASSUME NEW p \in Publishers, FileFails(p) PROVE Membership'
  BY <1>4 DEF FileFails, OwnWriters
<1>5. ASSUME NEW p \in Publishers, WriteCache(p) PROVE Membership'
  <2>1. CASE ~cacheFilled[p]
    BY <1>5, <2>1 DEF WriteCache
  <2>2. CASE cacheFilled[p] /\ wstate[cur[p]] = "closed"
    BY <1>5, <2>2 DEF WriteCache
  <2>3. CASE cacheFilled[p] /\ wstate[cur[p]] = "open"
    BY <1>5, <2>3 DEF WriteCache
  <2> QED
    BY <1>5, <2>1, <2>2, <2>3 DEF WriteCache
<1>6. ASSUME NEW p \in Publishers, WriteOk(p) PROVE Membership'
  BY <1>6 DEF WriteOk
<1>7. ASSUME NEW p \in Publishers, DropWriter(p) PROVE Membership'
  BY <1>7 DEF DropWriter, Remove, ClosedBy
<1>8. ASSUME NEW p \in Publishers, LeaveLoop(p) PROVE Membership'
  BY <1>8 DEF LeaveLoop, Remove, ClosedBy
<1>9. ASSUME NEW p \in Publishers, OwnBeginClose(p) PROVE Membership'
  BY <1>9 DEF OwnBeginClose, BeginClose
<1>10. ASSUME NEW p \in Publishers, OwnCloseAll(p) PROVE Membership'
  BY <1>10 DEF OwnCloseAll, CloseAll
<1>11. ASSUME NEW v \in Viewers, NEW k \in Keys, Find(v, k) PROVE Membership'
  BY <1>11 DEF Find
<1>12. ASSUME NEW v \in Viewers,
              NEW state \in {"open", "nil"}, NewWriter(v, state)
       PROVE  Membership'
  BY <1>12 DEF NewWriter
<1>13. ASSUME NEW v \in Viewers, Register(v) PROVE Membership'
  <2>1. PICK p \in Publishers : ViewerRegistration(p, v)
    BY <1>13, ViewerRegisters
  <2>2. CASE UNCHANGED <<members, joined>>
    BY <2>1, <2>2 DEF ViewerRegistration
  <2>3. CASE /\ ~closed[p] /\ ~regClosed[p]
             /\ members' = [members EXCEPT ![p] = @ \cup {v}]
             /\ joined' = [joined EXCEPT ![v] = p]
    BY <2>1, <2>3 DEF ViewerRegistration
  <2> QED
    BY <2>1, <2>2, <2>3 DEF ViewerRegistration, Joins
<1>14. ASSUME NEW v \in Viewers, StopWatching(v) PROVE Membership'
  BY <1>14 DEF StopWatching
<1>15. ASSUME NEW w \in Writers, WriterFails(w) PROVE Membership'
  BY <1>15 DEF WriterFails, ClosedBy
<1>16. ASSUME NEW w \in Writers, HookCloses(w) PROVE Membership'
  BY <1>16 DEF HookCloses, ClosedBy
<1>17. ASSUME BeginShutdown PROVE Membership'
  BY <1>17 DEF BeginShutdown
<1>18. ASSUME NEW p \in Publishers, ShutdownBeginClose(p) PROVE Membership'
  BY <1>18 DEF ShutdownBeginClose, BeginClose
<1>19. ASSUME NEW p \in Publishers, ShutdownCloseAll(p) PROVE Membership'
  BY <1>19 DEF ShutdownCloseAll, CloseAll
<1>20. ASSUME EndShutdown PROVE Membership'
  BY <1>20 DEF EndShutdown
<1> HIDE DEF TypeOK, Membership, MembersJoined, HandlersInOrder, LoopOnMembers,
         Serving, Writers
<1> QED
  BY <1>1, <1>2, <1>3, <1>4, <1>5, <1>6, <1>7, <1>8, <1>9, <1>10, <1>11,
     <1>12, <1>13, <1>14, <1>15, <1>16, <1>17, <1>18, <1>19, <1>20
  DEF Next, PublisherStep, ViewerStep, ShutdownStep, Moves

\* What the loop holds, and where the map leads.
LEMMA ControlStep ==
  TypeOK /\ MembersJoined /\ HandlersInOrder /\ MetByTheLoop /\ LoopOnMembers /\
    MapByKey /\ MapLeadsToRunning /\ [Next]_vars
    => RelayControl'
<1> SUFFICES ASSUME TypeOK, MembersJoined, HandlersInOrder, MetByTheLoop,
                   LoopOnMembers, MapByKey, MapLeadsToRunning, [Next]_vars
             PROVE  RelayControl'
  OBVIOUS
<1> USE DistinctAssumption DEF TypeOK, RelayControl, MembersJoined,
        HandlersInOrder, MetByTheLoop, LoopOnMembers, MapByKey,
        MapLeadsToRunning, Locations, Serving, InLoop, Writers, PGoto, VGoto,
        pubVars, regVars, writerVars, viewerVars, shutVars
<1>1. ASSUME UNCHANGED vars PROVE RelayControl'
  BY <1>1 DEF vars, pubVars, regVars, writerVars, viewerVars, shutVars
<1>2. ASSUME NEW p \in Publishers, RegisterPublisher(p) PROVE RelayControl'
  BY <1>2 DEF RegisterPublisher
<1>3. ASSUME NEW p \in Publishers, NEW o \in Own, RegisterOwn(p, o)
      PROVE  RelayControl'
  <2>1. PICK w \in Writers : OwnRegistration(p, w)
    BY <1>3, OwnRegisters
  <2>2. CASE UNCHANGED <<members, joined>>
    BY <2>1, <2>2 DEF OwnRegistration
  <2>3. CASE /\ ~closed[p] /\ ~regClosed[p]
             /\ members' = [members EXCEPT ![p] = @ \cup {w}]
             /\ joined' = [joined EXCEPT ![w] = p]
    BY <2>1, <2>3 DEF OwnRegistration
  <2> QED
    BY <2>1, <2>2, <2>3 DEF OwnRegistration, Joins
<1>4. ASSUME NEW p \in Publishers, FileFails(p) PROVE RelayControl'
  BY <1>4 DEF FileFails, OwnWriters
<1>5. ASSUME NEW p \in Publishers, StartLoop(p) PROVE RelayControl'
  BY <1>5 DEF StartLoop
<1>6. ASSUME NEW p \in Publishers, CheckClosed(p) PROVE RelayControl'
  BY <1>6 DEF CheckClosed
<1>7. ASSUME NEW p \in Publishers, NEW keeps \in BOOLEAN, ReadPacket(p, keeps)
      PROVE  RelayControl'
  BY <1>7 DEF ReadPacket
<1>8. ASSUME NEW p \in Publishers, GetMembers(p) PROVE RelayControl'
  BY <1>8 DEF GetMembers
<1>9. ASSUME NEW p \in Publishers, ReadEOF(p) PROVE RelayControl'
  BY <1>9 DEF ReadEOF
<1>10. ASSUME NEW p \in Publishers, ReadError(p) PROVE RelayControl'
  BY <1>10 DEF ReadError
<1>11. ASSUME NEW p \in Publishers, NEW w \in Writers, PickWriter(p, w)
       PROVE  RelayControl'
  BY <1>11 DEF PickWriter
<1>12. ASSUME NEW p \in Publishers, FanoutDone(p) PROVE RelayControl'
  BY <1>12 DEF FanoutDone
<1>13. ASSUME NEW p \in Publishers, WriteCache(p) PROVE RelayControl'
  <2>1. cur[p] \in members[p] /\ joined[cur[p]] = p
    BY <1>13 DEF WriteCache
  <2>2. contacted' = [contacted EXCEPT ![cur[p]] = TRUE] /\ ppc[p] = "cache"
    BY <1>13 DEF WriteCache
  <2>3. \/ ppc' = [ppc EXCEPT ![p] = "write"] \/ ppc' = [ppc EXCEPT ![p] = "caching"]
        \/ ppc' = [ppc EXCEPT ![p] = "leave"] /\ wstate[cur[p]] = "closed"
    BY <1>13 DEF WriteCache
  <2>4. UNCHANGED <<publisherMap, key, todo, cur, regVars, wstate, joined, viewerVars>>
    BY <1>13 DEF WriteCache
  <2>5. MetByTheLoop'
    BY <2>1, <2>2, <2>3, <2>4
  <2>6. LoopOnMembers'
    BY <2>1, <2>2, <2>3, <2>4
  <2>7. MapByKey' /\ MapLeadsToRunning'
    BY <2>2, <2>3, <2>4
  <2> QED
    BY <2>5, <2>6, <2>7
<1>14. ASSUME NEW p \in Publishers, CacheSent(p) PROVE RelayControl'
  BY <1>14 DEF CacheSent
<1>15. ASSUME NEW p \in Publishers, CacheRefused(p) PROVE RelayControl'
  BY <1>15 DEF CacheRefused
<1>16. ASSUME NEW p \in Publishers, WriteOk(p) PROVE RelayControl'
  BY <1>16 DEF WriteOk
<1>17. ASSUME NEW p \in Publishers, WriteRefused(p) PROVE RelayControl'
  BY <1>17 DEF WriteRefused
<1>18. ASSUME NEW p \in Publishers, DropWriter(p) PROVE RelayControl'
  BY <1>18 DEF DropWriter, Remove, ClosedBy
<1>19. ASSUME NEW p \in Publishers, LeaveLoop(p) PROVE RelayControl'
  BY <1>19 DEF LeaveLoop, Remove, ClosedBy
<1>20. ASSUME NEW p \in Publishers, NilPanic(p) PROVE RelayControl'
  BY <1>20 DEF NilPanic
<1>21. ASSUME NEW p \in Publishers, DeregisterPublisher(p) PROVE RelayControl'
  BY <1>21 DEF DeregisterPublisher
<1>22. ASSUME NEW p \in Publishers, PeerLeaves(p) PROVE RelayControl'
  BY <1>22 DEF PeerLeaves
<1>23. ASSUME NEW p \in Publishers, OwnBeginClose(p) PROVE RelayControl'
  BY <1>23 DEF OwnBeginClose, BeginClose
<1>24. ASSUME NEW p \in Publishers, OwnCloseAll(p) PROVE RelayControl'
  BY <1>24 DEF OwnCloseAll, CloseAll
<1>25. ASSUME NEW v \in Viewers, NEW k \in Keys, Find(v, k) PROVE RelayControl'
  BY <1>25 DEF Find
<1>26. ASSUME NEW v \in Viewers,
              NEW state \in {"open", "nil"}, NewWriter(v, state)
       PROVE  RelayControl'
  BY <1>26 DEF NewWriter
<1>27. ASSUME NEW v \in Viewers, Register(v) PROVE RelayControl'
  <2>1. PICK p \in Publishers : ViewerRegistration(p, v)
    BY <1>27, ViewerRegisters
  <2>2. CASE UNCHANGED <<members, joined>>
    BY <2>1, <2>2 DEF ViewerRegistration
  <2>3. CASE /\ ~closed[p] /\ ~regClosed[p]
             /\ members' = [members EXCEPT ![p] = @ \cup {v}]
             /\ joined' = [joined EXCEPT ![v] = p]
    BY <2>1, <2>3 DEF ViewerRegistration
  <2> QED
    BY <2>1, <2>2, <2>3 DEF ViewerRegistration, Joins
<1>28. ASSUME NEW v \in Viewers, StopWatching(v) PROVE RelayControl'
  BY <1>28 DEF StopWatching
<1>29. ASSUME NEW w \in Writers, WriterFails(w) PROVE RelayControl'
  BY <1>29 DEF WriterFails, ClosedBy
<1>30. ASSUME NEW w \in Writers, HookCloses(w) PROVE RelayControl'
  BY <1>30 DEF HookCloses, ClosedBy
<1>31. ASSUME BeginShutdown PROVE RelayControl'
  BY <1>31 DEF BeginShutdown
<1>32. ASSUME NEW p \in Publishers, ShutdownBeginClose(p) PROVE RelayControl'
  BY <1>32 DEF ShutdownBeginClose, BeginClose
<1>33. ASSUME NEW p \in Publishers, ShutdownCloseAll(p) PROVE RelayControl'
  BY <1>33 DEF ShutdownCloseAll, CloseAll
<1>34. ASSUME EndShutdown PROVE RelayControl'
  BY <1>34 DEF EndShutdown
<1> HIDE DEF TypeOK, RelayControl, MembersJoined, HandlersInOrder, MetByTheLoop,
         LoopOnMembers, MapByKey, MapLeadsToRunning, Locations, Serving, InLoop,
         Writers
<1> QED
  BY <1>1, <1>2, <1>3, <1>4, <1>5, <1>6, <1>7, <1>8, <1>9, <1>10, <1>11,
     <1>12, <1>13, <1>14, <1>15, <1>16, <1>17, <1>18, <1>19, <1>20, <1>21,
     <1>22, <1>23, <1>24, <1>25, <1>26, <1>27, <1>28, <1>29, <1>30, <1>31,
     <1>32, <1>33, <1>34
  DEF Next, PublisherStep, ViewerStep, ShutdownStep

\* The closed flag comes before the lock's release and before closeAll.
LEMMA ClosingStep ==
  TypeOK /\ ClosingMarked /\ [Next]_vars
    => ClosingMarked'
<1> SUFFICES ASSUME TypeOK, ClosingMarked, [Next]_vars
             PROVE  ClosingMarked'
  OBVIOUS
<1> USE DistinctAssumption DEF TypeOK, ClosingMarked, PGoto, VGoto, pubVars,
        regVars, writerVars, viewerVars, shutVars
<1>1. ASSUME UNCHANGED vars PROVE ClosingMarked'
  BY <1>1 DEF vars, pubVars, regVars, writerVars, viewerVars, shutVars
<1>2. ASSUME NEW p \in Publishers, Moves(p) PROVE ClosingMarked'
  BY <1>2, MovesFrame DEF regVars, writerVars, viewerVars, shutVars
<1>3. ASSUME NEW p \in Publishers, NEW o \in Own, RegisterOwn(p, o)
      PROVE  ClosingMarked'
  BY <1>3 DEF RegisterOwn, RegisterWriter
<1>4. ASSUME NEW p \in Publishers, FileFails(p) PROVE ClosingMarked'
  BY <1>4 DEF FileFails, OwnWriters
<1>5. ASSUME NEW p \in Publishers, WriteCache(p) PROVE ClosingMarked'
  BY <1>5 DEF WriteCache
<1>6. ASSUME NEW p \in Publishers, WriteOk(p) PROVE ClosingMarked'
  BY <1>6 DEF WriteOk
<1>7. ASSUME NEW p \in Publishers, DropWriter(p) PROVE ClosingMarked'
  BY <1>7 DEF DropWriter, Remove, ClosedBy
<1>8. ASSUME NEW p \in Publishers, LeaveLoop(p) PROVE ClosingMarked'
  BY <1>8 DEF LeaveLoop, Remove, ClosedBy
<1>9. ASSUME NEW p \in Publishers, OwnBeginClose(p) PROVE ClosingMarked'
  BY <1>9 DEF OwnBeginClose, BeginClose
<1>10. ASSUME NEW p \in Publishers, OwnCloseAll(p) PROVE ClosingMarked'
  BY <1>10 DEF OwnCloseAll, CloseAll
<1>11. ASSUME NEW v \in Viewers, NEW k \in Keys, Find(v, k)
       PROVE  ClosingMarked'
  BY <1>11 DEF Find
<1>12. ASSUME NEW v \in Viewers,
              NEW state \in {"open", "nil"}, NewWriter(v, state)
       PROVE  ClosingMarked'
  BY <1>12 DEF NewWriter
<1>13. ASSUME NEW v \in Viewers, Register(v) PROVE ClosingMarked'
  BY <1>13 DEF Register, RegisterWriter
<1>14. ASSUME NEW v \in Viewers, StopWatching(v) PROVE ClosingMarked'
  BY <1>14 DEF StopWatching
<1>15. ASSUME NEW w \in Writers, WriterFails(w) PROVE ClosingMarked'
  BY <1>15 DEF WriterFails, ClosedBy
<1>16. ASSUME NEW w \in Writers, HookCloses(w) PROVE ClosingMarked'
  BY <1>16 DEF HookCloses, ClosedBy
<1>17. ASSUME BeginShutdown PROVE ClosingMarked'
  BY <1>17 DEF BeginShutdown
<1>18. ASSUME NEW p \in Publishers, ShutdownBeginClose(p) PROVE ClosingMarked'
  BY <1>18 DEF ShutdownBeginClose, BeginClose
<1>19. ASSUME NEW p \in Publishers, ShutdownCloseAll(p) PROVE ClosingMarked'
  BY <1>19 DEF ShutdownCloseAll, CloseAll
<1>20. ASSUME EndShutdown PROVE ClosingMarked'
  BY <1>20 DEF EndShutdown
<1> HIDE DEF TypeOK, ClosingMarked
<1> QED
  BY <1>1, <1>2, <1>3, <1>4, <1>5, <1>6, <1>7, <1>8, <1>9, <1>10, <1>11,
     <1>12, <1>13, <1>14, <1>15, <1>16, <1>17, <1>18, <1>19, <1>20
  DEF Next, PublisherStep, ViewerStep, ShutdownStep, Moves

\* Nobody is skipped, within a round and between two packets.
LEMMA RoundStep ==
  TypeOK /\ MembersJoined /\ HandlersInOrder /\ MetByTheLoop /\ LoopOnMembers /\
    RoundUnderWay /\ NobodySkipped /\ [Next]_vars
    => Round'
<1> SUFFICES ASSUME TypeOK, MembersJoined, HandlersInOrder, MetByTheLoop,
                   LoopOnMembers, RoundUnderWay, NobodySkipped, [Next]_vars
             PROVE  Round'
  OBVIOUS
<1> USE DistinctAssumption DEF TypeOK, Round, MembersJoined, HandlersInOrder,
        MetByTheLoop, LoopOnMembers, RoundUnderWay, NobodySkipped, Locations,
        Serving, Writers, PGoto, VGoto, pubVars, regVars, writerVars,
        viewerVars, shutVars
<1>1. ASSUME UNCHANGED vars PROVE Round'
  BY <1>1 DEF vars, pubVars, regVars, writerVars, viewerVars, shutVars
<1>2. ASSUME NEW p \in Publishers, RegisterPublisher(p) PROVE Round'
  BY <1>2 DEF RegisterPublisher
<1>3. ASSUME NEW p \in Publishers, NEW o \in Own, RegisterOwn(p, o)
      PROVE  Round'
  <2>1. PICK w \in Writers : OwnRegistration(p, w)
    BY <1>3, OwnRegisters
  <2>2. CASE UNCHANGED <<members, joined>>
    BY <2>1, <2>2 DEF OwnRegistration
  <2>3. CASE /\ ~closed[p] /\ ~regClosed[p]
             /\ members' = [members EXCEPT ![p] = @ \cup {w}]
             /\ joined' = [joined EXCEPT ![w] = p]
    BY <2>1, <2>3 DEF OwnRegistration
  <2> QED
    BY <2>1, <2>2, <2>3 DEF OwnRegistration, Joins
<1>4. ASSUME NEW p \in Publishers, FileFails(p) PROVE Round'
  BY <1>4 DEF FileFails, OwnWriters
<1>5. ASSUME NEW p \in Publishers, StartLoop(p) PROVE Round'
  BY <1>5 DEF StartLoop
<1>6. ASSUME NEW p \in Publishers, CheckClosed(p) PROVE Round'
  BY <1>6 DEF CheckClosed
<1>7. ASSUME NEW p \in Publishers, NEW keeps \in BOOLEAN, ReadPacket(p, keeps)
      PROVE  Round'
  BY <1>7 DEF ReadPacket
<1>8. ASSUME NEW p \in Publishers, GetMembers(p) PROVE Round'
  BY <1>8 DEF GetMembers
<1>9. ASSUME NEW p \in Publishers, ReadEOF(p) PROVE Round'
  BY <1>9 DEF ReadEOF
<1>10. ASSUME NEW p \in Publishers, ReadError(p) PROVE Round'
  BY <1>10 DEF ReadError
<1>11. ASSUME NEW p \in Publishers, NEW w \in Writers, PickWriter(p, w)
       PROVE  Round'
  BY <1>11 DEF PickWriter
<1>12. ASSUME NEW p \in Publishers, FanoutDone(p) PROVE Round'
  BY <1>12 DEF FanoutDone
<1>13. ASSUME NEW p \in Publishers, WriteCache(p) PROVE Round'
  <2>1. CASE ~cacheFilled[p]
    BY <1>13, <2>1 DEF WriteCache
  <2>2. CASE cacheFilled[p] /\ wstate[cur[p]] = "closed"
    BY <1>13, <2>2 DEF WriteCache
  <2>3. CASE cacheFilled[p] /\ wstate[cur[p]] = "open"
    BY <1>13, <2>3 DEF WriteCache
  <2> QED
    BY <1>13, <2>1, <2>2, <2>3 DEF WriteCache
<1>14. ASSUME NEW p \in Publishers, CacheSent(p) PROVE Round'
  BY <1>14 DEF CacheSent
<1>15. ASSUME NEW p \in Publishers, CacheRefused(p) PROVE Round'
  BY <1>15 DEF CacheRefused
<1>16. ASSUME NEW p \in Publishers, WriteOk(p) PROVE Round'
  BY <1>16 DEF WriteOk
<1>17. ASSUME NEW p \in Publishers, WriteRefused(p) PROVE Round'
  BY <1>17 DEF WriteRefused
<1>18. ASSUME NEW p \in Publishers, DropWriter(p) PROVE Round'
  BY <1>18 DEF DropWriter, Remove, ClosedBy
<1>19. ASSUME NEW p \in Publishers, LeaveLoop(p) PROVE Round'
  BY <1>19 DEF LeaveLoop, Remove, ClosedBy
<1>20. ASSUME NEW p \in Publishers, NilPanic(p) PROVE Round'
  BY <1>20 DEF NilPanic
<1>21. ASSUME NEW p \in Publishers, DeregisterPublisher(p) PROVE Round'
  BY <1>21 DEF DeregisterPublisher
<1>22. ASSUME NEW p \in Publishers, PeerLeaves(p) PROVE Round'
  BY <1>22 DEF PeerLeaves
<1>23. ASSUME NEW p \in Publishers, OwnBeginClose(p) PROVE Round'
  BY <1>23 DEF OwnBeginClose, BeginClose
<1>24. ASSUME NEW p \in Publishers, OwnCloseAll(p) PROVE Round'
  BY <1>24 DEF OwnCloseAll, CloseAll
<1>25. ASSUME NEW v \in Viewers, NEW k \in Keys, Find(v, k) PROVE Round'
  BY <1>25 DEF Find
<1>26. ASSUME NEW v \in Viewers,
              NEW state \in {"open", "nil"}, NewWriter(v, state)
       PROVE  Round'
  BY <1>26 DEF NewWriter
<1>27. ASSUME NEW v \in Viewers, Register(v) PROVE Round'
  <2>1. PICK p \in Publishers : ViewerRegistration(p, v)
    BY <1>27, ViewerRegisters
  <2>2. CASE UNCHANGED <<members, joined>>
    BY <2>1, <2>2 DEF ViewerRegistration
  <2>3. CASE /\ ~closed[p] /\ ~regClosed[p]
             /\ members' = [members EXCEPT ![p] = @ \cup {v}]
             /\ joined' = [joined EXCEPT ![v] = p]
    BY <2>1, <2>3 DEF ViewerRegistration
  <2> QED
    BY <2>1, <2>2, <2>3 DEF ViewerRegistration, Joins
<1>28. ASSUME NEW v \in Viewers, StopWatching(v) PROVE Round'
  BY <1>28 DEF StopWatching
<1>29. ASSUME NEW w \in Writers, WriterFails(w) PROVE Round'
  BY <1>29 DEF WriterFails, ClosedBy
<1>30. ASSUME NEW w \in Writers, HookCloses(w) PROVE Round'
  BY <1>30 DEF HookCloses, ClosedBy
<1>31. ASSUME BeginShutdown PROVE Round'
  BY <1>31 DEF BeginShutdown
<1>32. ASSUME NEW p \in Publishers, ShutdownBeginClose(p) PROVE Round'
  BY <1>32 DEF ShutdownBeginClose, BeginClose
<1>33. ASSUME NEW p \in Publishers, ShutdownCloseAll(p) PROVE Round'
  BY <1>33 DEF ShutdownCloseAll, CloseAll
<1>34. ASSUME EndShutdown PROVE Round'
  BY <1>34 DEF EndShutdown
<1> HIDE DEF TypeOK, Round, MembersJoined, HandlersInOrder, MetByTheLoop,
         LoopOnMembers, RoundUnderWay, NobodySkipped, Locations, Serving, Writers
<1> QED
  BY <1>1, <1>2, <1>3, <1>4, <1>5, <1>6, <1>7, <1>8, <1>9, <1>10, <1>11,
     <1>12, <1>13, <1>14, <1>15, <1>16, <1>17, <1>18, <1>19, <1>20, <1>21,
     <1>22, <1>23, <1>24, <1>25, <1>26, <1>27, <1>28, <1>29, <1>30, <1>31,
     <1>32, <1>33, <1>34
  DEF Next, PublisherStep, ViewerStep, ShutdownStep

\* No writer is lost from view while it is open.
LEMMA KeptStep ==
  TypeOK /\ MembersJoined /\ HandlersInOrder /\ LoopOnMembers /\ ClosingMarked
    /\ NoneForgotten /\ WaitingMeansRegistered /\ [Next]_vars
    => Kept'
<1> SUFFICES ASSUME TypeOK, MembersJoined, HandlersInOrder, LoopOnMembers,
                   ClosingMarked, NoneForgotten, WaitingMeansRegistered,
                   [Next]_vars
             PROVE  Kept'
  OBVIOUS
<1> USE DistinctAssumption DEF TypeOK, Kept, MembersJoined, HandlersInOrder,
        LoopOnMembers, ClosingMarked, NoneForgotten, WaitingMeansRegistered,
        Serving, Writers, PGoto, VGoto, pubVars, regVars, writerVars,
        viewerVars, shutVars
<1>1. ASSUME UNCHANGED vars PROVE Kept'
  BY <1>1 DEF vars, pubVars, regVars, writerVars, viewerVars, shutVars
<1>2. ASSUME NEW p \in Publishers, Moves(p) PROVE Kept'
  BY <1>2, MovesFrame DEF regVars, writerVars, viewerVars, shutVars
<1>3. ASSUME NEW p \in Publishers, NEW o \in Own, RegisterOwn(p, o) PROVE Kept'
  <2>1. PICK w \in Writers : OwnRegistration(p, w)
    BY <1>3, OwnRegisters
  <2>2. CASE UNCHANGED <<members, joined>>
    BY <2>1, <2>2 DEF OwnRegistration
  <2>3. CASE /\ ~closed[p] /\ ~regClosed[p]
             /\ members' = [members EXCEPT ![p] = @ \cup {w}]
             /\ joined' = [joined EXCEPT ![w] = p]
    BY <2>1, <2>3 DEF OwnRegistration
  <2> QED
    BY <2>1, <2>2, <2>3 DEF OwnRegistration, Joins
<1>4. ASSUME NEW p \in Publishers, FileFails(p) PROVE Kept'
  BY <1>4 DEF FileFails, OwnWriters
<1>5. ASSUME NEW p \in Publishers, WriteCache(p) PROVE Kept'
  <2>1. CASE ~cacheFilled[p]
    BY <1>5, <2>1 DEF WriteCache
  <2>2. CASE cacheFilled[p] /\ wstate[cur[p]] = "closed"
    BY <1>5, <2>2 DEF WriteCache
  <2>3. CASE cacheFilled[p] /\ wstate[cur[p]] = "open"
    BY <1>5, <2>3 DEF WriteCache
  <2> QED
    BY <1>5, <2>1, <2>2, <2>3 DEF WriteCache
<1>6. ASSUME NEW p \in Publishers, WriteOk(p) PROVE Kept'
  BY <1>6 DEF WriteOk
<1>7. ASSUME NEW p \in Publishers, DropWriter(p) PROVE Kept'
  BY <1>7 DEF DropWriter, Remove, ClosedBy
<1>8. ASSUME NEW p \in Publishers, LeaveLoop(p) PROVE Kept'
  BY <1>8 DEF LeaveLoop, Remove, ClosedBy
<1>9. ASSUME NEW p \in Publishers, OwnBeginClose(p) PROVE Kept'
  BY <1>9 DEF OwnBeginClose, BeginClose
<1>10. ASSUME NEW p \in Publishers, OwnCloseAll(p) PROVE Kept'
  BY <1>10 DEF OwnCloseAll, CloseAll
<1>11. ASSUME NEW v \in Viewers, NEW k \in Keys, Find(v, k) PROVE Kept'
  BY <1>11 DEF Find
<1>12. ASSUME NEW v \in Viewers,
              NEW state \in {"open", "nil"}, NewWriter(v, state)
       PROVE  Kept'
  BY <1>12 DEF NewWriter
<1>13. ASSUME NEW v \in Viewers, Register(v) PROVE Kept'
  <2>1. PICK p \in Publishers : ViewerRegistration(p, v)
    BY <1>13, ViewerRegisters
  <2>2. CASE (closed[p] \/ regClosed[p]) /\ UNCHANGED <<members, joined>>
    <3>1. closed[p]
      BY <2>2
    <3> QED
      BY <2>1, <2>2, <3>1 DEF ViewerRegistration
  <2>3. CASE /\ ~closed[p] /\ ~regClosed[p]
             /\ members' = [members EXCEPT ![p] = @ \cup {v}]
             /\ joined' = [joined EXCEPT ![v] = p]
    BY <2>1, <2>3 DEF ViewerRegistration
  <2> QED
    BY <2>1, <2>2, <2>3 DEF ViewerRegistration, Joins
<1>14. ASSUME NEW v \in Viewers, StopWatching(v) PROVE Kept'
  BY <1>14 DEF StopWatching
<1>15. ASSUME NEW w \in Writers, WriterFails(w) PROVE Kept'
  BY <1>15 DEF WriterFails, ClosedBy
<1>16. ASSUME NEW w \in Writers, HookCloses(w) PROVE Kept'
  BY <1>16 DEF HookCloses, ClosedBy
<1>17. ASSUME BeginShutdown PROVE Kept'
  BY <1>17 DEF BeginShutdown
<1>18. ASSUME NEW p \in Publishers, ShutdownBeginClose(p) PROVE Kept'
  BY <1>18 DEF ShutdownBeginClose, BeginClose
<1>19. ASSUME NEW p \in Publishers, ShutdownCloseAll(p) PROVE Kept'
  BY <1>19 DEF ShutdownCloseAll, CloseAll
<1>20. ASSUME EndShutdown PROVE Kept'
  BY <1>20 DEF EndShutdown
<1> HIDE DEF TypeOK, Kept, MembersJoined, HandlersInOrder, LoopOnMembers,
         ClosingMarked, NoneForgotten, WaitingMeansRegistered, Serving, Writers
<1> QED
  BY <1>1, <1>2, <1>3, <1>4, <1>5, <1>6, <1>7, <1>8, <1>9, <1>10, <1>11,
     <1>12, <1>13, <1>14, <1>15, <1>16, <1>17, <1>18, <1>19, <1>20
  DEF Next, PublisherStep, ViewerStep, ShutdownStep, Moves

\* A registry that loses only closed writers, and whose writers stay closed
\* (or nil) once they are, stays as it is.
LEMMA ClosedKept ==
  ASSUME TypeOK, ClosedRegistryIsClosed, UNCHANGED regClosed,
         \A q \in Publishers : members'[q] \subseteq members[q],
         \A q \in Publishers : \A w \in members[q] :
           /\ w \in members'[q] \/ wstate[w] = "closed"
           /\ wstate[w] \in {"nil", "closed"} => wstate'[w] = wstate[w]
  PROVE  ClosedRegistryIsClosed'
<1> SUFFICES ASSUME NEW q \in Publishers, regClosed'[q], ~NilMember(q)',
                    NEW w \in members'[q]
             PROVE  wstate'[w] = "closed"
  BY DEF ClosedRegistryIsClosed
<1>1. ~NilMember(q)
  BY DEF NilMember
<1>2. wstate[w] = "closed"
  BY <1>1 DEF ClosedRegistryIsClosed
<1> QED
  BY <1>2

\* closeAll closes every member, unless one of them is nil.
LEMMA CloseAllCloses ==
  ASSUME TypeOK, ClosedRegistryIsClosed, NEW p \in Publishers, NEW thread,
         CloseAll(p, thread), UNCHANGED members
  PROVE  ClosedRegistryIsClosed'
<1>1. PICK S \in SUBSET {w \in members[p] : wstate[w] # "nil"} :
        /\ (\A w \in members[p] : wstate[w] # "nil") => S = members[p]
        /\ wstate' = [w \in Writers |-> IF w \in S THEN "closed" ELSE wstate[w]]
  BY DEF CloseAll
<1>2. \A w \in Writers : wstate[w] \in {"nil", "closed"} => wstate'[w] = wstate[w]
  BY <1>1
<1> SUFFICES ASSUME NEW q \in Publishers, regClosed'[q], ~NilMember(q)',
                    NEW w \in members'[q]
             PROVE  wstate'[w] = "closed"
  BY DEF ClosedRegistryIsClosed
<1>3. \A u \in members[q] : u \in Writers /\ wstate[u] # "nil"
  BY <1>2 DEF NilMember, TypeOK
<1>4. CASE q = p
  BY <1>1, <1>3, <1>4
<1>5. CASE q # p
  <2>1. regClosed[q]
    BY <1>5 DEF CloseAll, TypeOK
  <2>2. wstate[w] = "closed"
    BY <2>1, <1>3 DEF ClosedRegistryIsClosed, NilMember
  <2> QED
    BY <2>2, <1>2, <1>3
<1> QED
  BY <1>4, <1>5

\* A closed registry holds closed writers.
LEMMA ClosedStep ==
  TypeOK /\ MembersJoined /\ HandlersInOrder /\ LoopOnMembers /\ ClosingMarked
    /\ ClosedRegistryIsClosed /\ [Next]_vars
    => ClosedRegistryIsClosed'
<1> SUFFICES ASSUME TypeOK, MembersJoined, HandlersInOrder, LoopOnMembers,
                   ClosingMarked, ClosedRegistryIsClosed, [Next]_vars
             PROVE  ClosedRegistryIsClosed'
  OBVIOUS
<1> USE DistinctAssumption DEF TypeOK, MembersJoined, HandlersInOrder,
        LoopOnMembers, ClosingMarked, ClosedRegistryIsClosed, NilMember,
        Serving, Writers, PGoto, VGoto, pubVars, regVars, writerVars,
        viewerVars, shutVars
<1>1. ASSUME UNCHANGED vars PROVE ClosedRegistryIsClosed'
  BY <1>1 DEF vars, pubVars, regVars, writerVars, viewerVars, shutVars
<1>2. ASSUME NEW p \in Publishers, Moves(p) PROVE ClosedRegistryIsClosed'
  BY <1>2, MovesFrame DEF regVars, writerVars, viewerVars, shutVars
<1>3. ASSUME NEW p \in Publishers, NEW o \in Own, RegisterOwn(p, o)
      PROVE  ClosedRegistryIsClosed'
  <2>1. PICK w \in Writers : OwnRegistration(p, w)
    BY <1>3, OwnRegisters
  <2>2. CASE UNCHANGED <<members, joined>>
    BY <2>1, <2>2 DEF OwnRegistration
  <2>3. CASE /\ ~closed[p] /\ ~regClosed[p]
             /\ members' = [members EXCEPT ![p] = @ \cup {w}]
             /\ joined' = [joined EXCEPT ![w] = p]
    <3>1. \A q \in Publishers : w \notin members[q]
      BY <2>1 DEF OwnRegistration
    <3> SUFFICES ASSUME NEW q \in Publishers, regClosed[q], ~NilMember(q)',
                        NEW u \in members'[q]
                 PROVE  wstate'[u] = "closed"
      BY <2>1 DEF OwnRegistration
    <3>2. q # p /\ members'[q] = members[q]
      BY <2>1, <2>3 DEF OwnRegistration
    <3> QED
      BY <2>1, <3>1, <3>2 DEF OwnRegistration
  <2> QED
    BY <2>1, <2>2, <2>3 DEF OwnRegistration, Joins
<1>4. ASSUME NEW p \in Publishers, FileFails(p) PROVE ClosedRegistryIsClosed'
  <2>1. UNCHANGED <<regClosed>> /\ \A q \in Publishers : members'[q] \subseteq members[q]
    BY <1>4 DEF FileFails, OwnWriters
  <2>2. \A q \in Publishers : \A w \in members[q] :
          /\ w \in members'[q] \/ wstate[w] = "closed"
          /\ wstate[w] \in {"nil", "closed"} => wstate'[w] = wstate[w]
    BY <1>4 DEF FileFails, OwnWriters
  <2> QED
    BY <2>1, <2>2, ClosedKept
<1>5. ASSUME NEW p \in Publishers, WriteCache(p) PROVE ClosedRegistryIsClosed'
  <2>1. CASE ~cacheFilled[p]
    BY <1>5, <2>1 DEF WriteCache
  <2>2. CASE cacheFilled[p] /\ wstate[cur[p]] = "closed"
    BY <1>5, <2>2 DEF WriteCache
  <2>3. CASE cacheFilled[p] /\ wstate[cur[p]] = "open"
    BY <1>5, <2>3 DEF WriteCache
  <2> QED
    BY <1>5, <2>1, <2>2, <2>3 DEF WriteCache
<1>6. ASSUME NEW p \in Publishers, WriteOk(p) PROVE ClosedRegistryIsClosed'
  BY <1>6 DEF WriteOk
<1>7. ASSUME NEW p \in Publishers, DropWriter(p) PROVE ClosedRegistryIsClosed'
  <2>1. UNCHANGED <<regClosed>> /\ \A q \in Publishers : members'[q] \subseteq members[q]
    BY <1>7 DEF DropWriter, Remove, ClosedBy
  <2>2. \A q \in Publishers : \A w \in members[q] :
          /\ w \in members'[q] \/ wstate[w] = "closed"
          /\ wstate[w] \in {"nil", "closed"} => wstate'[w] = wstate[w]
    BY <1>7 DEF DropWriter, Remove, ClosedBy
  <2> QED
    BY <2>1, <2>2, ClosedKept
<1>8. ASSUME NEW p \in Publishers, LeaveLoop(p) PROVE ClosedRegistryIsClosed'
  <2>1. UNCHANGED <<regClosed>> /\ \A q \in Publishers : members'[q] \subseteq members[q]
    BY <1>8 DEF LeaveLoop, Remove, ClosedBy
  <2>2. \A q \in Publishers : \A w \in members[q] :
          /\ w \in members'[q] \/ wstate[w] = "closed"
          /\ wstate[w] \in {"nil", "closed"} => wstate'[w] = wstate[w]
    BY <1>8 DEF LeaveLoop, Remove, ClosedBy
  <2> QED
    BY <2>1, <2>2, ClosedKept
<1>9. ASSUME NEW p \in Publishers, OwnBeginClose(p)
      PROVE  ClosedRegistryIsClosed'
  BY <1>9 DEF OwnBeginClose, BeginClose
<1>10. ASSUME NEW p \in Publishers, OwnCloseAll(p)
       PROVE  ClosedRegistryIsClosed'
  <2>1. CloseAll(p, p) /\ UNCHANGED members
    BY <1>10 DEF OwnCloseAll
  <2> QED
    BY <2>1, CloseAllCloses
<1>11. ASSUME NEW v \in Viewers, NEW k \in Keys, Find(v, k)
       PROVE  ClosedRegistryIsClosed'
  BY <1>11 DEF Find
<1>12. ASSUME NEW v \in Viewers,
              NEW state \in {"open", "nil"}, NewWriter(v, state)
       PROVE  ClosedRegistryIsClosed'
  BY <1>12 DEF NewWriter
<1>13. ASSUME NEW v \in Viewers, Register(v) PROVE ClosedRegistryIsClosed'
  <2>1. PICK p \in Publishers : ViewerRegistration(p, v)
    BY <1>13, ViewerRegisters
  <2>2. CASE UNCHANGED <<members, joined>>
    BY <2>1, <2>2 DEF ViewerRegistration
  <2>3. CASE /\ ~closed[p] /\ ~regClosed[p]
             /\ members' = [members EXCEPT ![p] = @ \cup {v}]
             /\ joined' = [joined EXCEPT ![v] = p]
    BY <2>1, <2>3 DEF ViewerRegistration
  <2> QED
    BY <2>1, <2>2, <2>3 DEF ViewerRegistration, Joins
<1>14. ASSUME NEW v \in Viewers, StopWatching(v) PROVE ClosedRegistryIsClosed'
  BY <1>14 DEF StopWatching
<1>15. ASSUME NEW w \in Writers, WriterFails(w) PROVE ClosedRegistryIsClosed'
  BY <1>15 DEF WriterFails, ClosedBy
<1>16. ASSUME NEW w \in Writers, HookCloses(w) PROVE ClosedRegistryIsClosed'
  BY <1>16 DEF HookCloses, ClosedBy
<1>17. ASSUME BeginShutdown PROVE ClosedRegistryIsClosed'
  BY <1>17 DEF BeginShutdown
<1>18. ASSUME NEW p \in Publishers, ShutdownBeginClose(p)
       PROVE  ClosedRegistryIsClosed'
  BY <1>18 DEF ShutdownBeginClose, BeginClose
<1>19. ASSUME NEW p \in Publishers, ShutdownCloseAll(p)
       PROVE  ClosedRegistryIsClosed'
  <2>1. CloseAll(p, Shutdown) /\ UNCHANGED members
    BY <1>19 DEF ShutdownCloseAll
  <2> QED
    BY <2>1, CloseAllCloses
<1>20. ASSUME EndShutdown PROVE ClosedRegistryIsClosed'
  BY <1>20 DEF EndShutdown
<1> HIDE DEF TypeOK, MembersJoined, HandlersInOrder, LoopOnMembers,
        ClosingMarked, ClosedRegistryIsClosed, NilMember, Serving, Writers
<1> QED
  BY <1>1, <1>2, <1>3, <1>4, <1>5, <1>6, <1>7, <1>8, <1>9, <1>10, <1>11,
     <1>12, <1>13, <1>14, <1>15, <1>16, <1>17, <1>18, <1>19, <1>20
  DEF Next, PublisherStep, ViewerStep, ShutdownStep, Moves

-----------------------------------------------------------------------------
(* The theorems.                                                             *)

\* The empty relay satisfies the invariant.
LEMMA InitIInv == Init => RelayInv
<1> SUFFICES ASSUME Init PROVE RelayInv
  OBVIOUS
<1> USE DEF Init
<1>1. TypeOK
  BY MaxPacketsAssumption DEF TypeOK, Locations, Serving, Writers
<1>2. Membership /\ ClosingMarked
  BY DEF Membership, MembersJoined, HandlersInOrder, ClosingMarked, Writers
<1>3. RelayControl /\ Round
  BY DEF RelayControl, MetByTheLoop, LoopOnMembers, MapByKey, MapLeadsToRunning,
         Round, RoundUnderWay, NobodySkipped, Serving
<1>4. Kept /\ ClosedRegistryIsClosed
  BY DEF Kept, NoneForgotten, WaitingMeansRegistered, ClosedRegistryIsClosed
<1> QED
  BY <1>1, <1>2, <1>3, <1>4 DEF RelayInv

\* Every step keeps it.
LEMMA StepIInv == RelayInv /\ [Next]_vars => RelayInv'
BY TypeStep, MembershipStep, ControlStep, ClosingStep, RoundStep, KeptStep,
   ClosedStep
DEF RelayInv, Membership, RelayControl, Round, Kept

\* Every reachable state satisfies the inductive invariant.
THEOREM RelayInvariance == Spec => []RelayInv
BY InitIInv, StepIInv, PTL DEF Spec

\* The state has its shape; the loop has a writer in hand exactly where the
\* code dereferences one (rtmp/stream.go 173-184).
THEOREM TypeCorrect == Spec => []TypeOK
<1>1. RelayInv => TypeOK
  BY DEF RelayInv
<1> QED
  BY <1>1, RelayInvariance, PTL

\* After a publisher's closeAll every writer in its registry is closed, for
\* good, however registrations, failing writers, the publisher's own defer and
\* shutdown interleave (rtmp/stream.go 146-156, 220-226).
THEOREM ClosedForGood == Spec => []ClosedRegistryIsClosed
<1>1. RelayInv => ClosedRegistryIsClosed
  BY DEF RelayInv
<1> QED
  BY <1>1, RelayInvariance, PTL

\* A writer the registry gave up is closed (rtmp/stream.go 174-184).
THEOREM NothingForgotten == Spec => []NoneForgotten
<1>1. RelayInv => NoneForgotten
  BY DEF RelayInv, Kept
<1> QED
  BY <1>1, RelayInvariance, PTL

\* Neither a closed registry nor a removal leaves a writer open that somebody
\* could still write to (rtmp/stream.go 146-156, 174-184 and 220-226).
THEOREM NothingStaysOpen == Spec => []NothingLeftOpen
<1>1. ClosedRegistryIsClosed /\ NoneForgotten => NothingLeftOpen
  BY DEF NothingLeftOpen
<1> QED
  BY <1>1, ClosedForGood, NothingForgotten, PTL

\* Only a viewer that registered with a closed publisher can wait outside its
\* registry (rtmp/stream.go 152-154).
THEOREM WaitersRegistered == Spec => []WaitingMeansRegistered
<1>1. RelayInv => WaitingMeansRegistered
  BY DEF RelayInv, Kept
<1> QED
  BY <1>1, RelayInvariance, PTL

\* FindPublisher never returns a publisher that has closed itself
\* (rtmp/server.go 151-153).
THEOREM FoundMeansRunning == Spec => []MapLeadsToRunning
<1>1. RelayInv => MapLeadsToRunning
  BY DEF RelayInv, RelayControl
<1> QED
  BY <1>1, RelayInvariance, PTL

\* Between two packets every open writer the loop has met has been handed the
\* newest packet (rtmp/stream.go 173-184).
THEOREM EveryoneServed == Spec => []NobodySkipped
<1>1. RelayInv => NobodySkipped
  BY DEF RelayInv, Round
<1> QED
  BY <1>1, RelayInvariance, PTL

-----------------------------------------------------------------------------
(* The chunk layer.                                                          *)


-----------------------------------------------------------------------------
(* The sender.                                                               *)

Headers == [fmt : 0 .. 2, time : Times, delta : Times, length : Nat, extended : BOOLEAN,
            value : Values]
Outs == [header : Headers, used : BOOLEAN, id : 0 .. MaxMessages, done : Nat]
Bytes == Seq(Ids \X Nat)
Chunks == [tfmt : 0 .. 3, cs : All, extended : BOOLEAN, time : Times, length : Nat,
           value : Values, data : Bytes]

\* The sender's state: only media messages are ever under way, and a message
\* under way has been begun and is not finished.
Shape ==
  /\ sender \in {"code", "peer"} /\ chunkSize \in ChunkSizes /\ begun \in 0 .. MaxMessages
  /\ aborted \in BOOLEAN /\ repeated \in BOOLEAN /\ failed \in BOOLEAN
  /\ out \in [All -> Outs] /\ wire \in Seq(Chunks) /\ sent \in Seq(Messages)
Unfinished ==
  /\ \A cs \in Streams : out[cs].header.value = NoValue
  /\ \A cs \in All : UnderWay(cs) => cs \in Streams /\ out[cs].done < out[cs].header.length

-----------------------------------------------------------------------------
(* The receiver, and how it is behind the sender.                            *)

ChunkStreams == [header : Headers, data : Bytes, remain : Nat, readDone : BOOLEAN]
Receivers == [limit : ChunkSizes, chunks : [All -> ChunkStreams], delivered : Seq(Messages)]

\* The receiver as it is, and as it is after one more chunk; and whether it
\* gives up over that chunk.
Now == [limit |-> remoteChunkSize, chunks |-> chunks, delivered |-> delivered]
Refuses(R, c) == ReadChunk(R.chunks[c.cs], c, R.limit).fails
StreamAfter(R, c) == ReadChunk(R.chunks[c.cs], c, R.limit).stream
LimitAfter(R, s) ==
  IF s.readDone THEN IF s.header.value.kind = "size" THEN s.header.value.size ELSE R.limit
  ELSE R.limit
DeliveredAfter(R, cs, s) ==
  IF s.readDone
    THEN Append(R.delivered,
                [cs |-> cs, time |-> s.header.time, data |-> s.data, value |-> s.header.value])
    ELSE R.delivered
After(R, c) ==
  [limit |-> LimitAfter(R, StreamAfter(R, c)),
   chunks |-> [R.chunks EXCEPT ![c.cs] = StreamAfter(R, c)],
   delivered |-> DeliveredAfter(R, c.cs, StreamAfter(R, c))]

\* A receiver's chunk stream r that has read all that was sent on it, o: it
\* remembers the same header, with a delta once one was sent, and of a message
\* under way it has what was sent.
SameHeader(g, h) ==
  /\ g.fmt = h.fmt /\ g.time = h.time /\ g.length = h.length
  /\ g.extended = h.extended /\ g.value = h.value
  /\ h.fmt # 0 => g.delta = h.delta
LevelOn(r, o) ==
  /\ SameHeader(r.header, o.header)
  /\ o.id = 0 => r.remain = 0
  /\ o.id # 0 => /\ r.remain = o.header.length - o.done
                 /\ r.data = Payload(o.id, 0, o.done) /\ ~r.readDone

\* A receiver that has read everything from a sender with this chunk size,
\* these streams, and these messages sent.
Level(R, size, os, ms) ==
  /\ R.limit = size /\ R.delivered = ms
  /\ \A cs \in All : LevelOn(R.chunks[cs], os[cs])

Begins(s, t) == Len(s) <= Len(t) /\ \A i \in 1 .. Len(s) : s[i] = t[i]

\* The receivers st[0], st[1], ... it will be, chunk by chunk of the wire: the
\* last of them is level with the sender, or meets a chunk that repeats an
\* extended time.
Run(st, n) ==
  /\ st \in [0 .. n -> Receivers] /\ st[0] = Now
  /\ \A i \in 0 .. n : Begins(st[i].delivered, sent)
  /\ \A i \in 1 .. n : ~Refuses(st[i - 1], wire[i]) /\ st[i] = After(st[i - 1], wire[i])
  /\ n = Len(wire) => Level(st[n], chunkSize, out, sent)
  /\ n < Len(wire) => repeated /\ Refuses(st[n], wire[n + 1])

CatchesUp == \E n \in 0 .. Len(wire) : \E st : Run(st, n)

Excused == failed => aborted \/ repeated
InStep == ~failed /\ ~aborted => CatchesUp
InStepInv == Shape /\ Unfinished /\ Excused /\ InStep

-----------------------------------------------------------------------------
(* Arithmetic of times, and payloads.                                        *)

\* Adding a difference of times gives the time back, wrapped around or not.
LEMMA TimeBack ==
  ASSUME NEW s \in Times, NEW t \in Times
  PROVE  /\ (t + TimeMod - s) % TimeMod \in Times
         /\ (s + ((t + TimeMod - s) % TimeMod)) % TimeMod = t
<1>1. TimeMod \in Nat /\ TimeMod > 1 /\ s \in Nat /\ t \in Nat /\ s < TimeMod /\ t < TimeMod
  BY ChunkAssumption DEF Times
<1>2. CASE t >= s
  <2>1. (t + TimeMod - s) % TimeMod = t - s
    BY <1>1, <1>2
  <2>2. (s + (t - s)) % TimeMod = t
    BY <1>1, <1>2
  <2> QED BY <2>1, <2>2, <1>1, <1>2 DEF Times
<1>3. CASE t < s
  <2>1. (t + TimeMod - s) % TimeMod = t + TimeMod - s
    BY <1>1, <1>3
  <2>2. (s + (t + TimeMod - s)) % TimeMod = t
    BY <1>1, <1>3
  <2> QED BY <2>1, <2>2, <1>1, <1>3 DEF Times
<1> QED BY <1>1, <1>2, <1>3

\* A function on the first n numbers is a sequence of length n.
LEMMA SequenceOf ==
  ASSUME NEW S, NEW n \in Nat, NEW s \in [1 .. n -> S]
  PROVE  s \in Seq(S) /\ Len(s) = n
<1>1. s \in Seq(S)
  BY SeqDef
<1>2. Len(s) \in Nat /\ 1 .. Len(s) = 1 .. n
  BY <1>1, LenProperties
<1> QED BY <1>1, <1>2

\* A payload has the bytes from one place to the other.
LEMMA PayloadFits ==
  ASSUME NEW id \in Ids, NEW from \in Nat, NEW to \in Nat, from <= to
  PROVE  /\ Payload(id, from, to) \in Bytes /\ Len(Payload(id, from, to)) = to - from
         /\ \A i \in 1 .. to - from : Payload(id, from, to)[i] = <<id, from + i>>
<1>1. to - from \in Nat
  OBVIOUS
<1>2. Payload(id, from, to) \in [1 .. to - from -> Ids \X Nat]
  BY DEF Payload
<1>3. Payload(id, from, to) \in Seq(Ids \X Nat) /\ Len(Payload(id, from, to)) = to - from
  BY <1>1, <1>2, SequenceOf
<1>4. \A i \in 1 .. to - from : Payload(id, from, to)[i] = <<id, from + i>>
  BY DEF Payload
<1> QED BY <1>3, <1>4 DEF Bytes

\* The same of the payload a message starts with.
LEMMA PayloadStarts ==
  ASSUME NEW id \in Ids, NEW to \in Nat
  PROVE  /\ Payload(id, 0, to) \in Bytes /\ Len(Payload(id, 0, to)) = to
         /\ \A i \in 1 .. to : Payload(id, 0, to)[i] = <<id, i>>
<1>1. /\ Payload(id, 0, to) \in Bytes /\ Len(Payload(id, 0, to)) = to - 0
      /\ \A i \in 1 .. to - 0 : Payload(id, 0, to)[i] = <<id, 0 + i>>
  <2>1. 0 \in Nat /\ 0 <= to
    OBVIOUS
  <2> QED BY <2>1, PayloadFits
<1>2. to - 0 = to /\ \A i \in 1 .. to : 0 + i = i
  OBVIOUS
<1> QED BY <1>1, <1>2

\* A payload goes on where the one before it ended.
LEMMA PayloadGoesOn ==
  ASSUME NEW id \in Ids, NEW from \in Nat, NEW to \in Nat, from <= to
  PROVE  Payload(id, 0, from) \o Payload(id, from, to) = Payload(id, 0, to)
<1> DEFINE a == Payload(id, 0, from)  b == Payload(id, from, to)  c == Payload(id, 0, to)
           B == Ids \X Nat
<1>1. a \in Seq(B) /\ Len(a) = from /\ \A i \in 1 .. from : a[i] = <<id, i>>
  BY PayloadStarts DEF Bytes
<1>2. b \in Seq(B) /\ Len(b) = to - from /\ \A i \in 1 .. to - from : b[i] = <<id, from + i>>
  BY PayloadFits DEF Bytes
<1>3. c \in Seq(B) /\ Len(c) = to /\ \A i \in 1 .. to : c[i] = <<id, i>>
  BY PayloadStarts DEF Bytes
<1> HIDE DEF a, b, c, B
<1>4. /\ a \o b \in Seq(B) /\ Len(a \o b) = Len(a) + Len(b)
      /\ \A i \in 1 .. Len(a) + Len(b) :
           (a \o b)[i] = IF i <= Len(a) THEN a[i] ELSE b[i - Len(a)]
  BY <1>1, <1>2, ConcatProperties
<1>5. Len(a \o b) = to
  BY <1>4, <1>1, <1>2
<1>6. ASSUME NEW i \in 1 .. to PROVE (a \o b)[i] = c[i]
  <2>1. (a \o b)[i] = IF i <= from THEN a[i] ELSE b[i - from]
    BY <1>1, <1>2, <1>4
  <2>2. CASE i <= from
    <3>1. (a \o b)[i] = a[i]
      BY <2>1, <2>2
    <3>2. a[i] = <<id, i>>
      BY <2>2, <1>1
    <3>3. c[i] = <<id, i>>
      BY <1>3
    <3> QED BY <3>1, <3>2, <3>3
  <2>3. CASE ~(i <= from)
    <3>1. i - from \in 1 .. to - from /\ from + (i - from) = i /\ (a \o b)[i] = b[i - from]
      BY <2>1, <2>3
    <3>2. b[i - from] = <<id, from + (i - from)>>
      BY <3>1, <1>2
    <3>3. c[i] = <<id, i>>
      BY <1>3
    <3> QED BY <3>1, <3>2, <3>3
  <2> QED BY <2>2, <2>3
<1>7. Len(a \o b) = Len(c)
  BY <1>5, <1>3
<1>8. \A i \in 1 .. Len(a \o b) : (a \o b)[i] = c[i]
  BY <1>6, <1>5
<1>9. a \o b = c
  BY <1>3, <1>4, <1>7, <1>8, SeqEqual
<1> QED BY <1>9 DEF a, b, c

-----------------------------------------------------------------------------
(* The first chunk of a message.                                             *)

\* What the sender writes is of the right kind.
LEMMA HeaderSent ==
  ASSUME Shape, NEW cs \in All, NEW f \in 0 .. 3, NEW time \in Times, NEW length \in Nat,
         NEW value \in Values
  PROVE  Header(f, cs, time, length, value) \in Headers
<1>1. out[cs] \in Outs /\ out[cs].header \in Headers
  BY DEF Shape, Outs
<1>2. Delta(cs, time) \in Times
  BY <1>1, TimeBack DEF Delta, Headers
<1>3. Extends(f, cs, time) \in BOOLEAN
  <2>1. CASE f = 0
    BY <2>1 DEF Extends
  <2>2. CASE f = 1
    BY <2>2 DEF Extends
  <2>3. CASE f = 2
    BY <2>3 DEF Extends
  <2>4. CASE f = 3
    BY <1>1, <2>4 DEF Extends, Headers
  <2> QED BY <2>1, <2>2, <2>3, <2>4
<1> QED BY <1>1, <1>2, <1>3 DEF Header, Headers

\* A receiver whose header is the sender's last one reads the time meant.
LEMMA TimeIsRead ==
  ASSUME Shape, NEW cs \in All, NEW r \in ChunkStreams, SameHeader(r.header, out[cs].header),
         NEW f \in 0 .. 3, NEW time \in Times, NEW length \in Nat, NEW value \in Values,
         MayCompress(f, cs, time, length), NEW data,
         NEW h, h = Header(f, cs, time, length, value)
  PROVE  TimeRead(r, Chunk(f, cs, h, data)) = time
<1> DEFINE prev == out[cs].header  g == r.header  d == Delta(cs, time)
<1>1. /\ prev \in Headers /\ g \in Headers
      /\ g.fmt = prev.fmt /\ g.time = prev.time /\ g.extended = prev.extended
      /\ prev.fmt # 0 => g.delta = prev.delta
      /\ prev.fmt \in 0 .. 2
  BY DEF Shape, Outs, ChunkStreams, SameHeader, Headers
<1>2. d \in Times /\ (prev.time + d) % TimeMod = time
  <2>1. prev.time \in Times
    BY <1>1 DEF Headers
  <2>2. /\ (time + TimeMod - prev.time) % TimeMod \in Times
        /\ (prev.time + ((time + TimeMod - prev.time) % TimeMod)) % TimeMod = time
    BY <2>1, TimeBack, Zenon
  <2> QED BY <2>2, Zenon DEF Delta
<1>3. CASE f = 0
  BY <1>3 DEF TimeRead, Chunk, Header
<1>4. CASE f = 1
  BY <1>1, <1>2, <1>4 DEF TimeRead, Chunk, Header
<1>5. CASE f = 2
  BY <1>1, <1>2, <1>5 DEF TimeRead, Chunk, Header
<1>6. CASE f = 3
  <2>1. d = IF prev.fmt = 0 THEN 0 ELSE prev.delta
    BY <1>6 DEF MayCompress
  <2>2. CASE prev.fmt = 0
    <3>1. d = 0 /\ time = prev.time
      <4>1. d = 0
        BY <2>1, <2>2
      <4>2. (prev.time + 0) % TimeMod = prev.time
        BY <1>1, ChunkAssumption DEF Headers, Times
      <4> QED BY <4>1, <4>2, <1>2
    <3> QED BY <1>1, <1>6, <2>2, <3>1 DEF TimeRead, Chunk, Header
  <2>3. CASE prev.fmt # 0
    <3>1. d = prev.delta
      BY <2>1, <2>3
    <3>2. Chunk(f, cs, h, data).time = d /\ Chunk(f, cs, h, data).tfmt = 3
      BY <1>1, <1>6, <2>3, <3>1 DEF Chunk, Header
    <3>3. TimeRead(r, Chunk(f, cs, h, data)) = (g.time + d) % TimeMod
      BY <1>1, <1>6, <2>3, <3>1, <3>2 DEF TimeRead
    <3> QED BY <3>3, <1>1, <1>2
  <2> QED BY <2>2, <2>3
<1> QED BY <1>3, <1>4, <1>5, <1>6

\* Such a receiver takes the first chunk of a message for one, ...
LEMMA FirstIsNew ==
  ASSUME NEW cs \in All, NEW r, LevelOn(r, out[cs]), ~UnderWay(cs),
         NEW c, c.tfmt \in 0 .. 3
  PROVE  NewMessage(r, c) /\ r.remain = 0
BY DEF LevelOn, UnderWay, NewMessage

\* ... reads the extended time if there is one, ...
LEMMA FirstExtends ==
  ASSUME Shape, NEW cs \in All, NEW r \in ChunkStreams, LevelOn(r, out[cs]), ~UnderWay(cs),
         NEW f \in 0 .. 3, NEW time \in Times, NEW length \in Nat, NEW value \in Values,
         MayCompress(f, cs, time, length), NEW data,
         NEW h, h = Header(f, cs, time, length, value)
  PROVE  ReadsExtended(r, Chunk(f, cs, h, data)) = h.extended
<1> DEFINE c == Chunk(f, cs, h, data)
<1>1. NewMessage(r, c)
  BY FirstIsNew DEF Chunk
<1>2. r.header.extended = out[cs].header.extended
  BY DEF LevelOn, SameHeader
<1>3. c.tfmt = f
  BY DEF Chunk
<1>4. h.extended = Extends(f, cs, time) /\ c.extended = h.extended
  BY DEF Header, Chunk
<1> HIDE DEF c
<1>5. CASE f = 0
  <2>1. c.time = time
    BY <1>5 DEF c, Chunk, Header
  <2> QED BY <1>3, <1>4, <1>5, <2>1 DEF ReadsExtended, Extends, c
<1>6. CASE f = 1
  <2>1. c.time = Delta(cs, time)
    BY <1>6 DEF c, Chunk, Header
  <2> QED BY <1>3, <1>4, <1>6, <2>1 DEF ReadsExtended, Extends, c
<1>7. CASE f = 2
  <2>1. c.time = Delta(cs, time)
    BY <1>7 DEF c, Chunk, Header
  <2> QED BY <1>3, <1>4, <1>7, <2>1 DEF ReadsExtended, Extends, c
<1>8. CASE f = 3
  <2>1. Extends(f, cs, time) = out[cs].header.extended
    BY <1>8 DEF Extends
  <2>2. r.header.extended \in BOOLEAN
    BY DEF ChunkStreams, Headers
  <2> QED BY <1>1, <1>2, <1>3, <1>4, <1>8, <2>1, <2>2 DEF ReadsExtended, c
<1> QED BY <1>5, <1>6, <1>7, <1>8

\* ... and has the header that was meant.
LEMMA HeaderIsRead ==
  ASSUME Shape, NEW cs \in All, NEW r \in ChunkStreams, LevelOn(r, out[cs]), ~UnderWay(cs),
         NEW f \in 0 .. 3, NEW time \in Times, NEW length \in Nat, NEW value \in Values,
         MayCompress(f, cs, time, length), NEW data,
         NEW h, h = Header(f, cs, time, length, value)
  PROVE  /\ SameHeader(HeaderRead(r, Chunk(f, cs, h, data)), h)
         /\ HeaderRead(r, Chunk(f, cs, h, data)) \in Headers
<1> DEFINE c == Chunk(f, cs, h, data)  g == HeaderRead(r, c)  prev == out[cs].header
<1>1. SameHeader(r.header, prev)
  BY DEF LevelOn
<1>2. TimeRead(r, c) = time
  BY <1>1, TimeIsRead
<1>3. ReadsExtended(r, c) = h.extended
  BY FirstExtends
<1>4. h \in Headers
  BY HeaderSent
<1>5. /\ c.tfmt = f /\ c.length = length /\ c.value = value
      /\ h.time = time /\ h.length = length /\ h.value = value
      /\ h.fmt = IF f = 3 THEN prev.fmt ELSE f
      /\ h.delta = IF f = 3 THEN prev.delta ELSE Delta(cs, time)
      /\ f \in {1, 2} => c.time = h.delta
  BY DEF Chunk, Header
<1>6. /\ r.header \in Headers /\ r.header.fmt = prev.fmt /\ r.header.length = prev.length
      /\ r.header.extended = prev.extended
      /\ prev.fmt # 0 => r.header.delta = prev.delta
  BY <1>1 DEF ChunkStreams, SameHeader
<1>7. f \in {2, 3} => length = prev.length
  BY DEF MayCompress
<1>8. f = 3 => h.extended = prev.extended
  BY DEF Header, Extends
<1> HIDE DEF c
<1>9. g.fmt = h.fmt /\ g.time = h.time /\ g.value = h.value
  BY <1>2, <1>5, <1>6 DEF HeaderRead
<1>10. g.length = h.length
  BY <1>5, <1>6, <1>7 DEF HeaderRead
<1>11. g.extended = h.extended
  <2>1. g.extended = IF c.tfmt = 3 THEN r.header.extended ELSE ReadsExtended(r, c)
    BY DEF HeaderRead
  <2>2. CASE f = 3
    <3>1. g.extended = r.header.extended
      BY <1>5, <2>1, <2>2
    <3> QED BY <3>1, <1>6, <1>8, <2>2, Zenon
  <2>3. CASE f # 3
    <3>1. g.extended = ReadsExtended(r, c)
      BY <1>5, <2>1, <2>3
    <3> QED BY <3>1, <1>3, Zenon
  <2> QED BY <2>2, <2>3
<1>12. h.fmt # 0 => g.delta = h.delta
  <2>1. g.delta = IF c.tfmt \in {1, 2} THEN c.time ELSE r.header.delta
    BY DEF HeaderRead
  <2>2. CASE f \in {1, 2}
    BY <1>5, <2>1, <2>2
  <2>3. CASE f \notin {1, 2} /\ h.fmt # 0
    <3>1. f = 3
      BY <1>5, <2>3
    <3> QED BY <1>5, <1>6, <2>1, <2>3, <3>1
  <2> QED BY <2>2, <2>3
<1>13. g.delta \in Times
  BY <1>4, <1>5, <1>6 DEF HeaderRead, Headers
<1>14. g = [fmt |-> g.fmt, time |-> g.time, delta |-> g.delta, length |-> g.length,
            extended |-> g.extended, value |-> g.value]
  BY DEF HeaderRead
<1>15. g \in Headers
  BY <1>4, <1>9, <1>10, <1>11, <1>13, <1>14 DEF Headers
<1> QED BY <1>9, <1>10, <1>11, <1>12, <1>15 DEF SameHeader, c

\* A receiver's stream after the first chunk of a message, with header g.
Started(g, id, n, length) ==
  [header |-> g, data |-> Payload(id, 0, n), remain |-> length - n, readDone |-> n = length]

\* The first chunk of a message is not refused, and starts the message.
LEMMA FirstIsRead ==
  ASSUME Shape, NEW cs \in All, NEW r \in ChunkStreams, LevelOn(r, out[cs]), ~UnderWay(cs),
         NEW f \in 0 .. 3, NEW time \in Times, NEW length \in Nat, NEW value \in Values,
         MayCompress(f, cs, time, length), NEW id \in Ids,
         NEW h, h = Header(f, cs, time, length, value),
         NEW n, n = Smaller(length, chunkSize),
         NEW c, c = Chunk(f, cs, h, Payload(id, 0, n))
  PROVE  /\ ~ReadChunk(r, c, chunkSize).fails
         /\ ReadChunk(r, c, chunkSize).stream = Started(HeaderRead(r, c), id, n, length)
<1> DEFINE g == HeaderRead(r, c)
<1>1. NewMessage(r, c) /\ r.remain = 0
  BY FirstIsNew DEF Chunk
<1>2. ReadsExtended(r, c) = c.extended
  <2>1. c.extended = h.extended
    BY DEF Chunk
  <2> QED BY <2>1, FirstExtends
<1>3. g.length = length /\ g \in Headers
  <2>1. h.length = length
    BY DEF Header
  <2> QED BY <2>1, HeaderIsRead DEF SameHeader
<1>4. n \in Nat /\ n <= length
  BY ChunkAssumption DEF Shape, Smaller
<1>5. c.data = Payload(id, 0, n) /\ Payload(id, 0, n) \in Bytes /\ Len(c.data) = n
  BY <1>4, PayloadStarts DEF Chunk
<1> DEFINE a == AfterNew(r, c)
<1>6. a = [header |-> g, data |-> <<>>, remain |-> length, readDone |-> FALSE]
  BY <1>1, <1>3 DEF AfterNew
<1> HIDE DEF g, a
<1>7. ReadChunk(r, c, chunkSize) =
        [fails |-> \/ r.remain # 0 /\ c.tfmt # 3
                   \/ ReadsExtended(r, c) # c.extended
                   \/ n # Len(c.data),
         stream |-> [header |-> g, data |-> <<>> \o c.data, remain |-> length - n,
                     readDone |-> (FALSE \/ length = n)]]
  <2>1. a.remain = length /\ Smaller(a.remain, chunkSize) = n
    BY <1>6
  <2>2. a.header = g /\ a.data = <<>> /\ a.readDone = FALSE
    BY <1>6
  <2> QED BY <2>1, <2>2 DEF ReadChunk, a
<1>8. ~ReadChunk(r, c, chunkSize).fails
  BY <1>1, <1>2, <1>5, <1>7
<1>9. <<>> \o c.data = Payload(id, 0, n)
  BY <1>5, ConcatEmptySeq DEF Bytes
<1>10. ReadChunk(r, c, chunkSize).stream = Started(g, id, n, length)
  BY <1>7, <1>9 DEF Started
<1> QED BY <1>8, <1>10 DEF g

-----------------------------------------------------------------------------
(* A further chunk of a message.                                             *)

\* The header of a message under way, with its time repeated or not.
Restated(h, again) == [h EXCEPT !.extended = again]

\* The rest of a message is refused if it repeats an extended time, and goes
\* on with the message if it does not.
LEMMA RestIsRead ==
  ASSUME Shape, Unfinished, NEW cs \in All, UnderWay(cs),
         NEW r \in ChunkStreams, LevelOn(r, out[cs]), NEW again \in BOOLEAN,
         NEW h, h = out[cs].header, NEW id, id = out[cs].id, NEW from, from = out[cs].done,
         NEW to, to = Smaller(h.length, from + chunkSize),
         NEW c, c = Chunk(3, cs, Restated(h, again), Payload(id, from, to))
  PROVE  /\ again => ReadChunk(r, c, chunkSize).fails
         /\ ~again => /\ ~ReadChunk(r, c, chunkSize).fails
                      /\ ReadChunk(r, c, chunkSize).stream = Started(r.header, id, to, h.length)
<1>1. /\ out[cs] \in Outs /\ h \in Headers /\ h.length \in Nat /\ from \in Nat
      /\ id \in Ids /\ from < h.length
  BY DEF Shape, Unfinished, Outs, Headers, UnderWay, Ids
<1>2. r.remain = h.length - from /\ r.data = Payload(id, 0, from) /\ ~r.readDone
  BY DEF LevelOn, UnderWay
<1>3. r.remain # 0
  BY <1>1, <1>2
<1>4. chunkSize \in Nat \ {0}
  BY ChunkAssumption DEF Shape
<1>5. to \in Nat /\ from <= to /\ to <= h.length /\ Smaller(r.remain, chunkSize) = to - from
  BY <1>1, <1>2, <1>4 DEF Smaller
<1>6. c.tfmt = 3 /\ c.extended = again /\ c.data = Payload(id, from, to)
  BY <1>1 DEF Chunk, Headers, Restated
<1>7. Len(c.data) = to - from /\ r.data \o c.data = Payload(id, 0, to)
  <2>1. Len(Payload(id, from, to)) = to - from
    BY <1>1, <1>5, PayloadFits
  <2>2. Payload(id, 0, from) \o Payload(id, from, to) = Payload(id, 0, to)
    BY <1>1, <1>5, PayloadGoesOn
  <2> QED BY <2>1, <2>2, <1>2, <1>6
<1>8. ~NewMessage(r, c)
  BY <1>3, <1>6 DEF NewMessage
<1>9. ReadsExtended(r, c) = FALSE /\ AfterNew(r, c) = r
  BY <1>6, <1>8 DEF ReadsExtended, AfterNew
<1>10. ReadChunk(r, c, chunkSize).fails <=>
         \/ r.remain # 0 /\ c.tfmt # 3
         \/ ReadsExtended(r, c) # c.extended
         \/ to - from # Len(c.data)
  BY <1>5, <1>9 DEF ReadChunk
<1>11. again => ReadChunk(r, c, chunkSize).fails
  BY <1>6, <1>9, <1>10
<1>12. ~again => ~ReadChunk(r, c, chunkSize).fails
  BY <1>6, <1>7, <1>9, <1>10
<1>13. r.remain - (to - from) = h.length - to /\ (r.readDone \/ r.remain = to - from) = (to = h.length)
  BY <1>1, <1>2, <1>5
<1>14. ReadChunk(r, c, chunkSize).stream = Started(r.header, id, to, h.length)
  BY <1>5, <1>7, <1>9, <1>13 DEF ReadChunk, Started
<1> QED BY <1>11, <1>12, <1>14

-----------------------------------------------------------------------------
(* The receiver after a chunk.                                               *)

\* What a receiver's stream is after a chunk with n bytes of the message sent.
LEMMA StreamIsLevel ==
  ASSUME NEW g \in Headers, NEW h \in Headers, SameHeader(g, h), NEW id \in Ids,
         NEW n \in Nat, n <= h.length,
         NEW o, o.header = h, o.done = n, o.id = IF n = h.length THEN 0 ELSE id
  PROVE  /\ Started(g, id, n, h.length) \in ChunkStreams
         /\ LevelOn(Started(g, id, n, h.length), o)
<1>1. h.length \in Nat /\ h.length - n \in Nat /\ (n = h.length <=> h.length - n = 0)
  BY DEF Headers
<1>2. Payload(id, 0, n) \in Bytes
  BY PayloadStarts
<1>3. Started(g, id, n, h.length) \in ChunkStreams
  BY <1>1, <1>2 DEF Started, ChunkStreams
<1>4. id # 0
  BY DEF Ids
<1>5. LevelOn(Started(g, id, n, h.length), o)
  BY <1>1, <1>4 DEF Started, LevelOn
<1> QED BY <1>3, <1>5

\* When the message is complete it is handed on as it was sent.
LEMMA MessageIsWhole ==
  ASSUME NEW g, NEW h, SameHeader(g, h), NEW id, NEW n, n = h.length, NEW cs,
         NEW s, s = Started(g, id, n, h.length)
  PROVE  [cs |-> cs, time |-> s.header.time, data |-> s.data, value |-> s.header.value]
           = Message(cs, id, h)
<1>1. s.header = g /\ s.data = Payload(id, 0, h.length)
  BY DEF Started
<1> QED BY <1>1 DEF SameHeader, Message

\* A level receiver stays so over a chunk, if its stream does and what it hands
\* on and its chunk size are the sender's.
LEMMA ReceiverIsLevel ==
  ASSUME NEW R \in Receivers, Level(R, chunkSize, out, sent), NEW cs \in All,
         NEW c, c.cs = cs, NEW s \in ChunkStreams, s = StreamAfter(R, c),
         NEW os, LevelOn(s, os[cs]), \A k \in All \ {cs} : os[k] = out[k],
         NEW size \in ChunkSizes, LimitAfter(R, s) = size,
         NEW ms \in Seq(Messages), DeliveredAfter(R, cs, s) = ms
  PROVE  After(R, c) \in Receivers /\ Level(After(R, c), size, os, ms)
<1>1. After(R, c) = [limit |-> size, chunks |-> [R.chunks EXCEPT ![cs] = s], delivered |-> ms]
  BY DEF After
<1>2. [R.chunks EXCEPT ![cs] = s] \in [All -> ChunkStreams]
  BY DEF Receivers
<1>3. After(R, c) \in Receivers
  BY <1>1, <1>2 DEF Receivers
<1>4. ASSUME NEW k \in All PROVE LevelOn(After(R, c).chunks[k], os[k])
  <2>1. After(R, c).chunks[k] = IF k = cs THEN s ELSE R.chunks[k]
    BY <1>1 DEF Receivers
  <2>2. CASE k = cs
    BY <2>1, <2>2
  <2>3. CASE k # cs
    BY <2>1, <2>3 DEF Level
  <2> QED BY <2>2, <2>3
<1> QED BY <1>1, <1>3, <1>4 DEF Level

-----------------------------------------------------------------------------
(* The run of the receiver, as chunks are sent and read.                     *)

\* A beginning stays one as more is added.
LEMMA BeginsStill ==
  ASSUME NEW S, NEW a \in Seq(S), NEW b \in Seq(S), NEW c \in Seq(S), Begins(a, b), Begins(b, c)
  PROVE  Begins(a, c)
<1>1. Len(a) \in Nat /\ Len(b) \in Nat /\ Len(c) \in Nat
  OBVIOUS
<1> QED BY <1>1 DEF Begins

\* How a receiver that has read everything takes the next chunk.
Takes(R, c, size, os, ms, again) ==
  \/ again /\ Refuses(R, c)
  \/ ~Refuses(R, c) /\ After(R, c) \in Receivers /\ Level(After(R, c), size, os, ms)

\* A chunk that a level receiver takes lets any receiver catch up.
LEMMA RunGoesOn ==
  ASSUME Shape, Shape', CatchesUp, NEW c, wire' = Append(wire, c),
         UNCHANGED readerVars, Begins(sent, sent'), repeated => repeated',
         \A R \in Receivers : Level(R, chunkSize, out, sent) =>
                                Takes(R, c, chunkSize', out', sent', repeated')
  PROVE  CatchesUp'
<1>1. PICK n, st : n \in 0 .. Len(wire) /\ Run(st, n)
  BY DEF CatchesUp
<1> n \in 0 .. Len(wire)
  BY <1>1
<1>2. wire \in Seq(Chunks) /\ sent \in Seq(Messages) /\ sent' \in Seq(Messages)
  BY DEF Shape
<1>3. Len(wire) \in Nat /\ n \in Nat /\ n <= Len(wire)
  BY <1>2
<1>4. Len(wire') = Len(wire) + 1
  BY <1>2
<1>5. \A i \in 1 .. Len(wire) : wire'[i] = wire[i]
  BY <1>2
<1>6. wire'[Len(wire) + 1] = c
  BY <1>2
<1>7. Now' = Now
  BY DEF Now, readerVars
<1>8. st \in [0 .. n -> Receivers] /\ st[0] = Now
  BY <1>1 DEF Run
<1>9. \A i \in 0 .. n : Begins(st[i].delivered, sent')
  <2> SUFFICES ASSUME NEW i \in 0 .. n PROVE Begins(st[i].delivered, sent')
    OBVIOUS
  <2>1. st[i].delivered \in Seq(Messages)
    BY <1>8 DEF Receivers
  <2>2. Begins(st[i].delivered, sent)
    BY <1>1 DEF Run
  <2> QED BY <2>1, <2>2, <1>2, BeginsStill
<1>10. \A i \in 1 .. n : ~Refuses(st[i - 1], wire'[i]) /\ st[i] = After(st[i - 1], wire'[i])
  <2> SUFFICES ASSUME NEW i \in 1 .. n
               PROVE  ~Refuses(st[i - 1], wire'[i]) /\ st[i] = After(st[i - 1], wire'[i])
    OBVIOUS
  <2>1. wire'[i] = wire[i]
    BY <1>3, <1>5
  <2> QED BY <1>1, <2>1 DEF Run
<1>11. CASE n < Len(wire)
  <2>1. repeated' /\ Refuses(st[n], wire'[n + 1])
    BY <1>1, <1>3, <1>5, <1>11 DEF Run
  <2>2. n \in 0 .. Len(wire') /\ n < Len(wire')
    BY <1>3, <1>4, <1>11
  <2>3. Run(st, n)'
    BY <1>7, <1>8, <1>9, <1>10, <2>1, <2>2 DEF Run
  <2> QED BY <2>2, <2>3 DEF CatchesUp
<1>12. CASE n = Len(wire)
  <2>1. st[n] \in Receivers /\ Level(st[n], chunkSize, out, sent)
    BY <1>1, <1>3, <1>8, <1>12 DEF Run
  <2>2. CASE repeated' /\ Refuses(st[n], c)
    <3>1. repeated' /\ Refuses(st[n], wire'[n + 1])
      BY <1>6, <1>12, <2>2
    <3>2. n \in 0 .. Len(wire') /\ n < Len(wire')
      BY <1>3, <1>4, <1>12
    <3>3. Run(st, n)'
      BY <1>7, <1>8, <1>9, <1>10, <3>1, <3>2 DEF Run
    <3> QED BY <3>2, <3>3 DEF CatchesUp
  <2>3. CASE /\ ~Refuses(st[n], c) /\ After(st[n], c) \in Receivers
             /\ Level(After(st[n], c), chunkSize', out', sent')
    <3> DEFINE m == n + 1
               last == After(st[n], c)
               sx == [i \in 0 .. m |-> IF i = m THEN last ELSE st[i]]
    <3>1. m \in Nat /\ m = Len(wire') /\ m \in 0 .. Len(wire') /\ n < m
      BY <1>3, <1>4, <1>12
    <3>2. \A i \in 0 .. m : i = m \/ i \in 0 .. n
      BY <1>3
    <3>3. sx[m] = last /\ \A i \in 0 .. n : sx[i] = st[i]
      BY <1>3
    <3> HIDE DEF sx, last, m
    <3>4. sx \in [0 .. m -> Receivers]
      BY <1>8, <2>3, <3>2, <3>3 DEF sx, last
    <3>5. sx[0] = Now'
      BY <1>3, <1>7, <1>8, <3>3
    <3>6. \A i \in 0 .. m : Begins(sx[i].delivered, sent')
      <4>1. last.delivered = sent'
        BY <2>3 DEF Level, last
      <4>2. Begins(sent', sent')
        BY <1>2 DEF Begins
      <4> QED BY <4>1, <4>2, <1>9, <3>2, <3>3
    <3>7. ASSUME NEW i \in 1 .. m
          PROVE  ~Refuses(sx[i - 1], wire'[i]) /\ sx[i] = After(sx[i - 1], wire'[i])
      <4>1. CASE i = m
        <5>1. i - 1 = n /\ n \in 0 .. n /\ i = Len(wire) + 1
          BY <1>3, <1>12, <4>1 DEF m
        <5> QED BY <5>1, <4>1, <1>6, <2>3, <3>3 DEF last
      <4>2. CASE i # m
        <5>1. i \in 1 .. n /\ i - 1 \in 0 .. n /\ i \in 0 .. n
          BY <1>3, <4>2 DEF m
        <5> QED BY <5>1, <1>10, <3>3
      <4> QED BY <4>1, <4>2
    <3>8. Level(sx[m], chunkSize', out', sent')
      BY <2>3, <3>3 DEF last
    <3>9. Run(sx, m)'
      BY <3>1, <3>4, <3>5, <3>6, <3>7, <3>8 DEF Run
    <3> QED BY <3>1, <3>9 DEF CatchesUp
  <2> QED BY <2>1, <2>2, <2>3 DEF Takes
<1> QED BY <1>3, <1>11, <1>12

-----------------------------------------------------------------------------
(* The sender's steps.                                                       *)

\* A message is begun: media, or a new chunk size that is used from then on.
BeginsMessage(f, cs, time, length, value) ==
  /\ cs \in All /\ f \in 0 .. 3 /\ time \in Times /\ length \in Nat
  /\ MayCompress(f, cs, time, length) /\ Begin(f, cs, time, length, value)
  /\ \/ cs \in Streams /\ value = NoValue /\ chunkSize' = chunkSize
     \/ cs = Control /\ length = 1 /\ \E s \in ChunkSizes : value = SizeIs(s) /\ chunkSize' = s
  /\ UNCHANGED <<sender, aborted, repeated, readerVars>>

\* What a step of either side is.
LEMMA StepKinds ==
  ASSUME [ChunkNext]_chunkVars
  PROVE  \/ \E f \in 0 .. 3, cs \in All, time \in Times, length \in Nat : \E value :
              BeginsMessage(f, cs, time, length, value)
         \/ \E cs \in Streams : Continue(cs)
         \/ \E cs \in Streams : Abort(cs)
         \/ Read
         \/ UNCHANGED chunkVars
<1>1. ASSUME NEW cs \in Streams, BeginMedia(cs)
      PROVE  \E f \in 0 .. 3, time \in Times, length \in Nat :
               BeginsMessage(f, cs, time, length, NoValue)
  <2>1. PICK f \in 0 .. 3, time \in Times, length \in Lengths :
           MayCompress(f, cs, time, length) /\ Begin(f, cs, time, length, NoValue)
    BY <1>1 DEF BeginMedia
  <2>2. length \in Nat /\ cs \in All /\ UNCHANGED <<sender, chunkSize, aborted, repeated, readerVars>>
    BY <1>1, ChunkAssumption DEF BeginMedia, All
  <2> QED BY <2>1, <2>2 DEF BeginsMessage
<1>2. ASSUME NEW cs \in Streams, WriteChunk(cs)
      PROVE  \E f \in 0 .. 3, time \in Times, length \in Nat :
               BeginsMessage(f, cs, time, length, NoValue)
  <2>1. PICK time \in Times, length \in Lengths : Begin(0, cs, time, length, NoValue)
    BY <1>2 DEF WriteChunk
  <2>2. length \in Nat /\ cs \in All /\ UNCHANGED <<sender, chunkSize, aborted, repeated, readerVars>>
    BY <1>2, ChunkAssumption DEF WriteChunk, All
  <2>3. MayCompress(0, cs, time, length) /\ 0 \in 0 .. 3
    BY DEF MayCompress
  <2> QED BY <2>1, <2>2, <2>3 DEF BeginsMessage
<1>3. ASSUME SetChunkSize
      PROVE  \E value : BeginsMessage(0, Control, 0, 1, value)
  <2>1. PICK s \in ChunkSizes : Begin(0, Control, 0, 1, SizeIs(s)) /\ chunkSize' = s
    BY <1>3 DEF SetChunkSize
  <2>2. Control \in All /\ UNCHANGED <<sender, aborted, repeated, readerVars>>
    BY <1>3 DEF SetChunkSize, All
  <2>3. MayCompress(0, Control, 0, 1) /\ 0 \in 0 .. 3 /\ 1 \in Nat
    BY DEF MayCompress
  <2>4. 0 \in Times
    BY ChunkAssumption DEF Times
  <2> QED BY <2>1, <2>2, <2>3, <2>4 DEF BeginsMessage
<1>4. 0 \in 0 .. 3 /\ 0 \in Times /\ 1 \in Nat /\ Control \in All /\ Streams \subseteq All
  BY ChunkAssumption DEF Times, All
<1> QED BY <1>1, <1>2, <1>3, <1>4 DEF ChunkNext

\* What is sent, and what becomes of it, when a message is begun.
LEMMA FirstSent ==
  ASSUME Shape, NEW f, NEW cs, NEW time, NEW length, NEW value,
         BeginsMessage(f, cs, time, length, value),
         NEW h, h = Header(f, cs, time, length, value),
         NEW n, n = Smaller(length, chunkSize), NEW id, id = begun + 1
  PROVE  /\ h \in Headers /\ value \in Values /\ h.length = length /\ h.value = value
         /\ n \in Nat /\ n <= length /\ (cs = Control => n = length)
         /\ id \in Ids /\ id # 0 /\ begun' \in 0 .. MaxMessages
         /\ chunkSize' \in ChunkSizes
         /\ wire' = Append(wire, Chunk(f, cs, h, Payload(id, 0, n)))
         /\ out' = [out EXCEPT ![cs] =
              [header |-> h, used |-> TRUE, id |-> IF n = length THEN 0 ELSE id, done |-> n]]
         /\ sent' = IF n = length THEN Append(sent, Message(cs, id, h)) ELSE sent
<1>1. /\ cs \in All /\ f \in 0 .. 3 /\ time \in Times /\ length \in Nat
      /\ Begin(f, cs, time, length, value) /\ ~UnderWay(cs)
  BY DEF BeginsMessage, Begin
<1>2. value \in Values /\ chunkSize' \in ChunkSizes
  BY DEF BeginsMessage, Shape, Values
<1>3. h \in Headers
  BY <1>1, <1>2, HeaderSent
<1>4. h.length = length /\ h.value = value
  BY DEF Header
<1>5. chunkSize \in Nat \ {0}
  BY ChunkAssumption DEF Shape
<1>6. n \in Nat /\ n <= length
  BY <1>1, <1>5 DEF Smaller
<1>7. cs = Control => length = 1
  BY ChunkAssumption DEF BeginsMessage
<1>8. cs = Control => n = length
  BY <1>5, <1>7 DEF Smaller
<1>9. begun < MaxMessages /\ begun \in Nat /\ begun' = id
  BY ChunkAssumption DEF BeginsMessage, Begin, Shape
<1>10. id \in Ids /\ id # 0 /\ begun' \in 0 .. MaxMessages
  BY <1>9, ChunkAssumption DEF Ids
<1>11. /\ wire' = Append(wire, Chunk(f, cs, h, Payload(id, 0, n)))
       /\ out' = [out EXCEPT ![cs] =
            [header |-> h, used |-> TRUE, id |-> IF n = length THEN 0 ELSE id, done |-> n]]
       /\ sent' = IF n = length THEN Append(sent, Message(cs, id, h)) ELSE sent
  BY <1>1 DEF Begin
<1> QED BY <1>2, <1>3, <1>4, <1>6, <1>8, <1>10, <1>11

\* Chunks and messages are of the right kind.
LEMMA ChunkSent ==
  ASSUME NEW f \in 0 .. 3, NEW cs \in All, NEW h \in Headers, NEW data \in Bytes
  PROVE  Chunk(f, cs, h, data) \in Chunks
<1>1. (IF f \in {1, 2} \/ (f = 3 /\ h.fmt \in {1, 2}) THEN h.delta ELSE h.time) \in Times
  BY DEF Headers
<1>2. h.extended \in BOOLEAN /\ h.length \in Nat /\ h.value \in Values
  BY DEF Headers
<1> QED BY <1>1, <1>2 DEF Chunk, Chunks

\* Likewise what a completed message becomes.
LEMMA MessageSent ==
  ASSUME NEW cs \in All, NEW id \in Ids, NEW h \in Headers
  PROVE  Message(cs, id, h) \in Messages
<1>1. h.length \in Nat /\ h.time \in Times /\ h.value \in Values
  BY DEF Headers
<1>2. Payload(id, 0, h.length) \in Bytes
  BY <1>1, PayloadStarts
<1> QED BY <1>1, <1>2 DEF Message, Messages, Bytes

\* A message sent is added to those before it.
LEMMA SentGrows ==
  ASSUME Shape, NEW m \in Messages, sent' = Append(sent, m) \/ sent' = sent
  PROVE  sent' \in Seq(Messages) /\ Begins(sent, sent')
<1>1. sent \in Seq(Messages)
  BY DEF Shape
<1>2. CASE sent' = sent
  BY <1>1, <1>2 DEF Begins
<1>3. CASE sent' = Append(sent, m)
  <2>1. Append(sent, m) \in Seq(Messages) /\ Len(Append(sent, m)) = Len(sent) + 1
    BY <1>1
  <2>2. \A i \in 1 .. Len(sent) : Append(sent, m)[i] = sent[i]
    BY <1>1
  <2>3. Len(sent) \in Nat
    BY <1>1
  <2> QED BY <1>3, <2>1, <2>2, <2>3 DEF Begins
<1> QED BY <1>2, <1>3

\* A level receiver takes the first chunk of a message, and is level again.
LEMMA FirstTaken ==
  ASSUME Shape, NEW f, NEW cs, NEW time, NEW length, NEW value,
         BeginsMessage(f, cs, time, length, value),
         NEW h, h = Header(f, cs, time, length, value),
         NEW n, n = Smaller(length, chunkSize), NEW id, id = begun + 1,
         NEW c, c = Chunk(f, cs, h, Payload(id, 0, n)), Shape',
         NEW R \in Receivers, Level(R, chunkSize, out, sent)
  PROVE  Takes(R, c, chunkSize', out', sent', repeated')
<1>1. /\ cs \in All /\ f \in 0 .. 3 /\ time \in Times /\ length \in Nat /\ ~UnderWay(cs)
      /\ MayCompress(f, cs, time, length)
      /\ \/ cs \in Streams /\ value = NoValue /\ chunkSize' = chunkSize
         \/ cs = Control /\ \E s \in ChunkSizes : value = SizeIs(s) /\ chunkSize' = s
  BY DEF BeginsMessage, Begin
<1>2. /\ h \in Headers /\ value \in Values /\ h.length = length /\ h.value = value
      /\ n \in Nat /\ n <= length /\ (cs = Control => n = length)
      /\ id \in Ids /\ id # 0 /\ chunkSize' \in ChunkSizes
      /\ out' = [out EXCEPT ![cs] =
           [header |-> h, used |-> TRUE, id |-> IF n = length THEN 0 ELSE id, done |-> n]]
      /\ sent' = IF n = length THEN Append(sent, Message(cs, id, h)) ELSE sent
  BY FirstSent
<1> DEFINE r == R.chunks[cs]  g == HeaderRead(r, c)  s == StreamAfter(R, c)
           o == [header |-> h, used |-> TRUE, id |-> IF n = length THEN 0 ELSE id, done |-> n]
<1>3. r \in ChunkStreams /\ LevelOn(r, out[cs]) /\ R.limit = chunkSize /\ c.cs = cs
  BY <1>1 DEF Receivers, Level, Chunk
<1>4. ~Refuses(R, c) /\ s = Started(g, id, n, length)
  BY <1>1, <1>2, <1>3, FirstIsRead DEF Refuses, StreamAfter
<1>5. SameHeader(g, h) /\ g \in Headers
  BY <1>1, <1>2, <1>3, HeaderIsRead
<1>6. out \in [All -> Outs] /\ sent \in Seq(Messages) /\ sent' \in Seq(Messages)
  BY DEF Shape
<1>7. out'[cs] = o /\ \A k \in All \ {cs} : out'[k] = out[k]
  BY <1>1, <1>2, <1>6
<1>8. o.header = h /\ o.done = n /\ o.id = IF n = h.length THEN 0 ELSE id
  BY <1>2
<1> HIDE DEF r, g, s, o
<1>9. s \in ChunkStreams /\ LevelOn(s, out'[cs])
  BY <1>2, <1>4, <1>5, <1>7, <1>8, StreamIsLevel
<1>10. s.readDone = (n = length) /\ s.header.value = value /\ s.header = g
  BY <1>2, <1>4, <1>5 DEF Started, SameHeader
<1>11. LimitAfter(R, s) = chunkSize'
  <2>1. CASE cs \in Streams
    <3>1. value.kind # "size" /\ chunkSize' = chunkSize
      BY <1>1, <2>1, ChunkAssumption DEF NoValue
    <3> QED BY <3>1, <1>3, <1>10 DEF LimitAfter
  <2>2. CASE cs = Control
    <3>1. value.kind = "size" /\ value.size = chunkSize'
      BY <1>1, <2>2, ChunkAssumption DEF SizeIs
    <3>2. s.readDone
      BY <1>2, <1>10, <2>2
    <3> QED BY <3>1, <3>2, <1>10 DEF LimitAfter
  <2> QED BY <1>1, <2>1, <2>2
<1>12. DeliveredAfter(R, cs, s) = sent'
  <2>1. R.delivered = sent
    BY DEF Level
  <2>2. CASE n = length
    <3>1. [cs |-> cs, time |-> s.header.time, data |-> s.data, value |-> s.header.value]
            = Message(cs, id, h)
      BY <1>2, <1>4, <1>5, <2>2, MessageIsWhole
    <3> QED BY <3>1, <1>2, <1>10, <2>1, <2>2 DEF DeliveredAfter
  <2>3. CASE n # length
    BY <1>2, <1>10, <2>1, <2>3 DEF DeliveredAfter
  <2> QED BY <2>2, <2>3
<1>13. After(R, c) \in Receivers /\ Level(After(R, c), chunkSize', out', sent')
  <2>1. LevelOn(s, out'[cs]) /\ \A k \in All \ {cs} : out'[k] = out[k]
    BY <1>7, <1>9
  <2>2. cs \in All /\ c.cs = cs /\ s = StreamAfter(R, c)
    BY <1>1, <1>3 DEF s
  <2>3. s \in ChunkStreams /\ chunkSize' \in ChunkSizes /\ sent' \in Seq(Messages)
    BY <1>2, <1>6, <1>9
  <2> QED BY <2>1, <2>2, <2>3, <1>11, <1>12, ReceiverIsLevel, Zenon
<1> QED BY <1>4, <1>13 DEF Takes

\* Beginning a message keeps the invariant.
LEMMA BeginKeeps ==
  ASSUME InStepInv, NEW f, NEW cs, NEW time, NEW length, NEW value,
         BeginsMessage(f, cs, time, length, value)
  PROVE  InStepInv'
<1> DEFINE h == Header(f, cs, time, length, value)  n == Smaller(length, chunkSize)
           id == begun + 1  c == Chunk(f, cs, h, Payload(id, 0, n))
           o == [header |-> h, used |-> TRUE, id |-> IF n = length THEN 0 ELSE id, done |-> n]
<1>1. /\ cs \in All /\ f \in 0 .. 3
      /\ \/ cs \in Streams /\ value = NoValue
         \/ cs = Control
      /\ UNCHANGED <<sender, aborted, repeated, readerVars>>
  BY DEF BeginsMessage
<1>2. /\ h \in Headers /\ h.length = length /\ h.value = value
      /\ n \in Nat /\ n <= length /\ (cs = Control => n = length)
      /\ id \in Ids /\ id # 0 /\ begun' \in 0 .. MaxMessages /\ chunkSize' \in ChunkSizes
      /\ wire' = Append(wire, c) /\ out' = [out EXCEPT ![cs] = o]
      /\ sent' = IF n = length THEN Append(sent, Message(cs, id, h)) ELSE sent
  BY FirstSent DEF InStepInv
<1> HIDE DEF h, n, id
<1>3. c \in Chunks
  BY <1>1, <1>2, PayloadStarts, ChunkSent
<1> HIDE DEF c
<1>4. o \in Outs
  BY <1>2, ChunkAssumption DEF Outs, Ids
<1>fields. o.header = h /\ o.done = n /\ (n = length => o.id = 0)
  OBVIOUS
<1> HIDE DEF o
<1>5. /\ out \in [All -> Outs] /\ wire \in Seq(Chunks) /\ sent \in Seq(Messages)
      /\ Shape /\ Unfinished
  BY DEF InStepInv, Shape
<1>6. sent' \in Seq(Messages) /\ Begins(sent, sent')
  <2>1. Message(cs, id, h) \in Messages
    BY <1>1, <1>2, MessageSent
  <2> QED BY <2>1, <1>2, <1>5, SentGrows
<1>7. wire' \in Seq(Chunks)
  BY <1>2, <1>3, <1>5
<1>8. Shape'
  <2>1. out' \in [All -> Outs]
    BY <1>2, <1>4, <1>5
  <2> QED BY <2>1, <1>1, <1>2, <1>5, <1>6, <1>7 DEF Shape, readerVars
<1>9. \A k \in All : out'[k] = IF k = cs THEN o ELSE out[k]
  BY <1>2, <1>5
<1>10. Unfinished'
  <2>1. ASSUME NEW k \in Streams PROVE out'[k].header.value = NoValue
    <3>1. k \in All /\ k # Control
      BY ChunkAssumption DEF All
    <3>2. CASE k = cs
      BY <3>1, <3>2, <1>1, <1>2, <1>9, <1>fields
    <3>3. CASE k # cs
      BY <3>1, <3>3, <1>5, <1>9 DEF Unfinished
    <3> QED BY <3>2, <3>3
  <2>2. ASSUME NEW k \in All, UnderWay(k)'
        PROVE  k \in Streams /\ out'[k].done < out'[k].header.length
    <3>1. CASE k = cs
      <4>1. n # length /\ out'[k] = o
        BY <3>1, <1>9, <1>fields, <2>2 DEF UnderWay
      <4>2. o.done = n /\ o.header.length = length /\ length \in Nat
        BY <1>2, <1>fields DEF Headers
      <4> QED BY <3>1, <4>1, <4>2, <1>1, <1>2
    <3>2. CASE k # cs
      BY <3>2, <1>5, <1>9, <2>2 DEF Unfinished, UnderWay
    <3> QED BY <3>1, <3>2
  <2> QED BY <2>1, <2>2 DEF Unfinished
<1>11. Excused'
  BY <1>1 DEF InStepInv, Excused, readerVars
<1>12. ASSUME ~failed', ~aborted' PROVE CatchesUp'
  <2>1. CatchesUp /\ repeated' = repeated /\ UNCHANGED readerVars
    BY <1>1, <1>12 DEF InStepInv, InStep, readerVars
  <2>2. \A R \in Receivers : Level(R, chunkSize, out, sent) =>
                               Takes(R, c, chunkSize', out', sent', repeated')
    BY <1>5, <1>8, FirstTaken DEF c, h, n, id
  <2> QED BY <2>1, <2>2, <1>2, <1>5, <1>6, <1>8, RunGoesOn
<1> QED BY <1>8, <1>10, <1>11, <1>12 DEF InStepInv, InStep

\* A level receiver refuses the rest of a message if it repeats a time, or
\* takes it and is level again.
LEMMA RestTaken ==
  ASSUME Shape, Unfinished, NEW cs \in Streams, UnderWay(cs), NEW again \in BOOLEAN,
         NEW h, h = out[cs].header, NEW id, id = out[cs].id, NEW from, from = out[cs].done,
         NEW to, to = Smaller(h.length, from + chunkSize),
         NEW c, c = Chunk(3, cs, Restated(h, again), Payload(id, from, to)),
         NEW o, out'[cs] = o, \A k \in All \ {cs} : out'[k] = out[k], o.header = h, o.done = to,
         o.id = IF to = h.length THEN 0 ELSE id,
         repeated' = (repeated \/ again), chunkSize' = chunkSize,
         sent' = IF to = h.length THEN Append(sent, Message(cs, id, h)) ELSE sent, Shape',
         NEW R \in Receivers, Level(R, chunkSize, out, sent)
  PROVE  Takes(R, c, chunkSize', out', sent', repeated')
<1>1. /\ cs \in All /\ out[cs] \in Outs /\ h \in Headers /\ h.length \in Nat /\ from \in Nat
      /\ id \in Ids /\ from < h.length /\ h.value = NoValue
  BY DEF All, Shape, Unfinished, Outs, Headers, UnderWay, Ids
<1>2. to \in Nat /\ to <= h.length
  <2>1. chunkSize \in Nat
    BY ChunkAssumption DEF Shape
  <2> QED BY <1>1, <2>1 DEF Smaller
<1> DEFINE r == R.chunks[cs]  s == StreamAfter(R, c)
<1>3. r \in ChunkStreams /\ LevelOn(r, out[cs]) /\ R.limit = chunkSize /\ c.cs = cs
  BY <1>1 DEF Receivers, Level, Chunk
<1>4. SameHeader(r.header, h) /\ r.header \in Headers
  BY <1>3 DEF LevelOn, ChunkStreams
<1>read. /\ again => ReadChunk(r, c, chunkSize).fails
         /\ ~again => /\ ~ReadChunk(r, c, chunkSize).fails
                      /\ ReadChunk(r, c, chunkSize).stream = Started(r.header, id, to, h.length)
  BY <1>1, <1>3, RestIsRead
<1>5. CASE again
  <2>1. Refuses(R, c)
    BY <1>3, <1>read, <1>5 DEF Refuses
  <2> QED BY <2>1, <1>5 DEF Takes
<1>6. CASE ~again
  <2>1. ~Refuses(R, c) /\ s = Started(r.header, id, to, h.length)
    BY <1>3, <1>read, <1>6 DEF Refuses, StreamAfter
  <2>2. out \in [All -> Outs] /\ sent \in Seq(Messages) /\ sent' \in Seq(Messages)
    BY DEF Shape
  <2> HIDE DEF r, s
  <2>4. s \in ChunkStreams /\ LevelOn(s, out'[cs])
    BY <1>1, <1>2, <1>4, <2>1, StreamIsLevel
  <2>5. s.readDone = (to = h.length) /\ s.header.value = NoValue
    BY <1>1, <1>4, <2>1 DEF Started, SameHeader
  <2>6. LimitAfter(R, s) = chunkSize'
    BY <1>3, <2>5 DEF LimitAfter, NoValue
  <2>7. DeliveredAfter(R, cs, s) = sent'
    <3>1. R.delivered = sent
      BY DEF Level
    <3>2. CASE to = h.length
      <4>1. [cs |-> cs, time |-> s.header.time, data |-> s.data, value |-> s.header.value]
              = Message(cs, id, h)
        BY <1>4, <2>1, <3>2, MessageIsWhole
      <4> QED BY <4>1, <2>5, <3>1, <3>2 DEF DeliveredAfter
    <3>3. CASE to # h.length
      BY <2>5, <3>1, <3>3 DEF DeliveredAfter
    <3> QED BY <3>2, <3>3
  <2>8. c.cs = cs /\ s = StreamAfter(R, c) /\ chunkSize' \in ChunkSizes
    BY <1>3 DEF s, Shape
  <2>9. After(R, c) \in Receivers /\ Level(After(R, c), chunkSize', out', sent')
    BY <1>1, <2>2, <2>4, <2>6, <2>7, <2>8, ReceiverIsLevel, Zenon
  <2> QED BY <2>1, <2>9 DEF Takes
<1> QED BY <1>5, <1>6

GoneOn(o, d, i) == [o EXCEPT !.done = d, !.id = i]

\* Changing how far a message has been sent changes nothing else.
LEMMA OutGoesOn ==
  ASSUME NEW o \in Outs, NEW d \in Nat, NEW i \in 0 .. MaxMessages
  PROVE  /\ GoneOn(o, d, i) \in Outs
         /\ GoneOn(o, d, i).header = o.header /\ GoneOn(o, d, i).done = d /\ GoneOn(o, d, i).id = i
BY DEF Outs, GoneOn

\* Going on with a message keeps the invariant.
LEMMA ContinueKeeps ==
  ASSUME InStepInv, NEW cs \in Streams, Continue(cs)
  PROVE  InStepInv'
<1> DEFINE h == out[cs].header  id == out[cs].id  from == out[cs].done
           to == Smaller(h.length, from + chunkSize)
           o == out'[cs]
<1>1. /\ UnderWay(cs)
      /\ UNCHANGED <<sender, chunkSize, begun, aborted, readerVars>>
      /\ sent' = IF to = h.length THEN Append(sent, Message(cs, id, h)) ELSE sent
      /\ out' = [out EXCEPT ![cs].done = to, ![cs].id = IF to = h.length THEN 0 ELSE @]
  BY DEF Continue
<1>2. /\ Shape /\ Unfinished /\ out \in [All -> Outs] /\ wire \in Seq(Chunks)
      /\ sent \in Seq(Messages)
  BY DEF InStepInv, Shape
<1>3. /\ cs \in All /\ out[cs] \in Outs /\ h \in Headers /\ h.length \in Nat /\ from \in Nat
      /\ id \in Ids /\ from < h.length /\ h.value = NoValue
  BY <1>1, <1>2 DEF All, Unfinished, Outs, Headers, UnderWay, Ids
<1>4. to \in Nat /\ from <= to /\ to <= h.length
  BY <1>2, <1>3, ChunkAssumption DEF Shape, Smaller
<1>5. PICK again \in RepeatsTime(h) :
         /\ wire' = Append(wire, Chunk(3, cs, Restated(h, again), Payload(id, from, to)))
         /\ repeated' = (repeated \/ again)
  BY DEF Continue, Restated
<1>6. again \in BOOLEAN
  BY <1>3 DEF RepeatsTime, Headers
<1> DEFINE c == Chunk(3, cs, Restated(h, again), Payload(id, from, to))
<1>7. c \in Chunks
  <2>1. Restated(h, again) \in Headers
    BY <1>3, <1>6 DEF Headers, Restated
  <2>2. Payload(id, from, to) \in Bytes
    BY <1>3, <1>4, PayloadFits
  <2> QED BY <1>3, <2>1, <2>2, ChunkSent
<1> HIDE DEF to, c
<1>8. /\ out' \in [All -> Outs] /\ o.header = h /\ o.done = to
      /\ o.id = IF to = h.length THEN 0 ELSE id
      /\ \A k \in All \ {cs} : out'[k] = out[k]
  <2> DEFINE i == IF to = h.length THEN 0 ELSE id
             p == GoneOn(out[cs], to, i)
  <2>1. i \in 0 .. MaxMessages
    BY <1>3, ChunkAssumption DEF Ids
  <2>2. out' = [out EXCEPT ![cs] = p]
    BY <1>1, <1>2, <1>3 DEF GoneOn, to
  <2> HIDE DEF i, p
  <2>3. p \in Outs /\ p.header = h /\ p.done = to /\ p.id = i
    BY <1>3, <1>4, <2>1, OutGoesOn DEF p
  <2>4. o = p /\ out' \in [All -> Outs] /\ \A k \in All \ {cs} : out'[k] = out[k]
    BY <1>2, <1>3, <2>2, <2>3
  <2> QED BY <2>3, <2>4 DEF i
<1> HIDE DEF o
<1>10. sent' \in Seq(Messages) /\ Begins(sent, sent')
  <2>1. Message(cs, id, h) \in Messages
    BY <1>3, MessageSent
  <2> QED BY <2>1, <1>1, <1>2, SentGrows
<1>11. Shape'
  <2>1. wire' \in Seq(Chunks)
    <3>1. wire' = Append(wire, c)
      BY <1>5 DEF c
    <3> QED BY <3>1, <1>2, <1>7
  <2>2. repeated' \in BOOLEAN
    <3>1. repeated \in BOOLEAN
      BY <1>2 DEF Shape
    <3> QED BY <3>1, <1>5, <1>6
  <2> QED BY <2>1, <2>2, <1>1, <1>2, <1>8, <1>10 DEF Shape, readerVars
<1>12. Unfinished'
  <2>1. \A k \in All : out'[k] = IF k = cs THEN o ELSE out[k]
    BY <1>8 DEF o
  <2>2. ASSUME NEW k \in Streams PROVE out'[k].header.value = NoValue
    <3>1. k \in All
      BY DEF All
    <3> QED BY <3>1, <2>1, <1>2, <1>3, <1>8 DEF Unfinished
  <2>3. ASSUME NEW k \in All, UnderWay(k)'
        PROVE  k \in Streams /\ out'[k].done < out'[k].header.length
    <3>1. CASE k = cs
      <4>1. to # h.length /\ out'[k] = o
        BY <3>1, <1>8, <2>1, <2>3 DEF UnderWay
      <4> QED BY <3>1, <4>1, <1>3, <1>4, <1>8
    <3>2. CASE k # cs
      BY <3>2, <1>2, <2>1, <2>3 DEF Unfinished, UnderWay
    <3> QED BY <3>1, <3>2
  <2> QED BY <2>2, <2>3 DEF Unfinished
<1>13. Excused'
  BY <1>1, <1>5 DEF InStepInv, Excused, readerVars
<1>14. ASSUME ~failed', ~aborted' PROVE CatchesUp'
  <2>1. CatchesUp /\ (repeated => repeated') /\ UNCHANGED readerVars
    BY <1>1, <1>5, <1>14 DEF InStepInv, InStep, readerVars
  <2>3. \A R \in Receivers : Level(R, chunkSize, out, sent) =>
                               Takes(R, c, chunkSize', out', sent', repeated')
    <3> SUFFICES ASSUME NEW R \in Receivers, Level(R, chunkSize, out, sent)
                 PROVE  Takes(R, c, chunkSize', out', sent', repeated')
      OBVIOUS
    <3>1. /\ chunkSize' = chunkSize /\ UnderWay(cs)
          /\ sent' = IF to = h.length THEN Append(sent, Message(cs, id, h)) ELSE sent
      BY <1>1 DEF to
    <3>2. repeated' = (repeated \/ again) /\ out'[cs] = o
      BY <1>5 DEF o
    <3>3. to = Smaller(h.length, from + chunkSize)
      BY DEF to
    <3>4. c = Chunk(3, cs, Restated(h, again), Payload(id, from, to))
      BY DEF c
    <3> QED BY <3>1, <3>2, <3>3, <3>4, <1>2, <1>6, <1>8, <1>11, RestTaken
  <2>4. wire' = Append(wire, c)
    BY <1>5 DEF c
  <2> QED BY <2>1, <2>3, <2>4, <1>2, <1>10, <1>11, RunGoesOn
<1> QED BY <1>11, <1>12, <1>13, <1>14 DEF InStepInv, InStep

\* Giving a message up keeps the invariant, which then says little.
LEMMA AbortKeeps ==
  ASSUME InStepInv, NEW cs \in Streams, Abort(cs)
  PROVE  InStepInv'
<1> DEFINE h == Header(0, Control, 0, 1, AbortOf(cs))  id == begun + 1
           c == Chunk(0, Control, h, Payload(id, 0, 1))
<1>1. /\ begun < MaxMessages /\ begun' = id /\ aborted' = TRUE
      /\ wire' = Append(wire, c)
      /\ out' = [out EXCEPT ![cs].id = 0, ![Control].header = h, ![Control].used = TRUE]
      /\ sent' = Append(sent, Message(Control, id, h))
      /\ UNCHANGED <<sender, chunkSize, repeated, readerVars>>
  BY DEF Abort
<1>2. /\ Shape /\ Unfinished /\ out \in [All -> Outs] /\ wire \in Seq(Chunks)
      /\ sent \in Seq(Messages) /\ begun \in 0 .. MaxMessages
  BY DEF InStepInv, Shape
<1>3. Control \in All /\ cs \in All /\ cs # Control
  BY ChunkAssumption DEF All
<1>4. h \in Headers
  <2>1. 0 \in Times /\ 1 \in Nat /\ 0 \in 0 .. 3 /\ AbortOf(cs) \in Values
    BY ChunkAssumption DEF Times, Values
  <2> QED BY <1>2, <1>3, <2>1, HeaderSent
<1>5. id \in Ids /\ begun' \in 0 .. MaxMessages
  BY <1>1, <1>2, ChunkAssumption DEF Ids
<1> HIDE DEF h, id
<1>6. c \in Chunks
  <2>1. Payload(id, 0, 1) \in Bytes /\ 0 \in 0 .. 3
    BY <1>5, PayloadStarts
  <2> QED BY <1>3, <1>4, <2>1, ChunkSent
<1>7. Message(Control, id, h) \in Messages
  BY <1>3, <1>4, <1>5, MessageSent
<1> HIDE DEF c
<1>8. \A k \in All : /\ k = cs => out'[k] = [out[k] EXCEPT !.id = 0]
                     /\ k = Control => out'[k] = [out[k] EXCEPT !.header = h, !.used = TRUE]
                     /\ k # cs /\ k # Control => out'[k] = out[k]
  BY <1>1, <1>2, <1>3
<1>9. out' \in [All -> Outs]
  <2>1. ASSUME NEW k \in All PROVE out'[k] \in Outs
    <3>1. out[k] \in Outs
      BY <1>2
    <3>2. CASE k = cs
      <4>1. [out[k] EXCEPT !.id = 0] \in Outs
        BY <3>1, ChunkAssumption DEF Outs
      <4> QED BY <3>2, <4>1, <1>8
    <3>3. CASE k = Control
      <4>1. [out[k] EXCEPT !.header = h, !.used = TRUE] \in Outs
        BY <3>1, <1>4 DEF Outs
      <4> QED BY <3>3, <4>1, <1>8
    <3>4. CASE k # cs /\ k # Control
      BY <3>1, <3>4, <1>8
    <3> QED BY <3>2, <3>3, <3>4
  <2>2. out' = [k \in All |-> out'[k]]
    BY <1>1, <1>2
  <2> QED BY <2>1, <2>2
<1>10. Shape'
  <2>1. wire' \in Seq(Chunks) /\ sent' \in Seq(Messages)
    BY <1>1, <1>2, <1>6, <1>7
  <2> QED BY <2>1, <1>1, <1>2, <1>5, <1>9 DEF Shape, readerVars
<1>11. Unfinished'
  <2>1. ASSUME NEW k \in Streams PROVE out'[k].header.value = NoValue
    <3>1. k \in All /\ k # Control /\ out[k] \in Outs
      BY <1>2, ChunkAssumption DEF All
    <3>2. out'[k].header = out[k].header
      BY <3>1, <1>8 DEF Outs
    <3> QED BY <3>2, <1>2 DEF Unfinished
  <2>2. ASSUME NEW k \in All, UnderWay(k)'
        PROVE  k \in Streams /\ out'[k].done < out'[k].header.length
    <3>1. out[k] \in Outs
      BY <1>2
    <3>2. k # cs
      BY <3>1, <1>8, <2>2 DEF UnderWay, Outs
    <3>3. out'[k].id = out[k].id
      BY <3>1, <3>2, <1>8 DEF Outs
    <3>4. k \in Streams
      BY <3>3, <1>2, <2>2 DEF UnderWay, Unfinished
    <3>5. k # Control /\ out'[k] = out[k]
      BY <3>2, <3>4, <1>8, ChunkAssumption
    <3> QED BY <3>4, <3>5, <1>2, <2>2 DEF UnderWay, Unfinished
  <2> QED BY <2>1, <2>2 DEF Unfinished
<1> QED BY <1>1, <1>10, <1>11 DEF InStepInv, Excused, InStep

-----------------------------------------------------------------------------
(* The receiver's step.                                                      *)

\* Reading a chunk is giving up over it, or one step of the run.
LEMMA ReadIsAStep ==
  ASSUME Read
  PROVE  /\ ~failed /\ wire # <<>> /\ wire' = Tail(wire)
         /\ UNCHANGED <<sender, senderVars, sent>>
         /\ failed' <=> Refuses(Now, Head(wire))
         /\ failed' \in BOOLEAN
         /\ ~Refuses(Now, Head(wire)) => Now' = After(Now, Head(wire))
         /\ Refuses(Now, Head(wire)) => UNCHANGED delivered
<1> DEFINE c == Head(wire)  read == ReadChunk(chunks[c.cs], c, remoteChunkSize)  s == read.stream
<1>1. /\ ~failed /\ wire # <<>> /\ wire' = Tail(wire) /\ UNCHANGED <<sender, senderVars, sent>>
      /\ failed' = read.fails
      /\ read.fails => UNCHANGED delivered
      /\ ~read.fails =>
           /\ chunks' = [chunks EXCEPT ![c.cs] = s]
           /\ s.readDone =>
                /\ delivered' = Append(delivered,
                     [cs |-> c.cs, time |-> s.header.time, data |-> s.data,
                      value |-> s.header.value])
                /\ HandleControl(s.header.value)
           /\ ~s.readDone => UNCHANGED <<delivered, remoteChunkSize>>
  BY DEF Read
<1>2. /\ Now.chunks = chunks /\ Now.limit = remoteChunkSize /\ Now.delivered = delivered
  BY DEF Now
<1>3. (Refuses(Now, c) <=> read.fails) /\ StreamAfter(Now, c) = s
  BY <1>2 DEF Refuses, StreamAfter
<1>4. read.fails \in BOOLEAN
  BY DEF ReadChunk
<1> HIDE DEF c, read, s
<1>5. ASSUME ~read.fails PROVE Now' = After(Now, c)
  <2>1. remoteChunkSize' = LimitAfter(Now, s)
    BY <1>1, <1>2, <1>5 DEF LimitAfter, HandleControl
  <2>2. delivered' = DeliveredAfter(Now, c.cs, s)
    BY <1>1, <1>2, <1>5 DEF DeliveredAfter
  <2>3. chunks' = [Now.chunks EXCEPT ![c.cs] = s]
    BY <1>1, <1>2, <1>5
  <2>4. Now' = [limit |-> remoteChunkSize', chunks |-> chunks', delivered |-> delivered']
    BY DEF Now
  <2> QED BY <2>1, <2>2, <2>3, <2>4, <1>3 DEF After
<1> QED BY <1>1, <1>3, <1>4, <1>5 DEF c

\* Reading keeps the invariant: the run loses its first step.
LEMMA ReadKeeps ==
  ASSUME InStepInv, Read
  PROVE  InStepInv'
<1>1. /\ ~failed /\ wire # <<>> /\ wire' = Tail(wire)
      /\ UNCHANGED <<sender, senderVars, sent>>
      /\ failed' <=> Refuses(Now, Head(wire))
      /\ failed' \in BOOLEAN
      /\ ~Refuses(Now, Head(wire)) => Now' = After(Now, Head(wire))
  BY ReadIsAStep
<1>2. Shape /\ Unfinished /\ wire \in Seq(Chunks)
  BY DEF InStepInv, Shape
<1>3. /\ Tail(wire) \in Seq(Chunks) /\ Len(Tail(wire)) = Len(wire) - 1 /\ Len(wire) \in Nat \ {0}
      /\ Head(wire) = wire[1] /\ \A i \in 1 .. Len(wire) - 1 : Tail(wire)[i] = wire[i + 1]
  BY <1>1, <1>2, HeadTailProperties, EmptySeq
<1>4. Shape' /\ Unfinished'
  BY <1>1, <1>2, <1>3 DEF Shape, Unfinished, UnderWay, senderVars
<1>5. ASSUME ~aborted
      PROVE  /\ failed' => repeated
             /\ ~failed' => CatchesUp'
  <2>1. PICK n, st : n \in 0 .. Len(wire) /\ Run(st, n)
    BY <1>1, <1>5 DEF InStepInv, InStep, CatchesUp
  <2> n \in 0 .. Len(wire)
    BY <2>1
  <2>2. CASE n = 0
    <3>1. repeated /\ Refuses(st[0], wire[0 + 1])
      BY <1>3, <2>1, <2>2 DEF Run
    <3>2. st[0] = Now
      BY <2>1 DEF Run
    <3> QED BY <1>1, <1>3, <3>1, <3>2
  <2>3. CASE n # 0
    <3> DEFINE m == n - 1
               sx == [i \in 0 .. m |-> st[i + 1]]
    <3>1. n \in Nat /\ m \in Nat /\ m + 1 = n /\ m \in 0 .. Len(wire') /\ 1 \in 1 .. n
      BY <1>1, <1>3, <2>3
    <3>2. /\ st \in [0 .. n -> Receivers] /\ st[0] = Now
          /\ \A i \in 0 .. n : Begins(st[i].delivered, sent)
          /\ \A i \in 1 .. n : ~Refuses(st[i - 1], wire[i]) /\ st[i] = After(st[i - 1], wire[i])
          /\ n = Len(wire) => Level(st[n], chunkSize, out, sent)
          /\ n < Len(wire) => repeated /\ Refuses(st[n], wire[n + 1])
      BY <2>1 DEF Run
    <3>3. ~Refuses(Now, Head(wire)) /\ st[1] = After(Now, Head(wire))
      <4>1. ~Refuses(st[1 - 1], wire[1]) /\ st[1] = After(st[1 - 1], wire[1])
        BY <3>1, <3>2
      <4>2. st[1 - 1] = Now
        BY <3>2
      <4> QED BY <4>1, <4>2, <1>3
    <3>4. Now' = st[1] /\ ~failed'
      BY <1>1, <3>3
    <3>5. \A i \in 0 .. m : sx[i] = st[i + 1] /\ i + 1 \in 0 .. n
      BY <3>1
    <3>6. sx[m] = st[n] /\ sx[0] = st[1]
      BY <3>1, <3>5
    <3> HIDE DEF sx, m
    <3>7. sx \in [0 .. m -> Receivers]
      BY <3>2, <3>5 DEF sx
    <3>8. \A i \in 0 .. m : Begins(sx[i].delivered, sent')
      BY <1>1, <3>2, <3>5
    <3>9. ASSUME NEW i \in 1 .. m
          PROVE  ~Refuses(sx[i - 1], wire'[i]) /\ sx[i] = After(sx[i - 1], wire'[i])
      <4>1. /\ i + 1 \in 1 .. n /\ i - 1 \in 0 .. m /\ i \in 0 .. m
            /\ (i + 1) - 1 = i /\ (i - 1) + 1 = i /\ i \in 1 .. Len(wire) - 1
        BY <1>3, <3>1
      <4>2. sx[i] = st[i + 1] /\ sx[i - 1] = st[i] /\ wire'[i] = wire[i + 1]
        BY <1>1, <1>3, <3>5, <4>1
      <4>3. ~Refuses(st[i], wire[i + 1]) /\ st[i + 1] = After(st[i], wire[i + 1])
        <5>1. ~Refuses(st[(i + 1) - 1], wire[i + 1]) /\ st[i + 1] = After(st[(i + 1) - 1], wire[i + 1])
          BY <3>2, <4>1
        <5> QED BY <5>1, <4>1
      <4> QED BY <4>2, <4>3
    <3>10. m = Len(wire') => Level(sx[m], chunkSize', out', sent')
      <4>1. m = Len(wire') => n = Len(wire)
        <5>1. Len(wire') = Len(wire) - 1
          BY <1>1, <1>3
        <5> QED BY <5>1, <1>3, <3>1
      <4> QED BY <4>1, <1>1, <3>2, <3>6 DEF senderVars
    <3>11. m < Len(wire') => repeated' /\ Refuses(sx[m], wire'[m + 1])
      <4>1. m < Len(wire') => n < Len(wire) /\ m + 1 \in 1 .. Len(wire) - 1
        BY <1>1, <1>3, <3>1
      <4> QED BY <4>1, <1>1, <1>3, <3>1, <3>2, <3>6 DEF senderVars
    <3>12. Run(sx, m)'
      BY <3>4, <3>6, <3>7, <3>8, <3>9, <3>10, <3>11 DEF Run
    <3> QED BY <3>1, <3>4, <3>12 DEF CatchesUp
  <2> QED BY <2>2, <2>3
<1>6. Excused' /\ InStep'
  BY <1>1, <1>5 DEF Excused, InStep, senderVars
<1> QED BY <1>4, <1>6 DEF InStepInv

-----------------------------------------------------------------------------
(* The theorems.                                                             *)

\* At first nothing is on the wire and the receiver is level.
LEMMA FirstLevel ==
  ASSUME ChunkInit
  PROVE  InStepInv
<1>1. 0 \in Times /\ 0 \in 0 .. 2 /\ NoValue \in Values /\ 0 \in 0 .. MaxMessages
  BY ChunkAssumption DEF Times, Values
<1>2. NoHeader \in Headers /\ NoHeader.value = NoValue
  BY <1>1 DEF NoHeader, Headers
<1>3. [header |-> NoHeader, used |-> FALSE, id |-> 0, done |-> 0] \in Outs
  BY <1>1, <1>2 DEF Outs
<1>4. <<>> \in Seq(Chunks) /\ <<>> \in Seq(Messages) /\ <<>> \in Bytes
  BY DEF Bytes
<1>5. [header |-> NoHeader, data |-> <<>>, remain |-> 0, readDone |-> FALSE] \in ChunkStreams
  BY <1>2, <1>4 DEF ChunkStreams
<1>6. Shape
  BY <1>1, <1>3, <1>4, ChunkAssumption DEF ChunkInit, Shape
<1>7. /\ \A cs \in All : out[cs] = [header |-> NoHeader, used |-> FALSE, id |-> 0, done |-> 0]
      /\ \A cs \in All : chunks[cs]
           = [header |-> NoHeader, data |-> <<>>, remain |-> 0, readDone |-> FALSE]
  BY DEF ChunkInit
<1>8. Unfinished
  BY <1>2, <1>7 DEF Unfinished, UnderWay, All
<1>9. Now \in Receivers
  <2>1. chunks \in [All -> ChunkStreams]
    BY <1>5 DEF ChunkInit
  <2>2. remoteChunkSize \in ChunkSizes /\ delivered \in Seq(Messages)
    BY <1>4, ChunkAssumption DEF ChunkInit
  <2> QED BY <2>1, <2>2 DEF Now, Receivers
<1>10. Level(Now, chunkSize, out, sent)
  <2>1. \A cs \in All : LevelOn(chunks[cs], out[cs])
    BY <1>7 DEF LevelOn, SameHeader
  <2> QED BY <2>1 DEF Level, Now, ChunkInit
<1> DEFINE st == [i \in 0 .. 0 |-> Now]
<1>11. st[0] = Now /\ st \in [0 .. 0 -> Receivers]
  BY <1>9
<1> HIDE DEF st
<1>12. Len(wire) = 0 /\ Begins(Now.delivered, sent)
  BY DEF ChunkInit, Now, Begins
<1>13. \A i \in 0 .. 0 : i = 0
  OBVIOUS
<1>14. Run(st, 0)
  BY <1>10, <1>11, <1>12, <1>13 DEF Run
<1>15. CatchesUp
  BY <1>12, <1>14 DEF CatchesUp
<1> QED BY <1>6, <1>8, <1>15 DEF InStepInv, Excused, InStep, ChunkInit

\* A step in which nothing changes keeps the invariant.
LEMMA StutterKeeps ==
  ASSUME InStepInv, UNCHANGED chunkVars
  PROVE  InStepInv'
<1>1. Shape' /\ Unfinished' /\ Excused'
  BY DEF InStepInv, Shape, Unfinished, UnderWay, Excused, chunkVars, senderVars, readerVars
<1>2. ASSUME CatchesUp PROVE CatchesUp'
  <2>1. PICK n, st : n \in 0 .. Len(wire) /\ Run(st, n)
    BY <1>2 DEF CatchesUp
  <2> n \in 0 .. Len(wire)
    BY <2>1
  <2>2. Run(st, n)'
    BY <2>1 DEF Run, Now, chunkVars, senderVars, readerVars
  <2>3. n \in 0 .. Len(wire')
    BY DEF chunkVars
  <2> QED BY <2>2, <2>3 DEF CatchesUp
<1> QED BY <1>1, <1>2 DEF InStepInv, InStep, chunkVars, senderVars, readerVars

\* The receiver catches up with what the sender has sent, always, unless a
\* message is aborted or a time repeated.
THEOREM ChunkInvariance == ChunkSpec => []InStepInv
<1>1. InStepInv /\ [ChunkNext]_chunkVars => InStepInv'
  <2> SUFFICES ASSUME InStepInv, [ChunkNext]_chunkVars PROVE InStepInv'
    OBVIOUS
  <2> QED BY StepKinds, BeginKeeps, ContinueKeeps, AbortKeeps, ReadKeeps, StutterKeeps
<1> QED BY <1>1, FirstLevel, PTL DEF ChunkSpec

\* What InSync says of the connection holds of every reachable state.
THEOREM StaysInSync == ChunkSpec => []InSync
<1>1. InStepInv => InSync
  <2> SUFFICES ASSUME InStepInv, wire = <<>>, ~failed, ~aborted
               PROVE  /\ delivered = sent /\ remoteChunkSize = chunkSize
                      /\ \A cs \in Streams : UnderWay(cs) =>
                           /\ chunks[cs].data = Payload(out[cs].id, 0, out[cs].done)
                           /\ chunks[cs].header.time = out[cs].header.time
    BY DEF InStepInv, InSync, Excused
  <2>1. PICK n, st : n \in 0 .. Len(wire) /\ Run(st, n)
    BY DEF InStepInv, InStep, CatchesUp
  <2> n \in 0 .. Len(wire)
    BY <2>1
  <2>2. n = 0 /\ Len(wire) = 0
    OBVIOUS
  <2>3. Level(Now, chunkSize, out, sent)
    BY <2>1, <2>2 DEF Run
  <2>4. \A cs \in All : LevelOn(chunks[cs], out[cs])
    BY <2>3 DEF Level, Now
  <2> QED BY <2>3, <2>4 DEF Level, Now, LevelOn, SameHeader, UnderWay, All
<1> QED BY <1>1, ChunkInvariance, PTL

\* The connection implements the channel that MessageChannel promises, until a
\* message is aborted.
THEOREM Carries == ChunkSpec => ChunksCarryMessages
<1>1. ChunkInit => Channel!Init
  BY DEF ChunkInit, Channel!Init
<1>2. InStepInv /\ [ChunkNext]_chunkVars => [aborted' \/ Channel!Next]_<<sent, delivered, failed>>
  <2> SUFFICES ASSUME InStepInv, [ChunkNext]_chunkVars, ~aborted'
               PROVE  Channel!Next \/ UNCHANGED <<sent, delivered, failed>>
    OBVIOUS
  <2> DEFINE Adds(m) == m \in Messages /\ sent' = Append(sent, m)
  <2>1. sent \in Seq(Messages) /\ Shape
    BY DEF InStepInv, Shape
  <2>2. ASSUME NEW m, Adds(m), UNCHANGED <<delivered, failed>> PROVE Channel!Complete
    <3>1. Len(sent') = Len(sent) + 1 /\ sent'[Len(sent')] = m /\ Len(sent) \in Nat
      BY <2>1, <2>2
    <3>2. SubSeq(sent', 1, Len(sent)) = sent
      BY <2>1, <2>2
    <3> QED BY <2>2, <3>1, <3>2 DEF Channel!Complete
  <2>3. ASSUME NEW f \in 0 .. 3, NEW cs \in All, NEW time \in Times, NEW length \in Nat, NEW value,
               BeginsMessage(f, cs, time, length, value)
        PROVE  Channel!Next \/ UNCHANGED <<sent, delivered, failed>>
    <3> DEFINE h == Header(f, cs, time, length, value)  id == begun + 1
    <3>1. /\ h \in Headers /\ id \in Ids
          /\ sent' = Append(sent, Message(cs, id, h)) \/ sent' = sent
      BY <2>1, <2>3, FirstSent
    <3>2. Message(cs, id, h) \in Messages
      BY <3>1, MessageSent
    <3>3. UNCHANGED <<delivered, failed>>
      BY <2>3 DEF BeginsMessage, readerVars
    <3> QED BY <2>2, <3>1, <3>2, <3>3 DEF Channel!Next
  <2>4. ASSUME NEW cs \in Streams, Continue(cs)
        PROVE  Channel!Next \/ UNCHANGED <<sent, delivered, failed>>
    <3> DEFINE h == out[cs].header  id == out[cs].id
    <3>1. UnderWay(cs) /\ UNCHANGED <<delivered, failed>>
          /\ (sent' = Append(sent, Message(cs, id, h)) \/ sent' = sent)
      BY <2>4 DEF Continue, readerVars
    <3>2. cs \in All /\ h \in Headers /\ id \in Ids
      BY <2>1, <3>1 DEF All, Shape, Outs, UnderWay, Ids
    <3>3. Message(cs, id, h) \in Messages
      BY <3>2, MessageSent
    <3> QED BY <2>2, <3>1, <3>3 DEF Channel!Next
  <2>5. ASSUME NEW cs \in Streams, Abort(cs)
        PROVE  FALSE
    BY <2>5 DEF Abort
  <2>6. ASSUME Read
        PROVE  Channel!Next \/ UNCHANGED <<sent, delivered, failed>>
    <3>1. /\ ~failed /\ wire # <<>> /\ ~aborted /\ sent' = sent
          /\ failed' <=> Refuses(Now, Head(wire))
          /\ failed' \in BOOLEAN
          /\ ~Refuses(Now, Head(wire)) => Now' = After(Now, Head(wire))
          /\ Refuses(Now, Head(wire)) => UNCHANGED delivered
      BY <2>6, ReadIsAStep DEF senderVars
    <3>same. ~failed' => failed' = failed
      <4>1. failed \in BOOLEAN
        BY <2>1 DEF Shape
      <4> QED BY <4>1, <3>1
    <3>2. CASE failed'
      BY <3>1, <3>2 DEF Channel!Next, Channel!Fail
    <3>3. CASE ~failed'
      <4>1. PICK n, st : n \in 0 .. Len(wire) /\ Run(st, n)
        BY <3>1 DEF InStepInv, InStep, CatchesUp
      <4> n \in 0 .. Len(wire)
        BY <4>1
      <4>2. wire \in Seq(Chunks) /\ Head(wire) = wire[1] /\ Len(wire) \in Nat \ {0}
        BY <2>1, <3>1 DEF Shape
      <4>3. n # 0
        BY <3>1, <3>3, <4>1, <4>2 DEF Run
      <4>4. Begins(st[1].delivered, sent) /\ st[1] = After(Now, Head(wire)) /\ st[0] \in Receivers
        <5>1. 1 \in 1 .. n /\ 1 \in 0 .. n /\ 1 - 1 = 0 /\ 0 \in 0 .. n
          BY <4>3
        <5>2. st[0] = Now /\ st[1] = After(st[1 - 1], wire[1])
          BY <4>1, <5>1 DEF Run
        <5> QED BY <4>1, <4>2, <5>1, <5>2 DEF Run
      <4>5. Begins(delivered', sent) /\ delivered \in Seq(Messages)
        <5>1. Now' = st[1] /\ Now'.delivered = delivered' /\ Now.delivered = delivered
          BY <3>1, <3>3, <4>4 DEF Now
        <5>2. st[0] = Now
          BY <4>1 DEF Run
        <5> QED BY <4>4, <5>1, <5>2 DEF Receivers
      <4>6. delivered' = delivered \/ \E m : delivered' = Append(delivered, m)
        <5>1. Now' = After(Now, Head(wire)) /\ Now.delivered = delivered
              /\ Now'.delivered = delivered'
          BY <3>1, <3>3 DEF Now
        <5>2. delivered' = DeliveredAfter(Now, Head(wire).cs, StreamAfter(Now, Head(wire)))
          BY <5>1 DEF After
        <5> QED BY <5>1, <5>2 DEF DeliveredAfter
      <4>7. ASSUME NEW m, delivered' = Append(delivered, m) PROVE Channel!Deliver
        <5>1. Len(delivered') = Len(delivered) + 1 /\ delivered'[Len(delivered) + 1] = m
              /\ Len(delivered) \in Nat
          BY <4>5, <4>7
        <5>2. Len(delivered) < Len(sent) /\ m = sent[Len(delivered) + 1]
          BY <2>1, <4>5, <5>1 DEF Begins
        <5> QED BY <3>1, <3>same, <3>3, <4>7, <5>2 DEF Channel!Deliver
      <4> QED BY <3>1, <3>same, <3>3, <4>6, <4>7 DEF Channel!Next
    <3> QED BY <3>2, <3>3
  <2>7. ASSUME UNCHANGED chunkVars
        PROVE  UNCHANGED <<sent, delivered, failed>>
    BY <2>7 DEF chunkVars, readerVars
  <2> QED BY StepKinds, <2>3, <2>4, <2>5, <2>6, <2>7
<1> QED BY <1>1, <1>2, ChunkInvariance, PTL DEF ChunkSpec, ChunksCarryMessages
=============================================================================
