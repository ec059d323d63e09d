--------------------------- MODULE SfuRoom_proofs ---------------------------
(* Members, tracks and watchers of a forwarding room, for any number of      *)
(* connections, users and watchers: who is added, who is found, who is cut   *)
(* off, and which of the panics can happen.                                  *)
EXTENDS SfuRoom, TLAPS

PcStates == {"none", "apart", "connected", "failed", "closed"}

Shape ==
  /\ userOf \in [Joins -> Users]
  /\ current \in Joins \cup {None}
  /\ members \in [Rooms -> [Users -> Joins \cup {None}]]
  /\ pc \in [Joins -> PcStates]
  /\ session \in [Joins -> {"idle", "open", "closed"}]
  /\ roomOf \in [Joins -> Joins \cup {None}]
  /\ track \in [Joins -> [Kinds -> {"none", "stored", "looping"}]]
  /\ onClose \in [Joins -> [Reports -> {"no", "called", "leaving", "done"}]]
  /\ isDel \subseteq Joins /\ saveClosed \subseteq Joins
  /\ listeners \in [Joins -> SUBSET Forwards]
  /\ forward \in [Forwards -> {"idle", "found", "listening", "closed"}]
  /\ target \in [Forwards -> Joins \cup {None}]
  /\ crashed \in BOOLEAN /\ added \subseteq Joins /\ bystanders \subseteq Joins

\* A peer connection has a room; it is reported failed, then closed, once each,
\* because a closed one has no session left that could close it.
Connected ==
  \A j \in Joins :
    /\ pc[j] = "none" <=> roomOf[j] = None
    /\ session[j] = "idle" => pc[j] = "none"
    /\ session[j] = "open" => pc[j] \notin {"none", "closed"}
    /\ onClose[j]["failed"] # "no" => pc[j] \in {"failed", "closed"}
    /\ onClose[j]["closed"] # "no" => pc[j] = "closed"
    /\ \A k \in Kinds : HasTrack(j, k) => pc[j] # "none"

\* Who is being deleted is marked; saveChan is closed by an OnClose.
Deleted ==
  \A j \in Joins :
    /\ Leaving(j) => j \in isDel
    /\ j \in isDel => pc[j] # "none"
    /\ j \in saveClosed => Left(j)

\* Only who has both tracks is added, and only who was added is an entry.
Entries ==
  /\ \A j \in added : Complete(j) /\ pc[j] # "none"
  /\ \A r \in Rooms, u \in Users : members[r][u] # None => members[r][u] \in added

\* A watcher has found somebody who was added, and listens where it is listed.
Watchers ==
  /\ \A f \in Forwards : forward[f] = "found" => target[f] \in added
  /\ \A j \in Joins, f \in Forwards : f \in listeners[j] => forward[f] \in {"listening", "closed"}

\* Who has not been added yet has the room that is in the map, or one that was
\* swept under its eyes.
Arriving ==
  \A j \in Joins \ added : roomOf[j] # None => roomOf[j] = current \/ j \in bystanders

IInv ==
  /\ Shape /\ Connected /\ Deleted /\ Entries /\ Watchers /\ Arriving
  /\ BothTracksJoin /\ NoForwardFromClosed /\ ProcessSurvives /\ MemberIsFound

-----------------------------------------------------------------------------
(* What the steps do, but for the age and the lock of a room.                *)

\* The state of a peer connection changes, with a report that is the first of
\* its kind or none.
Turns(j) ==
  /\ pc[j] # "none"
  /\ \E to \in PcStates \ {"none"} : pc' = [pc EXCEPT ![j] = to]
  /\ \/ onClose' = onClose
     \/ \E r \in Reports : onClose[j][r] = "no" /\ onClose' = [onClose EXCEPT ![j][r] = "called"]
  /\ \/ session' = session /\ (session[j] = "open" => pc'[j] # "closed")
     \/ session' = [session EXCEPT ![j] = "closed"]
  /\ onClose'[j]["failed"] # "no" => pc'[j] \in {"failed", "closed"}
  /\ onClose'[j]["closed"] # "no" => pc'[j] = "closed"
  /\ UNCHANGED <<userOf, current, members, roomOf, track, member, saveClosed,
                 watching, crashed, history>>

Kept == <<userOf, current, members, connection, track, onClose, member, saveClosed,
          watching, crashed, history>>

\* The empty entry is no connection.
LEMMA NoneOutside == None \notin Joins
BY SfuAssumption

\* Every step is of one of the kinds above, or changes nothing that is kept.
LEMMA StepKinds ==
  ASSUME Shape, Connected, [Next]_vars
  PROVE  \/ UNCHANGED Kept
         \/ UNCHANGED userOf /\ Sweep
         \/ UNCHANGED userOf /\ \E j \in Joins :
              \/ Open(j) \/ OpenFails(j) \/ Turns(j)
              \/ \E k \in Kinds : StoreTrack(j, k) \/ Check(j, k) \/ SavePacket(j, k)
              \/ \E r \in Reports : BeginLeave(j, r) \/ EndLeave(j, r)
         \/ UNCHANGED userOf /\ \E f \in Forwards : FindMember(f) \/ Attach(f) \/ StopWatching(f)
<1> USE DEF Shape, Connected, PcStates, Reports
<1>1. CASE UNCHANGED vars
  BY <1>1 DEF vars, Kept, rooms, history, watching, member, connection
<1>2. CASE Age /\ UNCHANGED userOf
  BY <1>2 DEF Age, Kept, history, watching, member, connection
<1>3. ASSUME NEW j \in Joins, UNCHANGED userOf, Connect(j) \/ Disconnect(j) \/ IceFails(j) PROVE Turns(j)
  BY <1>3 DEF Connect, Disconnect, IceFails, StateChange, Turns, rooms
<1>4. ASSUME NEW j \in Joins, UNCHANGED userOf, IceHandler(j) \/ PeerCloses(j) PROVE Turns(j)
  BY <1>4 DEF IceHandler, PeerCloses, ClosePc, Turns, rooms
<1>5. ASSUME NEW j \in Joins, UNCHANGED userOf, SessionEnds(j) PROVE Turns(j)
  BY <1>5 DEF SessionEnds, ClosePc, Turns, rooms
<1> QED
  BY <1>1, <1>2, <1>3, <1>4, <1>5 DEF Next, Signals, Media, Leaves, Watches

-----------------------------------------------------------------------------
(* Each kind of step keeps the invariant. Reports are made once, tracks are    *)
(* never taken back, and added and isDel only grow: that is why most of it     *)
(* survives most steps.                                                        *)

\* A step that changes none of these variables.
LEMMA StillStep == IInv /\ UNCHANGED Kept => IInv'
BY DEF IInv, Shape, Connected, Deleted, Entries, Watchers, Arriving, BothTracksJoin,
   NoForwardFromClosed, ProcessSurvives, MemberIsFound, Kept, connection, member,
   watching, history, Left, Leaving, Complete, HasTrack, Overtaken

\* The janitor takes an empty room out of the map.
LEMMA SweepStep == IInv /\ UNCHANGED userOf /\ Sweep => IInv'
<1> SUFFICES ASSUME IInv, UNCHANGED userOf, Sweep PROVE IInv'
  OBVIOUS
<1> USE DEF IInv, Shape, Sweep, connection, member, watching, Rooms
<1>1. Shape' /\ Connected' /\ Deleted' /\ Entries' /\ Watchers'
  BY DEF Connected, Deleted, Entries, Watchers, Left, Leaving, Complete, HasTrack
<1>2. BothTracksJoin' /\ NoForwardFromClosed' /\ ProcessSurvives'
  BY DEF BothTracksJoin, NoForwardFromClosed, ProcessSurvives, Left
<1>3. Arriving'
  BY DEF Arriving
<1>4. MemberIsFound'
  \* whoever relies on being found in the map keeps the room from being empty
  BY NoneOutside DEF MemberIsFound, Overtaken, Leaving, Sweepable, Empty
<1> QED
  BY <1>1, <1>2, <1>3, <1>4

\* OnOpen: a peer connection and a room.
LEMMA OpenStep == ASSUME IInv, NEW j \in Joins, UNCHANGED userOf, Open(j) PROVE IInv'
<1> USE NoneOutside DEF IInv, Shape, Open, GetOrNewRoom, member, watching, history, Rooms
<1>1. pc[j] = "none" /\ roomOf[j] = None /\ j \notin added \cup isDel
  BY DEF Connected, Deleted, Entries
<1>2. Shape' /\ Connected' /\ Deleted' /\ Entries' /\ Watchers'
  BY <1>1 DEF Connected, Deleted, Entries, Watchers, Left, Leaving, Complete, HasTrack, PcStates, Reports
<1>3. BothTracksJoin' /\ NoForwardFromClosed' /\ ProcessSurvives'
  BY DEF BothTracksJoin, NoForwardFromClosed, ProcessSurvives, Left
<1>4. Arriving'
  BY <1>1 DEF Arriving
<1>5. ASSUME NEW i \in added PROVE \/ Leaving(i)' \/ Overtaken(i)'
                                   \/ /\ members'[roomOf'[i]][userOf'[i]] = i
                                      /\ current' = roomOf'[i] \/ i \in bystanders'
  <2>1. roomOf'[i] = roomOf[i] /\ roomOf[i] # None
    BY <1>1, <1>5 DEF Connected, Entries
  <2>2. Overtaken(i) => Overtaken(i)'
    BY <1>1 DEF Overtaken
  <2> QED
    BY <2>1, <2>2 DEF MemberIsFound, Leaving
<1> QED
  BY <1>2, <1>3, <1>4, <1>5 DEF MemberIsFound

\* OnOpen gives up.
LEMMA OpenFailsStep == ASSUME IInv, NEW j \in Joins, UNCHANGED userOf, OpenFails(j) PROVE IInv'
<1> USE DEF IInv, Shape, OpenFails, rooms, member, watching, history, Rooms
<1>1. Shape' /\ Connected' /\ Deleted' /\ Entries' /\ Watchers' /\ Arriving'
  BY DEF Connected, Deleted, Entries, Watchers, Arriving, Left, Leaving, Complete, HasTrack
<1>2. BothTracksJoin' /\ NoForwardFromClosed' /\ ProcessSurvives'
  BY DEF BothTracksJoin, NoForwardFromClosed, ProcessSurvives, Left
<1>3. MemberIsFound'
  BY DEF MemberIsFound, Overtaken, Leaving
<1> QED
  BY <1>1, <1>2, <1>3

\* A change of the peer connection's state, with its report.
LEMMA TurnsStep == ASSUME IInv, NEW j \in Joins, Turns(j) PROVE IInv'
<1> USE DEF IInv, Turns, member, watching, history, Rooms
<1>1. /\ pc' \in [Joins -> PcStates] /\ session' \in [Joins -> {"idle", "open", "closed"}]
      /\ onClose' \in [Joins -> [Reports -> {"no", "called", "leaving", "done"}]]
      /\ \A i \in Joins, r \in Reports : onClose[i][r] # "no" => onClose'[i][r] = onClose[i][r]
      /\ \A i \in Joins, r \in Reports : onClose'[i][r] \in {onClose[i][r], "called"}
  <2>1. pc' \in [Joins -> PcStates] /\ session' \in [Joins -> {"idle", "open", "closed"}]
    <3>1. \A to \in PcStates : [pc EXCEPT ![j] = to] \in [Joins -> PcStates]
      BY DEF Shape
    <3>2. [session EXCEPT ![j] = "closed"] \in [Joins -> {"idle", "open", "closed"}]
      BY DEF Shape
    <3>3. pc' \in [Joins -> PcStates]
      BY <3>1
    <3>4. session' = session \/ session' = [session EXCEPT ![j] = "closed"]
      OBVIOUS
    <3> QED
      BY <3>2, <3>3, <3>4 DEF Shape
  <2>2. CASE onClose' = onClose
    BY <2>1, <2>2 DEF Shape
  <2>3. ASSUME NEW r \in Reports, onClose[j][r] = "no",
               onClose' = [onClose EXCEPT ![j][r] = "called"]
        PROVE  <1>1!2 /\ <1>1!3 /\ <1>1!4
    BY <2>3 DEF Shape
  <2> QED
    BY <2>1, <2>2, <2>3
<1>2. Shape'
  BY <1>1 DEF Shape
<1>3. \A i \in Joins : (Leaving(i)' <=> Leaving(i)) /\ (Left(i)' <=> Left(i))
  BY <1>1 DEF Leaving, Left, Shape
<1>4. Connected'
  BY DEF Shape, Connected, HasTrack, Reports, PcStates
<1>5. Deleted' /\ Entries'
  BY <1>3 DEF Shape, Deleted, Entries, Complete, HasTrack
<1>6. Watchers' /\ Arriving' /\ BothTracksJoin'
  BY DEF Shape, Watchers, Arriving, BothTracksJoin
<1>7. NoForwardFromClosed' /\ MemberIsFound'
  BY <1>3 DEF Shape, NoForwardFromClosed, MemberIsFound, Overtaken
<1>8. ProcessSurvives'
  BY <1>1 DEF Shape, ProcessSurvives
<1> QED
  BY <1>2, <1>4, <1>5, <1>6, <1>7, <1>8

\* OnTrack stores a local track.
LEMMA StoreTrackStep ==
  ASSUME IInv, NEW j \in Joins, NEW k \in Kinds, UNCHANGED userOf, StoreTrack(j, k) PROVE IInv'
<1> USE DEF IInv, StoreTrack, rooms, connection, member, watching, history, Rooms
<1>1. /\ track' \in [Joins -> [Kinds -> {"none", "stored", "looping"}]]
      /\ \A i \in Joins, l \in Kinds :
           /\ track[i][l] # "none" => track'[i][l] = track[i][l]
           /\ track'[i][l] = "looping" <=> track[i][l] = "looping"
           /\ i # j => track'[i][l] = track[i][l]
  BY DEF Shape
<1>2. Shape'
  BY <1>1 DEF Shape
<1>3. Connected' /\ Deleted' /\ Entries'
  BY <1>1 DEF Shape, Connected, Deleted, Entries, Left, Leaving, Complete, HasTrack
<1>4. Watchers' /\ Arriving' /\ NoForwardFromClosed'
  BY DEF Shape, Watchers, Arriving, NoForwardFromClosed, Left
<1>5. BothTracksJoin' /\ ProcessSurvives'
  BY <1>1 DEF Shape, BothTracksJoin, ProcessSurvives
<1>6. MemberIsFound'
  BY DEF Shape, MemberIsFound, Overtaken, Leaving
<1> QED
  BY <1>2, <1>3, <1>4, <1>5, <1>6

\* OnTrack looks for both tracks, and the member is added or not.
LEMMA CheckStep ==
  ASSUME IInv, NEW j \in Joins, NEW k \in Kinds, UNCHANGED userOf, Check(j, k) PROVE IInv'
<1> USE DEF IInv, Check, connection, member, watching, history, Rooms
<1>1. /\ track' \in [Joins -> [Kinds -> {"none", "stored", "looping"}]]
      /\ \A i \in Joins, l \in Kinds :
           /\ track'[i][l] = "none" <=> track[i][l] = "none"
           /\ track[i][l] = "looping" => track'[i][l] = "looping"
           /\ track'[i][l] = "looping" => track[i][l] = "looping" \/ (i = j /\ l = k)
  BY DEF Shape
<1>2. pc[j] # "none" /\ roomOf[j] \in Joins /\ userOf[j] \in Users
  BY DEF Shape, Connected, HasTrack
<1>3. ProcessSurvives'
  BY <1>1 DEF Shape, ProcessSurvives
<1>4. CASE ~Complete(j) /\ UNCHANGED <<members, added>>
  <2>1. Shape' /\ Connected' /\ Deleted' /\ Entries'
    BY <1>1, <1>4 DEF Shape, Connected, Deleted, Entries, Left, Leaving, Complete, HasTrack
  <2>2. Watchers' /\ Arriving' /\ NoForwardFromClosed'
    BY <1>4 DEF Shape, Watchers, Arriving, NoForwardFromClosed, Left
  \* the other track is not even stored, so it is not looping
  <2>3. BothTracksJoin'
    BY <1>1, <1>4 DEF Shape, BothTracksJoin, Complete, HasTrack
  <2>4. MemberIsFound'
    BY <1>4 DEF Shape, MemberIsFound, Overtaken, Leaving
  <2> QED
    BY <1>3, <2>1, <2>2, <2>3, <2>4
<1>5. CASE /\ Complete(j)
           /\ members' = [members EXCEPT ![roomOf[j]][userOf[j]] = j]
           /\ added' = added \cup {j}
  <2>1. /\ members' \in [Rooms -> [Users -> Joins \cup {None}]]
        /\ members'[roomOf[j]][userOf[j]] = j
        /\ \A r \in Rooms, u \in Users :
             r # roomOf[j] \/ u # userOf[j] => members'[r][u] = members[r][u]
    BY <1>2, <1>5 DEF Shape
  <2>2. Shape'
    BY <1>1, <1>5, <2>1 DEF Shape
  <2>3. Connected' /\ Deleted'
    BY <1>1 DEF Shape, Connected, Deleted, Left, Leaving, HasTrack
  <2>4. Entries'
    BY <1>1, <1>2, <1>5, <2>1 DEF Shape, Entries, Complete, HasTrack
  <2>5. Watchers' /\ Arriving' /\ NoForwardFromClosed' /\ BothTracksJoin'
    <3>1. Watchers' /\ Arriving'
      BY <1>5 DEF Shape, Watchers, Arriving
    <3>2. NoForwardFromClosed'
      BY DEF Shape, NoForwardFromClosed, Left
    <3>3. ASSUME NEW i \in Joins, \A l \in Kinds : track'[i][l] = "looping" PROVE i \in added'
      <4>1. CASE i = j
        BY <1>5, <4>1
      <4>2. CASE i # j
        <5>1. \A l \in Kinds : track[i][l] = "looping"
          BY <1>1, <3>3, <4>2
        <5> QED
          BY <1>5, <5>1 DEF BothTracksJoin
      <4> QED
        BY <4>1, <4>2
    <3> QED
      BY <3>1, <3>2, <3>3 DEF BothTracksJoin
  <2>6. ASSUME NEW i \in Joins, i \in added, i # j
        PROVE  \/ Leaving(i)' \/ Overtaken(i)'
               \/ /\ members'[roomOf'[i]][userOf'[i]] = i
                  /\ current' = roomOf'[i] \/ i \in bystanders'
    <3>1. Overtaken(i) => Overtaken(i)'
      BY <1>5 DEF Overtaken
    <3>2. CASE roomOf[i] = roomOf[j] /\ userOf[i] = userOf[j]
      BY <1>5, <2>6, <3>2 DEF Overtaken
    <3>3. CASE roomOf[i] # roomOf[j] \/ userOf[i] # userOf[j]
      <4>1. roomOf[i] \in Rooms /\ userOf[i] \in Users
        BY <2>6 DEF Shape, Connected, Entries
      <4> QED
        BY <2>1, <2>6, <3>1, <3>3, <4>1 DEF MemberIsFound, Leaving
    <3> QED
      BY <3>2, <3>3
  <2>7. \/ Leaving(j)' \/ Overtaken(j)'
        \/ members'[roomOf'[j]][userOf'[j]] = j /\ (current' = roomOf'[j] \/ j \in bystanders')
    <3>1. Overtaken(j) => Overtaken(j)'
      BY <1>5 DEF Overtaken
    <3> QED
      BY <1>2, <2>1, <3>1, NoneOutside DEF MemberIsFound, Arriving, Leaving
  <2>8. MemberIsFound'
    BY <1>5, <2>6, <2>7 DEF Shape, MemberIsFound
  <2> QED
    BY <1>3, <2>2, <2>3, <2>4, <2>5, <2>8
<1> QED
  BY <1>4, <1>5

\* A packet comes to a saveChan that is closed.
LEMMA SavePacketStep ==
  ASSUME IInv, NEW j \in Joins, NEW k \in Kinds, UNCHANGED userOf, SavePacket(j, k) PROVE IInv'
<1> USE DEF IInv, Shape, SavePacket, rooms, connection, member, watching, history
<1>1. Shape' /\ Connected' /\ Deleted' /\ Entries' /\ Watchers' /\ Arriving'
  BY DEF Connected, Deleted, Entries, Watchers, Arriving, Left, Leaving, Complete, HasTrack, Rooms
<1>2. BothTracksJoin' /\ NoForwardFromClosed' /\ ProcessSurvives'
  BY DEF BothTracksJoin, NoForwardFromClosed, ProcessSurvives, Left
<1>3. MemberIsFound'
  BY DEF MemberIsFound, Overtaken, Leaving
<1> QED
  BY <1>1, <1>2, <1>3

\* DelMember takes the locks and marks the member.
LEMMA BeginLeaveStep ==
  ASSUME IInv, NEW j \in Joins, NEW r \in Reports, UNCHANGED userOf, BeginLeave(j, r) PROVE IInv'
<1> USE DEF IInv, BeginLeave, connection, watching, history, Rooms
<1>1. /\ onClose' \in [Joins -> [Reports -> {"no", "called", "leaving", "done"}]]
      /\ \A i \in Joins, q \in Reports :
           /\ onClose'[i][q] = IF i = j /\ q = r THEN "leaving" ELSE onClose[i][q]
           /\ onClose'[i][q] = "no" <=> onClose[i][q] = "no"
           /\ onClose'[i][q] = "done" <=> onClose[i][q] = "done"
  BY DEF Shape
<1>2. Shape'
  BY <1>1 DEF Shape
<1>3. Connected'
  BY <1>1 DEF Shape, Connected, HasTrack, Reports
<1>4. pc[j] # "none"
  BY DEF Shape, Connected, Reports
<1>5. Deleted' /\ Entries'
  BY <1>1, <1>4 DEF Shape, Deleted, Entries, Left, Leaving, Complete, HasTrack
<1>6. Watchers' /\ Arriving' /\ BothTracksJoin'
  BY DEF Shape, Watchers, Arriving, BothTracksJoin
<1>7. NoForwardFromClosed'
  <2>1. \A i \in Joins : Left(i)' <=> Left(i)
    BY <1>1 DEF Left
  <2>2. listeners' = listeners /\ forward' = forward
    OBVIOUS
  <2> QED
    BY <2>1, <2>2 DEF NoForwardFromClosed
<1>8. ProcessSurvives'
  BY <1>1 DEF Shape, ProcessSurvives
<1>9. MemberIsFound'
  <2>1. \A i \in Joins : Leaving(i) => Leaving(i)'
    BY <1>1 DEF Leaving
  <2>2. \A i \in Joins : Overtaken(i) => Overtaken(i)'
    BY DEF Overtaken
  <2>3. UNCHANGED <<members, roomOf, userOf, current, added, bystanders>> /\ added \subseteq Joins
    BY DEF Shape
  <2> QED
    BY <2>1, <2>2, <2>3 DEF MemberIsFound
<1> QED
  BY <1>2, <1>3, <1>5, <1>6, <1>7, <1>8, <1>9

\* LeaveRoom closes who listens, and OnClose closes saveChan.
LEMMA EndLeaveStep ==
  ASSUME IInv, NEW j \in Joins, NEW r \in Reports, UNCHANGED userOf, EndLeave(j, r) PROVE IInv'
<1> USE DEF IInv, EndLeave, connection, member, history, Rooms
<1>1. /\ onClose' \in [Joins -> [Reports -> {"no", "called", "leaving", "done"}]]
      /\ \A i \in Joins, q \in Reports :
           /\ onClose'[i][q] = IF i = j /\ q = r THEN "done" ELSE onClose[i][q]
           /\ onClose'[i][q] = "no" <=> onClose[i][q] = "no"
  BY DEF Shape
<1>2. j \in isDel /\ roomOf[j] \in Joins /\ userOf[j] \in Users
  <2>1. Leaving(j)
    BY DEF Leaving
  <2>2. j \in isDel /\ pc[j] # "none"
    BY <2>1 DEF Deleted
  <2> QED
    BY <2>2 DEF Shape, Connected
<1>3. /\ members' \in [Rooms -> [Users -> Joins \cup {None}]]
      /\ \A q \in Rooms, u \in Users :
           members'[q][u] = IF q = roomOf[j] /\ u = userOf[j] THEN None ELSE members[q][u]
  BY <1>2 DEF Shape
<1>4. /\ forward' \in [Forwards -> {"idle", "found", "listening", "closed"}]
      /\ \A f \in Forwards : forward'[f] = IF f \in listeners[j] THEN "closed" ELSE forward[f]
      /\ target' = target
  BY DEF Shape
<1>5. Shape'
  BY <1>1, <1>3, <1>4 DEF Shape
<1>6. Connected'
  BY <1>1 DEF Shape, Connected, HasTrack, Reports
<1>7. Deleted'
  BY <1>1, <1>2 DEF Shape, Deleted, Left, Leaving
<1>8. Entries' /\ Arriving' /\ BothTracksJoin'
  BY <1>3 DEF Shape, Entries, Arriving, BothTracksJoin, Complete, HasTrack
<1>9. Watchers'
  BY <1>4 DEF Shape, Watchers
\* who had found the member earlier is closed now, who comes later is refused
<1>10. NoForwardFromClosed'
  <2>1. ASSUME NEW i \in Joins, Left(i)', NEW f \in Forwards, f \in listeners[i]
        PROVE  forward'[f] = "closed"
    <3>1. CASE i = j
      BY <1>4, <2>1, <3>1
    <3>2. CASE i # j
      <4>1. Left(i)
        BY <1>1, <2>1, <3>2 DEF Left
      <4> QED
        BY <1>4, <2>1, <4>1 DEF NoForwardFromClosed
    <3> QED
      BY <3>1, <3>2
  <2> QED
    BY <2>1 DEF Shape, NoForwardFromClosed
\* the second time there have been two reports
<1>11. ProcessSurvives'
  <2>1. ASSUME j \in saveClosed PROVE \A q \in Reports : onClose'[j][q] # "no"
    <3>1. PICK q \in Reports : onClose[j][q] = "done"
      BY <2>1 DEF Deleted, Left
    <3>2. q # r
      BY <3>1
    <3>3. Reports = {q, r}
      BY <3>2 DEF Reports
    <3> QED
      BY <1>1, <3>1, <3>3
  <2>2. crashed' <=> j \in saveClosed
    OBVIOUS
  <2>3. saveClosed' = saveClosed \cup {j}
    OBVIOUS
  <2> QED
    BY <2>1, <2>2, <2>3 DEF ProcessSurvives
<1>12. MemberIsFound'
  <2>1. ASSUME NEW i \in Joins, i \in added
        PROVE  \/ Leaving(i)' \/ Overtaken(i)'
               \/ /\ members'[roomOf'[i]][userOf'[i]] = i
                  /\ current' = roomOf'[i] \/ i \in bystanders'
    <3>1. Leaving(i) => Leaving(i)'
      BY <1>1 DEF Leaving
    <3>2. Overtaken(i) => Overtaken(i)'
      BY DEF Overtaken
    <3>3. CASE i = j
      BY <1>1, <3>3 DEF Leaving
    <3>4. CASE i # j /\ roomOf[i] = roomOf[j] /\ userOf[i] = userOf[j]
      BY <1>2, <3>4 DEF Overtaken
    <3>5. CASE roomOf[i] # roomOf[j] \/ userOf[i] # userOf[j]
      <4>1. roomOf[i] \in Rooms /\ userOf[i] \in Users
        BY <2>1 DEF Shape, Connected, Entries
      <4> QED
        BY <1>3, <2>1, <3>1, <3>2, <3>5, <4>1 DEF MemberIsFound
    <3> QED
      BY <3>3, <3>4, <3>5
  <2> QED
    BY <2>1 DEF Shape, MemberIsFound
<1> QED
  BY <1>5, <1>6, <1>7, <1>8, <1>9, <1>10, <1>11, <1>12

\* A watcher finds a member.
LEMMA FindMemberStep == ASSUME IInv, NEW f \in Forwards, UNCHANGED userOf, FindMember(f) PROVE IInv'
<1> USE DEF IInv, FindMember, rooms, connection, member, history, Rooms
<1>1. PICK u \in Users : /\ members[current][u] # None
                         /\ target' = [target EXCEPT ![f] = members[current][u]]
  OBVIOUS
<1>2. members[current][u] \in added
  BY <1>1 DEF Shape, Entries
<1>3. Shape'
  BY <1>1, <1>2 DEF Shape
<1>4. Connected' /\ Deleted' /\ Entries' /\ Arriving' /\ BothTracksJoin'
  BY DEF Shape, Connected, Deleted, Entries, Arriving, BothTracksJoin, Left, Leaving, Complete, HasTrack
<1>5. Watchers' /\ NoForwardFromClosed'
  BY <1>1, <1>2 DEF Shape, Watchers, NoForwardFromClosed, Left
<1>6. ProcessSurvives'
  BY DEF Shape, ProcessSurvives
<1>7. MemberIsFound'
  BY DEF Shape, MemberIsFound, Overtaken, Leaving
<1> QED
  BY <1>3, <1>4, <1>5, <1>6, <1>7

\* A watcher gets the member's tracks and is listed, or is too late.
LEMMA AttachStep == ASSUME IInv, NEW f \in Forwards, UNCHANGED userOf, Attach(f) PROVE IInv'
<1> DEFINE j == target[f]
<1> USE DEF IInv, Attach, rooms, connection, history, Rooms
\* only who was added is in the room, and that took two tracks: no panic here
<1>1. j \in Joins /\ j \in added /\ \A k \in Kinds : HasTrack(j, k)
  BY DEF Shape, Watchers, Entries, Complete
<1>2. /\ crashed' = crashed /\ isDel' = isDel /\ target' = target
      /\ \/ /\ j \notin isDel
            /\ listeners' = [listeners EXCEPT ![j] = @ \cup {f}]
            /\ forward' = [forward EXCEPT ![f] = "listening"]
         \/ forward' = [forward EXCEPT ![f] = "closed"] /\ listeners' = listeners
  BY <1>1 DEF MayListen
<1>3. /\ listeners' \in [Joins -> SUBSET Forwards]
      /\ forward' \in [Forwards -> {"idle", "found", "listening", "closed"}]
      /\ \A i \in Joins : listeners'[i] \subseteq listeners[i] \cup {f}
      /\ \A g \in Forwards \ {f} : forward'[g] = forward[g]
      /\ forward'[f] \in {"listening", "closed"}
  <2>1. CASE /\ listeners' = [listeners EXCEPT ![j] = @ \cup {f}]
             /\ forward' = [forward EXCEPT ![f] = "listening"]
    <3>1. listeners \in [Joins -> SUBSET Forwards]
          /\ forward \in [Forwards -> {"idle", "found", "listening", "closed"}]
      BY DEF Shape
    <3>2. listeners' \in [Joins -> SUBSET Forwards]
          /\ \A i \in Joins : listeners'[i] \subseteq listeners[i] \cup {f}
      BY <1>1, <2>1, <3>1
    <3> QED
      BY <2>1, <3>1, <3>2
  <2>2. CASE forward' = [forward EXCEPT ![f] = "closed"] /\ listeners' = listeners
    <3>1. listeners \in [Joins -> SUBSET Forwards]
          /\ forward \in [Forwards -> {"idle", "found", "listening", "closed"}]
      BY DEF Shape
    <3> QED
      BY <2>2, <3>1
  <2> QED
    BY <1>2, <2>1, <2>2
<1>4. Shape'
  BY <1>2, <1>3 DEF Shape
<1>5. Connected' /\ Deleted' /\ Entries' /\ Arriving' /\ BothTracksJoin'
  BY <1>2 DEF Shape, Connected, Deleted, Entries, Arriving, BothTracksJoin, Left, Leaving, Complete, HasTrack
<1>6. Watchers'
  <2>1. UNCHANGED <<target, added>>
    BY <1>2
  <2> QED
    BY <1>3, <2>1 DEF Watchers
<1>7. NoForwardFromClosed'
  BY <1>1, <1>2 DEF Shape, NoForwardFromClosed, Deleted, Watchers, Left, Leaving
<1>8. ProcessSurvives'
  BY <1>2 DEF Shape, ProcessSurvives
<1>9. MemberIsFound'
  BY <1>2 DEF Shape, MemberIsFound, Overtaken, Leaving
<1> QED
  BY <1>4, <1>5, <1>6, <1>7, <1>8, <1>9

\* A watcher goes.
LEMMA StopWatchingStep ==
  ASSUME IInv, NEW f \in Forwards, UNCHANGED userOf, StopWatching(f) PROVE IInv'
<1> USE DEF IInv, StopWatching, rooms, connection, member, history, Rooms
<1>1. Shape' /\ Connected' /\ Deleted' /\ Entries' /\ Arriving' /\ BothTracksJoin'
  BY DEF Shape, Connected, Deleted, Entries, Arriving, BothTracksJoin, Left, Leaving, Complete, HasTrack
<1>2. Watchers' /\ NoForwardFromClosed'
  BY DEF Shape, Watchers, NoForwardFromClosed, Left
<1>3. ProcessSurvives'
  BY DEF Shape, ProcessSurvives
<1>4. MemberIsFound'
  BY DEF Shape, MemberIsFound, Overtaken, Leaving
<1> QED
  BY <1>1, <1>2, <1>3, <1>4

-----------------------------------------------------------------------------
\* The state before the first connection satisfies the invariant.
LEMMA InitIInv == Init => IInv
<1> SUFFICES ASSUME Init PROVE IInv
  OBVIOUS
<1>1. Shape
  BY SfuAssumption DEF Init, Shape, Rooms, PcStates, Kinds, Reports
<1>2. Connected /\ Deleted /\ Entries /\ Watchers /\ Arriving
  BY <1>1 DEF Init, Shape, Connected, Deleted, Entries, Watchers, Arriving, Left, Leaving, HasTrack, Reports
<1>3. BothTracksJoin /\ NoForwardFromClosed /\ ProcessSurvives /\ MemberIsFound
  BY <1>1 DEF Init, Shape, BothTracksJoin, NoForwardFromClosed, ProcessSurvives, MemberIsFound, Kinds
<1> QED
  BY <1>1, <1>2, <1>3 DEF IInv

\* Every step keeps it.
LEMMA StepIInv == IInv /\ [Next]_vars => IInv'
<1> SUFFICES ASSUME IInv, [Next]_vars PROVE IInv'
  OBVIOUS
<1>1. Shape /\ Connected
  BY DEF IInv
<1> QED
  BY <1>1, StepKinds, StillStep, SweepStep, OpenStep, OpenFailsStep, TurnsStep, StoreTrackStep,
     CheckStep, SavePacketStep, BeginLeaveStep, EndLeaveStep, FindMemberStep, AttachStep,
     StopWatchingStep

\* What ties members, tracks, watchers and reports together in every reachable
\* state of a room (sfu/room.go, sfu/track_join_room.go).
THEOREM Invariance == Spec => []IInv
BY InitIInv, StepIInv, PTL DEF Spec

\* Nobody goes on watching a member that has left, however the watcher's
\* search, AddListener and LeaveRoom interleave (sfu/room.go 190-223).
THEOREM NobodyWatchesTheClosed == Spec => []NoForwardFromClosed
<1>1. IInv => NoForwardFromClosed
  BY DEF IInv
<1> QED
  BY <1>1, Invariance, PTL

\* The process can only go down by a second OnClose of one connection or by a
\* packet that comes to a closed saveChan; AddTrack of a nil track cannot
\* happen (sfu/track_join_room.go 152-189 and 204-219).
THEOREM OnlySaveChanPanics == Spec => []ProcessSurvives
<1>1. IInv => ProcessSurvives
  BY DEF IInv
<1> QED
  BY <1>1, Invariance, PTL

\* A member is in the room everybody gets under its user's name, until it
\* leaves, its user comes a second time, or the janitor was faster
\* (sfu/room.go 64-98 and 143-161).
THEOREM MembersFound == Spec => []MemberIsFound
<1>1. IInv => MemberIsFound
  BY DEF IInv
<1> QED
  BY <1>1, Invariance, PTL

\* Of two OnTrack callbacks at least one sees both tracks and adds the member
\* (sfu/track_join_room.go 138-150).
THEOREM SecondTrackJoins == Spec => []BothTracksJoin
<1>1. IInv => BothTracksJoin
  BY DEF IInv
<1> QED
  BY <1>1, Invariance, PTL
=============================================================================
