------------------------------ MODULE SfuRoom -------------------------------
(* A room of the selective forwarding unit, sfu/room.go: connections that    *)
(* join it with an audio and a video track (JoinRoomTrackService), and       *)
(* connections over which a member is forwarded to somebody who watches      *)
(* (RoomForwardTrackService). The handlers of a peer connection are called   *)
(* in goroutines of their own, so the two OnTrack calls, the calls of        *)
(* OnClose, the signalling session and the janitor interleave. One room id;  *)
(* rooms of other ids share only the locks of the map.                       *)
CONSTANTS
  Joins,             \* connections to /signal-room
  Forwards,          \* connections to /signal-forward
  Users,
  UserMaps,          \* which users the joining connections may be of
  None

ASSUME SfuAssumption == UserMaps \subseteq [Joins -> Users] /\ None \notin Joins

Kinds == {"audio", "video"}
Reports == {"failed", "closed"}     \* the states OnClose is called for
Rooms == Joins                      \* a room is named after the join that made it

VARIABLES
  userOf,            \* Member.userId: the user of a joining connection
  current,           \* roomMap's entry for the id, or None
  old,               \* that room is older than 30 seconds
  members,           \* room -> user -> its member or None
  lock,              \* room -> the member DelMember is deleting, or None
  pc,                \* state of a joining peer connection: "none" before OnOpen,
                     \* "apart" when new, connecting or disconnected
  session,           \* its signalling: "idle", "open", "closed"
  roomOf,            \* Member.room
  track,             \* OnTrack: "none", "stored", "looping"
  onClose,           \* OnClose per report: "no", "called", "leaving", "done"
  isDel,             \* Member.isDel
  listeners,         \* Member.listeners
  saveClosed,        \* saveChan is closed
  forward,           \* "idle", "found", "listening", "closed"
  target,            \* whom a forward has found
  crashed,           \* a panic of a goroutine that nobody recovers
  added,             \* history: the joins AddMember has been called for
  bystanders         \* history: joins whose room was swept before that

rooms == <<current, old, members, lock>>
connection == <<pc, session, roomOf>>
member == <<isDel, listeners>>
watching == <<forward, target>>
history == <<added, bystanders>>
vars == <<userOf, rooms, connection, track, onClose, member, saveClosed, watching,
          crashed, history>>

Init ==
  /\ userOf \in UserMaps
  /\ current = None /\ old = FALSE
  /\ members = [r \in Rooms |-> [u \in Users |-> None]]
  /\ lock = [r \in Rooms |-> None]
  /\ pc = [j \in Joins |-> "none"] /\ session = [j \in Joins |-> "idle"]
  /\ roomOf = [j \in Joins |-> None]
  /\ track = [j \in Joins |-> [k \in Kinds |-> "none"]]
  /\ onClose = [j \in Joins |-> [r \in Reports |-> "no"]]
  /\ isDel = {} /\ listeners = [j \in Joins |-> {}] /\ saveClosed = {}
  /\ forward = [f \in Forwards |-> "idle"] /\ target = [f \in Forwards |-> None]
  /\ crashed = FALSE /\ added = {} /\ bystanders = {}

-----------------------------------------------------------------------------
(* The room.                                                                 *)

\* getOrNewRoom
GetOrNewRoom(j) ==
  /\ current' = IF current = None THEN j ELSE current
  /\ old' = (old /\ current # None)
  /\ roomOf' = [roomOf EXCEPT ![j] = current']

Empty(r) == \A u \in Users : members[r][u] = None

\* A room gets older than 30 seconds.
Age ==
  /\ current # None /\ ~old /\ old' = TRUE
  /\ UNCHANGED <<current, members, lock, connection, track, onClose, member,
                 saveClosed, watching, crashed, history>>

\* Mutant: the janitor goes by age alone.
SweepableByAge == old /\ lock[current] = None

\* checkRoomMemberIsZero; MemberSize waits for DelMember.
Sweepable == old /\ lock[current] = None /\ Empty(current)

Sweep ==
  /\ current # None /\ Sweepable
  /\ current' = None /\ old' = FALSE
  /\ bystanders' = bystanders \cup {j \in Joins \ added : roomOf[j] = current}
  /\ UNCHANGED <<members, lock, connection, track, onClose, member,
                 saveClosed, watching, crashed, added>>

-----------------------------------------------------------------------------
(* A joining connection: signalling and the states of the peer connection.   *)

\* service.OnOpen with OnNewPeerConnection: a peer connection, a member, a room.
Open(j) ==
  /\ session[j] = "idle"
  /\ GetOrNewRoom(j)
  /\ session' = [session EXCEPT ![j] = "open"] /\ pc' = [pc EXCEPT ![j] = "apart"]
  /\ UNCHANGED <<members, lock, track, onClose, member, saveClosed,
                 watching, crashed, history>>

\* A missing room or user, a file that cannot be made, no peer connection.
OpenFails(j) ==
  /\ session[j] = "idle"
  /\ session' = [session EXCEPT ![j] = "closed"]
  /\ UNCHANGED <<rooms, pc, roomOf, track, onClose, member, saveClosed,
                 watching, crashed, history>>

\* OnConnectionStateChange: Failed and Closed call OnClose. They and Connected
\* close the session, which may end at any time anyhow.
StateChange(j, state) ==
  /\ pc' = [pc EXCEPT ![j] = state]
  /\ UNCHANGED session
  /\ onClose' = IF state \in Reports
                THEN [onClose EXCEPT ![j][state] = "called"] ELSE onClose

Connect(j) ==
  /\ pc[j] = "apart" /\ session[j] # "idle"
  /\ StateChange(j, "connected")
  /\ UNCHANGED <<rooms, roomOf, track, member, saveClosed, watching,
                 crashed, history>>

Disconnect(j) ==
  /\ pc[j] = "connected"
  /\ StateChange(j, "apart")
  /\ UNCHANGED <<rooms, roomOf, track, member, saveClosed, watching,
                 crashed, history>>

\* The ICE agent gives up: the connection is Failed, and the handler of
\* OnICEConnectionStateChange goes on to close it, if nobody else has.
IceFails(j) ==
  /\ pc[j] = "apart"
  /\ StateChange(j, "failed")
  /\ UNCHANGED <<rooms, roomOf, track, member, saveClosed, watching, crashed, history>>

\* PeerConnection.Close of a connection that is not closed yet, and its report;
\* how the session ends does not matter from here on.
ClosePc(j) ==
  /\ pc' = [pc EXCEPT ![j] = "closed"]
  /\ onClose' = [onClose EXCEPT ![j]["closed"] = "called"]
  /\ session' = [session EXCEPT ![j] = "closed"]

IceHandler(j) ==
  /\ pc[j] = "failed"
  /\ ClosePc(j)
  /\ UNCHANGED <<rooms, roomOf, track, member, saveClosed, watching, crashed, history>>

\* The browser is gone, or OnTrack cannot make a local track and closes.
PeerCloses(j) ==
  /\ pc[j] = "connected"
  /\ ClosePc(j)
  /\ UNCHANGED <<rooms, roomOf, track, member, saveClosed, watching,
                 crashed, history>>

\* The session has been closed, or the websocket is gone: service.OnClose closes
\* a connection that is not connected, as it is now.
SessionEnds(j) ==
  /\ session[j] = "open"
  /\ \/ pc[j] # "connected" /\ ClosePc(j)
     \/ /\ pc[j] = "connected"
        /\ session' = [session EXCEPT ![j] = "closed"]
        /\ UNCHANGED <<pc, onClose>>
  /\ UNCHANGED <<rooms, roomOf, track, member, saveClosed, watching, crashed, history>>

-----------------------------------------------------------------------------
(* OnTrack, once per track, and OnClose, once per report.                    *)

HasTrack(j, k) == track[j][k] # "none"

\* OnTrack up to SetAudioTrack or SetVideoTrack.
StoreTrack(j, k) ==
  /\ pc[j] = "connected" /\ track[j][k] = "none"
  /\ track' = [track EXCEPT ![j][k] = "stored"]
  /\ UNCHANGED <<rooms, connection, onClose, member, saveClosed, watching, crashed,
                 history>>

\* Mutant: one track is enough.
CompleteAny(j) == \E k \in Kinds : HasTrack(j, k)

\* Mutant: the handler of the video track leaves it to the other.
CompleteAlone(j) == track[j]["audio"] = "stored" /\ HasTrack(j, "video")

Complete(j) == \A k \in Kinds : HasTrack(j, k)

\* OnTrack from there to sendToTrack; AddMember waits for DelMember.
Check(j, k) ==
  /\ track[j][k] = "stored"
  /\ track' = [track EXCEPT ![j][k] = "looping"]
  /\ \/ /\ Complete(j) /\ lock[roomOf[j]] = None
        /\ members' = [members EXCEPT ![roomOf[j]][userOf[j]] = j]
        /\ added' = added \cup {j}
     \/ ~Complete(j) /\ UNCHANGED <<members, added>>
  /\ UNCHANGED <<current, old, lock, connection, onClose, member, saveClosed,
                 watching, crashed, bystanders>>

\* sendToTrack: a packet read before the connection closed goes into saveChan.
SavePacket(j, k) ==
  /\ track[j][k] = "looping" /\ j \in saveClosed
  /\ crashed' = TRUE
  /\ UNCHANGED <<rooms, connection, track, onClose, member, saveClosed, watching,
                 history>>

\* OnClose, DelMember: the room's lock, then isDel under the member's.
BeginLeave(j, r) ==
  /\ onClose[j][r] = "called" /\ lock[roomOf[j]] = None
  /\ onClose' = [onClose EXCEPT ![j][r] = "leaving"]
  /\ lock' = [lock EXCEPT ![roomOf[j]] = j]
  /\ isDel' = isDel \cup {j}
  /\ UNCHANGED <<current, old, members, connection, track, listeners,
                 saveClosed, watching, crashed, history>>

\* LeaveRoom closes the listeners, the entry of the user is deleted; then OnClose
\* closes saveChan, which panics the second time, and the files.
EndLeave(j, r) ==
  /\ onClose[j][r] = "leaving"
  /\ onClose' = [onClose EXCEPT ![j][r] = "done"]
  /\ forward' = [f \in Forwards |-> IF f \in listeners[j] THEN "closed" ELSE forward[f]]
  /\ members' = [members EXCEPT ![roomOf[j]][userOf[j]] = None]
  /\ lock' = [lock EXCEPT ![roomOf[j]] = None]
  /\ saveClosed' = saveClosed \cup {j}
  /\ crashed' = (j \in saveClosed)
  /\ UNCHANGED <<current, old, connection, track, member, target, history>>

-----------------------------------------------------------------------------
(* A forwarding connection. Its own OnClose does nothing.                    *)

\* AuthenticateAndInit: GetRoom, GetMember.
FindMember(f) ==
  /\ forward[f] = "idle"
  /\ current # None /\ lock[current] = None
  /\ \E u \in Users :
       /\ members[current][u] # None
       /\ target' = [target EXCEPT ![f] = members[current][u]]
  /\ forward' = [forward EXCEPT ![f] = "found"]
  /\ UNCHANGED <<rooms, connection, track, onClose, member, saveClosed, crashed,
                 history>>

\* Mutant: AddListener does not look at isDel.
MayListenAlways(j) == TRUE

\* AddListener
MayListen(j) == j \notin isDel

\* OnNewPeerConnection: AddTrack of a nil track panics.
Attach(f) ==
  /\ forward[f] = "found"
  /\ LET j == target[f] IN
     \/ /\ \E k \in Kinds : ~HasTrack(j, k)
        /\ crashed' = TRUE
        /\ UNCHANGED <<forward, listeners>>
     \/ /\ \A k \in Kinds : HasTrack(j, k)
        /\ IF MayListen(j)
           THEN /\ listeners' = [listeners EXCEPT ![j] = @ \cup {f}]
                /\ forward' = [forward EXCEPT ![f] = "listening"]
           ELSE /\ forward' = [forward EXCEPT ![f] = "closed"]
                /\ UNCHANGED listeners
        /\ UNCHANGED crashed
  /\ UNCHANGED <<rooms, connection, track, onClose, isDel, saveClosed, target, history>>

\* The watcher leaves, or the connection fails.
StopWatching(f) ==
  /\ forward[f] = "listening"
  /\ forward' = [forward EXCEPT ![f] = "closed"]
  /\ UNCHANGED <<rooms, connection, track, onClose, member, saveClosed, target,
                 crashed, history>>

-----------------------------------------------------------------------------
Leaves(j) == \E r \in Reports : BeginLeave(j, r) \/ EndLeave(j, r)

Signals(j) ==
  \/ Open(j) \/ OpenFails(j) \/ Connect(j) \/ Disconnect(j) \/ IceFails(j)
  \/ IceHandler(j) \/ PeerCloses(j) \/ SessionEnds(j)

Media(j) ==
  \E k \in Kinds :
    StoreTrack(j, k) \/ Check(j, k) \/ SavePacket(j, k)

Watches(f) == FindMember(f) \/ Attach(f) \/ StopWatching(f)

Next ==
  /\ ~crashed
  /\ \/ Age \/ Sweep
     \/ \E j \in Joins : Signals(j) \/ Media(j) \/ Leaves(j)
     \/ \E f \in Forwards : Watches(f)
  /\ UNCHANGED userOf

Spec == Init /\ [][Next]_vars

-----------------------------------------------------------------------------
(* Properties.                                                               *)

Left(j) == \E r \in Reports : onClose[j][r] = "done"
Leaving(j) == \E r \in Reports : onClose[j][r] \notin {"no", "called"}

\* Who watches a member is cut off when the member leaves: nobody is forwarded
\* a connection that is closed, even who had found the member before it left
\* and attached itself afterwards, or found one that was added after it left.
\* (isDel under the member's lock in AddListener and LeaveRoom.)
NoForwardFromClosed ==
  \A j \in Joins : Left(j) => \A f \in listeners[j] : forward[f] = "closed"

\* The process goes down only when one connection has been reported failed and
\* closed, so that saveChan is closed twice, or when a packet read before the
\* close comes to saveChan after it: never because a forward has got a member
\* without its two tracks. (OnClose, sendToTrack, AddTrack.)
ProcessSurvives ==
  crashed => \E j \in saveClosed :
    \/ \A r \in Reports : onClose[j][r] # "no"
    \/ \E k \in Kinds : track[j][k] = "looping"

\* Another connection of the same user has joined or left the room.
Overtaken(j) ==
  \E k \in (added \cup isDel) \ {j} : userOf[k] = userOf[j] /\ roomOf[k] = roomOf[j]

\* A member that has joined and is not leaving is found under its user's name
\* in the room everybody gets, unless another connection of its user has come
\* or gone, or the janitor has swept the room between its getOrNewRoom and its
\* AddMember. (AddMember and DelMember by user id; checkRoomMemberIsZero.)
MemberIsFound ==
  \A j \in added :
    \/ Leaving(j) \/ Overtaken(j)
    \/ /\ members[roomOf[j]][userOf[j]] = j
       /\ current = roomOf[j] \/ j \in bystanders

\* When both handlers of OnTrack have looked for two tracks, the connection has
\* been added: whichever stores second sees both. (OnTrack, twice.)
BothTracksJoin ==
  \A j \in Joins : (\A k \in Kinds : track[j][k] = "looping") => j \in added
=============================================================================
