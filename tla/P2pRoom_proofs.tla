---------------------------- MODULE P2pRoom_proofs ----------------------------
(* A room of two, for any number of connections and users: who is a member,  *)
(* who makes the offer, which rooms can be found, and which messages are on  *)
(* their way to a page.                                                      *)
EXTENDS P2pRoom, FiniteSetTheorems, SequenceTheorems, TLAPS

\* The variables that decide about membership.
roomState == <<user, pc, roomOf, shouldOffer, current, members, left, raced>>

Occupied(m) == {u \in Users : m[u] # NoConn}
HasJoined(c) == pc[c] \in {"joined", "open"}

Shape ==
  /\ user \in [Conns -> Users \cup {NoUser}]
  /\ pc \in [Conns -> {"new", "got", "checked", "joined", "open", "refused", "closed", "gone"}]
  /\ roomOf \in [Conns -> Rooms \cup {NoConn}]
  /\ shouldOffer \in [Conns -> BOOLEAN]
  /\ current \in Rooms \cup {NoConn}
  /\ members \in [Rooms -> [Users -> Conns \cup {NoConn}]]

\* Who has got past getOrNewRoom has a room and a user.
Placed ==
  \A c \in Conns : pc[c] \in {"got", "checked", "joined", "open", "closed"} =>
    roomOf[c] \in Rooms /\ user[c] \in Users

\* An entry is under its connection's user, in its room, and has joined.
Entries ==
  \A r \in Rooms, u \in Users :
    LET c == members[r][u] IN
    c # NoConn => user[c] = u /\ roomOf[c] = r /\ HasJoined(c)

\* Who is about to join has the current room, or one swept under its eyes.
Arriving ==
  \A c \in Conns : pc[c] \in {"got", "checked"} =>
    roomOf[c] = current \/ roomOf[c] \in raced

AtMostTwo ==
  \A r \in Rooms :
    IsFiniteSet(Occupied(members[r])) /\ Size(members[r]) <= 2

\* In a room that nobody has left, one who was told to offer has a peer.
Told ==
  \A c \in Conns :
    HasJoined(c) /\ shouldOffer[c] /\ roomOf[c] \notin left =>
      Size(members[roomOf[c]]) = 2

\* In such a room nobody else was told.
ToldOnce ==
  \A c, d \in Conns :
    /\ c # d /\ HasJoined(c) /\ HasJoined(d) /\ roomOf[c] = roomOf[d]
    /\ shouldOffer[c] /\ shouldOffer[d]
    => roomOf[c] \in left

OneTold == \A c, d \in Conns : Peers(c, d) => shouldOffer[c] \/ shouldOffer[d]

IInv ==
  /\ Shape /\ Placed /\ Entries /\ Arriving /\ AtMostTwo /\ Told /\ ToldOnce
  /\ OneTold /\ JoinedIsMember /\ MembersAreFindable

\* The empty entry is no connection.
LEMMA NoConnOutside == NoConn \notin Conns
BY P2pAssumption

-----------------------------------------------------------------------------
(* What the steps do to these variables.                                     *)

\* A service goes on, and no room changes.
Advance(c) ==
  \E to \in {"refused", "checked", "open"} :
    /\ to = "open" <=> pc[c] = "joined"
    /\ pc[c] \in {"new", "got", "checked", "joined"}
    /\ to = "checked" => pc[c] = "got"
    /\ pc' = [pc EXCEPT ![c] = to]
    /\ UNCHANGED <<user, roomOf, shouldOffer, current, members, left, raced>>

\* A connection that was refused is gone.
Leave(c) ==
  /\ pc[c] = "refused" /\ pc' = [pc EXCEPT ![c] = "gone"]
  /\ UNCHANGED <<user, roomOf, shouldOffer, current, members, left, raced>>

\* A connection that had joined closes.
Withdraw(c) ==
  /\ pc[c] = "open" /\ pc' = [pc EXCEPT ![c] = "closed"]
  /\ members' = [members EXCEPT ![roomOf[c]][user[c]] = NoConn]
  /\ left' = left \cup {roomOf[c]}
  /\ UNCHANGED <<user, roomOf, shouldOffer, current, raced>>

\* Every step that touches a room is one of these; the messages are the others.
LEMMA StepKinds ==
  ASSUME Shape, Placed, [Next]_vars
  PROVE  \/ UNCHANGED roomState
         \/ \E c \in Conns : Advance(c) \/ Leave(c) \/ Withdraw(c) \/ GetOrNewRoom(c) \/ AddMember(c)
         \/ Sweep
<1>1. CASE UNCHANGED vars
  BY <1>1 DEF vars, connVars, roomVars, roomState
<1>2. CASE Sweep
  BY <1>2
<1>3. CASE Age
  BY <1>3 DEF Age, connVars, roomState
<1>4. ASSUME NEW c \in Conns,
             Relay(c) \/ PageReads(c) \/ PageDescribes(c) \/ PageSendsCandidate(c) \/ Disconnect(c)
      PROVE  UNCHANGED roomState
  BY <1>4 DEF Relay, PageReads, PageDescribes, PageSendsCandidate, Disconnect,
     connVars, roomVars, roomState
<1>5. ASSUME NEW c \in Conns,
             BadArguments(c) \/ CheckSize(c) \/ AddMemberFails(c) \/ Greet(c)
      PROVE  Advance(c)
  BY <1>5 DEF BadArguments, CheckSize, AddMemberFails, Greet, Go, roomVars, Advance, Shape
<1>6. ASSUME NEW c \in Conns, OnClose(c) PROVE Leave(c) \/ Withdraw(c)
  <2>1. CASE pc[c] = "open"
    <3>1. roomOf[c] # NoConn
      BY <2>1, NoConnOutside DEF Placed, Rooms
    <3> QED
      BY <1>6, <2>1, <3>1 DEF OnClose, Dismissed, Withdraw, Shape
  <2>2. CASE pc[c] = "refused"
    BY <1>6, <2>2 DEF OnClose, Dismissed, Leave, Shape
  <2> QED
    BY <1>6, <2>1, <2>2 DEF OnClose
<1> QED
  BY <1>1, <1>2, <1>3, <1>4, <1>5, <1>6 DEF Next

-----------------------------------------------------------------------------
(* Counting.                                                                 *)

\* Two connections of different users make two members.
LEMMA TwoMembers ==
  ASSUME NEW m, IsFiniteSet(Occupied(m)),
         NEW u \in Occupied(m), NEW v \in Occupied(m), u # v
  PROVE  Size(m) >= 2
<1>1. Size(m) = Cardinality(Occupied(m)) /\ Size(m) \in Nat
  BY FS_CardinalityType DEF Size, Occupied
<1>2. IsFiniteSet({u}) /\ Cardinality({u}) = 1
  BY FS_Singleton
<1>3. Cardinality({u} \cup {v}) = 2
  BY <1>2, FS_AddElement
<1>4. {u} \cup {v} \in SUBSET Occupied(m)
  OBVIOUS
<1>5. Cardinality({u} \cup {v}) <= Cardinality(Occupied(m))
  BY <1>4, FS_Subset
<1> QED
  BY <1>1, <1>3, <1>5

\* An entry more or less.
LEMMA OneMore ==
  ASSUME NEW m \in [Users -> Conns \cup {NoConn}], IsFiniteSet(Occupied(m)),
         NEW u \in Users, NEW c \in Conns
  PROVE  LET n == [m EXCEPT ![u] = c] IN
         /\ IsFiniteSet(Occupied(n))
         /\ Size(n) = IF u \in Occupied(m) THEN Size(m) ELSE Size(m) + 1
<1> DEFINE n == [m EXCEPT ![u] = c]
<1>1. Occupied(n) = Occupied(m) \cup {u}
  BY NoConnOutside DEF Occupied
<1> QED
  BY <1>1, FS_AddElement DEF Size, Occupied

\* Who takes an entry out leaves a finite room that is not larger.
LEMMA OneLess ==
  ASSUME NEW m \in [Users -> Conns \cup {NoConn}], IsFiniteSet(Occupied(m)),
         NEW u \in Users
  PROVE  LET n == [m EXCEPT ![u] = NoConn] IN
         IsFiniteSet(Occupied(n)) /\ Size(n) <= Size(m)
<1> DEFINE n == [m EXCEPT ![u] = NoConn]
<1>1. Occupied(n) = Occupied(m) \ {u}
  BY DEF Occupied
<1>2. /\ IsFiniteSet(Occupied(m) \ {u})
      /\ Cardinality(Occupied(m) \ {u}) =
           IF u \in Occupied(m) THEN Cardinality(Occupied(m)) - 1 ELSE Cardinality(Occupied(m))
  BY FS_RemoveElement
<1>3. Cardinality(Occupied(m)) \in Nat
  BY FS_CardinalityType
<1> QED
  BY <1>1, <1>2, <1>3 DEF Size, Occupied

-----------------------------------------------------------------------------
(* Joining.                                                                  *)

\* What AddMember does to the room and to the connection.
LEMMA Joins ==
  ASSUME IInv, NEW c \in Conns, AddMember(c)
  PROVE  /\ roomOf[c] \in Rooms /\ user[c] \in Users /\ pc[c] = "checked"
         /\ pc' = [pc EXCEPT ![c] = "joined"]
         /\ members' = [members EXCEPT ![roomOf[c]] = [members[roomOf[c]] EXCEPT ![user[c]] = c]]
         /\ shouldOffer' = [shouldOffer EXCEPT ![c] = (Size(members'[roomOf[c]]) = 2)]
         /\ Size(members[roomOf[c]]) < 2
         /\ UNCHANGED <<user, roomOf, current, left, raced>>
<1>1. roomOf[c] \in Rooms /\ user[c] \in Users
  BY DEF IInv, Placed, AddMember, Go
<1>2. Size(members[roomOf[c]]) \in Nat
  BY <1>1, FS_CardinalityType DEF IInv, AtMostTwo, Size, Occupied
<1> QED
  BY <1>1, <1>2 DEF AddMember, Go, Join, Full, IInv, Shape

\* Afterwards: the entry is there, and nobody else's is disturbed but that of
\* another connection of the user.
LEMMA RoomAfterJoin ==
  ASSUME IInv, NEW c \in Conns, AddMember(c)
  PROVE  /\ \A r \in Rooms, u \in Users :
              members'[r][u] = IF r = roomOf[c] /\ u = user[c] THEN c ELSE members[r][u]
         /\ AtMostTwo'
         /\ members' \in [Rooms -> [Users -> Conns \cup {NoConn}]]
         /\ \A r \in Rooms : members'[r] = members[r] \/ Size(members[r]) < 2
<1> DEFINE r0 == roomOf[c]
<1>1. members[r0] \in [Users -> Conns \cup {NoConn}] /\ r0 \in Rooms /\ user[c] \in Users
  BY Joins DEF IInv, Shape
<1>2. /\ IsFiniteSet(Occupied(members[r0])) /\ Size(members[r0]) \in Nat
  BY <1>1, FS_CardinalityType DEF IInv, AtMostTwo, Size, Occupied
<1>3. /\ IsFiniteSet(Occupied([members[r0] EXCEPT ![user[c]] = c]))
      /\ Size([members[r0] EXCEPT ![user[c]] = c]) <= 2
  BY <1>1, <1>2, OneMore, Joins
<1>4. \A r \in Rooms : members'[r] = IF r = r0 THEN [members[r0] EXCEPT ![user[c]] = c] ELSE members[r]
  BY Joins DEF IInv, Shape
<1>5. AtMostTwo'
  BY <1>3, <1>4 DEF AtMostTwo, IInv, Occupied, Size
<1>6. \A r \in Rooms, u \in Users :
        members'[r][u] = IF r = r0 /\ u = user[c] THEN c ELSE members[r][u]
  BY <1>1, <1>4 DEF IInv, Shape
<1>7. members' \in [Rooms -> [Users -> Conns \cup {NoConn}]]
  BY <1>1, Joins DEF IInv, Shape
<1> QED
  BY <1>4, <1>5, <1>6, <1>7, Joins

\* A member is in its room under its user.
LEMMA MemberEntry ==
  ASSUME Shape, Entries, Placed, NEW c \in Conns
  PROVE  IsMember(c) <=> roomOf[c] \in Rooms /\ user[c] \in Users /\ members[roomOf[c]][user[c]] = c
BY NoConnOutside DEF Shape, Entries, Placed, IsMember, MembersOf, HasJoined, Rooms

\* A member with somebody to talk to is in a room of two.
LEMMA PeersMakeTwo ==
  ASSUME Shape, Entries, Placed, AtMostTwo, NEW c \in Conns, NEW d \in Conns, Peers(c, d)
  PROVE  Size(members[roomOf[c]]) = 2
<1>1. /\ roomOf[c] \in Rooms /\ roomOf[d] = roomOf[c] /\ user[c] \in Users /\ user[d] \in Users
      /\ members[roomOf[c]][user[c]] = c /\ members[roomOf[c]][user[d]] = d /\ c # d
  BY MemberEntry DEF Peers
<1>2. /\ user[c] \in Occupied(members[roomOf[c]])
      /\ user[d] \in Occupied(members[roomOf[c]]) /\ user[c] # user[d]
  BY <1>1, NoConnOutside DEF Occupied
<1>3. /\ IsFiniteSet(Occupied(members[roomOf[c]])) /\ Size(members[roomOf[c]]) <= 2
  BY <1>1 DEF AtMostTwo
<1>4. Size(members[roomOf[c]]) >= 2 /\ Size(members[roomOf[c]]) \in Nat
  BY <1>2, <1>3, TwoMembers, FS_CardinalityType DEF Size, Occupied
<1> QED
  BY <1>3, <1>4

-----------------------------------------------------------------------------
(* Every step keeps the invariant.                                           *)

\* A service that goes on, or gives up, changes no room.
LEMMA AdvanceStep ==
  ASSUME IInv, NEW c \in Conns, Advance(c) \/ Leave(c)
  PROVE  IInv'
<1>1. /\ UNCHANGED <<user, roomOf, shouldOffer, current, members, left, raced>>
      /\ pc' \in [Conns -> {"new", "got", "checked", "joined", "open", "refused", "closed", "gone"}]
      /\ \A d \in Conns : d # c => pc'[d] = pc[d]
      /\ HasJoined(c)' <=> HasJoined(c)
      /\ pc'[c] # "closed" /\ pc'[c] # "got" /\ pc[c] # "closed"
      /\ pc'[c] = "checked" => pc[c] = "got"
  BY DEF Advance, Leave, IInv, Shape, HasJoined
<1>2. \A d \in Conns : HasJoined(d)' <=> HasJoined(d)
  BY <1>1 DEF HasJoined
<1>3. Shape' /\ Placed' /\ Entries'
  BY <1>1, <1>2 DEF IInv, Shape, Placed, Entries, HasJoined
<1>4. Arriving'
  BY <1>1 DEF IInv, Arriving
<1>5. AtMostTwo' /\ OneTold' /\ MembersAreFindable'
  BY <1>1 DEF IInv, AtMostTwo, OneTold, MembersAreFindable, Peers, IsMember, MembersOf, Occupied, Size
<1>6. Told' /\ ToldOnce'
  BY <1>1, <1>2 DEF IInv, Told, ToldOnce, Size
<1>7. JoinedIsMember'
  BY <1>1, <1>2 DEF IInv, JoinedIsMember, IsMember, MembersOf, HasJoined
<1> QED
  BY <1>3, <1>4, <1>5, <1>6, <1>7 DEF IInv

\* DelMember when a member's connection closes.
LEMMA WithdrawStep ==
  ASSUME IInv, NEW c \in Conns, Withdraw(c)
  PROVE  IInv'
<1>1. /\ UNCHANGED <<user, roomOf, shouldOffer, current, raced>>
      /\ pc' = [pc EXCEPT ![c] = "closed"] /\ pc[c] = "open"
      /\ left' = left \cup {roomOf[c]}
      /\ roomOf[c] \in Rooms /\ user[c] \in Users
  BY DEF Withdraw, IInv, Placed
<1>2. /\ members' \in [Rooms -> [Users -> Conns \cup {NoConn}]]
      /\ \A r \in Rooms, u \in Users :
           members'[r][u] = IF r = roomOf[c] /\ u = user[c] THEN NoConn ELSE members[r][u]
      /\ \A r \in Rooms : r # roomOf[c] => members'[r] = members[r]
      /\ members'[roomOf[c]] = [members[roomOf[c]] EXCEPT ![user[c]] = NoConn]
  BY <1>1 DEF Withdraw, IInv, Shape
<1>3. \A d \in Conns : HasJoined(d)' <=> (HasJoined(d) /\ d # c)
  BY <1>1 DEF HasJoined, IInv, Shape
<1>4. Shape' /\ Placed'
  BY <1>1, <1>2 DEF IInv, Shape, Placed
<1>5. Entries'
  BY <1>1, <1>2, <1>3 DEF IInv, Entries
<1>6. Arriving'
  BY <1>1 DEF IInv, Shape, Arriving
<1>7. AtMostTwo'
  <2>1. ASSUME NEW r \in Rooms
        PROVE  IsFiniteSet(Occupied(members'[r])) /\ Size(members'[r]) <= 2
    <3>1. IsFiniteSet(Occupied(members[r])) /\ Size(members[r]) <= 2 /\ Size(members[r]) \in Nat
      BY FS_CardinalityType DEF IInv, AtMostTwo, Size, Occupied
    <3>2. CASE r # roomOf[c]
      BY <1>2, <3>1, <3>2
    <3>3. CASE r = roomOf[c]
      <4>1. members[r] \in [Users -> Conns \cup {NoConn}]
        BY DEF IInv, Shape
      <4>2. /\ IsFiniteSet(Occupied(members'[r]))
            /\ Size(members'[r]) <= Size(members[r]) /\ Size(members'[r]) \in Nat
        <5>1. members'[r] = [members[r] EXCEPT ![user[c]] = NoConn]
          BY <1>2, <3>3
        <5>2. IsFiniteSet(Occupied(members'[r])) /\ Size(members'[r]) <= Size(members[r])
          BY <1>1, <3>1, <4>1, <5>1, OneLess
        <5>3. Size(members'[r]) \in Nat
          BY <5>2, FS_CardinalityType DEF Size, Occupied
        <5> QED
          BY <5>2, <5>3
      <4> QED
        BY <3>1, <4>2
    <3> QED
      BY <3>2, <3>3
  <2> QED
    BY <2>1 DEF AtMostTwo, Occupied, Size
<1>8. Told' /\ ToldOnce'
  BY <1>1, <1>2, <1>3 DEF IInv, Shape, Placed, HasJoined, Told, ToldOnce, Size
<1>9. \A d \in Conns : IsMember(d)' => IsMember(d)
  BY <1>1, <1>2 DEF IsMember, MembersOf, IInv, Shape, Rooms
<1>10. OneTold'
  BY <1>1, <1>9 DEF IInv, OneTold, Peers
<1>11. JoinedIsMember'
  <2>1. ASSUME NEW d \in Conns, HasJoined(d)', IsMember(d)
        PROVE  \/ IsMember(d)'
               \/ user[d] = user[c] /\ roomOf[d] = roomOf[c]
    BY <1>1, <1>2, <1>4, <1>5, <2>1, MemberEntry DEF IInv, IsMember, MembersOf, Rooms
  <2>2. ASSUME NEW d \in Conns, HasJoined(d)'
        PROVE  \/ IsMember(d)'
               \/ \E e \in Conns \ {d} : user'[e] = user'[d] /\ roomOf'[e] = roomOf'[d]
                                      /\ pc'[e] \in {"joined", "open", "closed"}
    <3>1. HasJoined(d) /\ d # c /\ pc'[c] = "closed"
      BY <1>1, <1>3, <2>2 DEF IInv, Shape
    <3>2. CASE IsMember(d)
      BY <1>1, <2>1, <2>2, <3>1, <3>2
    <3>3. CASE ~IsMember(d)
      <4>1. PICK e \in Conns \ {d} : user[e] = user[d] /\ roomOf[e] = roomOf[d]
                                    /\ pc[e] \in {"joined", "open", "closed"}
        BY <3>1, <3>3 DEF IInv, JoinedIsMember, HasJoined
      <4>2. pc'[e] \in {"joined", "open", "closed"}
        BY <1>1, <4>1 DEF IInv, Shape
      <4> QED
        BY <1>1, <4>1, <4>2
    <3> QED
      BY <3>2, <3>3
  <2> QED
    BY <2>2 DEF JoinedIsMember, HasJoined
<1>12. MembersAreFindable'
  <2>1. \A r \in Rooms : MembersOf(r)' \subseteq MembersOf(r)
    BY <1>2 DEF MembersOf
  <2> QED
    BY <1>1, <2>1 DEF IInv, MembersAreFindable
<1> QED
  BY <1>4, <1>5, <1>6, <1>7, <1>8, <1>10, <1>11, <1>12 DEF IInv

\* getOrNewRoom.
LEMMA NewRoomStep ==
  ASSUME IInv, NEW c \in Conns, GetOrNewRoom(c)
  PROVE  IInv'
<1>1. /\ UNCHANGED <<user, shouldOffer, members, left, raced>>
      /\ pc[c] = "new" /\ pc' = [pc EXCEPT ![c] = "got"] /\ user[c] \in Users
      /\ current' = (IF current = NoConn THEN c ELSE current)
      /\ roomOf' = [roomOf EXCEPT ![c] = current'] /\ current' \in Rooms
  BY DEF GetOrNewRoom, Named, Go, IInv, Shape, Rooms
<1>2. \A d \in Conns : (HasJoined(d)' <=> HasJoined(d)) /\ (HasJoined(d) => d # c /\ roomOf'[d] = roomOf[d])
  BY <1>1 DEF HasJoined, IInv, Shape
<1>3. Shape' /\ Placed'
  BY <1>1 DEF IInv, Shape, Placed
<1>4. Entries'
  BY <1>1, <1>2 DEF IInv, Shape, Entries
<1>5. Arriving'
  BY <1>1, NoConnOutside DEF IInv, Shape, Placed, Arriving, Rooms
<1>6. \A d \in Conns : IsMember(d)' => HasJoined(d) /\ IsMember(d)
  BY <1>1, <1>2, <1>3, <1>4, MemberEntry DEF IInv, Entries, IsMember, MembersOf, Rooms, Shape
<1>7. \A d \in Conns : HasJoined(d) => (IsMember(d)' <=> IsMember(d))
  BY <1>1, <1>2 DEF IsMember, MembersOf
<1>8. AtMostTwo' /\ MembersAreFindable'
  BY <1>1, NoConnOutside DEF IInv, AtMostTwo, MembersAreFindable, MembersOf, Occupied, Size, Rooms
<1>9. Told' /\ ToldOnce'
  BY <1>1, <1>2 DEF IInv, Told, ToldOnce, Size
<1>10. OneTold'
  BY <1>1, <1>2, <1>6 DEF IInv, OneTold, Peers
<1>11. JoinedIsMember'
  BY <1>1, <1>2, <1>7 DEF IInv, Shape, JoinedIsMember, HasJoined
<1> QED
  BY <1>3, <1>4, <1>5, <1>8, <1>9, <1>10, <1>11 DEF IInv

\* The janitor takes the room out of the map.
LEMMA SweepStep ==
  ASSUME IInv, Sweep
  PROVE  IInv'
<1>1. /\ UNCHANGED <<user, pc, roomOf, shouldOffer, members, left>>
      /\ current' = NoConn /\ MembersOf(current) = {} /\ raced \subseteq raced'
      /\ (\E c \in Conns : roomOf[c] = current /\ pc[c] \in {"got", "checked"}) => current \in raced'
  BY DEF Sweep, Sweepable, connVars
<1>2. Shape' /\ Placed' /\ Entries' /\ AtMostTwo'
  <2>1. Shape' /\ Placed'
    BY <1>1 DEF IInv, Shape, Placed
  <2>2. Entries'
    BY <1>1 DEF IInv, Entries, HasJoined
  <2>3. AtMostTwo'
    BY <1>1 DEF IInv, AtMostTwo, Occupied, Size
  <2> QED
    BY <2>1, <2>2, <2>3
<1>3. Arriving'
  BY <1>1 DEF IInv, Arriving
<1>4. Told' /\ ToldOnce' /\ OneTold' /\ JoinedIsMember'
  BY <1>1 DEF IInv, Told, ToldOnce, OneTold, JoinedIsMember, HasJoined, Peers, IsMember, MembersOf, Size
<1>5. MembersAreFindable'
  BY <1>1 DEF IInv, MembersAreFindable, MembersOf
<1> QED
  BY <1>2, <1>3, <1>4, <1>5 DEF IInv
\* AddMember, as the first of the room or as the second, who is told to offer.
LEMMA JoinStep ==
  ASSUME IInv, NEW c \in Conns, AddMember(c)
  PROVE  IInv'
<1>1. /\ roomOf[c] \in Rooms /\ user[c] \in Users /\ pc[c] = "checked"
      /\ pc' = [pc EXCEPT ![c] = "joined"]
      /\ shouldOffer' = [shouldOffer EXCEPT ![c] = (Size(members'[roomOf[c]]) = 2)]
      /\ Size(members[roomOf[c]]) < 2
      /\ UNCHANGED <<user, roomOf, current, left, raced>>
  BY Joins
<1>2. /\ \A r \in Rooms, u \in Users :
           members'[r][u] = IF r = roomOf[c] /\ u = user[c] THEN c ELSE members[r][u]
      /\ members' \in [Rooms -> [Users -> Conns \cup {NoConn}]]
      /\ \A r \in Rooms : members'[r] = members[r] \/ Size(members[r]) < 2
  BY RoomAfterJoin
<1>3. \A d \in Conns : /\ HasJoined(d)' <=> HasJoined(d) \/ d = c
                       /\ d # c => pc'[d] = pc[d] /\ shouldOffer'[d] = shouldOffer[d]
  BY <1>1 DEF HasJoined, IInv, Shape
<1>4. ~HasJoined(c) /\ pc'[c] = "joined" /\ (shouldOffer'[c] <=> Size(members'[roomOf[c]]) = 2)
  BY <1>1 DEF HasJoined, IInv, Shape
<1>5. Shape'
  BY <1>1, <1>2 DEF IInv, Shape
<1>6. Placed'
  BY <1>1, <1>3, <1>4 DEF IInv, Placed
<1>7. Entries'
  BY <1>1, <1>2, <1>3 DEF IInv, Entries
<1>8. Arriving'
  BY <1>1, <1>3, <1>4 DEF IInv, Arriving
<1>9. AtMostTwo'
  BY RoomAfterJoin
<1>10. Told'
  <2>1. ASSUME NEW d \in Conns, HasJoined(d)', shouldOffer'[d], roomOf[d] \notin left
        PROVE  Size(members'[roomOf[d]]) = 2
    <3>1. CASE d = c
      BY <1>4, <2>1, <3>1
    <3>2. CASE d # c
      <4>1. Size(members[roomOf[d]]) = 2 /\ roomOf[d] \in Rooms
        BY <1>3, <2>1, <3>2 DEF IInv, Told, Placed, HasJoined
      <4> QED
        BY <1>2, <4>1
    <3> QED
      BY <3>1, <3>2
  <2> QED
    BY <1>1, <2>1 DEF Told, Size
<1>11. ToldOnce'
  <2>1. ASSUME NEW d \in Conns, d # c, HasJoined(d), shouldOffer[d], roomOf[d] = roomOf[c]
        PROVE  roomOf[c] \in left
    BY <1>1, <2>1 DEF IInv, Told
  <2> QED
    BY <1>1, <1>3, <2>1 DEF IInv, ToldOnce
<1>12. \A d \in Conns : IsMember(d)' => /\ members'[roomOf[d]][user[d]] = d
                                       /\ roomOf[d] \in Rooms /\ user[d] \in Users
  BY <1>1, <1>5, <1>7, NoConnOutside DEF IsMember, MembersOf, Entries, Shape, Rooms
<1>13. \A d \in Conns : IsMember(d)' /\ d # c => IsMember(d)
  <2>1. ASSUME NEW d \in Conns, IsMember(d)', d # c PROVE IsMember(d)
    <3>1. /\ members'[roomOf[d]][user[d]] = d /\ roomOf[d] \in Rooms /\ user[d] \in Users
      BY <1>12, <2>1
    <3>2. members[roomOf[d]][user[d]] = d
      BY <1>2, <2>1, <3>1
    <3> QED
      BY <3>1, <3>2, NoConnOutside DEF IsMember, MembersOf, Rooms
  <2> QED
    BY <2>1
<1>14. OneTold'
  <2>1. ASSUME NEW d \in Conns, d # c, roomOf[d] = roomOf[c], IsMember(d)', IsMember(c)'
        PROVE  shouldOffer'[c]
    <3>1. /\ user[d] \in Occupied(members'[roomOf[c]]) /\ user[c] \in Occupied(members'[roomOf[c]])
          /\ user[c] # user[d]
      BY <1>12, <2>1, NoConnOutside DEF Occupied
    <3>2. IsFiniteSet(Occupied(members'[roomOf[c]])) /\ Size(members'[roomOf[c]]) <= 2
      BY <1>1, <1>9 DEF AtMostTwo, Occupied, Size
    <3>3. Size(members'[roomOf[c]]) >= 2 /\ Size(members'[roomOf[c]]) \in Nat
      BY <3>1, <3>2, TwoMembers, FS_CardinalityType DEF Size, Occupied
    <3> QED
      BY <1>4, <3>2, <3>3
  <2> QED
    BY <1>1, <1>3, <1>13, <2>1 DEF IInv, OneTold, Peers
<1>15. JoinedIsMember'
  <2>1. ASSUME NEW d \in Conns, HasJoined(d)'
        PROVE  \/ IsMember(d)'
               \/ \E e \in Conns \ {d} : user'[e] = user'[d] /\ roomOf'[e] = roomOf'[d]
                                      /\ pc'[e] \in {"joined", "open", "closed"}
    <3>1. CASE roomOf[d] = roomOf[c] /\ user[d] = user[c]
      <4>1. IsMember(c)'
        BY <1>1, <1>2, NoConnOutside DEF IsMember, MembersOf, Rooms
      <4> QED
        BY <1>1, <1>4, <3>1, <4>1
    <3>2. CASE ~(roomOf[d] = roomOf[c] /\ user[d] = user[c])
      <4>1. HasJoined(d)
        BY <1>3, <2>1, <3>2
      <4>2. CASE IsMember(d)
        <5>1. roomOf[d] \in Rooms /\ user[d] \in Users /\ members[roomOf[d]][user[d]] = d
          BY <4>2, MemberEntry DEF IInv
        <5> QED
          BY <1>1, <1>2, <3>2, <5>1, NoConnOutside DEF IsMember, MembersOf, Rooms
      <4>3. CASE ~IsMember(d)
        <5>1. PICK e \in Conns \ {d} : user[e] = user[d] /\ roomOf[e] = roomOf[d]
                                      /\ pc[e] \in {"joined", "open", "closed"}
          BY <4>1, <4>3 DEF IInv, JoinedIsMember, HasJoined
        <5> QED
          BY <1>1, <1>3, <1>4, <5>1
      <4> QED
        BY <4>2, <4>3
    <3> QED
      BY <3>1, <3>2
  <2> QED
    BY <2>1 DEF JoinedIsMember, HasJoined
<1>16. MembersAreFindable'
  <2>1. roomOf[c] = current \/ roomOf[c] \in raced
    BY <1>1 DEF IInv, Arriving
  <2>2. \A r \in Rooms : r # roomOf[c] => MembersOf(r)' = MembersOf(r)
    BY <1>2 DEF MembersOf
  <2> QED
    BY <1>1, <2>1, <2>2 DEF IInv, MembersAreFindable
<1> QED
  BY <1>5, <1>6, <1>7, <1>8, <1>9, <1>10, <1>11, <1>14, <1>15, <1>16 DEF IInv

-----------------------------------------------------------------------------
(* The theorems.                                                             *)

\* The empty room satisfies the invariant.
LEMMA InitInvariant == Init => IInv
<1> SUFFICES ASSUME Init PROVE IInv
  OBVIOUS
<1>1. \A r \in Rooms : Occupied(members[r]) = {} /\ MembersOf(r) = {}
  BY DEF Init, Nobody, Occupied, MembersOf
<1>2. AtMostTwo
  BY <1>1, FS_EmptySet DEF AtMostTwo, Size, Occupied
<1>3. Shape /\ Placed /\ Entries /\ Arriving /\ MembersAreFindable
  <2>1. Shape
    BY P2pAssumption DEF Init, Nobody, Shape
  <2>2. Placed /\ Entries /\ Arriving /\ MembersAreFindable
    BY <1>1 DEF Init, Nobody, Placed, Entries, Arriving, MembersAreFindable
  <2> QED
    BY <2>1, <2>2
<1>4. Told /\ ToldOnce /\ OneTold /\ JoinedIsMember
  BY DEF Init, Told, ToldOnce, OneTold, JoinedIsMember, Peers, IsMember, HasJoined
<1> QED
  BY <1>2, <1>3, <1>4 DEF IInv

\* Every step keeps it.
LEMMA StepInvariant == IInv /\ [Next]_vars => IInv'
<1> SUFFICES ASSUME IInv, [Next]_vars PROVE IInv'
  OBVIOUS
<1>1. CASE UNCHANGED roomState
  <2>1. UNCHANGED <<user, pc, roomOf, shouldOffer, current, members, left, raced>>
    BY <1>1 DEF roomState
  <2>2. Shape' /\ Placed' /\ Entries' /\ Arriving' /\ MembersAreFindable'
    <3>1. Shape' /\ Placed' /\ Arriving'
      BY <2>1 DEF IInv, Shape, Placed, Arriving
    <3>2. Entries'
      BY <2>1 DEF IInv, Entries, HasJoined
    <3>3. MembersAreFindable'
      BY <2>1 DEF IInv, MembersAreFindable, MembersOf
    <3> QED
      BY <3>1, <3>2, <3>3
  <2>3. AtMostTwo' /\ Told' /\ ToldOnce'
    BY <2>1 DEF IInv, AtMostTwo, Told, ToldOnce, HasJoined, Occupied, Size
  <2>4. OneTold' /\ JoinedIsMember'
    BY <2>1 DEF IInv, OneTold, JoinedIsMember, Peers, IsMember, MembersOf
  <2> QED
    BY <2>2, <2>3, <2>4 DEF IInv
<1>2. CASE Sweep
  BY <1>2, SweepStep
<1>3. ASSUME NEW c \in Conns,
             Advance(c) \/ Leave(c) \/ Withdraw(c) \/ GetOrNewRoom(c) \/ AddMember(c)
      PROVE  IInv'
  BY <1>3, AdvanceStep, WithdrawStep, NewRoomStep, JoinStep
<1>4. Shape /\ Placed
  BY DEF IInv
<1> QED
  BY <1>1, <1>2, <1>3, <1>4, StepKinds

\* The rooms' invariant holds in every reachable state.
THEOREM RoomInvariance == Spec => []IInv
BY InitInvariant, StepInvariant, PTL DEF Spec

\* A room never has more than two members, one of two has been told to offer,
\* and both only after a member had left (p2p/room.go 157-169).
THEOREM PairOffers == Spec => []OneOffers
<1>1. IInv => OneOffers
  <2> SUFFICES ASSUME IInv PROVE OneOffers
    OBVIOUS
  <2>1. \A c \in Conns : IsMember(c) => HasJoined(c)
    BY NoConnOutside DEF IInv, Shape, Entries, IsMember, MembersOf, Rooms
  <2> QED
    BY <2>1 DEF IInv, AtMostTwo, OneTold, ToldOnce, OneOffers, Peers
<1> QED
  BY <1>1, RoomInvariance, PTL

\* Who has joined stays the member of its room, unless the user has another
\* connection there (p2p/room.go 172-179).
THEOREM JoinedStays == Spec => []JoinedIsMember
<1>1. IInv => JoinedIsMember
  BY DEF IInv
<1> QED
  BY <1>1, RoomInvariance, PTL

\* A room with members is the one in the map, unless it was swept while a
\* connection was about to join (p2p/room.go 100-109).
THEOREM RoomsFindable == Spec => []MembersAreFindable
<1>1. IInv => MembersAreFindable
  BY DEF IInv
<1> QED
  BY <1>1, RoomInvariance, PTL

-----------------------------------------------------------------------------
(* The messages under way: what a page is handed fits its peer connection.   *)

Messages == [kind : {"sendOffer", "recvAnswer", "offer", "answer", "candidate"},
             from : Conns, re : Conns]
Promises == [kind : {"offer", "answer"}, re : Conns]

\* A connection that has been a member will not join again.
HasBeen(c) == pc[c] \in {"joined", "open", "closed"}

\* Whom a page may answer: another user's page that was in its room.
Meets(c, d) == HasBeen(c) /\ HasBeen(d) /\ user[c] # user[d] /\ roomOf[c] = roomOf[d]

\* What may be in the inbox of a page, in its outbox and among its promises.
Readable(c, m) ==
  /\ HasBeen(m.from) /\ HasBeen(m.re)
  /\ m.kind = "offer" => Meets(c, m.from)
  /\ m.kind = "answer" /\ m.re # c => ~IsMember(m.re) \/ ~IsMember(m.from)
Sendable(c, m) ==
  /\ m.from = c
  /\ m.re = c \/ Meets(c, m.re)
  /\ m.kind = "answer" => Meets(c, m.re)
Promised(c, j) ==
  /\ j.re = c \/ Meets(c, j.re)
  /\ j.kind = "answer" => Meets(c, j.re)

\* The offer or answer of a page is among the first n messages.
Describes(s, n, d) == \E j \in 1 .. n : s[j].from = d /\ IsDescription(s[j])
Introduced(c, d, s) == d \in heard[c] \/ Describes(s, Len(s), d)
Known(c, s, i) ==
  LET d == s[i].from IN
  s[i].kind = "candidate" => d \in heard[c] \/ ~IsMember(d) \/ Describes(s, i - 1, d)

WireShape ==
  /\ inbox \in [Conns -> Seq(Messages)] /\ outbox \in [Conns -> Seq(Messages)]
  /\ jobs \in [Conns -> Seq(Promises)]
  /\ up \in [Conns -> BOOLEAN] /\ described \in [Conns -> BOOLEAN]
  /\ heard \in [Conns -> SUBSET Conns]

\* Nothing is under way of a page that has not joined, and no candidate of one
\* that has not described itself.
Quiet ==
  \A c \in Conns :
    /\ ~HasBeen(c) => inbox[c] = <<>> /\ outbox[c] = <<>> /\ jobs[c] = <<>> /\ ~described[c]
    /\ ~described[c] => \A i \in 1 .. Len(outbox[c]) : outbox[c][i].kind # "candidate"

InboxFits(c, s) == \A i \in 1 .. Len(s) : Readable(c, s[i]) /\ Known(c, s, i)
OutboxFits(c, s) == \A i \in 1 .. Len(s) : Sendable(c, s[i])
JobsFit(c, s) == \A i \in 1 .. Len(s) : Promised(c, s[i])
Underway ==
  \A c \in Conns : InboxFits(c, inbox[c]) /\ OutboxFits(c, outbox[c]) /\ JobsFit(c, jobs[c])

\* A peer that has described itself has been introduced to the other, or its
\* description is on the way, ahead of its candidates.
OnItsWay(c, d, s, t) ==
  /\ described[d] => Introduced(c, d, s) \/ Describes(t, Len(t), d)
  /\ \A i \in 1 .. Len(t) :
       t[i].kind = "candidate" => Introduced(c, d, s) \/ Describes(t, i - 1, d)
Introductions ==
  \A c, d \in Conns : Peers(c, d) /\ up[c] => OnItsWay(c, d, inbox[c], outbox[d])

MInv == WireShape /\ Quiet /\ Underway /\ Introductions

\* Who has been in a room stays in that room, and once out of it never is a
\* member again.
LEMMA Ages ==
  ASSUME IInv, IInv', [Next]_vars
  PROVE  /\ user' = user
         /\ \A c \in Conns : HasBeen(c) => HasBeen(c)' /\ roomOf'[c] = roomOf[c]
         /\ \A c \in Conns : HasBeen(c)' /\ ~HasBeen(c) => AddMember(c)
         /\ \A c \in Conns : IsMember(c)' /\ HasBeen(c) => IsMember(c)
         /\ \A c \in Conns : IsMember(c) => HasBeen(c)
         /\ \A c \in Conns : IsMember(c)' => HasBeen(c)'
<1>1. \A c \in Conns : IsMember(c) => HasBeen(c)
  BY NoConnOutside DEF IInv, Shape, Entries, IsMember, MembersOf, Rooms, HasBeen, HasJoined
<1>2. \A c \in Conns : IsMember(c)' => HasBeen(c)'
  BY NoConnOutside DEF IInv, Shape, Entries, IsMember, MembersOf, Rooms, HasBeen, HasJoined
<1>3. /\ user' = user
      /\ \A c \in Conns : HasBeen(c) => HasBeen(c)' /\ roomOf'[c] = roomOf[c]
      /\ \A c \in Conns : HasBeen(c)' /\ ~HasBeen(c) => AddMember(c)
      /\ \A r \in Rooms, u \in Users :
           \/ members'[r][u] = members[r][u] \/ members'[r][u] = NoConn
           \/ members'[r][u] \in Conns /\ ~HasBeen(members'[r][u])
  <2>1. CASE UNCHANGED roomState
    BY <2>1 DEF roomState, HasBeen
  <2>2. CASE Sweep
    BY <2>2 DEF Sweep, connVars, HasBeen
  <2>3. ASSUME NEW c \in Conns, Advance(c) \/ Leave(c)
        PROVE  /\ user' = user /\ members' = members /\ roomOf' = roomOf
               /\ \A d \in Conns : HasBeen(d)' <=> HasBeen(d)
    BY <2>3 DEF Advance, Leave, IInv, Shape, HasBeen
  <2>4. ASSUME NEW c \in Conns, Withdraw(c)
        PROVE  /\ user' = user /\ roomOf' = roomOf
               /\ \A d \in Conns : HasBeen(d)' <=> HasBeen(d)
               /\ \A r \in Rooms, u \in Users :
                    members'[r][u] = members[r][u] \/ members'[r][u] = NoConn
    <3>1. /\ pc[c] = "open" /\ pc' = [pc EXCEPT ![c] = "closed"]
          /\ members' = [members EXCEPT ![roomOf[c]][user[c]] = NoConn]
          /\ user' = user /\ roomOf' = roomOf
      BY <2>4 DEF Withdraw
    <3> QED BY <3>1 DEF IInv, Shape, HasBeen
  <2>5. ASSUME NEW c \in Conns, GetOrNewRoom(c)
        PROVE  /\ user' = user /\ members' = members
               /\ \A d \in Conns : HasBeen(d)' <=> HasBeen(d)
               /\ \A d \in Conns : HasBeen(d) => roomOf'[d] = roomOf[d]
    BY <2>5 DEF GetOrNewRoom, Go, IInv, Shape, HasBeen
  <2>6. ASSUME NEW c \in Conns, AddMember(c)
        PROVE  /\ user' = user /\ roomOf' = roomOf /\ ~HasBeen(c)
               /\ \A d \in Conns : HasBeen(d)' <=> HasBeen(d) \/ d = c
               /\ \A r \in Rooms, u \in Users :
                    members'[r][u] = members[r][u] \/ members'[r][u] = c
    <3>1. /\ pc[c] = "checked" /\ pc' = [pc EXCEPT ![c] = "joined"]
          /\ user' = user /\ roomOf' = roomOf
      BY <2>6, Joins
    <3>2. \A r \in Rooms, u \in Users :
            members'[r][u] = IF r = roomOf[c] /\ u = user[c] THEN c ELSE members[r][u]
      BY <2>6, RoomAfterJoin
    <3> QED BY <3>1, <3>2 DEF IInv, Shape, HasBeen
  <2>7. \/ UNCHANGED roomState
        \/ \E c \in Conns : Advance(c) \/ Leave(c) \/ Withdraw(c) \/ GetOrNewRoom(c) \/ AddMember(c)
        \/ Sweep
    BY StepKinds DEF IInv
  <2> QED BY <2>1, <2>2, <2>3, <2>4, <2>5, <2>6, <2>7
<1>4. ASSUME NEW c \in Conns, IsMember(c)', HasBeen(c) PROVE IsMember(c)
  <2>1. PICK u \in Users : roomOf'[c] \in Rooms /\ members'[roomOf'[c]][u] = c
    BY <1>4 DEF IsMember, MembersOf, IInv, Shape
  <2>2. roomOf'[c] = roomOf[c] /\ c # NoConn
    BY <1>3, <1>4, NoConnOutside
  <2>3. members[roomOf[c]][u] = c
    BY <1>3, <1>4, <2>1, <2>2
  <2> QED BY <2>1, <2>2, <2>3, NoConnOutside DEF IsMember, MembersOf, Rooms
<1> QED BY <1>1, <1>2, <1>3, <1>4

\* What was readable, could be sent or was promised stays so.
LEMMA WordsKeep ==
  ASSUME IInv, IInv', [Next]_vars, NEW c \in Conns
  PROVE  /\ \A d \in Conns : Meets(c, d) => Meets(c, d)'
         /\ \A m \in Messages : Readable(c, m) => Readable(c, m)'
         /\ \A m \in Messages : Sendable(c, m) => Sendable(c, m)'
         /\ \A j \in Promises : Promised(c, j) => Promised(c, j)'
<1>1. \A d \in Conns : Meets(c, d) => Meets(c, d)'
  BY Ages DEF Meets
<1>2. ASSUME NEW m \in Messages, Readable(c, m) PROVE Readable(c, m)'
  <2>1. m.from \in Conns /\ m.re \in Conns
    BY DEF Messages
  <2> QED BY <1>1, <1>2, <2>1, Ages DEF Readable
<1>3. ASSUME NEW m \in Messages, Sendable(c, m) PROVE Sendable(c, m)'
  <2>1. m.re \in Conns
    BY DEF Messages
  <2> QED BY <1>1, <1>3, <2>1 DEF Sendable
<1>4. ASSUME NEW j \in Promises, Promised(c, j) PROVE Promised(c, j)'
  <2>1. j.re \in Conns
    BY DEF Promises
  <2> QED BY <1>1, <1>4, <2>1 DEF Promised
<1> QED BY <1>1, <1>2, <1>3, <1>4

\* Two that have both been members and are peers were peers before.
LEMMA PeersWere ==
  ASSUME IInv, IInv', [Next]_vars, NEW c \in Conns, NEW d \in Conns,
         HasBeen(c), HasBeen(d), Peers(c, d)'
  PROVE  Peers(c, d)
BY Ages DEF Peers

\* A member that has a peer has no other.
LEMMA OnlyPeer ==
  ASSUME IInv, NEW c \in Conns, NEW d \in Conns, Peers(c, d)
  PROVE  OthersOf(d) = {c}
<1> DEFINE m == members[roomOf[d]]
<1>1. /\ roomOf[d] \in Rooms /\ roomOf[c] = roomOf[d] /\ user[c] \in Users /\ user[d] \in Users
      /\ m[user[c]] = c /\ m[user[d]] = d /\ c # d
  BY MemberEntry DEF Peers, IInv
<1>2. user[c] # user[d] /\ c # NoConn /\ d # NoConn
  BY <1>1, NoConnOutside
<1>3. IsFiniteSet(Occupied(m)) /\ Cardinality(Occupied(m)) <= 2
  BY <1>1 DEF IInv, AtMostTwo, Occupied, Size
<1> HIDE DEF m
<1>4. {user[d]} \cup {user[c]} \in SUBSET Occupied(m)
  BY <1>1, <1>2 DEF Occupied
<1>5. Cardinality({user[d]} \cup {user[c]}) = 2 /\ IsFiniteSet({user[d]} \cup {user[c]})
  <2>1. IsFiniteSet({user[d]}) /\ Cardinality({user[d]}) = 1
    BY FS_Singleton
  <2>2. user[c] \notin {user[d]}
    BY <1>2
  <2>3. /\ IsFiniteSet({user[d]} \cup {user[c]})
        /\ Cardinality({user[d]} \cup {user[c]}) = Cardinality({user[d]}) + 1
    BY <2>1, <2>2, FS_AddElement
  <2> QED BY <2>1, <2>3
<1>6. Occupied(m) = {user[d]} \cup {user[c]}
  <2>1. Cardinality(Occupied(m)) \in Nat
    BY <1>3, FS_CardinalityType
  <2>2. /\ Cardinality({user[d]} \cup {user[c]}) <= Cardinality(Occupied(m))
        /\ Cardinality({user[d]} \cup {user[c]}) = Cardinality(Occupied(m))
             => {user[d]} \cup {user[c]} = Occupied(m)
    BY <1>3, <1>4, FS_Subset
  <2> QED BY <1>3, <1>5, <2>1, <2>2
<1>7. \A u \in Users : m[u] # NoConn /\ u # user[d] => u = user[c]
  BY <1>6 DEF Occupied
<1>8. OthersOf(d) = {m[u] : u \in Users \ {user[d]}} \ {NoConn}
  BY DEF OthersOf, m
<1> QED BY <1>1, <1>2, <1>7, <1>8

\* Whoever the server may pass a message on to is a member under another name.
LEMMA OthersAre ==
  ASSUME IInv, NEW c \in Conns, roomOf[c] \in Rooms, NEW e \in OthersOf(c)
  PROVE  /\ e \in Conns /\ IsMember(e) /\ HasBeen(e) /\ roomOf[e] = roomOf[c]
         /\ user[e] # user[c] /\ e # c
<1>1. PICK u \in Users : u # user[c] /\ members[roomOf[c]][u] = e /\ e # NoConn
  BY DEF OthersOf
<1>2. e \in Conns
  BY <1>1 DEF IInv, Shape
<1>3. user[e] = u /\ roomOf[e] = roomOf[c] /\ HasJoined(e)
  BY <1>1 DEF IInv, Entries
<1>4. IsMember(e)
  BY <1>1, <1>2, <1>3, NoConnOutside DEF IsMember, MembersOf, Rooms
<1> QED BY <1>1, <1>2, <1>3, <1>4 DEF HasJoined, HasBeen

-----------------------------------------------------------------------------
(* Messages that come and go.                                                *)

\* One message more.
LEMMA OneAppended ==
  ASSUME NEW S, NEW s \in Seq(S), NEW m \in S
  PROVE  /\ Append(s, m) \in Seq(S) /\ Len(Append(s, m)) = Len(s) + 1 /\ Len(s) \in Nat
         /\ \A i \in 1 .. Len(s) : Append(s, m)[i] = s[i]
         /\ Append(s, m)[Len(s) + 1] = m
OBVIOUS

\* Who is described in a list is described in a longer one.
LEMMA DescribesMore ==
  ASSUME NEW S, NEW s \in Seq(S), NEW m \in S, NEW d
  PROVE  /\ \A n \in 0 .. Len(s) :
              (Describes(s, n, d) <=> Describes(Append(s, m), n, d))
         /\ Describes(s, Len(s), d) => Describes(Append(s, m), Len(Append(s, m)), d)
         /\ m.from = d /\ IsDescription(m) => Describes(Append(s, m), Len(Append(s, m)), d)
<1> DEFINE t == Append(s, m)
<1>1. /\ Len(t) = Len(s) + 1 /\ Len(s) \in Nat
      /\ \A i \in 1 .. Len(s) : t[i] = s[i]
      /\ t[Len(s) + 1] = m
  BY OneAppended
<1> HIDE DEF t
<1>2. ASSUME NEW n \in 0 .. Len(s) PROVE Describes(s, n, d) <=> Describes(t, n, d)
  <2>1. \A j \in 1 .. n : j \in 1 .. Len(s) /\ t[j] = s[j]
    BY <1>1
  <2> QED BY <2>1 DEF Describes
<1>3. Describes(s, Len(s), d) => Describes(t, Len(t), d)
  <2>1. \A j \in 1 .. Len(s) : j \in 1 .. Len(t) /\ t[j] = s[j]
    BY <1>1
  <2> QED BY <2>1 DEF Describes
<1>4. m.from = d /\ IsDescription(m) => Describes(t, Len(t), d)
  <2>1. Len(t) \in 1 .. Len(t) /\ t[Len(t)] = m
    BY <1>1
  <2> QED BY <2>1 DEF Describes
<1> QED BY <1>2, <1>3, <1>4 DEF t

\* The first message gone, who was described still is, or it was the first.
LEMMA DescribesLess ==
  ASSUME NEW S, NEW s \in Seq(S), s # <<>>, NEW d, NEW n \in 0 .. Len(s), Describes(s, n, d)
  PROVE  \/ Head(s).from = d /\ IsDescription(Head(s)) /\ n > 0
         \/ n > 0 /\ Describes(Tail(s), n - 1, d)
<1>1. /\ Len(Tail(s)) = Len(s) - 1 /\ Len(s) \in Nat /\ Len(s) > 0 /\ Head(s) = s[1]
      /\ \A i \in 1 .. Len(Tail(s)) : Tail(s)[i] = s[i + 1]
  BY HeadTailProperties, EmptySeq
<1>2. PICK j \in 1 .. n : s[j].from = d /\ IsDescription(s[j])
  BY DEF Describes
<1>3. n > 0 /\ n \in Nat /\ n <= Len(s) /\ j \in Nat /\ 1 <= j /\ j <= n
  BY <1>1, <1>2
<1>4. CASE j = 1
  BY <1>1, <1>2, <1>3, <1>4
<1>5. CASE j # 1
  <2>1. j - 1 \in 1 .. n - 1 /\ j - 1 \in 1 .. Len(Tail(s)) /\ (j - 1) + 1 = j
    BY <1>1, <1>3, <1>5
  <2>2. Tail(s)[j - 1] = s[j]
    BY <1>1, <2>1
  <2> QED BY <1>2, <1>3, <2>1, <2>2 DEF Describes
<1> QED BY <1>4, <1>5

-----------------------------------------------------------------------------
(* Every step keeps the messages in order.                                   *)

\* What fits goes on fitting, if the page has forgotten nothing.
LEMMA FitsStay ==
  ASSUME IInv, IInv', [Next]_vars, NEW c \in Conns
  PROVE  /\ \A s \in Seq(Messages) :
              InboxFits(c, s) /\ heard[c] \subseteq heard'[c] => InboxFits(c, s)'
         /\ \A s \in Seq(Messages) : OutboxFits(c, s) => OutboxFits(c, s)'
         /\ \A s \in Seq(Promises) : JobsFit(c, s) => JobsFit(c, s)'
<1>1. ASSUME NEW s \in Seq(Messages), InboxFits(c, s), heard[c] \subseteq heard'[c]
      PROVE  InboxFits(c, s)'
  <2>1. ASSUME NEW i \in 1 .. Len(s) PROVE Readable(c, s[i])' /\ Known(c, s, i)'
    <3>1. s[i] \in Messages /\ Readable(c, s[i]) /\ Known(c, s, i)
      BY <1>1 DEF InboxFits
    <3>2. Readable(c, s[i])'
      BY <3>1, WordsKeep
    <3>3. s[i].from \in Conns /\ HasBeen(s[i].from)
      BY <3>1 DEF Messages, Readable
    <3>4. IsMember(s[i].from)' => IsMember(s[i].from)
      BY <3>3, Ages
    <3>5. Known(c, s, i)'
      BY <1>1, <3>1, <3>4 DEF Known
    <3> QED BY <3>2, <3>5
  <2> QED BY <2>1 DEF InboxFits
<1>2. ASSUME NEW s \in Seq(Messages), OutboxFits(c, s) PROVE OutboxFits(c, s)'
  <2>1. \A i \in 1 .. Len(s) : s[i] \in Messages /\ Sendable(c, s[i])
    BY <1>2 DEF OutboxFits
  <2>2. \A i \in 1 .. Len(s) : Sendable(c, s[i])'
    BY <2>1, WordsKeep
  <2> QED BY <2>2 DEF OutboxFits
<1>3. ASSUME NEW s \in Seq(Promises), JobsFit(c, s) PROVE JobsFit(c, s)'
  <2>1. \A i \in 1 .. Len(s) : s[i] \in Promises /\ Promised(c, s[i])
    BY <1>3 DEF JobsFit
  <2>2. \A i \in 1 .. Len(s) : Promised(c, s[i])'
    BY <2>1, WordsKeep
  <2> QED BY <2>2 DEF JobsFit
<1> QED BY <1>1, <1>2, <1>3

\* Lists that fit in the new state are what Underway asks for.
LEMMA UnderwayNext ==
  ASSUME \A c \in Conns : \A s : s = inbox'[c] => InboxFits(c, s)',
         \A c \in Conns : \A s : s = outbox'[c] => OutboxFits(c, s)',
         \A c \in Conns : \A s : s = jobs'[c] => JobsFit(c, s)'
  PROVE  Underway'
<1> SUFFICES ASSUME NEW c \in Conns
             PROVE InboxFits(c, inbox[c])' /\ OutboxFits(c, outbox[c])' /\ JobsFit(c, jobs[c])'
  BY DEF Underway
<1>1. ASSUME NEW s, s = inbox'[c], InboxFits(c, s)' PROVE InboxFits(c, inbox[c])'
  BY <1>1 DEF InboxFits, Readable, Known
<1>2. ASSUME NEW s, s = outbox'[c], OutboxFits(c, s)' PROVE OutboxFits(c, outbox[c])'
  BY <1>2 DEF OutboxFits, Sendable
<1>3. ASSUME NEW s, s = jobs'[c], JobsFit(c, s)' PROVE JobsFit(c, jobs[c])'
  BY <1>3 DEF JobsFit, Promised
<1> QED BY <1>1, <1>2, <1>3

\* Peers that are introduced in the new state are what Introductions asks for.
LEMMA IntroductionsNext ==
  ASSUME \A c, d \in Conns : Peers(c, d)' /\ up'[c] =>
           \A s, t : s = inbox'[c] /\ t = outbox'[d] => OnItsWay(c, d, s, t)'
  PROVE  Introductions'
<1> SUFFICES ASSUME NEW c \in Conns, NEW d \in Conns, Peers(c, d)', up'[c]
             PROVE  OnItsWay(c, d, inbox[c], outbox[d])'
  BY DEF Introductions
<1>1. ASSUME NEW s, NEW t, s = inbox'[c], t = outbox'[d], OnItsWay(c, d, s, t)'
      PROVE  OnItsWay(c, d, inbox[c], outbox[d])'
  BY <1>1 DEF OnItsWay, Introduced
<1> QED BY <1>1

\* The lists of the old state fit, in the old state and, without a page that
\* forgets, in the new one.
LEMMA OldListsFit ==
  ASSUME IInv, IInv', MInv, [Next]_vars, NEW c \in Conns
  PROVE  /\ inbox[c] \in Seq(Messages) /\ InboxFits(c, inbox[c])
         /\ outbox[c] \in Seq(Messages) /\ OutboxFits(c, outbox[c])
         /\ jobs[c] \in Seq(Promises) /\ JobsFit(c, jobs[c])
         /\ heard[c] \subseteq heard'[c] => \A s : s = inbox[c] => InboxFits(c, s)'
         /\ \A s : s = outbox[c] => OutboxFits(c, s)'
         /\ \A s : s = jobs[c] => JobsFit(c, s)'
<1>1. /\ inbox[c] \in Seq(Messages) /\ InboxFits(c, inbox[c])
      /\ outbox[c] \in Seq(Messages) /\ OutboxFits(c, outbox[c])
      /\ jobs[c] \in Seq(Promises) /\ JobsFit(c, jobs[c])
  BY DEF MInv, WireShape, Underway
<1> QED BY <1>1, FitsStay

\* Pairs of which neither has just joined, and whose lists are the same.
LEMMA OldPairs ==
  ASSUME IInv, IInv', MInv, [Next]_vars, NEW c \in Conns, NEW d \in Conns,
         HasBeen(c), HasBeen(d), Peers(c, d)', up[c]
  PROVE  /\ Peers(c, d) /\ OnItsWay(c, d, inbox[c], outbox[d])
         /\ heard[c] \subseteq heard'[c] /\ (described'[d] => described[d]) =>
              \A s, t : s = inbox[c] /\ t = outbox[d] => OnItsWay(c, d, s, t)'
<1>1. Peers(c, d)
  BY PeersWere
<1>2. OnItsWay(c, d, inbox[c], outbox[d])
  BY <1>1 DEF MInv, Introductions
<1>3. ASSUME NEW s, NEW t, s = inbox[c], t = outbox[d], heard[c] \subseteq heard'[c],
             described'[d] => described[d]
      PROVE  OnItsWay(c, d, s, t)'
  <2>1. OnItsWay(c, d, s, t)
    BY <1>2, <1>3
  <2> QED BY <1>3, <2>1 DEF OnItsWay, Introduced
<1> QED BY <1>1, <1>2, <1>3

\* A step that touches no message: rooms, and services that go on.
LEMMA RoomStepKeepsMessages ==
  ASSUME IInv, IInv', MInv, [Next]_vars, UNCHANGED <<inbox, outbox, jobs, up, described, heard>>,
         \A c \in Conns : HasBeen(c)' => HasBeen(c)
  PROVE  MInv'
<1>1. /\ inbox' = inbox /\ outbox' = outbox /\ jobs' = jobs /\ up' = up
      /\ described' = described /\ heard' = heard
  OBVIOUS
<1>2. WireShape'
  BY <1>1 DEF MInv, WireShape
<1>3. Quiet'
  <2>1. \A c \in Conns : HasBeen(c) => HasBeen(c)'
    BY Ages
  <2> QED BY <1>1, <2>1 DEF MInv, Quiet
<1>4. Underway'
  BY <1>1, OldListsFit, UnderwayNext
<1>5. \A c \in Conns : IsMember(c)' => HasBeen(c)
  BY Ages
<1>6. Introductions'
  BY <1>1, <1>5, OldPairs, IntroductionsNext DEF Peers
<1> QED BY <1>2, <1>3, <1>4, <1>6 DEF MInv

\* Who joins has heard of the member that was there.
LEMMA JoinKeepsMessages ==
  ASSUME IInv, IInv', MInv, [Next]_vars, NEW j \in Conns, AddMember(j)
  PROVE  MInv'
<1>1. /\ inbox' = inbox /\ outbox' = outbox /\ jobs' = jobs /\ up' = up
      /\ described' = described
      /\ heard' = [heard EXCEPT ![j] = {d \in MembersOf(roomOf[j]) : described[d]}]
      /\ roomOf' = roomOf
  BY DEF AddMember, wireVars
<1>2. /\ pc' = [pc EXCEPT ![j] = "joined"] /\ pc[j] = "checked" /\ roomOf[j] \in Rooms
  BY Joins
<1>3. /\ \A c \in Conns : HasBeen(c)' <=> HasBeen(c) \/ c = j
      /\ ~HasBeen(j)
  BY <1>2 DEF IInv, Shape, HasBeen
<1>4. /\ inbox[j] = <<>> /\ outbox[j] = <<>> /\ jobs[j] = <<>> /\ ~described[j]
  BY <1>3 DEF MInv, Quiet
<1>5. WireShape /\ MembersOf(roomOf[j]) \subseteq Conns
  BY <1>2 DEF MInv, IInv, Shape, MembersOf
<1>6. /\ heard'[j] = {d \in MembersOf(roomOf[j]) : described[d]}
      /\ \A c \in Conns : c # j => heard'[c] = heard[c]
  BY <1>1, <1>5 DEF WireShape
<1>7. WireShape'
  <2>1. heard' \in [Conns -> SUBSET Conns]
    BY <1>1, <1>5 DEF WireShape
  <2> QED BY <1>1, <1>5, <2>1 DEF WireShape
<1>8. Quiet'
  BY <1>1, <1>3 DEF MInv, Quiet
<1>9. Underway'
  <2>1. \A c \in Conns : \A s : s = inbox'[c] => InboxFits(c, s)'
    <3>1. \A c \in Conns : c # j => \A s : s = inbox'[c] => InboxFits(c, s)'
      BY <1>1, <1>6, OldListsFit
    <3>2. \A s : s = <<>> => InboxFits(j, s)'
      BY DEF InboxFits
    <3> QED BY <1>1, <1>4, <3>1, <3>2
  <2> QED BY <1>1, <2>1, OldListsFit, UnderwayNext
<1>10. Introductions'
  <2>1. ASSUME NEW c \in Conns, NEW d \in Conns, Peers(c, d)', up'[c],
               NEW s, NEW t, s = inbox'[c], t = outbox'[d]
        PROVE  OnItsWay(c, d, s, t)'
    <3>1. /\ (HasBeen(c) \/ c = j) /\ (HasBeen(d) \/ d = j) /\ c # d
          /\ roomOf[c] = roomOf[d] /\ IsMember(d)' /\ IsMember(c)'
      BY <1>1, <1>3, <2>1, Ages DEF Peers
    <3>2. CASE c # j /\ d # j
      BY <1>1, <1>6, <2>1, <3>1, <3>2, OldPairs
    <3>3. CASE d = j
      <4>1. t = <<>> /\ ~described'[d]
        BY <1>1, <1>4, <2>1, <3>3
      <4> QED BY <4>1 DEF OnItsWay
    <3>4. CASE c = j
      <4>1. HasBeen(d) /\ d # j
        BY <3>1, <3>4
      <4>2. IsMember(d)
        BY <3>1, <4>1, Ages
      <4>3. d \in MembersOf(roomOf[j])
        BY <3>1, <3>4, <4>2 DEF IsMember
      <4>4. described'[d] => d \in heard'[j]
        BY <1>1, <1>6, <4>3
      <4>5. ~described'[d] => \A i \in 1 .. Len(t) : t[i].kind # "candidate"
        BY <1>1, <2>1 DEF MInv, Quiet
      <4> QED BY <3>4, <4>4, <4>5 DEF OnItsWay, Introduced
    <3> QED BY <3>2, <3>3, <3>4
  <2> QED BY <2>1, IntroductionsNext
<1> QED BY <1>7, <1>8, <1>9, <1>10 DEF MInv

\* A page that is left forgets everything.
LEMMA DisconnectKeepsMessages ==
  ASSUME IInv, IInv', MInv, [Next]_vars, NEW p \in Conns, Disconnect(p)
  PROVE  MInv'
<1>1. /\ up' = [up EXCEPT ![p] = FALSE]
      /\ inbox' = [inbox EXCEPT ![p] = <<>>] /\ jobs' = [jobs EXCEPT ![p] = <<>>]
      /\ heard' = [heard EXCEPT ![p] = {}]
      /\ outbox' = outbox /\ described' = described /\ pc' = pc
  BY DEF Disconnect, connVars
<1>2. WireShape
  BY DEF MInv
<1>3. /\ ~up'[p] /\ inbox'[p] = <<>> /\ jobs'[p] = <<>>
      /\ \A c \in Conns : c # p => /\ up'[c] = up[c] /\ inbox'[c] = inbox[c]
                                   /\ jobs'[c] = jobs[c] /\ heard'[c] = heard[c]
      /\ \A c \in Conns : HasBeen(c)' <=> HasBeen(c)
  BY <1>1, <1>2 DEF WireShape, HasBeen
<1>4. WireShape'
  BY <1>1, <1>2 DEF WireShape
<1>5. Quiet'
  BY <1>1, <1>3 DEF MInv, Quiet
<1>6. Underway'
  <2>1. \A s : s = <<>> => InboxFits(p, s)' /\ JobsFit(p, s)'
    BY DEF InboxFits, JobsFit
  <2>2. \A c \in Conns : \A s : s = inbox'[c] => InboxFits(c, s)'
    BY <1>3, <2>1, OldListsFit
  <2>3. \A c \in Conns : \A s : s = jobs'[c] => JobsFit(c, s)'
    BY <1>3, <2>1, OldListsFit
  <2> QED BY <1>1, <2>2, <2>3, OldListsFit, UnderwayNext
<1>7. Introductions'
  <2>1. ASSUME NEW c \in Conns, NEW d \in Conns, Peers(c, d)', up'[c],
               NEW s, NEW t, s = inbox'[c], t = outbox'[d]
        PROVE  OnItsWay(c, d, s, t)'
    <3>1. HasBeen(c) /\ HasBeen(d) /\ c # p
      BY <1>3, <2>1, Ages DEF Peers
    <3> QED BY <1>1, <1>3, <2>1, <3>1, OldPairs
  <2> QED BY <2>1, IntroductionsNext
<1> QED BY <1>4, <1>5, <1>6, <1>7 DEF MInv

\* OnClose: nothing of that page goes on.
LEMMA CloseKeepsMessages ==
  ASSUME IInv, IInv', MInv, [Next]_vars, NEW p \in Conns, OnClose(p)
  PROVE  MInv'
<1>1. /\ up' = [up EXCEPT ![p] = FALSE]
      /\ outbox' = [outbox EXCEPT ![p] = <<>>] /\ described' = [described EXCEPT ![p] = FALSE]
      /\ inbox' = inbox /\ jobs' = jobs /\ heard' = heard
      /\ pc[p] \in {"open", "refused"}
      /\ pc' = [pc EXCEPT ![p] = IF pc[p] = "open" THEN "closed" ELSE "gone"]
  BY DEF OnClose
<1>2. WireShape
  BY DEF MInv
<1>3. /\ ~up'[p] /\ outbox'[p] = <<>> /\ ~described'[p]
      /\ \A c \in Conns : c # p => /\ up'[c] = up[c] /\ outbox'[c] = outbox[c]
                                   /\ described'[c] = described[c]
  BY <1>1, <1>2 DEF WireShape
<1>9. \A c \in Conns : HasBeen(c)' <=> HasBeen(c)
  BY <1>1 DEF IInv, Shape, HasBeen
<1>4. WireShape'
  BY <1>1, <1>2 DEF WireShape
<1>5. Quiet'
  BY <1>1, <1>3, <1>9 DEF MInv, Quiet
<1>6. Underway'
  <2>1. \A s : s = <<>> => OutboxFits(p, s)'
    BY DEF OutboxFits
  <2>2. \A c \in Conns : \A s : s = outbox'[c] => OutboxFits(c, s)'
    BY <1>3, <2>1, OldListsFit
  <2> QED BY <1>1, <2>2, OldListsFit, UnderwayNext
<1>7. Introductions'
  <2>1. ASSUME NEW c \in Conns, NEW d \in Conns, Peers(c, d)', up'[c],
               NEW s, NEW t, s = inbox'[c], t = outbox'[d]
        PROVE  OnItsWay(c, d, s, t)'
    <3>1. HasBeen(c) /\ HasBeen(d) /\ c # p
      BY <1>3, <1>9, <2>1, Ages DEF Peers
    <3>2. CASE d = p
      <4>1. t = <<>> /\ ~described'[d]
        BY <1>3, <2>1, <3>2
      <4> QED BY <4>1 DEF OnItsWay
    <3>3. CASE d # p
      BY <1>1, <1>3, <2>1, <3>1, <3>3, OldPairs
    <3> QED BY <3>2, <3>3
  <2> QED BY <2>1, IntroductionsNext
<1> QED BY <1>4, <1>5, <1>6, <1>7 DEF MInv

\* A message more in an inbox, if it may be read and, of candidates, what
\* they need has come before.
LEMMA FitsMore ==
  ASSUME NEW c \in Conns, NEW s \in Seq(Messages), NEW m \in Messages,
         InboxFits(c, s)', Readable(c, m)',
         m.kind = "candidate" => ~IsMember(m.from)' \/ Introduced(c, m.from, s)'
  PROVE  InboxFits(c, Append(s, m))'
<1> DEFINE t == Append(s, m)
<1>1. /\ Len(t) = Len(s) + 1 /\ Len(s) \in Nat
      /\ \A i \in 1 .. Len(s) : t[i] = s[i]
      /\ t[Len(s) + 1] = m
  BY OneAppended
<1>2. \A d : \A n \in 0 .. Len(s) : Describes(s, n, d) <=> Describes(t, n, d)
  BY DescribesMore
<1> HIDE DEF t
<1>3. ASSUME NEW i \in 1 .. Len(s) PROVE Readable(c, t[i])' /\ Known(c, t, i)'
  <2>1. t[i] = s[i] /\ Readable(c, s[i])' /\ Known(c, s, i)'
    BY <1>1 DEF InboxFits
  <2>2. i - 1 \in 0 .. Len(s)
    BY <1>1
  <2>3. Describes(s, i - 1, t[i].from) <=> Describes(t, i - 1, t[i].from)
    BY <1>2, <2>2
  <2>4. Readable(c, t[i])'
    BY <2>1 DEF Readable
  <2> QED BY <2>1, <2>3, <2>4 DEF Known
<1>4. Readable(c, t[Len(s) + 1])' /\ Known(c, t, Len(s) + 1)'
  <2>1. (Len(s) + 1) - 1 = Len(s) /\ Len(s) \in 0 .. Len(s)
    BY <1>1
  <2>2. Describes(s, Len(s), m.from) <=> Describes(t, (Len(s) + 1) - 1, m.from)
    BY <1>2, <2>1
  <2>3. t[Len(s) + 1] = m
    BY <1>1
  <2>4. Known(c, t, Len(s) + 1)'
    BY <2>2, <2>3 DEF Known, Introduced
  <2>5. Readable(c, t[Len(s) + 1])'
    BY <2>3 DEF Readable
  <2> QED BY <2>4, <2>5
<1>5. \A i \in 1 .. Len(t) : i \in 1 .. Len(s) \/ i = Len(s) + 1
  BY <1>1
<1>6. InboxFits(c, t)'
  BY <1>3, <1>4, <1>5 DEF InboxFits
<1> QED BY <1>6 DEF t

\* Who is introduced stays so when more comes in.
LEMMA WayGrows ==
  ASSUME NEW c \in Conns, NEW d \in Conns, NEW s \in Seq(Messages), NEW m \in Messages,
         NEW t, OnItsWay(c, d, s, t)'
  PROVE  OnItsWay(c, d, Append(s, m), t)'
<1>1. Introduced(c, d, s)' => Introduced(c, d, Append(s, m))'
  BY DescribesMore DEF Introduced
<1> QED BY <1>1 DEF OnItsWay

\* The greeting.
LEMMA GreetKeepsMessages ==
  ASSUME IInv, IInv', MInv, [Next]_vars, NEW p \in Conns, Greet(p)
  PROVE  MInv'
<1>1. /\ inbox' = IF up[p]
                    THEN [inbox EXCEPT ![p] = Append(inbox[p],
                           [kind |-> IF shouldOffer[p] THEN "sendOffer" ELSE "recvAnswer",
                            from |-> p, re |-> p])]
                    ELSE inbox
      /\ outbox' = outbox /\ jobs' = jobs /\ up' = up /\ described' = described /\ heard' = heard
      /\ pc[p] = "joined" /\ pc' = [pc EXCEPT ![p] = "open"]
  BY DEF Greet, Go, Write, pageVars
<1>2. PICK m \in Messages :
        /\ m.from = p /\ m.re = p /\ m.kind \in {"sendOffer", "recvAnswer"}
        /\ m = [kind |-> IF shouldOffer[p] THEN "sendOffer" ELSE "recvAnswer",
                from |-> p, re |-> p]
  <2> DEFINE greeting == [kind |-> IF shouldOffer[p] THEN "sendOffer" ELSE "recvAnswer",
                          from |-> p, re |-> p]
  <2>1. greeting \in Messages /\ greeting.kind \in {"sendOffer", "recvAnswer"}
    BY DEF Messages
  <2> QED BY <2>1
<1>3. WireShape
  BY DEF MInv
<1>4. \A c \in Conns : HasBeen(c)' <=> HasBeen(c)
  BY <1>1 DEF IInv, Shape, HasBeen
<1>5. HasBeen(p)
  BY <1>1 DEF HasBeen
<1>6. CASE ~up[p]
  BY <1>1, <1>4, <1>6, RoomStepKeepsMessages
<1>7. CASE up[p]
  <2>1. /\ inbox' = [inbox EXCEPT ![p] = Append(inbox[p], m)]
        /\ inbox'[p] = Append(inbox[p], m) /\ inbox[p] \in Seq(Messages)
        /\ \A c \in Conns : c # p => inbox'[c] = inbox[c]
    BY <1>1, <1>2, <1>3, <1>7 DEF WireShape
  <2>2. WireShape'
    <3>1. inbox' \in [Conns -> Seq(Messages)]
      BY <1>2, <1>3, <2>1 DEF WireShape
    <3> QED BY <1>1, <1>3, <3>1 DEF WireShape
  <2>3. Quiet'
    BY <1>1, <1>4, <1>5, <2>1 DEF MInv, Quiet
  <2>4. Underway'
    <3>1. ASSUME NEW s, s = inbox'[p] PROVE InboxFits(p, s)'
      <4>1. ASSUME NEW q, q = inbox[p] PROVE InboxFits(p, Append(q, m))'
        <5>1. InboxFits(p, q)' /\ q \in Seq(Messages)
          BY <1>1, <4>1, OldListsFit
        <5>2. Readable(p, m)'
          BY <1>2, <1>4, <1>5 DEF Readable
        <5>3. m.kind # "candidate"
          BY <1>2
        <5> QED BY <1>2, <5>1, <5>2, <5>3, FitsMore
      <4> QED BY <2>1, <3>1, <4>1
    <3>2. \A c \in Conns : \A s : s = inbox'[c] => InboxFits(c, s)'
      BY <1>1, <2>1, <3>1, OldListsFit
    <3> QED BY <1>1, <3>2, OldListsFit, UnderwayNext
  <2>5. Introductions'
    <3>1. ASSUME NEW c \in Conns, NEW d \in Conns, Peers(c, d)', up'[c],
                 NEW s, NEW t, s = inbox'[c], t = outbox'[d]
          PROVE  OnItsWay(c, d, s, t)'
      <4>1. HasBeen(c) /\ HasBeen(d)
        BY <1>4, <3>1, Ages DEF Peers
      <4>2. ASSUME NEW q, q = inbox[c] PROVE OnItsWay(c, d, q, t)'
        BY <1>1, <3>1, <4>1, <4>2, OldPairs
      <4>3. CASE c # p
        BY <2>1, <3>1, <4>2, <4>3
      <4>4. CASE c = p
        BY <1>2, <2>1, <3>1, <4>2, <4>4, WayGrows
      <4> QED BY <4>3, <4>4
    <3> QED BY <3>1, IntroductionsNext
  <2> QED BY <2>2, <2>3, <2>4, <2>5 DEF MInv
<1> QED BY <1>6, <1>7

\* A page says more: offers and answers, or candidates that follow them.
LEMMA SayKeepsMessages ==
  ASSUME IInv, IInv', MInv, [Next]_vars, NEW p \in Conns, HasBeen(p), pc' = pc,
         NEW m \in Messages, Sendable(p, m), outbox' = [outbox EXCEPT ![p] = Append(outbox[p], m)],
         inbox' = inbox, up' = up, heard' = heard,
         NEW more \in Seq(Promises), jobs' = [jobs EXCEPT ![p] = more], JobsFit(p, more),
         \/ m.kind # "candidate" /\ IsDescription(m) /\ described' = [described EXCEPT ![p] = TRUE]
         \/ m.kind = "candidate" /\ described[p] /\ described' = described
  PROVE  MInv'
<1>1. WireShape /\ m.from = p
  BY DEF MInv, Sendable
<1>2. /\ outbox'[p] = Append(outbox[p], m) /\ outbox[p] \in Seq(Messages)
      /\ jobs'[p] = more
      /\ \A c \in Conns : c # p => /\ outbox'[c] = outbox[c] /\ jobs'[c] = jobs[c]
                                   /\ described'[c] = described[c]
      /\ described'[p]
  BY <1>1 DEF WireShape
<1>3. \A c \in Conns : HasBeen(c)' <=> HasBeen(c)
  BY DEF HasBeen
<1>4. WireShape'
  <2>1. outbox' \in [Conns -> Seq(Messages)] /\ jobs' \in [Conns -> Seq(Promises)]
    BY <1>1, <1>2 DEF WireShape
  <2>2. described' \in [Conns -> BOOLEAN]
    BY <1>1 DEF WireShape
  <2> QED BY <1>1, <2>1, <2>2 DEF WireShape
<1>5. Quiet'
  BY <1>2, <1>3 DEF MInv, Quiet
<1>6. Underway'
  <2>1. ASSUME NEW s, s = outbox'[p] PROVE OutboxFits(p, s)'
    <3>1. ASSUME NEW q, q = outbox[p] PROVE OutboxFits(p, Append(q, m))'
      <4>1. OutboxFits(p, q)' /\ q \in Seq(Messages)
        BY <3>1, OldListsFit
      <4>2. Sendable(p, m)'
        BY WordsKeep
      <4> DEFINE l == Append(q, m)
      <4>3. /\ Len(l) = Len(q) + 1 /\ Len(q) \in Nat
            /\ \A i \in 1 .. Len(q) : l[i] = q[i]
            /\ l[Len(q) + 1] = m
        BY <4>1, OneAppended
      <4> HIDE DEF l
      <4>4. ASSUME NEW i \in 1 .. Len(l) PROVE Sendable(p, l[i])'
        <5>1. CASE i \in 1 .. Len(q)
          BY <4>1, <4>3, <5>1 DEF OutboxFits
        <5>2. CASE i = Len(q) + 1
          BY <4>2, <4>3, <5>2
        <5> QED BY <4>3, <5>1, <5>2
      <4>5. OutboxFits(p, l)'
        BY <4>4 DEF OutboxFits
      <4> QED BY <4>5 DEF l
    <3> QED BY <1>2, <2>1, <3>1
  <2>2. \A c \in Conns : \A s : s = outbox'[c] => OutboxFits(c, s)'
    BY <1>2, <2>1, OldListsFit
  <2>3. JobsFit(p, more)'
    BY FitsStay
  <2>4. \A c \in Conns : \A s : s = jobs'[c] => JobsFit(c, s)'
    BY <1>2, <2>3, OldListsFit
  <2> QED BY <2>2, <2>4, OldListsFit, UnderwayNext
<1>7. Introductions'
  <2>1. ASSUME NEW c \in Conns, NEW d \in Conns, Peers(c, d)', up'[c],
               NEW s, NEW t, s = inbox'[c], t = outbox'[d]
        PROVE  OnItsWay(c, d, s, t)'
    <3>1. HasBeen(c) /\ HasBeen(d)
      BY <1>3, <2>1, Ages DEF Peers
    <3>2. CASE d # p
      BY <1>2, <2>1, <3>1, <3>2, OldPairs
    <3>3. CASE d = p
      <4> DEFINE q == outbox[p]
      <4>1. OnItsWay(c, p, s, q)
        BY <2>1, <3>1, <3>3, OldPairs
      <4>2. t = Append(q, m) /\ q \in Seq(Messages)
        BY <1>2, <2>1, <3>3
      <4> HIDE DEF q
      <4>3. /\ Len(t) = Len(q) + 1 /\ Len(q) \in Nat
            /\ \A i \in 1 .. Len(q) : t[i] = q[i]
            /\ t[Len(q) + 1] = m
        BY <4>2, OneAppended
      <4>4. /\ \A n \in 0 .. Len(q) : Describes(q, n, p) <=> Describes(t, n, p)
            /\ Describes(q, Len(q), p) => Describes(t, Len(t), p)
            /\ m.from = p /\ IsDescription(m) => Describes(t, Len(t), p)
        BY <4>2, DescribesMore
      <4>5. Introduced(c, p, s)' <=> Introduced(c, p, s)
        BY DEF Introduced
      <4>6. Introduced(c, p, s) \/ Describes(t, Len(t), p)
        BY <1>1, <4>1, <4>4 DEF OnItsWay
      <4>7. ASSUME NEW i \in 1 .. Len(t), t[i].kind = "candidate"
            PROVE  Introduced(c, p, s) \/ Describes(t, i - 1, p)
        <5>1. CASE i \in 1 .. Len(q)
          <6>1. i - 1 \in 0 .. Len(q)
            BY <4>3, <5>1
          <6> QED BY <4>1, <4>3, <4>4, <4>7, <5>1, <6>1 DEF OnItsWay
        <5>2. CASE i = Len(q) + 1
          <6>1. described[p] /\ i - 1 = Len(q) /\ Len(q) \in 0 .. Len(q)
            BY <4>3, <4>7, <5>2
          <6>2. Introduced(c, p, s) \/ Describes(q, Len(q), p)
            BY <4>1, <6>1 DEF OnItsWay
          <6> QED BY <4>4, <6>1, <6>2
        <5> QED BY <4>3, <5>1, <5>2
      <4> QED BY <3>3, <4>5, <4>6, <4>7 DEF OnItsWay
    <3> QED BY <3>2, <3>3
  <2> QED BY <2>1, IntroductionsNext
<1> QED BY <1>4, <1>5, <1>6, <1>7 DEF MInv

\* The promise resolves.
LEMMA PageDescribesKeepsMessages ==
  ASSUME IInv, IInv', MInv, [Next]_vars, NEW p \in Conns, PageDescribes(p)
  PROVE  MInv'
<1>1. /\ jobs[p] # <<>>
      /\ outbox' = [outbox EXCEPT ![p] = Append(outbox[p],
                      [kind |-> Head(jobs[p]).kind, from |-> p, re |-> Head(jobs[p]).re])]
      /\ jobs' = [jobs EXCEPT ![p] = Tail(jobs[p])]
      /\ described' = [described EXCEPT ![p] = TRUE]
      /\ inbox' = inbox /\ up' = up /\ heard' = heard /\ pc' = pc
  BY DEF PageDescribes, Send, connVars
<1>2. jobs[p] \in Seq(Promises) /\ JobsFit(p, jobs[p]) /\ HasBeen(p)
  BY <1>1 DEF MInv, WireShape, Underway, Quiet
<1>3. /\ Head(jobs[p]) \in Promises /\ Tail(jobs[p]) \in Seq(Promises)
      /\ Head(jobs[p]) = jobs[p][1] /\ 1 \in 1 .. Len(jobs[p])
      /\ Len(Tail(jobs[p])) = Len(jobs[p]) - 1 /\ Len(jobs[p]) \in Nat
      /\ \A i \in 1 .. Len(Tail(jobs[p])) : Tail(jobs[p])[i] = jobs[p][i + 1]
  BY <1>1, <1>2, HeadTailProperties, EmptySeq
<1>4. JobsFit(p, Tail(jobs[p]))
  <2>1. \A i \in 1 .. Len(Tail(jobs[p])) : i + 1 \in 1 .. Len(jobs[p])
    BY <1>3
  <2> QED BY <1>2, <1>3, <2>1 DEF JobsFit
<1>5. Promised(p, Head(jobs[p]))
  BY <1>2, <1>3 DEF JobsFit
<1>6. PICK m \in Messages :
        /\ outbox' = [outbox EXCEPT ![p] = Append(outbox[p], m)]
        /\ m.from = p /\ m.re = Head(jobs[p]).re /\ m.kind = Head(jobs[p]).kind
  <2> DEFINE said == [kind |-> Head(jobs[p]).kind, from |-> p, re |-> Head(jobs[p]).re]
  <2>1. said \in Messages
    BY <1>3 DEF Messages, Promises
  <2> QED BY <1>1, <2>1
<1>7. Sendable(p, m)
  BY <1>5, <1>6 DEF Promised, Sendable
<1>8. m.kind # "candidate" /\ IsDescription(m)
  BY <1>3, <1>6 DEF Promises, IsDescription
<1>9. PICK more \in Seq(Promises) : jobs' = [jobs EXCEPT ![p] = more] /\ JobsFit(p, more)
  BY <1>1, <1>3, <1>4
<1> QED BY <1>1, <1>2, <1>6, <1>7, <1>8, <1>9, SayKeepsMessages

\* A candidate is found.
LEMMA CandidateKeepsMessages ==
  ASSUME IInv, IInv', MInv, [Next]_vars, NEW p \in Conns, PageSendsCandidate(p)
  PROVE  MInv'
<1>1. /\ described[p]
      /\ outbox' = [outbox EXCEPT ![p] = Append(outbox[p],
                      [kind |-> "candidate", from |-> p, re |-> p])]
      /\ jobs' = jobs /\ described' = described
      /\ inbox' = inbox /\ up' = up /\ heard' = heard /\ pc' = pc
  BY DEF PageSendsCandidate, MayFindCandidate, Send, connVars
<1>2. jobs[p] \in Seq(Promises) /\ JobsFit(p, jobs[p]) /\ HasBeen(p)
  BY <1>1 DEF MInv, WireShape, Underway, Quiet
<1>3. PICK m \in Messages :
        /\ outbox' = [outbox EXCEPT ![p] = Append(outbox[p], m)]
        /\ m.from = p /\ m.re = p /\ m.kind = "candidate"
  <2> DEFINE said == [kind |-> "candidate", from |-> p, re |-> p]
  <2>1. said \in Messages
    BY DEF Messages
  <2> QED BY <1>1, <2>1
<1>4. Sendable(p, m)
  BY <1>3 DEF Sendable
<1>5. PICK more \in Seq(Promises) : jobs' = [jobs EXCEPT ![p] = more] /\ JobsFit(p, more)
  <2>1. jobs' = [jobs EXCEPT ![p] = jobs[p]]
    BY <1>1 DEF MInv, WireShape
  <2> QED BY <1>2, <2>1
<1> QED BY <1>1, <1>2, <1>3, <1>4, <1>5, SayKeepsMessages

\* The first message gone, what is left fits, if the page remembers it.
LEMMA FitsLess ==
  ASSUME NEW c \in Conns, NEW s \in Seq(Messages), s # <<>>, InboxFits(c, s)',
         IsDescription(Head(s)) => Head(s).from \in heard'[c]
  PROVE  InboxFits(c, Tail(s))'
<1>1. /\ Tail(s) \in Seq(Messages) /\ Len(Tail(s)) = Len(s) - 1 /\ Len(s) \in Nat
      /\ \A i \in 1 .. Len(Tail(s)) : Tail(s)[i] = s[i + 1]
  BY HeadTailProperties, EmptySeq
<1>2. ASSUME NEW i \in 1 .. Len(Tail(s))
      PROVE  Readable(c, Tail(s)[i])' /\ Known(c, Tail(s), i)'
  <2> DEFINE t == Tail(s)
  <2>1. i + 1 \in 1 .. Len(s) /\ t[i] = s[i + 1]
    BY <1>1
  <2>2. Readable(c, s[i + 1])' /\ Known(c, s, i + 1)'
    BY <2>1 DEF InboxFits
  <2>3. i + 1 - 1 = i /\ i \in 0 .. Len(s)
    BY <1>1
  <2>4. \A d : Describes(s, i, d) =>
          \/ Head(s).from = d /\ IsDescription(Head(s))
          \/ Describes(t, i - 1, d)
    BY <2>3, DescribesLess
  <2> HIDE DEF t
  <2>5. Readable(c, t[i])'
    BY <2>1, <2>2 DEF Readable
  <2>6. Known(c, t, i)'
    BY <2>1, <2>2, <2>3, <2>4 DEF Known
  <2>7. Readable(c, t[i])' /\ Known(c, t, i)'
    BY <2>5, <2>6
  <2> QED BY <2>7 DEF t
<1> QED BY <1>2 DEF InboxFits

\* onmessage.
LEMMA PageReadsKeepsMessages ==
  ASSUME IInv, IInv', MInv, [Next]_vars, NEW p \in Conns, PageReads(p)
  PROVE  MInv'
<1> DEFINE h == Head(inbox[p])
           after == CASE h.kind = "sendOffer" -> [jobs EXCEPT ![p] = Append(@, [kind |-> "offer", re |-> p])]
                      [] h.kind = "offer" -> [jobs EXCEPT ![p] = Append(@, [kind |-> "answer", re |-> h.from])]
                      [] OTHER -> jobs
<1>1. /\ inbox[p] # <<>> /\ inbox' = [inbox EXCEPT ![p] = Tail(inbox[p])]
      /\ jobs' = after
      /\ heard' = IF IsDescription(h) THEN [heard EXCEPT ![p] = heard[p] \cup {h.from}] ELSE heard
      /\ outbox' = outbox /\ up' = up /\ described' = described /\ pc' = pc
  BY DEF PageReads, connVars
<1>2. WireShape
  BY DEF MInv
<1>3. /\ inbox[p] \in Seq(Messages) /\ jobs[p] \in Seq(Promises) /\ InboxFits(p, inbox[p])
      /\ HasBeen(p)
  BY <1>1 DEF MInv, WireShape, Underway, Quiet
<1>4. /\ h \in Messages /\ Tail(inbox[p]) \in Seq(Messages) /\ Readable(p, h)
  <2>1. /\ h \in Messages /\ Tail(inbox[p]) \in Seq(Messages)
        /\ h = inbox[p][1] /\ 1 \in 1 .. Len(inbox[p])
    BY <1>1, <1>3, HeadTailProperties, EmptySeq
  <2> QED BY <1>3, <2>1 DEF InboxFits
<1>5. \A c \in Conns : HasBeen(c)' <=> HasBeen(c)
  BY <1>1 DEF HasBeen
<1>6. /\ \/ jobs' = jobs
         \/ \E j \in Promises : jobs' = [jobs EXCEPT ![p] = Append(jobs[p], j)] /\ Promised(p, j)
  <2>1. CASE h.kind = "sendOffer"
    <3> DEFINE j == [kind |-> "offer", re |-> p]
    <3>1. jobs' = [jobs EXCEPT ![p] = Append(jobs[p], j)]
      BY <1>1, <2>1
    <3>2. j \in Promises /\ Promised(p, j)
      BY DEF Promises, Promised
    <3> QED BY <3>1, <3>2
  <2>2. CASE h.kind = "offer"
    <3> DEFINE j == [kind |-> "answer", re |-> h.from]
    <3>1. jobs' = [jobs EXCEPT ![p] = Append(jobs[p], j)]
      BY <1>1, <2>2
    <3>2. h.from \in Conns /\ Meets(p, h.from)
      BY <1>4, <2>2 DEF Messages, Readable
    <3>3. j \in Promises /\ Promised(p, j)
      BY <3>2 DEF Promises, Promised
    <3> QED BY <3>1, <3>3
  <2>3. CASE h.kind # "sendOffer" /\ h.kind # "offer"
    BY <1>1, <2>3
  <2> QED BY <2>1, <2>2, <2>3
<1> HIDE DEF after
<1>7. /\ inbox'[p] = Tail(inbox[p])
      /\ \A c \in Conns : c # p => inbox'[c] = inbox[c] /\ heard'[c] = heard[c]
      /\ \A c \in Conns : heard[c] \subseteq heard'[c]
      /\ IsDescription(h) => h.from \in heard'[p]
  <2>1. h.from \in Conns
    BY <1>4 DEF Messages
  <2> HIDE DEF h
  <2> QED BY <1>1, <1>2, <2>1 DEF WireShape
<1>8. WireShape'
  <2>1. inbox' \in [Conns -> Seq(Messages)]
    BY <1>1, <1>2, <1>4 DEF WireShape
  <2>2. jobs' \in [Conns -> Seq(Promises)]
    <3>1. \A j \in Promises : Append(jobs[p], j) \in Seq(Promises)
      BY <1>3, OneAppended
    <3>2. jobs \in [Conns -> Seq(Promises)]
      BY <1>2 DEF WireShape
    <3> QED BY <1>6, <3>1, <3>2
  <2>3. heard' \in [Conns -> SUBSET Conns]
    <3>1. h.from \in Conns
      BY <1>4 DEF Messages
    <3> HIDE DEF h
    <3> QED BY <1>1, <1>2, <3>1 DEF WireShape
  <2> QED BY <1>1, <1>2, <2>1, <2>2, <2>3 DEF WireShape
<1>9. Quiet'
  <2>1. \A c \in Conns : c # p => jobs'[c] = jobs[c]
    BY <1>2, <1>6 DEF WireShape
  <2> QED BY <1>1, <1>3, <1>5, <1>7, <2>1 DEF MInv, Quiet
<1>10. Underway'
  <2>1. ASSUME NEW s, s = inbox'[p] PROVE InboxFits(p, s)'
    <3>1. ASSUME NEW q, q = inbox[p] PROVE InboxFits(p, Tail(q))'
      <4>1. InboxFits(p, q)' /\ q \in Seq(Messages) /\ q # <<>>
        BY <1>1, <1>7, <3>1, OldListsFit
      <4>2. IsDescription(Head(q)) => Head(q).from \in heard'[p]
        BY <1>7, <3>1
      <4> QED BY <4>1, <4>2, FitsLess
    <3> QED BY <1>7, <2>1, <3>1
  <2>2. \A c \in Conns : \A s : s = inbox'[c] => InboxFits(c, s)'
    BY <1>7, <2>1, OldListsFit
  <2>3. ASSUME NEW j \in Promises, jobs' = [jobs EXCEPT ![p] = Append(jobs[p], j)], Promised(p, j)
        PROVE  \A c \in Conns : \A s : s = jobs'[c] => JobsFit(c, s)'
    <3>1. jobs'[p] = Append(jobs[p], j) /\ \A c \in Conns : c # p => jobs'[c] = jobs[c]
      BY <1>2, <2>3 DEF WireShape
    <3>2. Append(jobs[p], j) \in Seq(Promises) /\ JobsFit(p, Append(jobs[p], j))
      <4> DEFINE q == jobs[p]  l == Append(q, j)
      <4>1. /\ l \in Seq(Promises) /\ Len(l) = Len(q) + 1 /\ Len(q) \in Nat
            /\ \A i \in 1 .. Len(q) : l[i] = q[i]
            /\ l[Len(q) + 1] = j
        BY <1>3, OneAppended
      <4>2. JobsFit(p, q)
        BY DEF MInv, Underway
      <4> HIDE DEF l, q
      <4>3. ASSUME NEW i \in 1 .. Len(l) PROVE Promised(p, l[i])
        BY <2>3, <4>1, <4>2 DEF JobsFit
      <4>4. l \in Seq(Promises) /\ JobsFit(p, l)
        BY <4>1, <4>3 DEF JobsFit
      <4> QED BY <4>4 DEF l, q
    <3>3. \A s : s = jobs'[p] => JobsFit(p, s)'
      BY <3>1, <3>2, FitsStay
    <3> QED BY <3>1, <3>3, OldListsFit
  <2>4. \A c \in Conns : \A s : s = jobs'[c] => JobsFit(c, s)'
    BY <1>6, <2>3, OldListsFit
  <2> QED BY <1>1, <2>2, <2>4, OldListsFit, UnderwayNext
<1>11. Introductions'
  <2>1. ASSUME NEW c \in Conns, NEW d \in Conns, Peers(c, d)', up'[c],
               NEW s, NEW t, s = inbox'[c], t = outbox'[d]
        PROVE  OnItsWay(c, d, s, t)'
    <3>1. HasBeen(c) /\ HasBeen(d)
      BY <1>5, <2>1, Ages DEF Peers
    <3>2. ASSUME NEW q, q = inbox[c] PROVE OnItsWay(c, d, q, t)'
      BY <1>1, <1>7, <2>1, <3>1, <3>2, OldPairs
    <3>3. CASE c # p
      BY <1>7, <2>1, <3>2, <3>3
    <3>4. CASE c = p
      <4>1. ASSUME NEW q, q = inbox[p], Introduced(p, d, q)' PROVE Introduced(p, d, Tail(q))'
        <5>1. CASE d \in heard'[p]
          BY <5>1 DEF Introduced
        <5>2. CASE Describes(q, Len(q), d)
          <6>1. q \in Seq(Messages) /\ q # <<>> /\ Len(q) \in 0 .. Len(q)
            BY <1>1, <1>3, <4>1, EmptySeq
          <6>2. \/ Head(q).from = d /\ IsDescription(Head(q))
                \/ Describes(Tail(q), Len(q) - 1, d)
            BY <5>2, <6>1, DescribesLess
          <6>3. Len(Tail(q)) = Len(q) - 1
            BY <6>1, HeadTailProperties
          <6>4. Head(q).from = d /\ IsDescription(Head(q)) => d \in heard'[p]
            BY <1>7, <4>1
          <6> QED BY <6>2, <6>3, <6>4 DEF Introduced
        <5> QED BY <4>1, <5>1, <5>2 DEF Introduced
      <4>2. ASSUME NEW q, q = inbox[p] PROVE OnItsWay(p, d, Tail(q), t)'
        BY <3>2, <3>4, <4>1, <4>2 DEF OnItsWay
      <4> QED BY <1>7, <2>1, <3>4, <4>2
    <3> QED BY <3>3, <3>4
  <2> QED BY <2>1, IntroductionsNext
<1> QED BY <1>8, <1>9, <1>10, <1>11 DEF MInv

\* A message is passed on to the other member, if there is one and its
\* websocket is open.
LEMMA RelayKeepsMessages ==
  ASSUME IInv, IInv', MInv, [Next]_vars, NEW p \in Conns, Relay(p)
  PROVE  MInv'
<1>1. /\ pc[p] = "open" /\ outbox[p] # <<>>
      /\ \/ OthersOf(p) = {} /\ inbox' = inbox
         \/ \E e \in OthersOf(p) :
              inbox' = IF up[e] THEN [inbox EXCEPT ![e] = Append(inbox[e], Head(outbox[p]))] ELSE inbox
      /\ outbox' = [outbox EXCEPT ![p] = Tail(outbox[p])]
      /\ jobs' = jobs /\ up' = up /\ described' = described /\ heard' = heard /\ pc' = pc
  BY DEF Relay, Write, connVars, pageVars
<1>2. WireShape
  BY DEF MInv
<1>3. HasBeen(p) /\ roomOf[p] \in Rooms
  BY <1>1 DEF HasBeen, IInv, Placed
<1>4. /\ outbox[p] \in Seq(Messages) /\ OutboxFits(p, outbox[p])
      /\ Head(outbox[p]) \in Messages /\ Tail(outbox[p]) \in Seq(Messages)
      /\ Head(outbox[p]) = outbox[p][1] /\ 1 \in 1 .. Len(outbox[p]) /\ Len(outbox[p]) \in Nat
      /\ Len(Tail(outbox[p])) = Len(outbox[p]) - 1
      /\ \A i \in 1 .. Len(Tail(outbox[p])) : Tail(outbox[p])[i] = outbox[p][i + 1]
  <2>1. outbox[p] \in Seq(Messages) /\ OutboxFits(p, outbox[p])
    BY OldListsFit
  <2> QED BY <1>1, <2>1, HeadTailProperties, EmptySeq
<1>5. PICK m \in Messages : m = Head(outbox[p])
  BY <1>4
<1>6. Sendable(p, m) /\ m.from = p /\ m.re \in Conns
  <2>1. m = outbox[p][1]
    BY <1>4, <1>5
  <2> QED BY <1>4, <2>1 DEF OutboxFits, Sendable, Messages
<1>7. \A c \in Conns : HasBeen(c)' <=> HasBeen(c)
  BY <1>1 DEF HasBeen
<1>8. /\ outbox'[p] = Tail(outbox[p])
      /\ \A c \in Conns : c # p => outbox'[c] = outbox[c]
      /\ WireShape' \/ inbox' \notin [Conns -> Seq(Messages)]
  <2>1. outbox' \in [Conns -> Seq(Messages)]
    BY <1>1, <1>2, <1>4 DEF WireShape
  <2> QED BY <1>1, <1>2, <2>1 DEF WireShape
\* Nothing is written, or the message is added to one inbox.
<1>9. \/ inbox' = inbox
      \/ \E e \in OthersOf(p) : up[e] /\ inbox' = [inbox EXCEPT ![e] = Append(inbox[e], m)]
  BY <1>1, <1>5
<1>10. \A e \in OthersOf(p) : /\ e \in Conns /\ IsMember(e) /\ HasBeen(e)
                              /\ roomOf[e] = roomOf[p] /\ user[e] # user[p] /\ e # p
  BY <1>3, OthersAre
\* Who gets it may read it.
<1>11. ASSUME NEW e \in OthersOf(p), up[e]
       PROVE  /\ Readable(e, m)
              /\ m.kind = "candidate" => ~IsMember(m.from) \/ Introduced(e, m.from, inbox[e])
  <2>1. /\ e \in Conns /\ IsMember(e) /\ HasBeen(e) /\ roomOf[e] = roomOf[p]
        /\ user[e] # user[p] /\ e # p
    BY <1>10
  <2>2. HasBeen(m.from) /\ HasBeen(m.re)
    BY <1>3, <1>6 DEF Sendable, Meets
  <2>3. Meets(e, p)
    BY <1>3, <2>1 DEF Meets
  <2>4. ASSUME m.kind = "answer", m.re # e, IsMember(m.re), IsMember(p) PROVE FALSE
    <3>1. Meets(p, m.re)
      BY <1>6, <2>4 DEF Sendable
    <3>2. Peers(m.re, p) /\ Peers(e, p)
      BY <2>1, <2>4, <3>1 DEF Meets, Peers
    <3>3. OthersOf(p) = {m.re} /\ OthersOf(p) = {e}
      BY <1>6, <2>1, <3>2, OnlyPeer
    <3> QED BY <2>4, <3>3
  <2>5. ASSUME m.kind = "candidate", IsMember(p) PROVE Introduced(e, p, inbox[e])
    <3>1. Peers(e, p)
      BY <2>1, <2>5 DEF Peers
    <3>2. OnItsWay(e, p, inbox[e], outbox[p])
      BY <1>11, <2>1, <3>1 DEF MInv, Introductions
    <3>3. Introduced(e, p, inbox[e]) \/ Describes(outbox[p], 1 - 1, p)
      BY <1>4, <1>5, <2>5, <3>2 DEF OnItsWay
    <3>4. ~Describes(outbox[p], 1 - 1, p)
      BY DEF Describes
    <3> QED BY <3>3, <3>4
  <2> QED BY <1>6, <2>2, <2>3, <2>4, <2>5 DEF Readable
<1>12. WireShape'
  <2>1. ASSUME NEW e \in OthersOf(p), inbox' = [inbox EXCEPT ![e] = Append(inbox[e], m)]
        PROVE  inbox' \in [Conns -> Seq(Messages)]
    <3>1. e \in Conns /\ inbox \in [Conns -> Seq(Messages)]
      BY <1>2, <1>10 DEF WireShape
    <3>2. Append(inbox[e], m) \in Seq(Messages)
      BY <3>1, OneAppended
    <3> QED BY <2>1, <3>1, <3>2
  <2>2. inbox' \in [Conns -> Seq(Messages)]
    BY <1>2, <1>9, <2>1 DEF WireShape
  <2> QED BY <1>8, <2>2
<1>13. Quiet'
  <2>1. \A c \in Conns : ~HasBeen(c) => inbox'[c] = inbox[c]
    BY <1>2, <1>9, <1>10 DEF WireShape
  <2>2. ~described[p] => \A i \in 1 .. Len(outbox'[p]) : outbox'[p][i].kind # "candidate"
    <3>1. \A i \in 1 .. Len(Tail(outbox[p])) : i + 1 \in 1 .. Len(outbox[p])
      BY <1>4
    <3> QED BY <1>4, <1>8, <3>1 DEF MInv, Quiet
  <2> QED BY <1>1, <1>3, <1>7, <1>8, <2>1, <2>2 DEF MInv, Quiet
<1>14. Underway'
  <2>1. \A c \in Conns : \A s : s = inbox[c] => InboxFits(c, s)'
    BY <1>1, OldListsFit
  <2>2. ASSUME NEW e \in OthersOf(p), up[e], inbox' = [inbox EXCEPT ![e] = Append(inbox[e], m)]
        PROVE  \A c \in Conns : \A s : s = inbox'[c] => InboxFits(c, s)'
    <3>1. /\ e \in Conns /\ inbox[e] \in Seq(Messages) /\ inbox'[e] = Append(inbox[e], m)
          /\ \A c \in Conns : c # e => inbox'[c] = inbox[c]
      BY <1>2, <1>10, <2>2 DEF WireShape
    <3>2. ASSUME NEW q, q = inbox[e] PROVE InboxFits(e, Append(q, m))'
      <4>1. InboxFits(e, q)' /\ q \in Seq(Messages)
        BY <2>1, <3>1, <3>2
      <4>2. Readable(e, m)
        BY <1>11, <2>2
      <4>3. Readable(e, m)'
        BY <3>1, <4>2, WordsKeep
      <4>4. m.kind = "candidate" => ~IsMember(m.from) \/ Introduced(e, m.from, q)
        BY <1>11, <2>2, <3>2
      <4>5. IsMember(m.from)' => IsMember(m.from)
        BY <1>3, <1>6, Ages
      <4>6. Introduced(e, m.from, q)' <=> Introduced(e, m.from, q)
        BY <1>1 DEF Introduced
      <4> QED BY <3>1, <4>1, <4>3, <4>4, <4>5, <4>6, FitsMore
    <3> QED BY <2>1, <3>1, <3>2
  <2>3. \A c \in Conns : \A s : s = inbox'[c] => InboxFits(c, s)'
    BY <1>9, <2>1, <2>2
  <2>4. OutboxFits(p, Tail(outbox[p]))
    <3>1. \A i \in 1 .. Len(Tail(outbox[p])) : i + 1 \in 1 .. Len(outbox[p])
      BY <1>4
    <3> QED BY <1>4, <3>1 DEF OutboxFits
  <2>5. \A s : s = Tail(outbox[p]) => OutboxFits(p, s)'
    BY <1>4, <2>4, FitsStay
  <2>6. \A c \in Conns : \A s : s = outbox'[c] => OutboxFits(c, s)'
    BY <1>8, <2>5, OldListsFit
  <2> QED BY <1>1, <2>3, <2>6, OldListsFit, UnderwayNext
<1>15. Introductions'
  <2>1. ASSUME NEW c \in Conns, NEW d \in Conns, Peers(c, d)', up'[c],
               NEW s, NEW t, s = inbox'[c], t = outbox'[d]
        PROVE  OnItsWay(c, d, s, t)'
    <3>1. HasBeen(c) /\ HasBeen(d) /\ up[c]
      BY <1>1, <1>7, <2>1, Ages DEF Peers
    <3>2. Peers(c, d) /\ OnItsWay(c, d, inbox[c], outbox[d])
      BY <3>1, <2>1, OldPairs
    <3>3. inbox[c] \in Seq(Messages)
      BY <1>2 DEF WireShape
    <3>4. s = inbox[c] \/ s = Append(inbox[c], m)
      BY <1>2, <1>9, <1>10, <2>1 DEF WireShape
    <3>5. CASE d # p
      <4>1. ASSUME NEW q, q = inbox[c] PROVE OnItsWay(c, d, q, t)'
        BY <1>1, <1>8, <2>1, <3>1, <3>5, <4>1, OldPairs
      <4>2. ASSUME NEW q, q = inbox[c] PROVE OnItsWay(c, d, Append(q, m), t)'
        BY <3>3, <4>1, <4>2, WayGrows
      <4> QED BY <3>4, <4>1, <4>2
    <3>6. CASE d = p
      <4>1. OthersOf(p) = {c}
        BY <3>2, <3>6, OnlyPeer
      <4>2. s = Append(inbox[c], m)
        <5>1. inbox' = [inbox EXCEPT ![c] = Append(inbox[c], Head(outbox[p]))]
          BY <1>1, <3>1, <4>1
        <5> QED BY <1>2, <1>5, <2>1, <5>1 DEF WireShape
      <4>3. t = Tail(outbox[p])
        BY <1>8, <2>1, <3>6
      <4>4. /\ Describes(inbox[c], Len(inbox[c]), p) => Describes(s, Len(s), p)
            /\ IsDescription(m) => Describes(s, Len(s), p)
        BY <1>6, <3>3, <4>2, DescribesMore
      <4>5. Introduced(c, p, inbox[c]) => Introduced(c, p, s)
        BY <4>4 DEF Introduced
      <4>6. \A n \in 0 .. Len(outbox[p]) : Describes(outbox[p], n, p) =>
              Introduced(c, p, s) \/ (n > 0 /\ Describes(t, n - 1, p))
        <5> SUFFICES ASSUME NEW n \in 0 .. Len(outbox[p]), Describes(outbox[p], n, p)
                     PROVE  Introduced(c, p, s) \/ (n > 0 /\ Describes(t, n - 1, p))
          OBVIOUS
        <5>1. \/ Head(outbox[p]).from = p /\ IsDescription(Head(outbox[p])) /\ n > 0
              \/ n > 0 /\ Describes(Tail(outbox[p]), n - 1, p)
          BY <1>1, <1>4, DescribesLess
        <5> QED BY <1>5, <4>3, <4>4, <5>1 DEF Introduced
      <4>7. described[p] => Introduced(c, p, s) \/ Describes(t, Len(t), p)
        <5>1. described[p] => Introduced(c, p, inbox[c]) \/ Describes(outbox[p], Len(outbox[p]), p)
          BY <3>2, <3>6 DEF OnItsWay
        <5>2. Len(outbox[p]) \in 0 .. Len(outbox[p]) /\ Len(t) = Len(outbox[p]) - 1
          BY <1>4, <4>3
        <5> QED BY <4>5, <4>6, <5>1, <5>2
      <4>8. ASSUME NEW i \in 1 .. Len(t), t[i].kind = "candidate"
            PROVE  Introduced(c, p, s) \/ Describes(t, i - 1, p)
        <5>1. i + 1 \in 1 .. Len(outbox[p]) /\ t[i] = outbox[p][i + 1]
          BY <1>4, <4>3
        <5>2. Introduced(c, p, inbox[c]) \/ Describes(outbox[p], i + 1 - 1, p)
          BY <3>2, <3>6, <4>8, <5>1 DEF OnItsWay
        <5>3. i + 1 - 1 = i /\ i \in 0 .. Len(outbox[p])
          BY <1>4, <4>3
        <5> QED BY <4>5, <4>6, <5>2, <5>3
      <4>9. Introduced(c, p, s)' <=> Introduced(c, p, s)
        BY <1>1 DEF Introduced
      <4> QED BY <1>1, <3>6, <4>7, <4>8, <4>9 DEF OnItsWay
    <3> QED BY <3>5, <3>6
  <2> QED BY <2>1, IntroductionsNext
<1> QED BY <1>12, <1>13, <1>14, <1>15 DEF MInv

-----------------------------------------------------------------------------
(* The theorem about messages.                                               *)

\* Nothing is under way at first.
LEMMA InitMessages == Init => MInv
<1> SUFFICES ASSUME Init PROVE MInv
  OBVIOUS
<1>1. /\ inbox = [c \in Conns |-> <<>>] /\ outbox = [c \in Conns |-> <<>>]
      /\ jobs = [c \in Conns |-> <<>>] /\ described = [c \in Conns |-> FALSE]
      /\ up = [c \in Conns |-> TRUE] /\ heard = [c \in Conns |-> {}]
      /\ roomOf = [c \in Conns |-> NoConn]
  BY DEF Init
<1>2. WireShape
  BY <1>1 DEF WireShape
<1>3. Quiet
  BY <1>1 DEF Quiet
<1>4. Underway
  BY <1>1 DEF Underway, InboxFits, OutboxFits, JobsFit
<1>5. Introductions
  BY <1>1 DEF Introductions, Peers, IsMember
<1> QED BY <1>2, <1>3, <1>4, <1>5 DEF MInv

\* Every step keeps the messages in order.
LEMMA StepMessages == IInv /\ IInv' /\ MInv /\ [Next]_vars => MInv'
<1> SUFFICES ASSUME IInv, IInv', MInv, [Next]_vars PROVE MInv'
  OBVIOUS
<1>1. ASSUME UNCHANGED <<inbox, outbox, jobs, up, described, heard>>,
             ~\E c \in Conns : AddMember(c)
      PROVE  MInv'
  BY <1>1, Ages, RoomStepKeepsMessages
<1>2. CASE \E c \in Conns : AddMember(c)
  BY <1>2, JoinKeepsMessages
<1>3. ASSUME NEW c \in Conns,
             BadArguments(c) \/ GetOrNewRoom(c) \/ CheckSize(c) \/ AddMemberFails(c)
      PROVE  UNCHANGED <<inbox, outbox, jobs, up, described, heard>>
  BY <1>3 DEF BadArguments, GetOrNewRoom, CheckSize, AddMemberFails, wireVars, pageVars
<1>4. CASE Age \/ Sweep
  BY <1>1, <1>2, <1>4 DEF Age, Sweep, wireVars, pageVars
<1>5. CASE UNCHANGED vars
  BY <1>1, <1>2, <1>5 DEF vars, wireVars, pageVars
<1>6. ASSUME NEW c \in Conns, Greet(c) \/ Relay(c) \/ OnClose(c) PROVE MInv'
  BY <1>6, GreetKeepsMessages, RelayKeepsMessages, CloseKeepsMessages
<1>7. ASSUME NEW c \in Conns,
             PageReads(c) \/ PageDescribes(c) \/ PageSendsCandidate(c) \/ Disconnect(c)
      PROVE  MInv'
  BY <1>7, PageReadsKeepsMessages, PageDescribesKeepsMessages, CandidateKeepsMessages,
     DisconnectKeepsMessages
<1> QED BY <1>1, <1>2, <1>3, <1>4, <1>5, <1>6, <1>7 DEF Next

\* An answer is handed to the page that made the offer, and a candidate comes
\* after its page's description, unless one of the two pages is a member no
\* more; for any number of connections (p2p/websocket.go 74-89).
THEOREM MessagesFitPages == Spec => []MessagesFit
<1>1. Spec => [](IInv /\ MInv)
  <2>1. Init => IInv /\ MInv
    BY InitInvariant, InitMessages
  <2>2. IInv /\ MInv /\ [Next]_vars => (IInv /\ MInv)'
    BY StepInvariant, StepMessages
  <2> QED BY <2>1, <2>2, PTL DEF Spec
<1>2. IInv /\ MInv => MessagesFit
  <2> SUFFICES ASSUME MInv PROVE MessagesFit
    OBVIOUS
  <2>1. AnswerMeetsItsOffer
    BY DEF MInv, Underway, InboxFits, Readable, AnswerMeetsItsOffer
  <2>2. CandidateAfterDescription
    BY DEF MInv, Underway, InboxFits, Known, Describes, CandidateAfterDescription
  <2> QED BY <2>1, <2>2 DEF MessagesFit
<1> QED BY <1>1, <1>2, PTL
=============================================================================
