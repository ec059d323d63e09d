------------------------------- MODULE P2pRoom -------------------------------
(* The peer-to-peer signalling of one room id: websocket connections that    *)
(* join a room of two, a server that relays each message to "the other       *)
(* member" it finds at that moment, the janitor that sweeps empty rooms, and *)
(* the page that answers offers.                                             *)
(*                                                                           *)
(* p2p/room.go 75-179, p2p/websocket.go 53-120 and, for the clients,         *)
(* resources/p2p-data-channel.html 33-121.                                   *)
EXTENDS Naturals, Sequences, FiniteSets

CONSTANTS
  Conns,         \* websocket connections that are made to this room id
  Users,         \* values of the parameter "user"
  NoConn,        \* no connection; also: no room
  NoUser,        \* the parameter "user" is missing
  Logins,        \* the parameters that connections may come with
  MaxCandidates  \* bound: ICE candidates that pages find

ASSUME P2pAssumption ==
  /\ NoConn \notin Conns /\ NoUser \notin Users
  /\ Logins \subseteq [Conns -> Users \cup {NoUser}]
  /\ MaxCandidates \in Nat

\* A room is known by the connection that made it.
Rooms == Conns

VARIABLES
  user,        \* the parameter "user" of a connection
  pc,          \* how far the service of a connection is
  up,          \* the websocket of a connection is open
  roomOf,      \* room of its Member, NoConn before it has one
  shouldOffer, \* shouldOffer of its Member
  current,     \* roomMap[id]
  aged,        \* that room was made more than 30 seconds ago
  members,     \* room -> user -> the connection of that member
  inbox,       \* what the server has written to a websocket and its page has not read
  outbox,      \* what a page has sent and the server has not read
  jobs,        \* createOffer and createAnswer promises that have not resolved
  described,   \* a page that is there has set its local description
  candidates,  \* how many of them have been sent
  heard,       \* those whose offer or answer a page has read, or that made one
               \* before it joined (history)
  answered,    \* a page has read an answer to its offer (history)
  left,        \* rooms that a member has left (history)
  raced        \* rooms swept while a connection was about to join (history)

roomVars == <<current, aged, members, left, raced>>
pageVars == <<jobs, described, candidates, heard, answered>>
connVars == <<pc, roomOf, shouldOffer>>
wireVars == <<inbox, outbox>>
vars == <<user, up, connVars, roomVars, wireVars, pageVars>>

Nobody == [u \in Users |-> NoConn]
MembersOf(r) == {members[r][u] : u \in Users} \ {NoConn}
Size(m) == Cardinality({u \in Users : m[u] # NoConn})

Init ==
  /\ user \in Logins
  /\ pc = [c \in Conns |-> "new"] /\ up = [c \in Conns |-> TRUE]
  /\ roomOf = [c \in Conns |-> NoConn] /\ shouldOffer = [c \in Conns |-> FALSE]
  /\ current = NoConn /\ aged = FALSE /\ members = [r \in Rooms |-> Nobody]
  /\ inbox = [c \in Conns |-> <<>>] /\ outbox = [c \in Conns |-> <<>>]
  /\ jobs = [c \in Conns |-> <<>>] /\ described = [c \in Conns |-> FALSE]
  /\ candidates = 0
  /\ heard = [c \in Conns |-> {}] /\ answered = [c \in Conns |-> FALSE]
  /\ left = {} /\ raced = {}

Go(c, from, to) == pc[c] = from /\ pc' = [pc EXCEPT ![c] = to]

-----------------------------------------------------------------------------
(* OnOpen: authenticateAndInit, then the greeting.                           *)

BadArguments(c) ==
  /\ user[c] = NoUser /\ Go(c, "new", "refused")
  /\ UNCHANGED <<user, up, roomOf, shouldOffer, roomVars, wireVars, pageVars>>

\* userId != ""
Named(c) == user[c] # NoUser

\* getOrNewRoom, under the lock of the map.
GetOrNewRoom(c) ==
  /\ Named(c) /\ Go(c, "new", "got")
  /\ current' = IF current = NoConn THEN c ELSE current
  /\ aged' = (aged /\ current # NoConn)
  /\ roomOf' = [roomOf EXCEPT ![c] = current']
  /\ UNCHANGED <<user, up, shouldOffer, members, left, raced, wireVars, pageVars>>

Full(r) == Size(members[r]) >= 2

\* MemberSize, under the lock of the room that is given up again.
CheckSize(c) ==
  /\ pc[c] = "got" /\ Go(c, "got", IF Full(roomOf[c]) THEN "refused" ELSE "checked")
  /\ UNCHANGED <<user, up, roomOf, shouldOffer, roomVars, wireVars, pageVars>>

\* Mutant of Join: shouldOffer is computed before the member is entered.
JoinComputedFirst(c, r) ==
  /\ members' = [members EXCEPT ![r][user[c]] = c]
  /\ shouldOffer' = [shouldOffer EXCEPT ![c] = Size(members[r]) = 2]
\* Mutant of Join: who joins a room that is not new is asked to offer.
JoinOffersAlways(c, r) ==
  /\ members' = [members EXCEPT ![r][user[c]] = c]
  /\ shouldOffer' = [shouldOffer EXCEPT ![c] = (r # c)]
\* The map is keyed by user: a second connection of a user takes its place.
Join(c, r) ==
  /\ members' = [members EXCEPT ![r][user[c]] = c]
  /\ shouldOffer' = [shouldOffer EXCEPT ![c] = Size([members[r] EXCEPT ![user[c]] = c]) = 2]

AddMember(c) ==
  /\ Go(c, "checked", "joined") /\ ~Full(roomOf[c])
  /\ Join(c, roomOf[c])
  /\ heard' = [heard EXCEPT ![c] = {d \in MembersOf(roomOf[c]) : described[d]}]
  /\ UNCHANGED <<user, up, roomOf, current, aged, left, raced, wireVars, jobs, described, candidates, answered>>

AddMemberFails(c) ==
  /\ Go(c, "checked", "refused") /\ Full(roomOf[c])
  /\ UNCHANGED <<user, up, roomOf, shouldOffer, roomVars, wireVars, pageVars>>

\* session.WriteTextMessage: lost when the websocket is down.
Write(c, msg) ==
  inbox' = IF up[c] THEN [inbox EXCEPT ![c] = Append(@, msg)] ELSE inbox

\* AskToSendOffer or NotifyToRecvAnswer; messages of the other member may
\* have been written to the session before.
Greet(c) ==
  /\ Go(c, "joined", "open")
  /\ Write(c, [kind |-> IF shouldOffer[c] THEN "sendOffer" ELSE "recvAnswer", from |-> c, re |-> c])
  /\ UNCHANGED <<user, up, roomOf, shouldOffer, roomVars, outbox, pageVars>>

-----------------------------------------------------------------------------
(* OnTextMessage and OnClose.                                                *)

\* Mutant of OthersOf: the sender is not left out.
OthersOfAll(c) == MembersOf(roomOf[c])
\* GetOtherMember: any member with another user id, of the room as it is now.
\* The sender itself need not be a member any more.
OthersOf(c) == {members[roomOf[c]][u] : u \in Users \ {user[c]}} \ {NoConn}

IsDescription(msg) == msg.kind \in {"offer", "answer"}

Relay(c) ==
  /\ pc[c] = "open" /\ outbox[c] # <<>>
  /\ LET msg == Head(outbox[c]) IN
     /\ \/ OthersOf(c) = {} /\ inbox' = inbox
        \/ \E d \in OthersOf(c) : Write(d, msg)
  /\ outbox' = [outbox EXCEPT ![c] = Tail(@)]
  /\ UNCHANGED <<user, up, connVars, roomVars, pageVars>>

\* Mutant of Dismissed: also the member of a connection that was refused.
DismissedRefused(c) == TRUE
\* s.member is set only when authenticateAndInit succeeded.
Dismissed(c) == pc[c] = "open"

\* OnClose: DelMember removes the entry of the user, whoever it belongs to.
\* What the page sent before it left may have been read or not.
OnClose(c) ==
  /\ \/ pc[c] = "open" /\ ~up[c]
     \/ pc[c] = "refused"
  /\ pc' = [pc EXCEPT ![c] = IF @ = "open" THEN "closed" ELSE "gone"]
  /\ up' = [up EXCEPT ![c] = FALSE]
  /\ IF Dismissed(c) /\ roomOf[c] # NoConn
       THEN /\ members' = [members EXCEPT ![roomOf[c]][user[c]] = NoConn]
            /\ left' = left \cup {roomOf[c]}
       ELSE UNCHANGED <<members, left>>
  /\ outbox' = [outbox EXCEPT ![c] = <<>>] /\ described' = [described EXCEPT ![c] = FALSE]
  /\ UNCHANGED <<user, roomOf, shouldOffer, current, aged, raced, inbox, jobs, candidates, heard, answered>>

-----------------------------------------------------------------------------
(* The janitor.                                                              *)

\* now.Sub(room.createTime) > 30*time.Second from now on.
Age ==
  /\ current # NoConn /\ ~aged /\ aged' = TRUE
  /\ UNCHANGED <<user, up, connVars, current, members, left, raced, wireVars, pageVars>>

\* Mutant of Sweepable: only the age of the room counts.
SweepableByAge == aged
Sweepable == aged /\ MembersOf(current) = {}

\* checkRoomMemberIsZero, under the lock of the map.
Sweep ==
  /\ current # NoConn /\ Sweepable
  /\ raced' = IF \E c \in Conns : roomOf[c] = current /\ pc[c] \in {"got", "checked"}
                THEN raced \cup {current} ELSE raced
  /\ current' = NoConn /\ aged' = FALSE
  /\ UNCHANGED <<user, up, connVars, members, left, wireVars, pageVars>>

-----------------------------------------------------------------------------
(* The page.                                                                 *)

Send(c, kind, re) ==
  outbox' = [outbox EXCEPT ![c] = Append(@, [kind |-> kind, from |-> c, re |-> re])]

\* onmessage: an offer or the request for one starts a promise.
PageReads(c) ==
  /\ up[c] /\ inbox[c] # <<>>
  /\ LET msg == Head(inbox[c]) IN
     /\ jobs' = CASE msg.kind = "sendOffer" -> [jobs EXCEPT ![c] = Append(@, [kind |-> "offer", re |-> c])]
                  [] msg.kind = "offer" -> [jobs EXCEPT ![c] = Append(@, [kind |-> "answer", re |-> msg.from])]
                  [] OTHER -> jobs
     /\ heard' = IF IsDescription(msg) THEN [heard EXCEPT ![c] = @ \cup {msg.from}] ELSE heard
     /\ answered' = [answered EXCEPT ![c] = @ \/ (msg.kind = "answer" /\ msg.re = c)]
  /\ inbox' = [inbox EXCEPT ![c] = Tail(@)]
  /\ UNCHANGED <<user, up, connVars, roomVars, outbox, described, candidates>>

\* The promise resolves: setLocalDescription, then the message is sent.
PageDescribes(c) ==
  /\ up[c] /\ jobs[c] # <<>>
  /\ Send(c, Head(jobs[c]).kind, Head(jobs[c]).re)
  /\ jobs' = [jobs EXCEPT ![c] = Tail(@)]
  /\ described' = [described EXCEPT ![c] = TRUE]
  /\ UNCHANGED <<user, up, connVars, roomVars, inbox, candidates, heard, answered>>

MayFindCandidate(c) == described[c]

\* onicecandidate
PageSendsCandidate(c) ==
  /\ up[c] /\ MayFindCandidate(c) /\ candidates < MaxCandidates
  /\ Send(c, "candidate", c)
  /\ candidates' = candidates + 1
  /\ UNCHANGED <<user, up, connVars, roomVars, inbox, jobs, described, heard, answered>>

\* The page is left, the network fails, or oniceconnectionstatechange closes
\* the socket of a peer that is connected. What it has not read is gone. A
\* page that leaves before it has joined is noticed only then.
Disconnect(c) ==
  /\ up[c] /\ pc[c] \in {"joined", "open"} /\ up' = [up EXCEPT ![c] = FALSE]
  /\ inbox' = [inbox EXCEPT ![c] = <<>>] /\ jobs' = [jobs EXCEPT ![c] = <<>>]
  /\ heard' = [heard EXCEPT ![c] = {}] /\ answered' = [answered EXCEPT ![c] = FALSE]
  /\ UNCHANGED <<user, connVars, roomVars, outbox, described, candidates>>

-----------------------------------------------------------------------------
\* What a service's goroutine and a page's event loop do by themselves.
Serve(c) ==
  \/ CheckSize(c) \/ AddMember(c) \/ AddMemberFails(c) \/ Greet(c) \/ Relay(c) \/ OnClose(c)
  \/ PageReads(c) \/ PageDescribes(c)

Next ==
  \/ \E c \in Conns :
       \/ BadArguments(c) \/ GetOrNewRoom(c)
       \/ CheckSize(c) \/ AddMember(c) \/ AddMemberFails(c) \/ Greet(c) \/ Relay(c) \/ OnClose(c)
       \/ PageReads(c) \/ PageDescribes(c) \/ PageSendsCandidate(c) \/ Disconnect(c)
  \/ Age \/ Sweep

Spec == Init /\ [][Next]_vars

\* As long as some of them can go on, one does: less than a fair scheduler
\* promises, and enough, since each connection has finitely many steps.
FairSpec == Spec /\ WF_vars(\E c \in Conns : Serve(c))

-----------------------------------------------------------------------------
(* Properties.                                                               *)

IsMember(c) == roomOf[c] # NoConn /\ c \in MembersOf(roomOf[c])
Peers(c, d) == c # d /\ roomOf[c] = roomOf[d] /\ IsMember(c) /\ IsMember(d)

\* A room never has more than two members, although the size is checked in
\* one critical section and the member entered in another; and of two members
\* one has been told to make the offer, so that they do not wait for each
\* other. Both have been told only if a member had left in between: their
\* offers then cross (p2p/room.go 157-169).
OneOffers ==
  /\ \A r \in Rooms : Size(members[r]) <= 2
  /\ \A c, d \in Conns : Peers(c, d) =>
       /\ shouldOffer[c] \/ shouldOffer[d]
       /\ shouldOffer[c] /\ shouldOffer[d] => roomOf[c] \in left

\* A connection that has joined and not closed is the member of its room, so
\* that its peer's messages reach it; the exception is a user with a second
\* connection in that room, which takes the entry, or removes it when it
\* closes (p2p/room.go 172-179).
JoinedIsMember ==
  \A c \in Conns : pc[c] \in {"joined", "open"} =>
    \/ IsMember(c)
    \/ \E d \in Conns \ {c} :
         user[d] = user[c] /\ roomOf[d] = roomOf[c] /\ pc[d] \in {"joined", "open", "closed"}

\* A room that has members can be found by the next one to join, unless the
\* janitor swept it between getOrNewRoom and AddMember of a connection: that
\* one is alone in a room that is in no map (p2p/room.go 100-109).
MembersAreFindable ==
  \A r \in Rooms : MembersOf(r) # {} => r = current \/ r \in raced

\* An answer is delivered to the page that made the offer; to another one only
\* if the page that made it, or the page that answers, is a member no more. The
\* latter takes two connections of a user: the one that closes removes the
\* entry of the other, which goes on relaying (p2p/websocket.go 84-88 and
\* p2p/room.go 172-179).
AnswerMeetsItsOffer ==
  \A c \in Conns : \A i \in 1 .. Len(inbox[c]) :
    LET msg == inbox[c][i] IN
    msg.kind = "answer" /\ msg.re # c => ~IsMember(msg.re) \/ ~IsMember(msg.from)

\* A page gets a candidate only after the offer or answer of the same peer,
\* without which addIceCandidate fails; the exceptions are a peer that
\* described itself before this page joined, and one that is a member no more
\* (p2p/websocket.go 79-83).
CandidateAfterDescription ==
  \A c \in Conns : \A i \in 1 .. Len(inbox[c]) :
    LET d == inbox[c][i].from IN
    inbox[c][i].kind = "candidate" =>
      \/ d \in heard[c] \/ ~IsMember(d)
      \/ \E j \in 1 .. i - 1 : inbox[c][j].from = d /\ IsDescription(inbox[c][j])

\* What a page is handed fits its peer connection, although the addressee is
\* chosen when a message is relayed and not when it was meant.
MessagesFit == AnswerMeetsItsOffer /\ CandidateAfterDescription

\* Two peers that stay get to negotiate: it never stays that neither of them
\* has read an answer to its offer, whatever happened to the room before they
\* met (p2p/websocket.go 60-64 and 74-89, p2p/room.go 167).
PeersNegotiate ==
  []<>(\A c, d \in Conns :
         Peers(c, d) /\ up[c] /\ up[d] => answered[c] \/ answered[d])
=============================================================================
