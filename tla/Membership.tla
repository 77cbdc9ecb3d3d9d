----------------------------- MODULE Membership -----------------------------
(***************************************************************************)
(* Who sits in a room, who hosts it and who may come back: the state that  *)
(* rooms.go, lifecycle.go and hosts.go keep under Server.mu, Room.syncMu   *)
(* and Room.mu, and the requests, timers and connection losses that change *)
(* it.                                                                     *)
(*                                                                         *)
(* Granularity.  A critical section of the code is one action.  A handler  *)
(* that gives its locks up half way is several: handleCreateRoom (take the *)
(* room, publish it), handleReconnect (claim, replace a live connection,   *)
(* claim again, commit), removeClient (unregister, disconnect) and         *)
(* cleanupExpiredSessionsOnce (take the tokens, expire the members one by  *)
(* one).  Each connection runs its own requests one after the other, on    *)
(* its read pump (client.pc); session expiry and host failover share one   *)
(* goroutine.                                                              *)
(*                                                                         *)
(* Abstractions.  Payload checks, user names, wording and logging are left *)
(* out, and a request that is refused changes nothing and has no action.   *)
(* Of the messages only join requests are followed, as the set HostSeen.   *)
(* Timestamps are ages in ticks that stop growing once they are past the   *)
(* one limit they are compared with.  A generated name (user ID, token,    *)
(* room code) is one that nothing refers to any more.  The round trip that *)
(* pickDeputy ranks by is arbitrary, so any eligible client may be chosen. *)
(***************************************************************************)
EXTENDS Naturals, FiniteSets

CONSTANTS
    Client,     \* connection objects (*Client); one is reused once it is gone
    UserID, Token, Code,
    None,       \* Go's nil and ""
    CanHost,    \* the connections whose User-Agent tier lets them host
    MaxRooms, MaxClientsPerRoom, MaxPendingJoins,
    ReconnectGracePeriod, HostFailoverTimeout,
    EmptyRoomCleanupTimeout, MinRoomRetentionAfterRestart

ASSUME NamesAssumption ==
    /\ CanHost \subseteq Client
    /\ None \notin Client \cup UserID \cup Token \cup Code
    /\ IsFiniteSet(UserID)

ASSUME LimitsAssumption ==
    /\ MaxRooms \in Nat
    /\ MaxClientsPerRoom \in Nat \ {0}
    /\ MaxPendingJoins \in Nat
    /\ ReconnectGracePeriod \in Nat
    /\ HostFailoverTimeout \in Nat
    /\ EmptyRoomCleanupTimeout \in Nat
    /\ MinRoomRetentionAfterRestart \in Nat
    /\ MinRoomRetentionAfterRestart < EmptyRoomCleanupTimeout

VARIABLES
    rooms,      \* Server.rooms: the codes in use
    room,       \* the Room behind each code (NoRoom when the code is free)
    client,     \* the Client structs, with where their read pump stands
    sessions,   \* Server.sessions: token -> Session, or None
    expiring,   \* expired sessions whose token is deleted and seat not yet
    uptime      \* ticks since Server.startTime

vars == <<rooms, room, client, sessions, expiring, uptime>>

-----------------------------------------------------------------------------
(* Records *)

Age == Nat

Session == [user : UserID, room : Code, isHost : BOOLEAN, age : Age,
            claimedBy : Client \cup {None}]

UserInfo == [id : UserID, isHost : BOOLEAN, isConnected : BOOLEAN]

Room == [Clients : [UserID -> Client \cup {None}],
         PendingJoins : [UserID -> Client \cup {None}],
         DisconnectedUsers : SUBSET UserID,
         Host : Client \cup {None},
         HostID : UserID \cup {None},
         HostDisconnectedAt : Age \cup {None},
         OwnerID : UserID \cup {None},
         EmptySince : Age \cup {None},
         Users : SUBSET UserInfo,
         HostSeen : SUBSET UserID]   \* join requests sent to the present Host

\* What a request that spans several steps has in hand.  A reconnect: the token
\* presented and, once the session is claimed, whose seat in which room it is.
\* The creation of a room: the room, its host and the host's token.
Attempt == [token : Token, user : UserID \cup {None}, room : Code \cup {None}]

\* pc: "gone"      no connection uses the object
\*     "idle"      reading; the next request may be handled
\*     "creating"  handleCreateRoom has built a room it has yet to publish
\*     "retry"     handleReconnect has replaced a live connection
\*     "claimed"   handleReconnect holds a claimed session
\*     "stopping"  the server closed the socket; the next read fails
\*     "removing"  removeClient has unregistered the connection
ClientState == [pc : {"gone", "idle", "creating", "retry", "claimed", "stopping",
                      "removing"},
                id : UserID \cup {None},
                token : Token \cup {None},
                room : Code \cup {None},
                pendingRoom : Code \cup {None},
                closed : BOOLEAN,
                attempt : Attempt \cup {None}]

\* nil is not a value.
ASSUME NilAssumption ==
    None \notin Nat /\ None \notin Session /\ None \notin Attempt

NoMember == [u \in UserID |-> None]

NoRoom == [Clients |-> NoMember, PendingJoins |-> NoMember,
           DisconnectedUsers |-> {}, Host |-> None, HostID |-> None,
           HostDisconnectedAt |-> None, OwnerID |-> None, EmptySince |-> None,
           Users |-> {}, HostSeen |-> {}]

NoClient == [pc |-> "gone", id |-> None, token |-> None, room |-> None,
             pendingRoom |-> None, closed |-> TRUE, attempt |-> None]

Init ==
    /\ rooms = {}
    /\ room = [r \in Code |-> NoRoom]
    /\ client = [c \in Client |-> NoClient]
    /\ sessions = [t \in Token |-> None]
    /\ expiring = {}
    /\ uptime = 0

-----------------------------------------------------------------------------
(* Helpers *)

Connected(rm) == {u \in UserID : rm.Clients[u] # None}

Applicants(rm) == {u \in UserID : rm.PendingJoins[u] # None}

Members(rm) == Connected(rm) \cup rm.DisconnectedUsers

Empty(rm) == Connected(rm) = {} /\ rm.DisconnectedUsers = {}

\* Mutant: seats held for disconnected members do not count.
RoomMembersOnline(rm) == Cardinality(Connected(rm))

\* Seats taken: connected members, and those held for disconnected ones.
RoomMembers(rm) ==
    Cardinality(Connected(rm)) + Cardinality(rm.DisconnectedUsers)

WithoutUser(users, u) == {x \in users : x.id # u}

\* Mutant: the roster is not updated.
SetConnectedForgotten(users, u, b) == users

SetConnected(users, u, b) ==
    {IF x.id = u THEN [x EXCEPT !.isConnected = b] ELSE x : x \in users}

\* The fields by name, as clientID, session, currentRoom and isClosed read them.
Pc(c) == client[c].pc
ClientID(c) == client[c].id
SessionToken(c) == client[c].token
CurrentRoom(c) == client[c].room
PendingRoom(c) == client[c].pendingRoom
IsClosed(c) == client[c].closed
InHand(c) == client[c].attempt

Seat(r, u) == room[r].Clients[u]
Request(r, u) == room[r].PendingJoins[u]
Away(r) == room[r].DisconnectedUsers
HostOf(r) == room[r].Host
HostIDOf(r) == room[r].HostID
OwnerIDOf(r) == room[r].OwnerID
HostLost(r) == room[r].HostDisconnectedAt

HasSession(t) == sessions[t] # None
SessionUser(t) == sessions[t].user
SessionRoom(t) == sessions[t].room
SessionHost(t) == sessions[t].isHost
SessionClaim(t) == sessions[t].claimedBy

\* Names come from a random source; here, from those nothing refers to.
FreshUserID(u) ==
    /\ \A c \in Client : ClientID(c) # u
    /\ \A c \in Client : InHand(c) # None => InHand(c).user # u
    /\ \A r \in Code : Seat(r, u) = None /\ Request(r, u) = None
                       /\ u \notin Away(r)
    /\ \A e \in expiring : e.user # u

FreshToken(t) ==
    /\ ~HasSession(t)
    /\ \A c \in Client : SessionToken(c) # t
    /\ \A c \in Client : InHand(c) # None => InHand(c).token # t

FreshCode(r) ==
    /\ r \notin rooms
    /\ \A c \in Client : CurrentRoom(c) # r /\ PendingRoom(c) # r
    /\ \A c \in Client : InHand(c) # None => InHand(c).room # r
    /\ \A e \in expiring : e.room # r

NewUserID == CHOOSE u \in UserID : FreshUserID(u)
NewToken == CHOOSE t \in Token : FreshToken(t)
NewCode == CHOOSE r \in Code : FreshCode(r)

Registered(c) == client[c].pc \notin {"gone", "removing"}

\* The read pump of c may handle a request now.
Idle(c) == client[c].pc = "idle"

\* c is the connected host of the room it is in.
Hosts(c) ==
    /\ client[c].room # None
    /\ room[client[c].room].Host = c
    /\ room[client[c].room].HostDisconnectedAt = None

\* Mutants: the client is not detached.
ClearRoomForgotten(x, r) == x
ClearPendingRoomForgotten(x, r) == x

\* The compare-and-swaps that detach a client from room r and no other.
ClearRoom(x, r) == IF x.room = r THEN [x EXCEPT !.room = None] ELSE x
ClearPendingRoom(x, r) ==
    IF x.pendingRoom = r THEN [x EXCEPT !.pendingRoom = None] ELSE x

\* A join request is answered, withdrawn or lost with its connection.
WithoutRequest(rm, u) ==
    [rm EXCEPT !.PendingJoins[u] = None, !.HostSeen = @ \ {u}]

Admit(rm, c, u) ==
    [rm EXCEPT !.Clients[u] = c,
               !.EmptySince = None,
               !.Users = @ \cup {[id |-> u, isHost |-> FALSE, isConnected |-> TRUE]}]

\* Mutant: the failover clock is not started.
SetAwayNoClock(rm, c, u) ==
    [rm EXCEPT !.Clients[u] = None,
               !.DisconnectedUsers = @ \cup {u},
               !.Users = SetConnected(@, u, FALSE),
               !.Host = IF rm.Host = c THEN None ELSE @,
               !.HostSeen = IF rm.Host = c THEN {} ELSE @,
               !.EmptySince = None]

\* u's connection c is lost and the seat is held.
SetAway(rm, c, u) ==
    [rm EXCEPT !.Clients[u] = None,
               !.DisconnectedUsers = @ \cup {u},
               !.Users = SetConnected(@, u, FALSE),
               !.Host = IF rm.Host = c THEN None ELSE @,
               !.HostDisconnectedAt = IF rm.Host = c THEN 0 ELSE @,
               !.HostSeen = IF rm.Host = c THEN {} ELSE @,
               !.EmptySince = None]

\* u is back, on connection c.
Reseat(rm, c, u) ==
    [rm EXCEPT !.Clients[u] = c,
               !.DisconnectedUsers = @ \ {u},
               !.EmptySince = None,
               !.Users = SetConnected(@, u, TRUE)]

\* u gives up a seat that is taken, and one that is held.
Unseat(rm, u) ==
    [rm EXCEPT !.Clients[u] = None,
               !.OwnerID = IF @ = u THEN None ELSE @,
               !.Users = WithoutUser(@, u)]

\* Mutant: a departed owner is remembered.
ForgetKeepsOwner(rm, u) ==
    [rm EXCEPT !.DisconnectedUsers = @ \ {u},
               !.Users = WithoutUser(@, u)]

Forget(rm, u) ==
    [rm EXCEPT !.DisconnectedUsers = @ \ {u},
               !.OwnerID = IF @ = u THEN None ELSE @,
               !.Users = WithoutUser(@, u)]

\* Mutants: the clock of the previous host goes on; pending requests are not
\* replayed to the new host.
AssignHostKeepsClock(rm, u) ==
    [rm EXCEPT !.Host = IF u = None THEN None ELSE rm.Clients[u],
               !.HostID = u,
               !.Users = {[x EXCEPT !.isHost = (x.id = u)] : x \in @}]
AssignHostNoReplay(rm, u) ==
    [rm EXCEPT !.Host = IF u = None THEN None ELSE rm.Clients[u],
               !.HostID = u,
               !.HostDisconnectedAt = None,
               !.Users = {[x EXCEPT !.isHost = (x.id = u)] : x \in @},
               !.HostSeen = {}]

AssignHost(rm, u) ==
    [rm EXCEPT !.Host = IF u = None THEN None ELSE rm.Clients[u],
               !.HostID = u,
               !.HostDisconnectedAt = None,
               !.Users = {[x EXCEPT !.isHost = (x.id = u)] : x \in @},
               !.HostSeen = IF u = None THEN {}
                            ELSE {a \in Applicants(rm) :
                                    ~client[rm.PendingJoins[a]].closed}]

Deputies(rm) == {u \in Connected(rm) : /\ rm.Clients[u] \in CanHost
                                       /\ ~client[rm.Clients[u]].closed}

PickDeputy(rm) == IF Deputies(rm) = {} THEN {None} ELSE Deputies(rm)

\* What rm may become when the host's seat is vacated for good.
Succession(rm, vacated) ==
    IF vacated THEN {AssignHost(rm, u) : u \in PickDeputy(rm)} ELSE {rm}

HostlessDead(rm) ==
    /\ rm.HostID = None
    /\ Connected(rm) # {}
    /\ rm.DisconnectedUsers = {}

NewSession(u, r, isHost) ==
    [user |-> u, room |-> r, isHost |-> isHost, age |-> 0, claimedBy |-> None]

\* Mutant: a token outlives its use.
DropTokenForgotten(ss, t) == ss

DropToken(ss, t) == [x \in Token |-> IF x = t THEN None ELSE ss[x]]

\* Room r, empty in its final state rm, leaves the server; cl is what the
\* clients have become meanwhile.
DeleteRoom(r, rm, cl) ==
    /\ rooms' = rooms \ {r}
    /\ room' = [room EXCEPT ![r] = NoRoom]
    /\ client' = [c \in Client |->
                    IF \E u \in UserID : rm.PendingJoins[u] = c
                      THEN ClearPendingRoom(cl[c], r) ELSE cl[c]]

\* Mutant: closing one room deletes the sessions of all.
CloseRoomAllSessions(r, rm, cl, ss) ==
    /\ DeleteRoom(r, rm, [c \in Client |-> ClearRoom(cl[c], r)])
    /\ sessions' = [t \in Token |-> None]

CloseRoom(r, rm, cl, ss) ==
    /\ rooms' = rooms \ {r}
    /\ room' = [room EXCEPT ![r] = NoRoom]
    /\ sessions' = [t \in Token |->
                      IF ss[t] # None /\ ss[t].room = r THEN None ELSE ss[t]]
    /\ client' = [c \in Client |->
                    LET x == IF \E u \in UserID : rm.Clients[u] = c
                               THEN ClearRoom(cl[c], r) ELSE cl[c]
                    IN  IF \E u \in UserID : rm.PendingJoins[u] = c
                          THEN ClearPendingRoom(x, r) ELSE x]

\* Room r becomes rm, unless that leaves it with members and no way to a host.
Settle(r, rm, cl, ss) ==
    IF HostlessDead(rm)
      THEN CloseRoom(r, rm, cl, ss)
      ELSE /\ room' = [room EXCEPT ![r] = rm]
           /\ client' = cl
           /\ sessions' = ss
           /\ UNCHANGED rooms

\* handleClientDisconnect of c, which becomes x: its seat is kept for a
\* reconnect with its token.
Disconnect(c, x, cl) ==
    LET r == client[c].room
        u == client[c].id
        t == IF client[c].token = None THEN NewToken ELSE client[c].token
        rm == room[r]
    IN  /\ client' = [cl EXCEPT ![c] = [x EXCEPT !.room = None]]
        /\ IF rm.Clients[u] # c
             THEN UNCHANGED <<room, sessions>>
             ELSE /\ room' = [room EXCEPT ![r] = SetAway(rm, c, u)]
                  /\ sessions' = [sessions EXCEPT ![t] = NewSession(u, r, rm.Host = c)]

-----------------------------------------------------------------------------
(* Connections *)

\* Mutant: the connection is not given a user ID.
ConnectUnnamed(c) ==
    /\ client[c].pc = "gone"
    /\ client' = [client EXCEPT ![c] = [NoClient EXCEPT !.pc = "idle", !.closed = FALSE]]
    /\ UNCHANGED <<rooms, room, sessions, expiring, uptime>>

Connect(c) ==
    /\ client[c].pc = "gone"
    /\ \E u \in UserID : FreshUserID(u)
    /\ client' = [client EXCEPT ![c] = [NoClient EXCEPT !.pc = "idle",
                                                        !.id = NewUserID,
                                                        !.closed = FALSE]]
    /\ UNCHANGED <<rooms, room, sessions, expiring, uptime>>

\* The send side is shut (a full queue, a failed write, a drain at shutdown)
\* while requests already received are still handled.
CloseSend(c) ==
    /\ Registered(c)
    /\ ~client[c].closed
    /\ client' = [client EXCEPT ![c].closed = TRUE]
    /\ UNCHANGED <<rooms, room, sessions, expiring, uptime>>

\* removeClient, first half: the read pump ends and leaves Server.clients.
RemoveClient(c) ==
    /\ client[c].pc \in {"idle", "stopping"}
    /\ client' = [client EXCEPT ![c].pc = "removing", ![c].closed = TRUE]
    /\ UNCHANGED <<rooms, room, sessions, expiring, uptime>>

\* removeClient, second half.
RemoveClientFinish(c) ==
    /\ client[c].pc = "removing"
    /\ IF client[c].room # None
         THEN Disconnect(c, NoClient, client)
         ELSE /\ client' = [client EXCEPT ![c] = NoClient]
              /\ room' = [r \in Code |->
                   IF r = client[c].pendingRoom
                        /\ room[r].PendingJoins[client[c].id] = c
                     THEN WithoutRequest(room[r], client[c].id)
                     ELSE room[r]]
              /\ UNCHANGED sessions
    /\ UNCHANGED <<rooms, expiring, uptime>>

-----------------------------------------------------------------------------
(* Requests *)

\* handleCreateRoom, first half: c takes the new room (trySetRoom), which the
\* server does not know yet.
HandleCreateRoom(c) ==
    /\ Idle(c)
    /\ c \in CanHost
    /\ client[c].room = None /\ client[c].pendingRoom = None
    /\ Cardinality(rooms) < MaxRooms
    /\ \E r \in Code : FreshCode(r)
    /\ \E t \in Token : FreshToken(t)
    /\ LET u == client[c].id
       IN  /\ room' = [room EXCEPT ![NewCode] =
                [NoRoom EXCEPT !.Clients[u] = c, !.Host = c, !.HostID = u,
                               !.Users = {[id |-> u, isHost |-> TRUE,
                                           isConnected |-> TRUE]}]]
           /\ client' = [client EXCEPT ![c].pc = "creating",
                                       ![c].room = NewCode,
                                       ![c].attempt = [token |-> NewToken, user |-> u,
                                                       room |-> NewCode]]
    /\ UNCHANGED <<rooms, sessions, expiring, uptime>>

\* The second half: the token is set and the room published, unless others have
\* filled the server meanwhile.
CreateRoomCommit(c) ==
    LET a == client[c].attempt
        fits == Cardinality(rooms) < MaxRooms
        done == [client[c] EXCEPT !.pc = "idle", !.attempt = None, !.token = a.token]
    IN  /\ client[c].pc = "creating"
        /\ rooms' = IF fits THEN rooms \cup {a.room} ELSE rooms
        /\ room' = IF fits THEN room ELSE [room EXCEPT ![a.room] = NoRoom]
        /\ client' = [client EXCEPT ![c] =
                        IF fits THEN done ELSE ClearRoom(done, a.room)]
        /\ UNCHANGED <<sessions, expiring, uptime>>

HandleJoinRoom(c, r) ==
    LET u == client[c].id
        rm == room[r]
    IN  /\ Idle(c)
        /\ client[c].room = None /\ client[c].pendingRoom = None
        /\ r \in rooms
        /\ rm.Clients[u] = None /\ rm.PendingJoins[u] = None
        /\ RoomMembers(rm) < MaxClientsPerRoom
        /\ Cardinality(Applicants(rm)) < MaxPendingJoins
        /\ rm.HostID # None
        /\ client' = [client EXCEPT ![c].pendingRoom = r]
        /\ room' = [room EXCEPT ![r] =
             [rm EXCEPT !.PendingJoins[u] = c,
                        !.HostSeen = IF rm.Host # None /\ rm.HostDisconnectedAt = None
                                       THEN @ \cup {u} ELSE @]]
        /\ UNCHANGED <<rooms, sessions, expiring, uptime>>

\* A request whose applicant is gone, or already sits in a room, is dropped;
\* in a full room it stays.
HandleApproveJoin(c, u) ==
    LET r == client[c].room
        rm == room[r]
        j == rm.PendingJoins[u]
        full == RoomMembers(rm) >= MaxClientsPerRoom
        gone == client[j].closed \/ (~full /\ client[j].room # None)
        dropped == WithoutRequest(rm, u)
    IN  /\ Idle(c) /\ Hosts(c)
        /\ j # None
        /\ IF gone
             THEN /\ room' = [room EXCEPT ![r] = dropped]
                  /\ client' = [client EXCEPT ![j] = ClearPendingRoom(@, r)]
             ELSE /\ ~full
                  /\ \E t \in Token : FreshToken(t)
                  /\ client' = [client EXCEPT ![j] =
                       [ClearPendingRoom(@, r) EXCEPT !.room = r, !.token = NewToken]]
                  /\ room' = [room EXCEPT ![r] = Admit(dropped, j, client[j].id)]
        /\ UNCHANGED <<rooms, sessions, expiring, uptime>>

HandleRejectJoin(c, u) ==
    LET r == client[c].room
        j == room[r].PendingJoins[u]
    IN  /\ Idle(c) /\ Hosts(c)
        /\ j # None
        /\ room' = [room EXCEPT ![r] = WithoutRequest(@, u)]
        /\ client' = [client EXCEPT ![j] = ClearPendingRoom(@, r)]
        /\ UNCHANGED <<rooms, sessions, expiring, uptime>>

HandleKickUser(c, u) ==
    LET r == client[c].room
        rm == room[r]
    IN  /\ Idle(c) /\ Hosts(c)
        /\ u # client[c].id
        /\ \/ /\ rm.Clients[u] # None
              /\ client' = [client EXCEPT ![rm.Clients[u]] = ClearRoom(@, r)]
              /\ room' = [room EXCEPT ![r] = Unseat(rm, u)]
              /\ UNCHANGED sessions
           \/ /\ rm.Clients[u] = None
              /\ u \in rm.DisconnectedUsers
              /\ room' = [room EXCEPT ![r] = Forget(rm, u)]
              /\ sessions' = [t \in Token |->
                   IF sessions[t] # None /\ sessions[t].room = r /\ sessions[t].user = u
                     THEN None ELSE sessions[t]]
              /\ UNCHANGED client
        /\ UNCHANGED <<rooms, expiring, uptime>>

HandleTransferHost(c, u) ==
    LET r == client[c].room
        rm == room[r]
    IN  /\ Idle(c) /\ Hosts(c)
        /\ u # client[c].id
        /\ rm.Clients[u] # None
        /\ ~client[rm.Clients[u]].closed
        /\ rm.Clients[u] \in CanHost
        /\ room' = [room EXCEPT ![r] =
                      AssignHost([rm EXCEPT !.OwnerID = None], u)]
        /\ UNCHANGED <<rooms, client, sessions, expiring, uptime>>

\* leaveRoom of a member.
LeaveRoom(c) ==
    LET r == client[c].room
        u == client[c].id
        rm == room[r]
        left == Forget(Unseat(WithoutRequest(rm, u), u), u)
        cl == [client EXCEPT ![c].room = None]
        ss == DropToken(sessions, client[c].token)
    IN  /\ Idle(c)
        /\ r # None
        /\ IF rm.Clients[u] # c
             THEN client' = cl /\ UNCHANGED <<rooms, room, sessions>>
             ELSE IF Empty(left)
               THEN DeleteRoom(r, left, cl) /\ sessions' = ss
               ELSE \E next \in Succession(left, rm.Host = c) : Settle(r, next, cl, ss)
        /\ UNCHANGED <<expiring, uptime>>

\* leaveRoom of an applicant (or of nobody): the request is withdrawn and the
\* connection gets a new user ID, so that a late approval misses it.
CancelJoin(c) ==
    LET r == client[c].pendingRoom
        u == client[c].id
    IN  /\ Idle(c)
        /\ client[c].room = None
        /\ \E v \in UserID : FreshUserID(v)
        /\ client' = [client EXCEPT ![c].pendingRoom = None, ![c].id = NewUserID]
        /\ room' = [x \in Code |->
                      IF x = r /\ room[x].PendingJoins[u] = c
                        THEN WithoutRequest(room[x], u) ELSE room[x]]
        /\ UNCHANGED <<rooms, sessions, expiring, uptime>>

-----------------------------------------------------------------------------
(* handleReconnect *)

\* Mutant: a host's session may be resumed by a client that may not host.
ClaimableByAny(c, t) ==
    /\ sessions[t] # None
    /\ sessions[t].claimedBy = None
    /\ sessions[t].age <= ReconnectGracePeriod

Claimable(c, t) ==
    /\ sessions[t] # None
    /\ sessions[t].claimedBy = None
    /\ sessions[t].age <= ReconnectGracePeriod
    /\ sessions[t].isHost => c \in CanHost

Claim(c, t) ==
    /\ sessions' = [sessions EXCEPT ![t].claimedBy = c]
    /\ client' = [client EXCEPT ![c].pc = "claimed",
                                ![c].attempt = [token |-> t,
                                                user |-> sessions[t].user,
                                                room |-> sessions[t].room]]

ReconnectClaim(c, t) ==
    /\ Idle(c)
    /\ client[c].room = None /\ client[c].pendingRoom = None
    /\ Claimable(c, t)
    /\ Claim(c, t)
    /\ UNCHANGED <<rooms, room, expiring, uptime>>

\* No session to claim, but another connection still sits on the token
\* (replaceLiveSession): it is disconnected and its socket closed.
ReconnectReplace(c, t, old) ==
    /\ Idle(c)
    /\ client[c].room = None /\ client[c].pendingRoom = None
    /\ sessions[t] # None => sessions[t].claimedBy # None
    /\ old # c
    /\ Registered(old) /\ client[old].token = t /\ client[old].room # None
    /\ Disconnect(old, [client[old] EXCEPT !.closed = TRUE,
                                           !.pc = IF @ = "idle" THEN "stopping" ELSE @],
                  [client EXCEPT ![c].pc = "retry",
                                 ![c].attempt = [token |-> t, user |-> None,
                                                 room |-> None]])
    /\ UNCHANGED <<rooms, expiring, uptime>>

\* Mutant: the second claim waits until it succeeds.
ReconnectRetryWaits(c) ==
    /\ client[c].pc = "retry"
    /\ Claimable(c, client[c].attempt.token)
    /\ Claim(c, client[c].attempt.token)
    /\ UNCHANGED <<rooms, room, expiring, uptime>>

\* The second claim, which may fail where the first one would have.
ReconnectRetry(c) ==
    LET t == client[c].attempt.token
    IN  /\ client[c].pc = "retry"
        /\ IF Claimable(c, t)
             THEN Claim(c, t)
             ELSE /\ client' = [client EXCEPT ![c].pc = "idle", ![c].attempt = None]
                  /\ UNCHANGED sessions
        /\ UNCHANGED <<rooms, room, expiring, uptime>>

\* Mutant: what the claim found is not checked again at the commit.
RestorableStale(c) ==
    LET a == client[c].attempt
    IN  /\ a.room \in rooms
        /\ room[a.room].Clients[a.user] = None
        /\ client[c].room = None

\* The claimed session is still the one the token names, and its seat is free
\* for the taking.
Restorable(c) ==
    LET a == client[c].attempt
    IN  /\ a.room \in rooms
        /\ sessions[a.token] # None /\ sessions[a.token].claimedBy = c
        /\ a.user \in room[a.room].DisconnectedUsers
        /\ room[a.room].Clients[a.user] = None
        /\ client[c].room = None

\* The seat goes back to its user; the host's, or that of the owner a deputy
\* stands in for, makes c the host, and so does any seat of a hostless room.
ReconnectRestore(c) ==
    LET a == client[c].attempt
        u == a.user
        rm == room[a.room]
        seated == Reseat(rm, c, u)
        reclaim == rm.HostID = u \/ rm.OwnerID = u
        hostless == rm.Host = None /\ rm.HostID = None
    IN  /\ client[c].pc = "claimed"
        /\ Restorable(c)
        /\ room' = [room EXCEPT ![a.room] =
             IF c \in CanHost /\ (reclaim \/ hostless)
               THEN [AssignHost(seated, u) EXCEPT !.OwnerID = IF @ = u THEN None ELSE @]
               ELSE seated]
        /\ sessions' = DropToken(sessions, a.token)
        /\ client' = [client EXCEPT ![c].pc = "idle", ![c].attempt = None,
                                    ![c].room = a.room, ![c].id = u,
                                    ![c].token = a.token]
        /\ UNCHANGED <<rooms, expiring, uptime>>

\* The claim is given back; a token whose room is gone is deleted.
ReconnectFail(c) ==
    LET a == client[c].attempt
        ss == IF a.room \notin rooms THEN DropToken(sessions, a.token) ELSE sessions
    IN  /\ client[c].pc = "claimed"
        /\ ~Restorable(c)
        /\ client' = [client EXCEPT ![c].pc = "idle", ![c].attempt = None]
        /\ sessions' = [t \in Token |->
             IF ss[t] # None /\ ss[t].claimedBy = c
               THEN [ss[t] EXCEPT !.claimedBy = None] ELSE ss[t]]
        /\ UNCHANGED <<rooms, room, expiring, uptime>>

-----------------------------------------------------------------------------
(* Timers *)

\* Mutant: a host's session is never expired.
TakeExpiredGuests ==
    LET expired == {t \in Token : /\ sessions[t] # None
                                  /\ ~sessions[t].isHost
                                  /\ sessions[t].age > ReconnectGracePeriod}
    IN  /\ expiring = {}
        /\ expired # {}
        /\ expiring' = {[user |-> sessions[t].user, room |-> sessions[t].room,
                         pastRetention |-> uptime > MinRoomRetentionAfterRestart]
                          : t \in expired}
        /\ sessions' = [t \in Token |-> IF t \in expired THEN None ELSE sessions[t]]
        /\ UNCHANGED <<rooms, room, client, uptime>>

\* cleanupExpiredSessionsOnce, first half: expired tokens are deleted under
\* Server.mu; their seats go later, one by one.
TakeExpired ==
    LET expired == {t \in Token : /\ sessions[t] # None
                                  /\ sessions[t].age > ReconnectGracePeriod}
    IN  /\ expiring = {}
        /\ expired # {}
        /\ expiring' = {[user |-> sessions[t].user, room |-> sessions[t].room,
                         pastRetention |-> uptime > MinRoomRetentionAfterRestart]
                          : t \in expired}
        /\ sessions' = [t \in Token |-> IF t \in expired THEN None ELSE sessions[t]]
        /\ UNCHANGED <<rooms, room, client, uptime>>

\* Mutant: the early return keeps a lock, and the cleanup hangs.
ExpireSessionHangs(e) ==
    LET rm == room[e.room]
    IN  /\ e \in expiring
        /\ e.room \in rooms /\ e.user \in rm.DisconnectedUsers
        /\ expiring' = expiring \ {e}
        /\ \E next \in Succession(Forget(rm, e.user), rm.HostID = e.user) :
             IF Empty(next) /\ e.pastRetention
               THEN DeleteRoom(e.room, next, client) /\ UNCHANGED sessions
               ELSE Settle(e.room, next, client, sessions)
        /\ UNCHANGED uptime

\* The second half, for one of them (expireSession).
ExpireSession(e) ==
    LET r == e.room
        rm == room[r]
        gone == Forget(rm, e.user)
    IN  /\ e \in expiring
        /\ expiring' = expiring \ {e}
        /\ IF r \notin rooms \/ e.user \notin rm.DisconnectedUsers
             THEN UNCHANGED <<rooms, room, client, sessions>>
             ELSE \E next \in Succession(gone, rm.HostID = e.user) :
                    IF Empty(next) /\ e.pastRetention
                      THEN DeleteRoom(r, next, client) /\ UNCHANGED sessions
                      ELSE Settle(r, next, client, sessions)
        /\ UNCHANGED uptime

\* failoverHostsOnce, for one room.
FailoverHost(r) ==
    LET rm == room[r]
    IN  /\ expiring = {}
        /\ r \in rooms
        /\ rm.HostID # None
        /\ rm.HostDisconnectedAt # None
        /\ rm.HostDisconnectedAt >= HostFailoverTimeout
        /\ \E u \in Deputies(rm) :
             room' = [room EXCEPT ![r] =
               AssignHost([rm EXCEPT !.OwnerID = IF @ = None THEN rm.HostID ELSE @], u)]
        /\ UNCHANGED <<rooms, client, sessions, expiring, uptime>>

\* cleanupEmptyRoomsOnce, for one room: mark it, delete it a while later.  The
\* sweep first runs EmptyRoomCleanupTimeout after the start.
CleanupEmptyRoom(r) ==
    LET rm == room[r]
    IN  /\ uptime >= EmptyRoomCleanupTimeout
        /\ r \in rooms
        /\ Empty(rm)
        /\ \/ /\ rm.EmptySince = None
              /\ room' = [room EXCEPT ![r].EmptySince = 0]
              /\ UNCHANGED <<rooms, client>>
           \/ /\ rm.EmptySince # None
              /\ rm.EmptySince > EmptyRoomCleanupTimeout
              /\ uptime > MinRoomRetentionAfterRestart
              /\ DeleteRoom(r, rm, client)
        /\ UNCHANGED <<sessions, expiring, uptime>>

\* An age grows until it is last, the first value its limit tells apart from
\* the smaller ones.
Older(age, last) == IF age = None \/ age = last THEN age ELSE age + 1

Tick ==
    /\ sessions' = [t \in Token |->
         IF sessions[t] = None THEN None
         ELSE [sessions[t] EXCEPT !.age = Older(@, ReconnectGracePeriod + 1)]]
    /\ room' = [r \in Code |->
         [room[r] EXCEPT !.HostDisconnectedAt = Older(@, HostFailoverTimeout),
                         !.EmptySince = Older(@, EmptyRoomCleanupTimeout + 1)]]
    /\ uptime' = Older(uptime, EmptyRoomCleanupTimeout)
    /\ UNCHANGED <<rooms, client, expiring>>

-----------------------------------------------------------------------------
(* A stop and the start that follows it *)

\* The server stops right after a flush and is started again: snapshotRooms,
\* LoadState and restoreRoomLocked.  Connections, claims and join requests are
\* lost; everyone the records know by a token is disconnected.  Someone
\* without one was being expired when the snapshot was taken and is dropped,
\* unless the record holds no token at all.
Kept(r) ==
    LET Known == Connected(room[r]) \cup
                   {u \in UserID : \E t \in Token : /\ sessions[t] # None
                                                    /\ sessions[t].room = r
                                                    /\ sessions[t].user = u}
    IN  IF Known = {} THEN Members(room[r]) ELSE Members(room[r]) \cap Known

RestoreRoom(r) ==
    [NoRoom EXCEPT
       !.DisconnectedUsers = Kept(r),
       !.HostID = room[r].HostID,
       !.OwnerID = room[r].OwnerID,
       !.HostDisconnectedAt =
          IF room[r].HostDisconnectedAt # None THEN room[r].HostDisconnectedAt
          ELSE IF room[r].HostID \in Kept(r) THEN 0 ELSE None,
       !.Users = {[x EXCEPT !.isConnected = FALSE] :
                    x \in {x \in room[r].Users :
                             x.id \notin room[r].DisconnectedUsers \ Kept(r)}}]

\* The published seats whose connection has token t.
Holders(t) ==
    {ru \in rooms \X UserID : /\ room[ru[1]].Clients[ru[2]] # None
                              /\ client[room[ru[1]].Clients[ru[2]]].token = t}

\* Mutant: members who were connected at the stop are not given a session.
RestoreSessionAway(t) ==
    IF sessions[t] # None => sessions[t].room \notin rooms THEN None
    ELSE [sessions[t] EXCEPT !.claimedBy = None]

RestoreSession(t) ==
    IF Holders(t) # {}
      THEN LET ru == CHOOSE ru \in Holders(t) : TRUE
           IN  NewSession(ru[2], ru[1], room[ru[1]].HostID = ru[2])
    ELSE IF sessions[t] # None => sessions[t].room \notin rooms THEN None
    ELSE [sessions[t] EXCEPT !.claimedBy = None]

Restart ==
    /\ room' = [r \in Code |-> IF r \in rooms THEN RestoreRoom(r) ELSE NoRoom]
    /\ sessions' = [t \in Token |-> RestoreSession(t)]
    /\ client' = [c \in Client |-> NoClient]
    /\ expiring' = {}
    /\ uptime' = 0
    /\ UNCHANGED rooms

-----------------------------------------------------------------------------
(* Specification *)

ClientStep(c) ==
    \/ Connect(c)
    \/ CloseSend(c)
    \/ RemoveClient(c)
    \/ RemoveClientFinish(c)
    \/ HandleCreateRoom(c)
    \/ CreateRoomCommit(c)
    \/ \E r \in Code : HandleJoinRoom(c, r)
    \/ \E u \in UserID : \/ HandleApproveJoin(c, u)
                         \/ HandleRejectJoin(c, u)
                         \/ HandleKickUser(c, u)
                         \/ HandleTransferHost(c, u)
    \/ LeaveRoom(c)
    \/ CancelJoin(c)
    \/ \E t \in Token : \/ ReconnectClaim(c, t)
                        \/ \E old \in Client : /\ client[old].pc # "creating"
                                                /\ ReconnectReplace(c, t, old)
    \/ ReconnectRetry(c)
    \/ ReconnectRestore(c)
    \/ ReconnectFail(c)

TimerStep ==
    \/ TakeExpired
    \/ \E e \in expiring : ExpireSession(e)
    \/ \E r \in Code : FailoverHost(r) \/ CleanupEmptyRoom(r)
    \/ Tick

\* A server that stays up.
Running == (\E c \in Client : ClientStep(c)) \/ TimerStep

\* One that is also stopped and started, between two passes of the cleanup.
Next == Running \/ (expiring = {} /\ Restart)

Spec == Init /\ [][Next]_vars

-----------------------------------------------------------------------------
(* Invariants *)

Expiry == [user : UserID, room : Code, pastRetention : BOOLEAN]

\* Every variable holds a value of its Go type.
TypeOK ==
    /\ rooms \subseteq Code
    /\ room \in [Code -> Room]
    /\ client \in [Client -> ClientState]
    /\ sessions \in [Token -> Session \cup {None}]
    /\ expiring \subseteq Expiry
    /\ uptime \in Nat

\* Client.room and Room.Clients are two records of one fact, kept by different
\* goroutines: a connection points to the room that seats it, under the ID it
\* is seated by, and that room is one the server knows or is about to.
SeatsAgree ==
    \A c \in Client, r \in Code :
        /\ CurrentRoom(c) = r =>
             /\ Seat(r, ClientID(c)) = c
             /\ r \in rooms \/ (Pc(c) = "creating" /\ InHand(c).room = r)
        /\ \A u \in UserID : Seat(r, u) = c =>
             CurrentRoom(c) = r /\ ClientID(c) = u

\* The roster sent to clients (RoomState.Users) lists every member once, with
\* the host and the connected ones marked: whatever order joins, losses,
\* returns, kicks and expiries come in, nobody is both seated and away.
RosterTrue ==
    \A r \in Code :
        /\ Connected(room[r]) \cap room[r].DisconnectedUsers = {}
        /\ room[r].Users =
             {[id |-> u, isHost |-> u = room[r].HostID,
               isConnected |-> u \in Connected(room[r])] :
                u \in Connected(room[r]) \cup room[r].DisconnectedUsers}

\* The host's seat is in one of three states.  Taken: the host is a connected
\* member whose client may host.  Held: the host is disconnected and the
\* failover clock runs.  Vacant: there is no host and no clock.
HostSeat ==
    \A r \in Code :
        \/ /\ HostIDOf(r) # None
           /\ HostOf(r) \in CanHost
           /\ Seat(r, HostIDOf(r)) = HostOf(r)
           /\ HostLost(r) = None
        \/ /\ HostIDOf(r) \in Away(r)
           /\ HostOf(r) = None
           /\ HostLost(r) # None
        \/ /\ HostIDOf(r) = None
           /\ HostOf(r) = None
           /\ HostLost(r) = None

\* An owner is someone a deputy stands in for: a disconnected member who may
\* still return, and never the host.
OwnerIsAway ==
    \A r \in Code :
        OwnerIDOf(r) # None =>
            /\ OwnerIDOf(r) \in Away(r)
            /\ OwnerIDOf(r) # HostIDOf(r)

\* Nobody is disconnected for ever: each held seat is known to exactly one
\* token, or to the cleanup pass that has just taken that token away.
AwayHasToken ==
    \A r \in rooms : \A u \in Away(r) :
        LET toks == {t \in Token : /\ HasSession(t)
                                   /\ SessionRoom(t) = r
                                   /\ SessionUser(t) = u}
        IN  \/ \E t \in Token : toks = {t}
            \/ toks = {} /\ \E e \in expiring : e.room = r /\ e.user = u

\* A token names a seat that is held: whoever leaves, is kicked or loses the
\* room takes the token along, and no connected member's token is claimable.
TokenNamesSeat ==
    \A t \in Token : HasSession(t) =>
        /\ SessionRoom(t) \in rooms
        /\ SessionUser(t) \in Away(SessionRoom(t))
        /\ \A c \in Client : SessionToken(c) = t => CurrentRoom(c) = None

\* A connected host has been sent every join request it could still approve:
\* no hand-over, failover, reclaim or reconnect loses one.
HostSeesRequests ==
    \A r \in rooms : room[r].Host # None =>
        \A u \in Applicants(room[r]) :
            client[room[r].PendingJoins[u]].closed \/ u \in room[r].HostSeen

\* Held seats count, so reconnects never take a room past its limit; and rooms
\* created at the same time never take the server past its own.
LimitsKept ==
    /\ \A r \in rooms : /\ Cardinality(Members(room[r])) <= MaxClientsPerRoom
                        /\ Cardinality(Applicants(room[r])) <= MaxPendingJoins
    /\ Cardinality(rooms) <= MaxRooms

-----------------------------------------------------------------------------
(* The inductive invariant behind SeatsAgree, HostSeat, OwnerIsAway,         *)
(* AwayHasToken and TokenNamesSeat                                           *)

\* A connection that can never be seated again.
Spent(c) == Pc(c) \in {"stopping", "removing"} /\ CurrentRoom(c) = None

\* A join request belongs to a connection that waits for it, under the ID it
\* asked with, is in no room and has no other request under way.
RequestInv ==
    /\ \A r \in Code : \A u \in UserID : \A c \in Client :
         room[r].PendingJoins[u] = c => client[c].pendingRoom = r /\ client[c].id = u
    /\ \A c \in Client : client[c].pendingRoom # None =>
         client[c].room = None /\ client[c].pc \in {"idle", "removing"}

\* What the position of a read pump says about its connection.
PumpInv ==
    \A c \in Client :
        /\ Pc(c) = "gone" =>
             /\ ClientID(c) = None /\ SessionToken(c) = None
             /\ CurrentRoom(c) = None /\ InHand(c) = None
             /\ IsClosed(c)
        /\ Pc(c) # "gone" => ClientID(c) # None
        /\ Pc(c) \in {"stopping", "removing"} => IsClosed(c)
        /\ Pc(c) \in {"stopping", "retry", "claimed"} => CurrentRoom(c) = None
        /\ Pc(c) \in {"creating", "retry", "claimed"} => InHand(c) # None
        /\ Pc(c) \in {"creating", "claimed"} =>
             InHand(c).room # None /\ InHand(c).user # None
        /\ Pc(c) = "creating" => CurrentRoom(c) = InHand(c).room

\* A room that is being created is not published and has its creator as its
\* only member.
FoundingInv ==
    \A c \in Client, r \in Code : Pc(c) = "creating" /\ CurrentRoom(c) = r =>
        /\ r \notin rooms
        /\ \A u \in UserID : u \notin Away(r)
        /\ \A d \in Client : d # c => CurrentRoom(d) # r

\* A user ID has one active owner: a connection, or a held seat (or one about
\* to be given up) in one room.
IdentityInv ==
    /\ \A c, d \in Client : c # d /\ ClientID(c) = ClientID(d) /\ ClientID(c) # None =>
         Spent(c) \/ Spent(d)
    /\ \A r \in Code : \A u \in Away(r) : \A c \in Client :
         ClientID(c) = u => Spent(c)
    /\ \A r, q \in Code : r # q =>
         Away(r) \cap Away(q) = {}
    /\ \A e \in expiring : \A c \in Client : ClientID(c) = e.user => Spent(c)
    /\ \A e \in expiring : \A r \in Code :
         e.user \in Away(r) => r = e.room
    /\ \A r \in Code : \A u \in Away(r) : Seat(r, u) = None

\* A published seat has a token; a token has one active owner, a connection or a
\* session; the token of a room that is being created is still nobody's, and a
\* claimed one stays the claimer's.
SeatTokenInv ==
    /\ \A c \in Client :
         CurrentRoom(c) # None /\ Pc(c) # "creating" => SessionToken(c) # None
    /\ \A c \in Client : \A t \in Token :
         SessionToken(c) = t /\ HasSession(t) => Spent(c)
    /\ \A c, d \in Client :
         c # d /\ SessionToken(c) = SessionToken(d) /\ SessionToken(c) # None =>
           Spent(c) \/ Spent(d)
    /\ \A c \in Client : Pc(c) = "creating" =>
         /\ ~HasSession(InHand(c).token)
         /\ \A d \in Client : SessionToken(d) # InHand(c).token
         /\ \A d \in Client : d # c /\ InHand(d) # None =>
              InHand(d).token # InHand(c).token
    /\ \A c \in Client : Pc(c) = "claimed" =>
         /\ \A d \in Client : SessionToken(d) = InHand(c).token => Spent(d)
         /\ HasSession(InHand(c).token) =>
              SessionClaim(InHand(c).token) = c

\* A user has one session.
OneSession ==
    \A t, x \in Token : t # x /\ HasSession(t) /\ HasSession(x) =>
        SessionUser(t) # SessionUser(x)

\* A session names a held seat that is not being expired; that of a host or
\* owner says so, and is claimed by a connection that may host.
SessionSeat ==
    \A t \in Token : HasSession(t) =>
        /\ SessionRoom(t) \in rooms
        /\ SessionUser(t) \in Away(SessionRoom(t))
        /\ \A e \in expiring : e.user # SessionUser(t)
        /\ SessionUser(t) \in {HostIDOf(SessionRoom(t)), OwnerIDOf(SessionRoom(t))} =>
             SessionHost(t)
        /\ SessionClaim(t) # None =>
             /\ Pc(SessionClaim(t)) = "claimed"
             /\ InHand(SessionClaim(t)).token = t
             /\ InHand(SessionClaim(t)).user = SessionUser(t)
             /\ InHand(SessionClaim(t)).room = SessionRoom(t)
             /\ SessionHost(t) => SessionClaim(t) \in CanHost

\* A held seat has a session or is being expired.
AwayKnown ==
    \A r \in rooms : \A u \in Away(r) :
        \/ \E t \in Token : HasSession(t) /\ SessionRoom(t) = r /\ SessionUser(t) = u
        \/ \E e \in expiring : e.room = r /\ e.user = u

SessionInv == OneSession /\ SessionSeat /\ AwayKnown

SeatInv ==
    /\ SeatsAgree
    /\ HostSeat
    /\ OwnerIsAway
    /\ PumpInv
    /\ FoundingInv
    /\ IdentityInv
    /\ SeatTokenInv
    /\ SessionInv

IInv == TypeOK /\ RequestInv /\ SeatInv

-----------------------------------------------------------------------------
(* Action properties *)

\* Whoever becomes a member founded the room or had a join request in front of
\* its connected host: a user who left, was kicked (online or not) or expired
\* has no other way back.
AdmittedByHost ==
    [][\A r \in rooms : \A u \in Members(room'[r]) \ Members(room[r]) :
         room[r].Host # None /\ u \in room[r].HostSeen]_vars

\* A room that has lost its last member never gets one again, so marking and
\* deleting it in separate critical sections is safe.
EmptyIsFinal ==
    [][\A r \in rooms : Empty(room[r]) => Empty(room'[r])]_vars

\* A token within its grace period stops working only because its user is back
\* or was kicked.
GraceKept ==
    [][\A t \in Token :
         sessions[t] # None /\ sessions[t].age <= ReconnectGracePeriod
           /\ sessions'[t] = None =>
             \/ sessions[t].user \in Connected(room'[sessions[t].room])
             \/ \E c \in Client : HandleKickUser(c, sessions[t].user)]_vars

\* A host who stays connected loses the room only by handing it over or to the
\* owner it stands in for.
HostKeepsRoom ==
    [][\A r \in rooms : \A c \in Client :
         room[r].Host = c /\ client'[c].room = r /\ room'[r].Host # c =>
             \/ \E u \in UserID : HandleTransferHost(c, u)
             \/ room'[r].HostID = room[r].OwnerID]_vars

\* The host whose seat was held, or that a deputy stood in for, hosts again the
\* moment they are back.
HostReturns ==
    [][\A r \in rooms : \A u \in room[r].DisconnectedUsers :
         u \in Connected(room'[r]) /\ u \in {room[r].HostID, room[r].OwnerID} =>
             /\ room'[r].HostID = u
             /\ room'[r].Host = room'[r].Clients[u]]_vars

-----------------------------------------------------------------------------
(* Environments the code does not exclude, beyond Next *)

\* A stop may also fall between the two halves of the session cleanup, with the
\* tokens gone and the seats still there.
SpecAnyStop == Init /\ [][Running \/ Restart]_vars

\* The token of a seat that was left long ago may be presented while the
\* connection that left it is creating another room.
SpecStaleToken ==
    Init /\ [][Next \/ \E c, old \in Client, t \in Token :
                         ReconnectReplace(c, t, old)]_vars

-----------------------------------------------------------------------------
(* Statements of the repository that the code does not keep *)

\* sync_test.go calls "room without a possible host stayed open" a failure: a
\* room with members always has a host, or someone away who may become one.
HostlessRoomsClose == \A r \in rooms : ~HostlessDead(room[r])

-----------------------------------------------------------------------------
(* Liveness, for a server that stays up *)

\* Read pumps finish what they started, closed sockets are noticed, the timers
\* fire and time passes.  Session cleanup and failover are two cases of one
\* select, so failover is not starved by a cleanup that is due again and again.
Fairness ==
    /\ \A c \in Client :
         WF_vars(\/ CreateRoomCommit(c)
                 \/ ReconnectRetry(c) \/ ReconnectRestore(c) \/ ReconnectFail(c)
                 \/ RemoveClientFinish(c)
                 \/ client[c].closed /\ RemoveClient(c))
    /\ WF_vars(TakeExpired \/ \E e \in expiring : ExpireSession(e))
    /\ \A r \in Code : SF_vars(FailoverHost(r)) /\ WF_vars(CleanupEmptyRoom(r))
    /\ WF_vars(Tick)

LiveSpec == Init /\ [][Running]_vars /\ Fairness

\* A held seat is resumed or given up in the end, however reconnects, kicks and
\* the cleanup race for it.
AwayResolved ==
    \A r \in Code, u \in UserID :
        u \in room[r].DisconnectedUsers ~> u \notin room[r].DisconnectedUsers

\* A room whose host is away and where someone else can host does not stay
\* without a connected host.
HostReplaced ==
    \A r \in Code :
        room[r].HostID # None /\ room[r].Host = None /\ Deputies(room[r]) # {}
          ~> room[r].Host # None \/ Deputies(room[r]) = {}

\* Every request that takes several steps ends, whatever interferes.
RequestsEnd ==
    \A c \in Client :
        client[c].pc \in {"creating", "retry", "claimed", "removing"}
          ~> client[c].pc \in {"idle", "gone"}
=============================================================================
