------------------------- MODULE MembershipHandlers -------------------------
(***************************************************************************)
(* Every action keeps RequestInv; and the requests a read pump handles     *)
(* (founding, joining, approving, leaving and the host's actions) keep     *)
(* SeatInv.                                                                *)
(***************************************************************************)
EXTENDS MembershipSteps

-----------------------------------------------------------------------------
(* RequestInv: a join request and the connection that made it agree.       *)

\* The types of the fields that hold join requests.
LEMMA RequestTypes ==
    ASSUME TypeOK
    PROVE  /\ \A r \in Code : room[r].PendingJoins \in [UserID -> Client \cup {None}]
           /\ \A c \in Client : client[c].pendingRoom \in Code \cup {None}
<1>1. \A rm \in Room : rm.PendingJoins \in [UserID -> Client \cup {None}]
  BY Zenon DEF Room
<1>2. \A x \in ClientState : x.pendingRoom \in Code \cup {None}
  BY Zenon DEF ClientState
<1> QED
  BY Zenon, <1>1, <1>2 DEF TypeOK

\* deleteRoom takes the join request from the applicants of that room only.
LEMMA DeleteRoomClients ==
    ASSUME NEW r \in Code, NEW rm \in Room, NEW cl \in [Client -> ClientState],
           DeleteRoom(r, rm, cl),
           NEW d \in Client
    PROVE  /\ client'[d].pc = cl[d].pc /\ client'[d].id = cl[d].id
           /\ client'[d].token = cl[d].token /\ client'[d].closed = cl[d].closed
           /\ client'[d].attempt = cl[d].attempt /\ client'[d].room = cl[d].room
           /\ \/ client'[d].pendingRoom = cl[d].pendingRoom
              \/ client'[d].pendingRoom = None /\ cl[d].pendingRoom = r
<1>1. client'[d] = cl[d] \/ client'[d] = ClearPendingRoom(cl[d], r)
  BY Zenon DEF DeleteRoom
<1> DEFINE y == cl[d]
<1>2. y \in ClientState /\ y = cl[d]
  BY Zenon
<1> HIDE DEF y
<1>3. CASE client'[d] = y
  BY Zenon, <1>2, <1>3
<1>4. CASE client'[d] = ClearPendingRoom(y, r)
  BY <1>2, <1>4, ClearPendingRoomType
<1> QED
  BY Zenon, <1>1, <1>2, <1>4

\* closeRoom takes room and join request from the clients of that room only.
LEMMA CloseRoomClients ==
    ASSUME NEW r \in Code, NEW rm \in Room, NEW cl \in [Client -> ClientState],
           NEW ss \in [Token -> Session \cup {None}],
           CloseRoom(r, rm, cl, ss), NEW d \in Client
    PROVE  /\ client'[d].pc = cl[d].pc /\ client'[d].id = cl[d].id
           /\ client'[d].token = cl[d].token /\ client'[d].closed = cl[d].closed
           /\ client'[d].attempt = cl[d].attempt
           /\ (\E u \in UserID : rm.Clients[u] = d) =>
                client'[d].room = IF cl[d].room = r THEN None ELSE cl[d].room
           /\ ~(\E u \in UserID : rm.Clients[u] = d) => client'[d].room = cl[d].room
           /\ \/ client'[d].pendingRoom = cl[d].pendingRoom
              \/ client'[d].pendingRoom = None /\ cl[d].pendingRoom = r
<1> DEFINE x == IF \E u \in UserID : rm.Clients[u] = d THEN ClearRoom(cl[d], r) ELSE cl[d]
<1>1. /\ x \in ClientState
      /\ x.pc = cl[d].pc /\ x.id = cl[d].id
      /\ x.token = cl[d].token /\ x.closed = cl[d].closed
      /\ x.attempt = cl[d].attempt /\ x.pendingRoom = cl[d].pendingRoom
      /\ (\E u \in UserID : rm.Clients[u] = d) =>
           x.room = IF cl[d].room = r THEN None ELSE cl[d].room
      /\ ~(\E u \in UserID : rm.Clients[u] = d) => x.room = cl[d].room
  <2>1. CASE \E u \in UserID : rm.Clients[u] = d
    BY ClearRoomType
  <2>2. CASE ~ \E u \in UserID : rm.Clients[u] = d
    BY Zenon, <2>2
  <2> QED
    BY Zenon, <2>1
<1>2. client'[d] = x \/ client'[d] = ClearPendingRoom(x, r)
  BY Zenon DEF CloseRoom
<1> HIDE DEF x
<1>3. CASE client'[d] = x
  BY Zenon, <1>1, <1>3
<1>4. CASE client'[d] = ClearPendingRoom(x, r)
  <2> DEFINE z == ClearPendingRoom(x, r)
  <2>1. /\ z.pc = x.pc /\ z.id = x.id /\ z.token = x.token /\ z.closed = x.closed
        /\ z.attempt = x.attempt /\ z.room = x.room
        /\ z.pendingRoom = IF x.pendingRoom = r THEN None ELSE x.pendingRoom
    BY <1>1, ClearPendingRoomType
  <2> HIDE DEF z
  <2>2. client'[d] = z
    BY Zenon, <1>4 DEF z
  <2> QED
    BY Zenon, <1>1, <2>1, <2>2
<1> QED
  BY Zenon, <1>2, <1>3, <1>4

\* A change of host leaves the join requests of the room alone.
LEMMA SuccessionRequests ==
    ASSUME NEW rm \in Room, NEW vacated \in BOOLEAN, NEW next \in Succession(rm, vacated)
    PROVE  next \in Room /\ next.PendingJoins = rm.PendingJoins
<1>1. CASE ~vacated
  BY Zenon, <1>1 DEF Succession
<1>2. CASE vacated
  <2>1. PICK u \in PickDeputy(rm) : next = AssignHost(rm, u)
    BY Zenon, <1>2 DEF Succession
  <2>2. u \in UserID \cup {None}
    BY Zenon DEF PickDeputy, Deputies, Connected
  <2> QED
    BY Zenon, <2>1, <2>2, AssignHostFields
<1> QED
  BY Zenon, <1>1, <1>2

\* The types of what the handlers read before they touch a join request.
LEMMA HandlerTypes ==
    ASSUME TypeOK
    PROVE  /\ \A r \in Code : room[r] \in Room
           /\ \A r \in Code, u \in UserID : room[r].Clients[u] \in Client \cup {None}
           /\ \A c \in Client : client[c] \in ClientState /\ client[c].room \in Code \cup {None}
           /\ \A e \in expiring : e.room \in Code /\ e.user \in UserID
<1>1. \A rm \in Room : rm.Clients \in [UserID -> Client \cup {None}]
  BY Zenon DEF Room
<1>2. \A x \in ClientState : x.room \in Code \cup {None}
  BY Zenon DEF ClientState
<1>3. \A e \in expiring : e.room \in Code /\ e.user \in UserID
  BY Zenon DEF TypeOK, Expiry
<1> QED
  BY Zenon, <1>1, <1>2, <1>3 DEF TypeOK

\* The join request of d, if any, is as before.
SameRequest(d) ==
    /\ client'[d].pendingRoom = client[d].pendingRoom
    /\ client'[d].id = client[d].id
    /\ client'[d].room = client[d].room
    /\ client'[d].pc = client[d].pc \/ client'[d].pc = "removing"

\* d has no join request after the step.
Unrequested(d) ==
    /\ client'[d].pendingRoom = None
    /\ \A r \in Code, u \in UserID : room'[r].PendingJoins[u] # d

\* No room has a join request it had not before.
NoneAdded ==
    \A r \in Code, u \in UserID, d \in Client :
        room'[r].PendingJoins[u] = d => room[r].PendingJoins[u] = d

\* A connection that waits for no room has no request in one.
LEMMA NoRequest ==
    ASSUME IInv, NEW c \in Client, client[c].pendingRoom = None
    PROVE  \A r \in Code, u \in UserID : room[r].PendingJoins[u] # c
BY NamesAssumption DEF IInv, RequestInv

\* A step that adds no request and disturbs only connections without one
\* keeps RequestInv.
LEMMA RequestFrame ==
    ASSUME IInv, \A d \in Client : SameRequest(d) \/ Unrequested(d), NoneAdded
    PROVE  RequestInv'
<1>1. ASSUME NEW r \in Code, NEW u \in UserID, NEW c \in Client, room'[r].PendingJoins[u] = c
      PROVE  client'[c].pendingRoom = r /\ client'[c].id = u
  BY <1>1 DEF IInv, RequestInv, SameRequest, Unrequested, NoneAdded
<1>2. ASSUME NEW c \in Client, client'[c].pendingRoom # None
      PROVE  client'[c].room = None /\ client'[c].pc \in {"idle", "removing"}
  BY Zenon, <1>2 DEF IInv, RequestInv, SameRequest, Unrequested
<1> QED
  BY Zenon, <1>1, <1>2 DEF RequestInv

\* The case of one connection that changes, without a request before and after.
LEMMA OneUnrequested ==
    ASSUME IInv, NEW c \in Client, client[c].pendingRoom = None, client'[c].pendingRoom = None,
           \A d \in Client \ {c} : client'[d] = client[d], NoneAdded
    PROVE  RequestInv'
<1>1. Unrequested(c)
  BY NoRequest DEF NoneAdded, Unrequested
<1>2. \A d \in Client \ {c} : SameRequest(d)
  BY Zenon DEF SameRequest
<1> QED
  BY Zenon, <1>1, <1>2, RequestFrame

\* A member of a room, and a connection with a longer request under way, waits
\* for no other room.
LEMMA WaitingPc ==
    ASSUME IInv, NEW c \in Client,
           client[c].room # None \/ client[c].pc \notin {"idle", "removing"}
    PROVE  client[c].pendingRoom = None
BY Zenon DEF IInv, RequestInv

\* handleClientDisconnect leaves the join requests of the room alone.
LEMMA SetAwayRequests ==
    ASSUME NEW rm \in Room, NEW c \in Client, NEW u \in UserID
    PROVE  SetAway(rm, c, u).PendingJoins = rm.PendingJoins
BY Zenon DEF SetAway, Room

\* Deleting a room releases the applicants who waited for it.
LEMMA DeleteRoomRequests ==
    ASSUME IInv, NEW r \in Code, NEW rm \in Room,
           NEW cl \in [Client -> ClientState], DeleteRoom(r, rm, cl),
           \A d \in Client : \/ cl[d] = client[d]
                             \/ cl[d].pendingRoom = None /\ client[d].pendingRoom = None
    PROVE  RequestInv'
<1>1. /\ \A u \in UserID : room'[r].PendingJoins[u] = None
      /\ \A q \in Code \ {r} : room'[q] = room[q]
  BY Zenon DEF DeleteRoom, IInv, TypeOK, NoRoom, NoMember
<1>2. NoneAdded
  BY Zenon, <1>1, NamesAssumption DEF NoneAdded
<1>3. ASSUME NEW d \in Client
      PROVE  SameRequest(d) \/ Unrequested(d)
  <2>1. /\ client'[d].pc = cl[d].pc /\ client'[d].id = cl[d].id /\ client'[d].room = cl[d].room
        /\ \/ client'[d].pendingRoom = cl[d].pendingRoom
           \/ client'[d].pendingRoom = None /\ cl[d].pendingRoom = r
    BY DeleteRoomClients
  <2>2. CASE cl[d] = client[d] /\ client'[d].pendingRoom = cl[d].pendingRoom
    BY Zenon, <2>1, <2>2 DEF SameRequest
  <2>3. CASE cl[d] = client[d] /\ client'[d].pendingRoom = None /\ cl[d].pendingRoom = r
    <3>1. \A q \in Code \ {r}, u \in UserID : room[q].PendingJoins[u] # d
      BY <2>3 DEF IInv, RequestInv
    <3> QED
      BY <1>1, <2>3, <3>1, NamesAssumption DEF Unrequested
  <2>4. CASE cl[d].pendingRoom = None /\ client[d].pendingRoom = None
    BY <1>2, <2>1, <2>4, NoRequest DEF Unrequested, NoneAdded
  <2> QED
    BY Zenon, <2>1, <2>2, <2>3, <2>4
<1> QED
  BY Zenon, <1>2, <1>3, RequestFrame

\* closeRoom releases the applicants who waited for the room.
LEMMA CloseRoomRequests ==
    ASSUME IInv, NEW r \in Code, NEW rm \in Room,
           NEW cl \in [Client -> ClientState], NEW ss \in [Token -> Session \cup {None}],
           CloseRoom(r, rm, cl, ss),
           \A d \in Client : \/ cl[d] = client[d]
                             \/ cl[d].pendingRoom = None /\ client[d].pendingRoom = None
    PROVE  RequestInv'
<1>1. /\ \A u \in UserID : room'[r].PendingJoins[u] = None
      /\ \A q \in Code \ {r} : room'[q] = room[q]
  BY Zenon DEF CloseRoom, IInv, TypeOK, NoRoom, NoMember
<1>2. NoneAdded
  BY Zenon, <1>1, NamesAssumption DEF NoneAdded
<1>3. ASSUME NEW d \in Client
      PROVE  SameRequest(d) \/ Unrequested(d)
  <2>1. /\ client'[d].pc = cl[d].pc /\ client'[d].id = cl[d].id
        /\ client'[d].room \in {cl[d].room, None}
        /\ \/ client'[d].pendingRoom = cl[d].pendingRoom
           \/ client'[d].pendingRoom = None /\ cl[d].pendingRoom = r
    BY CloseRoomClients
  <2>2. CASE cl[d] = client[d] /\ client'[d].pendingRoom = cl[d].pendingRoom
    <3>1. CASE client[d].pendingRoom = None
      BY <1>2, <2>2, <3>1, NoRequest DEF Unrequested, NoneAdded
    <3>2. CASE client[d].pendingRoom # None
      <4>1. client[d].room = None
        BY Zenon, <3>2, WaitingPc
      <4> QED
        BY Zenon, <2>1, <2>2, <4>1 DEF SameRequest
    <3> QED
      BY Zenon, <3>1, <3>2
  <2>3. CASE cl[d] = client[d] /\ client'[d].pendingRoom = None /\ cl[d].pendingRoom = r
    <3>1. \A q \in Code \ {r}, u \in UserID : room[q].PendingJoins[u] # d
      BY <2>3 DEF IInv, RequestInv
    <3> QED
      BY <1>1, <2>3, <3>1, NamesAssumption DEF Unrequested
  <2>4. CASE cl[d].pendingRoom = None /\ client[d].pendingRoom = None
    BY <1>2, <2>1, <2>4, NoRequest, NamesAssumption DEF Unrequested, NoneAdded
  <2> QED
    BY Zenon, <2>1, <2>2, <2>3, <2>4
<1> QED
  BY Zenon, <1>2, <1>3, RequestFrame

\* Every step keeps RequestInv: one step of the proof per action.
LEMMA RequestStep ==
    ASSUME IInv, TypeOK', Next
    PROVE  RequestInv'
<1>0. TypeOK
  BY Zenon DEF IInv
<1>f. /\ \A r \in Code : room[r] \in Room
      /\ \A r \in Code, u \in UserID : room[r].Clients[u] \in Client \cup {None}
      /\ \A c \in Client : client[c] \in ClientState /\ client[c].room \in Code \cup {None}
      /\ \A e \in expiring : e.room \in Code /\ e.user \in UserID
  BY Zenon, <1>0, HandlerTypes
<1>p. \A c \in Client :
        /\ client[c].pc # "gone" => client[c].id \in UserID
        /\ client[c].room # None => client[c].id \in UserID
        /\ client[c].pc \in {"creating", "claimed", "retry"} => client[c].attempt.token \in Token
        /\ client[c].pc \in {"creating", "claimed"} =>
             client[c].attempt.room \in Code /\ client[c].attempt.user \in UserID
  <2>1. \A x \in ClientState : x.id \in UserID \cup {None}
    BY Zenon DEF ClientState
  <2>2. PumpInv /\ SeatTokenInv
    BY Zenon DEF IInv, SeatInv
  <2> QED
    BY Zenon, <1>0, <1>f, <2>1, <2>2, PumpTypes
<1>00. /\ \A r \in Code : room[r].PendingJoins \in [UserID -> Client \cup {None}]
       /\ \A c \in Client : client[c].pendingRoom \in Code \cup {None}
  BY Zenon, <1>0, RequestTypes
<1>a. ASSUME room' = room
      PROVE  NoneAdded
  BY Zenon, <1>a DEF NoneAdded
<1>b. ASSUME NEW r \in Code, NEW x, room' = [room EXCEPT ![r] = x],
             \A u \in UserID : x.PendingJoins[u] \in {room[r].PendingJoins[u], None}
      PROVE  NoneAdded
  <2>1. room'[r] = x /\ \A q \in Code \ {r} : room'[q] = room[q]
    BY Zenon, <1>0, <1>b DEF TypeOK
  <2> QED
    BY Zenon, <1>b, <2>1, NamesAssumption DEF NoneAdded
<1>c. \A rm \in Room, u \in UserID, w \in UserID :
        WithoutRequest(rm, u).PendingJoins[w] = IF w = u THEN None ELSE rm.PendingJoins[w]
  <2> SUFFICES ASSUME NEW rm \in Room, NEW u \in UserID, NEW w \in UserID
               PROVE  WithoutRequest(rm, u).PendingJoins[w] =
                        IF w = u THEN None ELSE rm.PendingJoins[w]
    BY Zenon
  <2>1. rm.PendingJoins \in [UserID -> Client \cup {None}]
    BY Zenon DEF Room
  <2>2. WithoutRequest(rm, u).PendingJoins = [rm.PendingJoins EXCEPT ![u] = None]
    BY Zenon, WithoutRequestFields
  <2> QED
    BY Zenon, <2>1, <2>2
<1>1. ASSUME NEW c \in Client, Connect(c)
      PROVE  RequestInv'
  <2>1. client[c].pendingRoom = None
    BY Zenon, <1>1, WaitingPc DEF Connect
  <2>2. client'[c].pendingRoom = None /\ \A d \in Client \ {c} : client'[d] = client[d]
    BY Zenon, <1>0, <1>1 DEF Connect, TypeOK, NoClient
  <2> QED
    BY Zenon, <1>1, <1>a, <2>1, <2>2, OneUnrequested DEF Connect
<1>2. ASSUME NEW c \in Client, CloseSend(c) \/ RemoveClient(c)
      PROVE  RequestInv'
  <2>1. \A d \in Client : SameRequest(d)
    BY <1>0, <1>2 DEF CloseSend, RemoveClient, SameRequest, TypeOK, ClientState
  <2>2. NoneAdded
    BY Zenon, <1>2, <1>a DEF CloseSend, RemoveClient
  <2> QED
    BY Zenon, <2>1, <2>2, RequestFrame
<1>4. ASSUME NEW c \in Client, RemoveClientFinish(c)
      PROVE  RequestInv'
  <2>1. CASE client[c].room # None
    <3> DEFINE r == client[c].room
               u == client[c].id
    <3>1. r \in Code /\ u \in UserID /\ room[r] \in Room
      BY Zenon, <1>0, <1>f, <1>p, <1>4, <2>1 DEF RemoveClientFinish
    <3>2. client[c].pendingRoom = None
      BY Zenon, <2>1, WaitingPc
    <3>3. client'[c].pendingRoom = None /\ \A d \in Client \ {c} : client'[d] = client[d]
      BY <1>0, <1>4, <2>1 DEF RemoveClientFinish, Disconnect, NoClient, TypeOK
    <3>4. room' = room \/ room' = [room EXCEPT ![r] = SetAway(room[r], c, u)]
      BY Zenon, <1>4, <2>1 DEF RemoveClientFinish, Disconnect
    <3> HIDE DEF r, u
    <3>5. SetAway(room[r], c, u).PendingJoins = room[r].PendingJoins
      BY Zenon, <3>1, SetAwayRequests
    <3>6. NoneAdded
      BY Zenon, <1>a, <1>b, <3>1, <3>4, <3>5
    <3> QED
      BY Zenon, <3>2, <3>3, <3>6, OneUnrequested
  <2>2. CASE client[c].room = None
    <3> DEFINE p == client[c].pendingRoom
               u == client[c].id
    <3>1. u \in UserID
      BY Zenon, <1>0, <1>f, <1>p, <1>4 DEF RemoveClientFinish
    <3>2. \A q \in Code : room'[q] = IF q = p /\ room[q].PendingJoins[u] = c
                                     THEN WithoutRequest(room[q], u) ELSE room[q]
      BY Zenon, <1>4, <2>2 DEF RemoveClientFinish
    <3>3. client'[c].pendingRoom = None /\ \A d \in Client \ {c} : client'[d] = client[d]
      BY <1>0, <1>4, <2>2 DEF RemoveClientFinish, NoClient, TypeOK
    <3>4. \A q \in Code, w \in UserID : room[q].PendingJoins[w] = c => q = p /\ w = u
      BY Zenon DEF IInv, RequestInv
    <3> HIDE DEF p, u
    <3>5. \A q \in Code, w \in UserID :
            room'[q].PendingJoins[w] = IF room[q].PendingJoins[w] = c THEN None
                                       ELSE room[q].PendingJoins[w]
      BY <1>0, <1>f, <1>p, <1>c, <3>1, <3>2, <3>4
    <3>6. NoneAdded /\ Unrequested(c)
      BY Zenon, <3>3, <3>5, NamesAssumption DEF NoneAdded, Unrequested
    <3>7. \A d \in Client \ {c} : SameRequest(d)
      BY Zenon, <3>3 DEF SameRequest
    <3> QED
      BY Zenon, <3>6, <3>7, RequestFrame
  <2> QED
    BY Zenon, <2>1, <2>2
<1>5. ASSUME NEW c \in Client, HandleCreateRoom(c)
      PROVE  RequestInv'
  <2> DEFINE u == client[c].id
             x == [NoRoom EXCEPT !.Clients[u] = c, !.Host = c, !.HostID = u,
                               !.Users = {[id |-> u, isHost |-> TRUE,
                                           isConnected |-> TRUE]}]
  <2>1. NewCode \in Code
    BY Zenon, <1>5, NewCodeFresh DEF HandleCreateRoom
  <2>2. x.PendingJoins = NoMember
    BY Zenon DEF NoRoom
  <2>3. room' = [room EXCEPT ![NewCode] = x]
    BY Zenon, <1>5 DEF HandleCreateRoom
  <2> HIDE DEF x
  <2>4. NoneAdded
    BY Zenon, <1>b, <2>1, <2>2, <2>3 DEF NoMember
  <2>5. client[c].pendingRoom = None /\ client'[c].pendingRoom = None
        /\ \A d \in Client \ {c} : client'[d] = client[d]
    BY Zenon, <1>0, <1>5 DEF HandleCreateRoom, TypeOK, ClientState
  <2> QED
    BY Zenon, <2>4, <2>5, OneUnrequested
<1>6. ASSUME NEW c \in Client, CreateRoomCommit(c)
      PROVE  RequestInv'
  <2> DEFINE a == client[c].attempt
             done == [client[c] EXCEPT !.pc = "idle", !.attempt = None, !.token = a.token]
  <2>1. client[c].pendingRoom = None /\ a.room \in Code /\ a.token \in Token
    BY Zenon, <1>0, <1>f, <1>p, <1>6, WaitingPc DEF CreateRoomCommit
  <2>2. done \in ClientState /\ done.pendingRoom = None
    <3> DEFINE x == client[c]
               t == a.token
    <3>1. x \in ClientState /\ x.pendingRoom = None /\ t \in Token
      BY Zenon, <1>0, <2>1 DEF TypeOK
    <3>2. done = [x EXCEPT !.pc = "idle", !.attempt = None, !.token = t]
      BY Zenon
    <3> HIDE DEF x, t, done
    <3> QED
      BY Zenon, <3>1, <3>2 DEF ClientState
  <2> HIDE DEF done
  <2>3. ClearRoom(done, a.room).pendingRoom = None
    BY Zenon, <2>2, ClearRoomType
  <2>4. client' = [client EXCEPT ![c] = done]
        \/ client' = [client EXCEPT ![c] = ClearRoom(done, a.room)]
    BY Zenon, <1>6 DEF CreateRoomCommit, done
  <2>5. client'[c].pendingRoom = None /\ \A d \in Client \ {c} : client'[d] = client[d]
    BY Zenon, <1>0, <2>2, <2>3, <2>4 DEF TypeOK
  <2>6. room' = room \/ room' = [room EXCEPT ![a.room] = NoRoom]
    BY Zenon, <1>6 DEF CreateRoomCommit
  <2>7. \A w \in UserID : NoRoom.PendingJoins[w] = None
    BY Zenon DEF NoRoom, NoMember
  <2>8. NoneAdded
    BY <1>a, <1>b, <2>1, <2>6, <2>7
  <2> QED
    BY Zenon, <2>1, <2>5, <2>8, OneUnrequested
<1>7. ASSUME NEW c \in Client, NEW r \in Code, HandleJoinRoom(c, r)
      PROVE  RequestInv'
  <2> DEFINE u == client[c].id
             rm == room[r]
             asked == [rm EXCEPT !.PendingJoins[u] = c,
                        !.HostSeen = IF rm.Host # None /\ rm.HostDisconnectedAt = None
                                       THEN @ \cup {u} ELSE @]
  <2>1. u \in UserID /\ rm \in Room /\ client[c].pendingRoom = None /\ client[c].room = None
        /\ client[c].pc = "idle"
    BY Zenon, <1>0, <1>f, <1>p, <1>7 DEF HandleJoinRoom, Idle
  <2>2. room' = [room EXCEPT ![r] = asked]
    BY Zenon, <1>7 DEF HandleJoinRoom
  <2>3. client'[c].pendingRoom = r /\ client'[c].id = u /\ client'[c].room = None
        /\ client'[c].pc = "idle" /\ \A d \in Client \ {c} : client'[d] = client[d]
    BY Zenon, <1>0, <1>7, <2>1 DEF HandleJoinRoom, TypeOK, ClientState
  <2> HIDE DEF u, rm
  <2>4. asked.PendingJoins = [rm.PendingJoins EXCEPT ![u] = c]
    BY Zenon, <2>1 DEF Room
  <2> HIDE DEF asked
  <2>5. /\ room'[r].PendingJoins[u] = c
        /\ \A w \in UserID \ {u} : room'[r].PendingJoins[w] = room[r].PendingJoins[w]
        /\ \A q \in Code \ {r} : room'[q] = room[q]
    BY Zenon, <1>0, <1>00, <2>1, <2>2, <2>4 DEF TypeOK, rm
  <2>6. \A q \in Code, w \in UserID : room[q].PendingJoins[w] # c
    BY Zenon, <2>1, NoRequest
  <2>7. ASSUME NEW q \in Code, NEW w \in UserID, NEW d \in Client, room'[q].PendingJoins[w] = d
        PROVE  client'[d].pendingRoom = q /\ client'[d].id = w
    BY <2>3, <2>5, <2>6, <2>7 DEF IInv, RequestInv
  <2>8. ASSUME NEW d \in Client, client'[d].pendingRoom # None
        PROVE  client'[d].room = None /\ client'[d].pc \in {"idle", "removing"}
    BY Zenon, <2>3, <2>8 DEF IInv, RequestInv
  <2> QED
    BY Zenon, <2>7, <2>8 DEF RequestInv
<1>8. ASSUME NEW c \in Client, NEW u \in UserID, HandleApproveJoin(c, u) \/ HandleRejectJoin(c, u)
      PROVE  RequestInv'
  <2> DEFINE r == client[c].room
             j == room[r].PendingJoins[u]
             dropped == WithoutRequest(room[r], u)
  <2>1. r \in Code /\ room[r] \in Room
    BY Zenon, <1>0, <1>f, <1>p, <1>8 DEF HandleApproveJoin, HandleRejectJoin, Hosts
  <2>2. j \in Client
    BY Zenon, <1>00, <1>8, <2>1 DEF HandleApproveJoin, HandleRejectJoin
  <2>3. /\ client[j].pendingRoom = r /\ client[j].id = u /\ client[j] \in ClientState
        /\ \A q \in Code, w \in UserID : room[q].PendingJoins[w] = j => q = r /\ w = u
    BY <1>0, <2>1, <2>2 DEF IInv, RequestInv, TypeOK
  <2> DEFINE y == ClearPendingRoom(client[j], r)
  <2>4. \/ client' = [client EXCEPT ![j] = y]
        \/ client' = [client EXCEPT ![j] = [y EXCEPT !.room = r, !.token = NewToken]]
    BY Zenon, <1>8 DEF HandleApproveJoin, HandleRejectJoin
  <2>5. \/ room' = [room EXCEPT ![r] = dropped]
        \/ room' = [room EXCEPT ![r] = Admit(dropped, j, u)]
    BY Zenon, <1>8, <2>3 DEF HandleApproveJoin, HandleRejectJoin
  <2> HIDE DEF r, j
  <2>6. y \in ClientState /\ y.pendingRoom = None
    BY Zenon, <2>3, ClearPendingRoomType
  <2> HIDE DEF y
  <2>7. [y EXCEPT !.room = r, !.token = NewToken].pendingRoom = None
    BY Zenon, <2>6 DEF ClientState
  <2>8. client'[j].pendingRoom = None /\ \A d \in Client \ {j} : client'[d] = client[d]
    BY Zenon, <1>0, <2>2, <2>4, <2>6, <2>7 DEF TypeOK
  <2>9. dropped \in Room /\ dropped.PendingJoins = [room[r].PendingJoins EXCEPT ![u] = None]
    BY Zenon, <2>1, WithoutRequestFields
  <2> HIDE DEF dropped
  <2>10. Admit(dropped, j, u).PendingJoins = dropped.PendingJoins
    BY Zenon, <2>2, <2>9, AdmitFields
  <2>11. /\ room'[r].PendingJoins[u] = None
         /\ \A w \in UserID \ {u} : room'[r].PendingJoins[w] = room[r].PendingJoins[w]
         /\ \A q \in Code \ {r} : room'[q] = room[q]
    BY Zenon, <1>0, <1>00, <2>1, <2>5, <2>9, <2>10 DEF TypeOK
  <2>12. NoneAdded
    BY Zenon, <2>11, NamesAssumption DEF NoneAdded
  <2>13. Unrequested(j)
    BY <2>2, <2>3, <2>8, <2>11, NamesAssumption DEF Unrequested
  <2>14. \A d \in Client \ {j} : SameRequest(d)
    BY Zenon, <2>8 DEF SameRequest
  <2> QED
    BY Zenon, <2>12, <2>13, <2>14, RequestFrame
<1>10. ASSUME NEW c \in Client, NEW u \in UserID, HandleKickUser(c, u)
       PROVE  RequestInv'
  <2> DEFINE r == client[c].room
             k == room[r].Clients[u]
  <2>1. r \in Code /\ room[r] \in Room /\ k \in Client \cup {None}
    BY Zenon, <1>0, <1>f, <1>p, <1>10 DEF HandleKickUser, Hosts
  <2>2. /\ Unseat(room[r], u).PendingJoins = room[r].PendingJoins
        /\ Forget(room[r], u).PendingJoins = room[r].PendingJoins
    BY Zenon, <2>1, UnseatFields, ForgetFields
  <2>3. \/ room' = [room EXCEPT ![r] = Unseat(room[r], u)]
        \/ room' = [room EXCEPT ![r] = Forget(room[r], u)]
    BY Zenon, <1>10 DEF HandleKickUser
  <2>4. NoneAdded
    BY Zenon, <1>b, <2>1, <2>2, <2>3
  <2>5. CASE client' = client
    BY Zenon, <2>4, <2>5, RequestFrame DEF SameRequest
  <2>6. CASE k # None /\ client' = [client EXCEPT ![k] = ClearRoom(@, r)]
    <3>1. client[k].room = r /\ r # None
      BY <2>1, <2>6, NamesAssumption DEF IInv, SeatInv, SeatsAgree, Seat, CurrentRoom
    <3>2. client[k].pendingRoom = None
      BY Zenon, <2>1, <2>6, <3>1, WaitingPc
    <3>3. ClearRoom(client[k], r).pendingRoom = None
      BY Zenon, <1>0, <2>1, <2>6, <3>2, ClearRoomType DEF TypeOK
    <3> HIDE DEF k, r
    <3>4. client'[k].pendingRoom = None /\ \A d \in Client \ {k} : client'[d] = client[d]
      BY Zenon, <1>0, <2>1, <2>6, <3>3 DEF TypeOK
    <3> QED
      BY Zenon, <2>1, <2>4, <2>6, <3>2, <3>4, OneUnrequested
  <2> QED
    BY Zenon, <1>10, <2>5, <2>6 DEF HandleKickUser
<1>11. ASSUME NEW c \in Client, NEW u \in UserID, HandleTransferHost(c, u)
       PROVE  RequestInv'
  <2> DEFINE r == client[c].room
             rm == [room[r] EXCEPT !.OwnerID = None]
  <2>1. r \in Code /\ room[r] \in Room
    BY Zenon, <1>0, <1>f, <1>p, <1>11 DEF HandleTransferHost, Hosts
  <2>2. room' = [room EXCEPT ![r] = AssignHost(rm, u)] /\ client' = client
    BY Zenon, <1>11 DEF HandleTransferHost
  <2> HIDE DEF r
  <2>3. rm \in Room /\ rm.PendingJoins = room[r].PendingJoins
    BY Zenon, <2>1 DEF Room
  <2> HIDE DEF rm
  <2>4. AssignHost(rm, u).PendingJoins = room[r].PendingJoins
    BY <2>3, AssignHostFields
  <2>5. NoneAdded
    BY Zenon, <1>b, <2>1, <2>2, <2>4
  <2> QED
    BY Zenon, <2>2, <2>5, RequestFrame DEF SameRequest
<1>12. ASSUME NEW c \in Client, LeaveRoom(c)
       PROVE  RequestInv'
  <2> DEFINE r == client[c].room
             u == client[c].id
             rm == room[r]
             left == Forget(Unseat(WithoutRequest(rm, u), u), u)
             cl == [client EXCEPT ![c].room = None]
             ss == DropToken(sessions, client[c].token)
             hosted == rm.Host = c
  <2>1. r \in Code /\ u \in UserID /\ rm \in Room /\ hosted \in BOOLEAN
    BY Zenon, <1>0, <1>f, <1>p, <1>12 DEF LeaveRoom, Idle
  <2>2. client[c].pendingRoom = None
    BY Zenon, <1>12, WaitingPc DEF LeaveRoom
  <2>3. cl \in [Client -> ClientState] /\ ss \in [Token -> Session \cup {None}]
    BY <1>0, DropTokenType DEF TypeOK, ClientState
  <2>4. cl[c].pendingRoom = None /\ \A d \in Client \ {c} : cl[d] = client[d]
    BY <1>0, <2>2 DEF TypeOK, ClientState
  <2>5. \/ client' = cl /\ room' = room
        \/ DeleteRoom(r, left, cl)
        \/ \E next \in Succession(left, hosted) : Settle(r, next, cl, ss)
    BY Zenon, <1>12 DEF LeaveRoom
  <2>6. rm = room[r]
    BY Zenon
  <2> HIDE DEF r, u, rm, cl, ss, hosted
  <2>7. /\ left \in Room
        /\ \A w \in UserID : left.PendingJoins[w] \in {rm.PendingJoins[w], None}
    <3> DEFINE a == WithoutRequest(rm, u)
               b == Unseat(a, u)
               f == Forget(b, u)
    <3>1. /\ a \in Room
          /\ \A w \in UserID : a.PendingJoins[w] \in {rm.PendingJoins[w], None}
      BY Zenon, <1>c, <2>1, WithoutRequestFields
    <3> HIDE DEF a
    <3>2. b \in Room /\ b.PendingJoins = a.PendingJoins
      BY Zenon, <2>1, <3>1, UnseatFields
    <3> HIDE DEF b
    <3>3. f \in Room /\ f.PendingJoins = b.PendingJoins
      BY Zenon, <2>1, <3>2, ForgetFields
    <3>4. left = f
      BY Zenon DEF a, b
    <3> HIDE DEF f, left
    <3> QED
      BY Zenon, <3>1, <3>2, <3>3, <3>4
  <2> HIDE DEF left
  <2>8. CASE client' = cl /\ room' = room
    BY Zenon, <1>a, <2>2, <2>4, <2>8, OneUnrequested
  <2>9. CASE DeleteRoom(r, left, cl)
    BY Zenon, <2>1, <2>2, <2>3, <2>4, <2>7, <2>9, DeleteRoomRequests
  <2>10. ASSUME NEW next \in Succession(left, hosted), Settle(r, next, cl, ss)
         PROVE  RequestInv'
    <3>1. next \in Room /\ next.PendingJoins = left.PendingJoins
      BY Zenon, <1>0, <2>1, <2>7, <2>10, SuccessionRequests
    <3>2. CASE HostlessDead(next)
      <4>1. CloseRoom(r, next, cl, ss)
        BY Zenon, <2>10, <3>2 DEF Settle
      <4> QED
        BY Zenon, <2>1, <2>2, <2>3, <2>4, <3>1, <4>1, CloseRoomRequests
    <3>3. CASE ~HostlessDead(next)
      <4>1. room' = [room EXCEPT ![r] = next] /\ client' = cl
        BY Zenon, <2>10, <3>3 DEF Settle
      <4>2. \A w \in UserID : next.PendingJoins[w] \in {room[r].PendingJoins[w], None}
        BY Zenon, <2>6, <2>7, <3>1
      <4>3. NoneAdded
        BY Zenon, <1>b, <2>1, <4>1, <4>2
      <4> QED
        BY Zenon, <2>2, <2>4, <4>1, <4>3, OneUnrequested
    <3> QED
      BY Zenon, <3>2, <3>3
  <2> QED
    BY Zenon, <2>5, <2>8, <2>9, <2>10
<1>13. ASSUME NEW c \in Client, CancelJoin(c)
       PROVE  RequestInv'
  <2> DEFINE p == client[c].pendingRoom
             u == client[c].id
  <2>1. u \in UserID
    BY Zenon, <1>0, <1>f, <1>p, <1>13 DEF CancelJoin, Idle
  <2>2. \A q \in Code : room'[q] = IF q = p /\ room[q].PendingJoins[u] = c
                                   THEN WithoutRequest(room[q], u) ELSE room[q]
    BY Zenon, <1>13 DEF CancelJoin
  <2>3. client'[c].pendingRoom = None /\ \A d \in Client \ {c} : client'[d] = client[d]
    BY Zenon, <1>0, <1>13 DEF CancelJoin, TypeOK, ClientState
  <2>4. \A q \in Code, w \in UserID : room[q].PendingJoins[w] = c => q = p /\ w = u
    BY Zenon DEF IInv, RequestInv
  <2> HIDE DEF p, u
  <2>5. \A q \in Code, w \in UserID :
          room'[q].PendingJoins[w] = IF room[q].PendingJoins[w] = c THEN None
                                     ELSE room[q].PendingJoins[w]
    BY <1>0, <1>f, <1>p, <1>c, <2>1, <2>2, <2>4
  <2>6. NoneAdded /\ Unrequested(c)
    BY Zenon, <2>3, <2>5, NamesAssumption DEF NoneAdded, Unrequested
  <2>7. \A d \in Client \ {c} : SameRequest(d)
    BY Zenon, <2>3 DEF SameRequest
  <2> QED
    BY Zenon, <2>6, <2>7, RequestFrame
<1>14. ASSUME NEW c \in Client, NEW t \in Token, client[c].pendingRoom = None, Claim(c, t),
              room' = room
       PROVE  RequestInv'
  <2>1. client'[c].pendingRoom = None /\ \A d \in Client \ {c} : client'[d] = client[d]
    BY Zenon, <1>0, <1>14 DEF Claim, TypeOK, ClientState
  <2> QED
    BY Zenon, <1>14, <1>a, <2>1, OneUnrequested
<1>15. ASSUME NEW c \in Client, NEW t \in Token, ReconnectClaim(c, t)
       PROVE  RequestInv'
  BY Zenon, <1>14, <1>15 DEF ReconnectClaim
<1>16. ASSUME NEW c \in Client, NEW t \in Token, NEW old \in Client,
              client[old].pc # "creating", ReconnectReplace(c, t, old)
       PROVE  RequestInv'
  <2> DEFINE r == client[old].room
             u == client[old].id
             x == [client[old] EXCEPT !.closed = TRUE,
                                      !.pc = IF @ = "idle" THEN "stopping" ELSE @]
             a == [token |-> t, user |-> None, room |-> None]
             cl == [client EXCEPT ![c].pc = "retry", ![c].attempt = a]
  <2>1. /\ client[c].pendingRoom = None /\ old # c /\ r \in Code /\ u \in UserID
        /\ room[r] \in Room
    BY Zenon, <1>0, <1>f, <1>p, <1>16 DEF ReconnectReplace, Registered
  <2>2. client[old].pendingRoom = None
    BY Zenon, <1>16, WaitingPc DEF ReconnectReplace
  <2>3. x \in ClientState /\ x.pendingRoom = None
    <3> DEFINE z == client[old]
    <3>1. z \in ClientState /\ z.pendingRoom = None
      BY Zenon, <1>0, <2>2 DEF TypeOK
    <3>2. x = [z EXCEPT !.closed = TRUE, !.pc = IF @ = "idle" THEN "stopping" ELSE @]
      BY Zenon
    <3> HIDE DEF z, x
    <3> QED
      BY Zenon, <3>1, <3>2 DEF ClientState
  <2>4. cl[c].pendingRoom = None /\ \A d \in Client \ {c} : cl[d] = client[d]
    BY <1>0, <2>1 DEF TypeOK, ClientState
  <2>5. DOMAIN cl = Client
    BY Zenon, <1>0 DEF TypeOK
  <2> HIDE DEF x, cl, a
  <2>6. Disconnect(old, x, cl)
    BY Zenon, <1>16 DEF ReconnectReplace, x, cl, a
  <2>7. [x EXCEPT !.room = None].pendingRoom = None
    BY Zenon, <2>3 DEF ClientState
  <2>8. client' = [cl EXCEPT ![old] = [x EXCEPT !.room = None]]
        /\ (room' = room \/ room' = [room EXCEPT ![r] = SetAway(room[r], old, u)])
    BY Zenon, <2>6 DEF Disconnect
  <2>9. /\ client'[old].pendingRoom = None /\ client'[c].pendingRoom = None
        /\ \A d \in Client \ {c, old} : client'[d] = client[d]
    BY Zenon, <2>1, <2>4, <2>5, <2>7, <2>8
  <2> HIDE DEF r, u
  <2>10. SetAway(room[r], old, u).PendingJoins = room[r].PendingJoins
    BY Zenon, <2>1, SetAwayRequests
  <2>11. NoneAdded
    BY Zenon, <1>a, <1>b, <2>1, <2>8, <2>10
  <2>12. Unrequested(c) /\ Unrequested(old)
    BY <2>1, <2>2, <2>9, <2>11, NoRequest DEF NoneAdded, Unrequested
  <2>13. \A d \in Client \ {c, old} : SameRequest(d)
    BY Zenon, <2>9 DEF SameRequest
  <2> QED
    BY Zenon, <2>11, <2>12, <2>13, RequestFrame
<1>17. ASSUME NEW c \in Client, ReconnectRetry(c)
       PROVE  RequestInv'
  <2>1. client[c].attempt.token \in Token /\ client[c].pendingRoom = None
    BY Zenon, <1>0, <1>f, <1>p, <1>17, WaitingPc DEF ReconnectRetry
  <2>2. CASE Claim(c, client[c].attempt.token)
    BY Zenon, <1>14, <1>17, <2>1, <2>2 DEF ReconnectRetry
  <2>3. CASE client' = [client EXCEPT ![c].pc = "idle", ![c].attempt = None]
    <3>1. client'[c].pendingRoom = None /\ \A d \in Client \ {c} : client'[d] = client[d]
      BY Zenon, <1>0, <2>1, <2>3 DEF TypeOK, ClientState
    <3> QED
      BY Zenon, <1>17, <1>a, <2>1, <3>1, OneUnrequested DEF ReconnectRetry
  <2> QED
    BY Zenon, <1>17, <2>2, <2>3 DEF ReconnectRetry
<1>18. ASSUME NEW c \in Client, ReconnectRestore(c)
       PROVE  RequestInv'
  <2> DEFINE a == client[c].attempt
             r == a.room
             u == a.user
             seated == Reseat(room[r], c, u)
             host == AssignHost(seated, u)
             hosting == [host EXCEPT !.OwnerID = IF @ = u THEN None ELSE @]
  <2>1. /\ client[c].pendingRoom = None /\ r \in Code /\ u \in UserID /\ room[r] \in Room
    BY Zenon, <1>0, <1>f, <1>p, <1>18, WaitingPc DEF ReconnectRestore
  <2>2. client'[c].pendingRoom = None /\ \A d \in Client \ {c} : client'[d] = client[d]
    <3>1. client' = [client EXCEPT ![c].pc = "idle", ![c].attempt = None, ![c].room = a.room,
                                   ![c].id = a.user, ![c].token = a.token]
      BY Zenon, <1>18 DEF ReconnectRestore
    <3>2. client[c] \in ClientState /\ client \in [Client -> ClientState]
      BY Zenon, <1>0 DEF TypeOK
    <3> HIDE DEF a, r, u
    <3> QED
      BY Zenon, <2>1, <3>1, <3>2 DEF ClientState
  <2>3. \/ room' = [room EXCEPT ![r] = hosting]
        \/ room' = [room EXCEPT ![r] = seated]
    BY Zenon, <1>18 DEF ReconnectRestore
  <2> HIDE DEF r, u
  <2>4. seated \in Room /\ seated.PendingJoins = room[r].PendingJoins
    BY Zenon, <2>1, ReseatFields
  <2> HIDE DEF seated
  <2>5. host \in Room /\ host.PendingJoins = seated.PendingJoins
    BY Zenon, <2>1, <2>4, AssignHostFields
  <2> HIDE DEF host
  <2>6. hosting.PendingJoins = host.PendingJoins
    BY Zenon, <2>5 DEF Room
  <2> HIDE DEF hosting
  <2>7. NoneAdded
    BY Zenon, <1>b, <2>1, <2>3, <2>4, <2>5, <2>6
  <2> QED
    BY Zenon, <2>1, <2>2, <2>7, OneUnrequested
<1>19. ASSUME NEW c \in Client, ReconnectFail(c)
       PROVE  RequestInv'
  <2>1. client[c].pendingRoom = None
    BY Zenon, <1>19, WaitingPc DEF ReconnectFail
  <2>2. client'[c].pendingRoom = None /\ \A d \in Client \ {c} : client'[d] = client[d]
    BY Zenon, <1>0, <1>19, <2>1 DEF ReconnectFail, TypeOK, ClientState
  <2> QED
    BY Zenon, <1>19, <1>a, <2>1, <2>2, OneUnrequested DEF ReconnectFail
<1>20. ASSUME TakeExpired
       PROVE  RequestInv'
  BY Zenon, <1>20, <1>a, RequestFrame DEF TakeExpired, SameRequest
<1>21. ASSUME NEW e \in expiring, ExpireSession(e)
       PROVE  RequestInv'
  <2> DEFINE r == e.room
             u == e.user
             gone == Forget(room[r], u)
             hosted == room[r].HostID = u
  <2>1. r \in Code /\ u \in UserID /\ room[r] \in Room /\ hosted \in BOOLEAN
    BY Zenon, <1>0, <1>f, <1>p
  <2>2. client \in [Client -> ClientState] /\ sessions \in [Token -> Session \cup {None}]
    BY Zenon, <1>0 DEF TypeOK
  <2>3. \/ client' = client /\ room' = room
        \/ \E next \in Succession(gone, hosted) : \/ DeleteRoom(r, next, client)
                                                  \/ Settle(r, next, client, sessions)
    BY Zenon, <1>21 DEF ExpireSession
  <2> HIDE DEF r, u, hosted
  <2>4. gone \in Room /\ gone.PendingJoins = room[r].PendingJoins
    BY Zenon, <2>1, ForgetFields
  <2> HIDE DEF gone
  <2>5. CASE client' = client /\ room' = room
    BY Zenon, <1>a, <2>5, RequestFrame DEF SameRequest
  <2>6. ASSUME NEW next \in Succession(gone, hosted),
               \/ DeleteRoom(r, next, client)
               \/ Settle(r, next, client, sessions)
        PROVE  RequestInv'
    <3>1. next \in Room /\ next.PendingJoins = room[r].PendingJoins
      <4>1. next \in Succession(gone, hosted)
        BY Zenon, <2>6
      <4> QED
        BY Zenon, <1>0, <2>1, <2>4, <4>1, SuccessionRequests
    <3>2. CASE DeleteRoom(r, next, client)
      BY Zenon, <2>1, <2>2, <3>1, <3>2, DeleteRoomRequests
    <3>3. CASE Settle(r, next, client, sessions) /\ HostlessDead(next)
      <4>1. CloseRoom(r, next, client, sessions)
        BY Zenon, <3>3 DEF Settle
      <4> QED
        BY Zenon, <2>1, <2>2, <3>1, <4>1, CloseRoomRequests
    <3>4. CASE Settle(r, next, client, sessions) /\ ~HostlessDead(next)
      <4>1. room' = [room EXCEPT ![r] = next] /\ client' = client
        BY Zenon, <3>4 DEF Settle
      <4>2. NoneAdded
        BY Zenon, <1>b, <2>1, <3>1, <4>1
      <4> QED
        BY Zenon, <4>1, <4>2, RequestFrame DEF SameRequest
    <3> QED
      BY Zenon, <2>6, <3>2, <3>3, <3>4
  <2> QED
    BY Zenon, <2>3, <2>5, <2>6
<1>22. ASSUME NEW r \in Code, FailoverHost(r)
       PROVE  RequestInv'
  <2> DEFINE rm == [room[r] EXCEPT !.OwnerID = IF @ = None THEN room[r].HostID ELSE @]
  <2>1. rm \in Room /\ rm.PendingJoins = room[r].PendingJoins
    <3> DEFINE x == room[r]
    <3>1. x \in Room /\ rm = [x EXCEPT !.OwnerID = IF @ = None THEN x.HostID ELSE @]
      BY Zenon, <1>0 DEF TypeOK
    <3> HIDE DEF rm, x
    <3>2. rm \in Room /\ rm.PendingJoins = x.PendingJoins
      BY Zenon, <3>1 DEF Room
    <3> QED
      BY Zenon, <3>2 DEF x
  <2>2. client' = client /\ \E u \in Deputies(room[r]) : room' = [room EXCEPT ![r] = AssignHost(rm, u)]
    BY Zenon, <1>22 DEF FailoverHost
  <2> HIDE DEF rm
  <2>3. PICK u \in Deputies(room[r]) : room' = [room EXCEPT ![r] = AssignHost(rm, u)]
    BY Zenon, <2>2
  <2>4. u \in UserID
    BY Zenon DEF Deputies, Connected
  <2>5. AssignHost(rm, u).PendingJoins = room[r].PendingJoins
    BY <2>1, <2>4, AssignHostFields
  <2>6. NoneAdded
    BY Zenon, <1>b, <2>3, <2>5
  <2> QED
    BY Zenon, <2>2, <2>6, RequestFrame DEF SameRequest
<1>23. ASSUME NEW r \in Code, CleanupEmptyRoom(r)
       PROVE  RequestInv'
  <2>1. CASE room' = [room EXCEPT ![r].EmptySince = 0] /\ UNCHANGED <<rooms, client>>
    <3>1. \A q \in Code : room'[q].PendingJoins = room[q].PendingJoins
      BY Zenon, <1>0, <2>1 DEF TypeOK, Room
    <3> QED
      BY Zenon, <2>1, <3>1, RequestFrame DEF SameRequest, NoneAdded
  <2>2. CASE DeleteRoom(r, room[r], client)
    <3>1. room[r] \in Room /\ client \in [Client -> ClientState]
      BY Zenon, <1>0 DEF TypeOK
    <3> QED
      BY Zenon, <2>2, <3>1, DeleteRoomRequests
  <2> QED
    BY Zenon, <1>23, <2>1, <2>2 DEF CleanupEmptyRoom
<1>24. ASSUME Tick
       PROVE  RequestInv'
  <2>0. \A x \in Room : \A h, m :
          [x EXCEPT !.HostDisconnectedAt = h, !.EmptySince = m].PendingJoins = x.PendingJoins
    BY Zenon DEF Room
  <2>1. ASSUME NEW q \in Code
        PROVE  room'[q].PendingJoins = room[q].PendingJoins
    <3>1. PICK h, m : room'[q] = [room[q] EXCEPT !.HostDisconnectedAt = h, !.EmptySince = m]
      BY Zenon, <1>24 DEF Tick
    <3>2. room[q] \in Room
      BY Zenon, <1>0 DEF TypeOK
    <3> QED
      BY <2>0, <3>1, <3>2
  <2> QED
    BY Zenon, <1>24, <2>1, RequestFrame DEF Tick, SameRequest, NoneAdded
<1>25. ASSUME Restart
       PROVE  RequestInv'
  <2>1. \A d \in Client : client'[d].pendingRoom = None
    BY Zenon, <1>25 DEF Restart, NoClient
  <2>2. \A q \in Code, w \in UserID : room'[q].PendingJoins[w] = None
    <3>1. \A q \in Code : room'[q] \in {RestoreRoom(q), NoRoom}
      BY Zenon, <1>25 DEF Restart
    <3>2. \A q \in Code : RestoreRoom(q).PendingJoins = NoMember
      BY Zenon DEF RestoreRoom, NoRoom
    <3>3. NoRoom.PendingJoins = NoMember
      BY Zenon DEF NoRoom
    <3> QED
      BY Zenon, <3>1, <3>2, <3>3 DEF NoMember
  <2> QED
    BY Zenon, <2>1, <2>2, NamesAssumption DEF RequestInv
<1> QED
  BY Zenon, <1>1, <1>2, <1>4, <1>5, <1>6, <1>7, <1>8, <1>10, <1>11, <1>12, <1>13, <1>15, <1>16, <1>17,
     <1>18, <1>19, <1>20, <1>21, <1>22, <1>23, <1>24, <1>25
     DEF Next, Running, ClientStep, TimerStep

-----------------------------------------------------------------------------
(* SeatInv: one lemma per action.                                          *)

\* Connection c, which is in no room, reads under the user ID u that is new.
Renamed(c, u) ==
    /\ Pc(c) \in {"gone", "idle"} /\ Pc(c)' = "idle"
    /\ FreshUserID(u) /\ ClientID(c)' = u
    /\ CurrentRoom(c) = None /\ CurrentRoom(c)' = None
    /\ SessionToken(c)' = SessionToken(c) /\ InHand(c)' = InHand(c)
    /\ \A d \in Client \ {c} : SameClient(d)
    /\ \A q \in Code : SameRoom(q)
    /\ \A x \in Token : SameSession(x)
    /\ UNCHANGED <<rooms, expiring>>

\* A generated user ID keeps SeatInv.
LEMMA RenamedInv ==
    ASSUME IInv, TypeOK', NEW c \in Client, NEW u \in UserID, Renamed(c, u)
    PROVE  SeatInv'
<1> SUFFICES ASSUME SeatsAgree, HostSeat, OwnerIsAway, PumpInv, FoundingInv, IdentityInv,
                    SeatTokenInv, OneSession, SessionSeat, AwayKnown,
                    ClientFacts, AttemptFacts, SeatFacts, HostFacts, SessionFacts,
                    ClientFacts', AttemptFacts', SeatFacts', HostFacts', SessionFacts'
             PROVE  SeatInv'
  BY TypeOKFacts, PTL DEF IInv, SeatInv, SessionInv, TypeFacts
<1>11. SeatsAgree'
  BY NamesAssumption
     DEF SeatsAgree, Renamed, PumpInv, SameClient, SameRoom, SameSeats, ClientFacts
<1>12. HostSeat'
  BY Zenon DEF HostSeat, Renamed, SameRoom, SameSeats, SameHost, HostFacts
<1>13. OwnerIsAway'
  BY Zenon DEF OwnerIsAway, Renamed, SameRoom, SameSeats, SameHost
<1>14. PumpInv'
  BY Zenon, NamesAssumption DEF PumpInv, Renamed, SameClient
<1>15. FoundingInv'
  BY DEF FoundingInv, Renamed, SameClient, SameRoom, SameSeats
<1>16. IdentityInv'
  BY DEF IdentityInv, Renamed, FreshUserID, Spent, SameClient, SameRoom, SameSeats,
     SeatFacts
<1>17. SeatTokenInv'
  BY DEF SeatTokenInv, Renamed, PumpInv, Spent, SameClient, SameSession, AttemptFacts
<1>18. OneSession'
  BY Zenon DEF OneSession, Renamed, SameSession
<1>19. SessionSeat'
  BY DEF SessionSeat, Renamed, SameClient, SameRoom, SameSeats, SameHost, SameSession,
     SessionFacts
<1>20. AwayKnown'
  BY DEF AwayKnown, Renamed, SameRoom, SameSeats, SameSession, SeatFacts
<1> QED
  BY Zenon, <1>11, <1>12, <1>13, <1>14, <1>15, <1>16, <1>17, <1>18, <1>19, <1>20
     DEF SeatInv, SessionInv

\* handleWebSocket gives a connection a new user ID and keeps SeatInv.
LEMMA ConnectInv ==
    ASSUME IInv, TypeOK', NEW c \in Client, Connect(c)
    PROVE  SeatInv'
<1> DEFINE x == [NoClient EXCEPT !.pc = "idle", !.id = NewUserID, !.closed = FALSE]
<1>1. NewUserID \in UserID /\ FreshUserID(NewUserID)
  BY Zenon, NewUserIDFresh DEF Connect
<1>2. /\ x \in ClientState /\ x.pc = "idle" /\ x.id = NewUserID /\ x.token = None
      /\ x.room = None /\ x.attempt = None
  BY Zenon, <1>1 DEF NoClient, ClientState
<1>3. client' = [client EXCEPT ![c] = x]
  BY Zenon DEF Connect
<1> HIDE DEF x
<1>4. /\ Pc(c)' = "idle" /\ ClientID(c)' = NewUserID /\ SessionToken(c)' = None
      /\ CurrentRoom(c)' = None /\ InHand(c)' = None
      /\ \A d \in Client \ {c} : SameClient(d)
  BY Zenon, <1>2, <1>3, ClientFields DEF IInv
<1>5. Pc(c) = "gone" /\ SessionToken(c) = None /\ CurrentRoom(c) = None /\ InHand(c) = None
  BY Zenon DEF Connect, Pc, IInv, SeatInv, PumpInv
<1> QED
  BY Zenon, <1>1, <1>4, <1>5, SameVars, RenamedInv DEF Connect, Renamed

\* leaveRoom without a room gives the connection a new user ID and keeps SeatInv.
LEMMA CancelJoinInv ==
    ASSUME IInv, TypeOK', NEW c \in Client, CancelJoin(c)
    PROVE  SeatInv'
<1>1. NewUserID \in UserID /\ FreshUserID(NewUserID)
  BY Zenon, NewUserIDFresh DEF CancelJoin
<1>2. /\ Pc(c) = "idle" /\ Pc(c)' = "idle" /\ CurrentRoom(c) = None /\ CurrentRoom(c)' = None
      /\ ClientID(c)' = NewUserID
      /\ SessionToken(c)' = SessionToken(c) /\ InHand(c)' = InHand(c)
      /\ \A d \in Client \ {c} : SameClient(d)
  BY DEF CancelJoin, Idle, SameClient, Pc, ClientID, SessionToken, CurrentRoom, InHand,
       IsClosed, TypeOK
<1>3. ClientID(c) \in UserID
  BY Zenon, <1>2, TypeOKFacts DEF IInv, SeatInv, PumpInv, ClientFacts, TypeFacts
<1>4. ASSUME NEW q \in Code PROVE SameRoom(q)
  <2> DEFINE u == ClientID(c)
  <2>1. room'[q] = room[q] \/ room'[q] = WithoutRequest(room[q], u)
    BY Zenon DEF CancelJoin, ClientID
  <2>2. u \in UserID /\ room[q] \in Room
    BY Zenon, <1>3 DEF IInv, TypeOK
  <2> DEFINE rm == WithoutRequest(room[q], u)
  <2> HIDE DEF u
  <2>3. /\ rm.Clients = room[q].Clients /\ rm.DisconnectedUsers = room[q].DisconnectedUsers
        /\ rm.Host = room[q].Host /\ rm.HostID = room[q].HostID
        /\ rm.HostDisconnectedAt = room[q].HostDisconnectedAt
        /\ rm.OwnerID = room[q].OwnerID
    BY Zenon, <2>2, WithoutRequestFields
  <2>4. room'[q] = room[q] \/ room'[q] = rm
    BY Zenon, <2>1
  <2> HIDE DEF rm
  <2> QED
    BY Zenon, <2>3, <2>4
       DEF SameRoom, SameSeats, SameHost, Seat, Away, OwnerIDOf, HostOf, HostIDOf,
         HostLost
<1> QED
  BY Zenon, <1>1, <1>2, <1>4, SameVars, RenamedInv DEF CancelJoin, Renamed

\* closeSend keeps SeatInv.
LEMMA CloseSendInv ==
    ASSUME IInv, TypeOK', NEW c \in Client, CloseSend(c)
    PROVE  SeatInv'
<1>1. \A d \in Client : SameClient(d)
  BY DEF CloseSend, SameClient, Pc, ClientID, SessionToken, CurrentRoom, InHand,
       IsClosed, IInv, TypeOK, ClientState
<1> QED
  BY Zenon, <1>1, SameVars, FrameInv DEF CloseSend

\* The first half of removeClient keeps SeatInv.
LEMMA RemoveClientInv ==
    ASSUME IInv, TypeOK', NEW c \in Client, RemoveClient(c)
    PROVE  SeatInv'
<1> SUFFICES ASSUME SeatsAgree, HostSeat, OwnerIsAway, PumpInv, FoundingInv, IdentityInv,
                    SeatTokenInv, OneSession, SessionSeat, AwayKnown,
                    ClientFacts, AttemptFacts, SeatFacts, HostFacts, SessionFacts
             PROVE  SeatInv'
  BY Zenon, TypeOKFacts DEF IInv, SeatInv, SessionInv, TypeFacts
<1>2. /\ Pc(c) \in {"idle", "stopping"} /\ Pc(c)' = "removing"
      /\ ClientID(c)' = ClientID(c) /\ SessionToken(c)' = SessionToken(c)
      /\ CurrentRoom(c)' = CurrentRoom(c) /\ InHand(c)' = InHand(c) /\ IsClosed(c)'
      /\ \A d \in Client \ {c} : SameClient(d)
  BY Zenon DEF RemoveClient, SameClient, Pc, ClientID, SessionToken, CurrentRoom, InHand,
     IsClosed, IInv, TypeOK, ClientState
<1>3. /\ \A q \in Code : SameRoom(q)
      /\ \A x \in Token : SameSession(x)
      /\ UNCHANGED <<rooms, expiring>>
  BY Zenon, SameVars DEF RemoveClient
<1>11. SeatsAgree'
  BY NamesAssumption, <1>2, <1>3
     DEF SeatsAgree, PumpInv, SameClient, SameRoom, SameSeats, ClientFacts
<1>12. HostSeat'
  BY Zenon, <1>3 DEF HostSeat, SameRoom, SameSeats, SameHost, HostFacts
<1>13. OwnerIsAway'
  BY Zenon, <1>3 DEF OwnerIsAway, SameRoom, SameSeats, SameHost
<1>14. PumpInv'
  BY Zenon, <1>2 DEF PumpInv, SameClient
<1>15. FoundingInv'
  BY <1>2, <1>3 DEF FoundingInv, SameClient, SameRoom, SameSeats
<1>16. \A d \in Client : Spent(d) => Spent(d)'
  BY Zenon, <1>2 DEF Spent, SameClient
<1>17. IdentityInv' /\ SeatTokenInv'
  <2>1. IdentityInv'
    <3>1. \A d \in Client : ClientID(d)' = ClientID(d)
      BY Zenon, <1>2 DEF SameClient
    <3>2. \A q \in Code : \A w \in Away(q)' : Seat(q, w)' = None
      BY <1>3 DEF SameRoom, SameSeats, IdentityInv, SeatFacts
    <3> QED
      BY Zenon, <1>3, <1>16, <3>1, <3>2, IdentityKept DEF SameRoom, SameSeats
  <2>2. SeatTokenInv'
    BY Zenon, <1>2, <1>3, <1>16, TokensKept DEF SameClient
  <2> QED
    BY Zenon, <2>1, <2>2
<1>18. SessionInv'
  <2>1. \A d \in Client : Pc(d) = "claimed" => Pc(d)' = "claimed" /\ InHand(d)' = InHand(d)
    BY Zenon, <1>2 DEF SameClient
  <2> QED
    BY Zenon, <1>3, <2>1, HeldSeatsKept DEF SameRoom, SameSeats, SameHost, SeatFacts
<1> QED
  BY Zenon, <1>11, <1>12, <1>13, <1>14, <1>15, <1>17, <1>18 DEF SeatInv

\* handleCreateRoom, before the room is published, keeps SeatInv.
LEMMA HandleCreateRoomInv ==
    ASSUME IInv, TypeOK', NEW c \in Client, HandleCreateRoom(c)
    PROVE  SeatInv'
<1>0. PICK u, r, t : u = ClientID(c) /\ r = NewCode /\ t = NewToken
  BY Zenon
<1> DEFINE rm == [NoRoom EXCEPT !.Clients[u] = c, !.Host = c, !.HostID = u,
                                !.Users = {[id |-> u, isHost |-> TRUE, isConnected |-> TRUE]}]
           a == [token |-> t, user |-> u, room |-> r]
<1> SUFFICES ASSUME SeatsAgree, HostSeat, OwnerIsAway, PumpInv, FoundingInv, IdentityInv,
                    SeatTokenInv, OneSession, SessionSeat, AwayKnown,
                    ClientFacts, AttemptFacts, SeatFacts, HostFacts, SessionFacts
             PROVE  SeatInv'
  BY Zenon, TypeOKFacts DEF IInv, SeatInv, SessionInv, TypeFacts
<1>2. r \in Code /\ FreshCode(r) /\ t \in Token /\ FreshToken(t)
  BY Zenon, <1>0, NewCodeFresh, NewTokenFresh DEF HandleCreateRoom
<1>3. /\ Pc(c) = "idle" /\ c \in CanHost /\ CurrentRoom(c) = None
      /\ UNCHANGED <<rooms, expiring>>
  BY Zenon DEF HandleCreateRoom, Idle, Pc, CurrentRoom
<1>3a. /\ room' = [room EXCEPT ![r] = rm]
       /\ client' = [client EXCEPT ![c].pc = "creating", ![c].room = r, ![c].attempt = a]
       /\ sessions' = sessions
  BY Zenon, <1>0 DEF HandleCreateRoom, ClientID
<1>4. u \in UserID
  BY Zenon, <1>0, <1>3 DEF PumpInv, ClientFacts
<1>5. a.token = t /\ a.user = u /\ a.room = r /\ a # None
  BY <1>2, <1>4, NilAssumption DEF Attempt
<1>6. /\ \A w \in UserID : rm.Clients[w] = IF w = u THEN c ELSE None
      /\ rm.DisconnectedUsers = {} /\ rm.OwnerID = None
      /\ rm.Host = c /\ rm.HostID = u /\ rm.HostDisconnectedAt = None
  BY Zenon, <1>4 DEF NoRoom, NoMember
<1> HIDE DEF rm, a
<1>7. /\ \A w \in UserID : Seat(r, w)' = IF w = u THEN c ELSE None
      /\ Away(r)' = {} /\ OwnerIDOf(r)' = None
      /\ HostOf(r)' = c /\ HostIDOf(r)' = u /\ HostLost(r)' = None
      /\ \A q \in Code \ {r} : SameRoom(q)
  BY Zenon, <1>2, <1>3a, <1>6, RoomFields DEF IInv
<1>8. /\ Pc(c)' = "creating" /\ CurrentRoom(c)' = r /\ InHand(c)' = a
      /\ ClientID(c)' = u /\ SessionToken(c)' = SessionToken(c)
      /\ \A d \in Client \ {c} : SameClient(d)
  BY <1>0, <1>3a
     DEF SameClient, Pc, ClientID, SessionToken, CurrentRoom, InHand, IsClosed, TypeOK
<1>9. \A x \in Token : SameSession(x)
  BY Zenon, <1>3a, SameVars
<1>11. SeatsAgree'
  BY NamesAssumption, <1>2, <1>3, <1>4, <1>5, <1>7, <1>8
     DEF SeatsAgree, FreshCode, PumpInv, SameClient, SameRoom, SameSeats, ClientFacts
<1>12. HostSeat'
  BY NamesAssumption, <1>3, <1>4, <1>7
     DEF HostSeat, SameRoom, SameSeats, SameHost, HostFacts
<1>13. OwnerIsAway'
  BY Zenon, <1>7 DEF OwnerIsAway, SameRoom, SameSeats, SameHost
<1>14. PumpInv'
  BY Zenon, NamesAssumption, <1>2, <1>4, <1>5, <1>8 DEF PumpInv, SameClient
<1>15. FoundingInv'
  BY <1>2, <1>3, <1>7, <1>8 DEF FoundingInv, FreshCode, SameClient, SameRoom, SameSeats
<1>16. IdentityInv'
  <2>1. \A d \in Client : ClientID(d)' = ClientID(d) /\ (Spent(d) => Spent(d)')
    BY Zenon, <1>0, <1>3, <1>8 DEF Spent, SameClient
  <2>2. \A q \in Code : Away(q)' \subseteq Away(q)
    BY Zenon, <1>7 DEF SameRoom, SameSeats
  <2>3. \A q \in Code : \A w \in Away(q)' : Seat(q, w)' = None
    BY <1>7 DEF SameRoom, SameSeats, IdentityInv, SeatFacts
  <2> QED
    BY Zenon, <1>3, <2>1, <2>2, <2>3, IdentityKept
<1>17. SeatTokenInv'
  <2>1. \A d \in Client : SessionToken(d)' = SessionToken(d) /\ (Spent(d)' <=> Spent(d))
    BY Zenon, <1>3, <1>8 DEF SameClient, Spent
  <2>2. \A x \in Token : HasSession(x)' <=> HasSession(x)
    BY Zenon, <1>9 DEF SameSession
  <2>3. /\ \A d \in Client : CurrentRoom(d)' # None /\ Pc(d)' # "creating" =>
             SessionToken(d)' # None
        /\ \A d \in Client : \A x \in Token : SessionToken(d)' = x /\ HasSession(x)' => Spent(d)'
        /\ \A d, e \in Client :
             d # e /\ SessionToken(d)' = SessionToken(e)' /\ SessionToken(d)' # None =>
               Spent(d)' \/ Spent(e)'
    BY Zenon, <1>8, <2>1, <2>2 DEF SeatTokenInv, SameClient
  <2>4. \A d \in Client : InHand(d)' # None =>
          d = c \/ (InHand(d)' = InHand(d) /\ InHand(d).token # t)
    BY Zenon, <1>2, <1>8 DEF FreshToken, SameClient
  <2>5. ASSUME NEW d \in Client, Pc(d)' = "creating"
        PROVE  /\ ~HasSession(InHand(d).token)'
               /\ \A e \in Client : SessionToken(e)' # InHand(d)'.token
               /\ \A e \in Client : e # d /\ InHand(e)' # None =>
                    InHand(e)'.token # InHand(d)'.token
    <3>1. CASE d = c
      BY Zenon, <3>1, <1>2, <1>5, <1>8, <2>1, <2>2, <2>4 DEF FreshToken
    <3>2. CASE d # c
      <4>1. /\ Pc(d) = "creating" /\ InHand(d)' = InHand(d) /\ InHand(d) # None
            /\ InHand(d).token \in Token /\ InHand(d).token # t
        BY Zenon, <3>2, <2>5, <1>2, <1>8 DEF SameClient, PumpInv, AttemptFacts, FreshToken
      <4> QED
        BY Zenon, <4>1, <1>5, <1>8, <2>1, <2>2, <2>4 DEF SeatTokenInv
    <3> QED
      BY Zenon, <3>1, <3>2
  <2>6. ASSUME NEW d \in Client, Pc(d)' = "claimed"
        PROVE  /\ \A e \in Client : SessionToken(e)' = InHand(d)'.token => Spent(e)'
               /\ HasSession(InHand(d).token)' => SessionClaim(InHand(d).token)' = d
    <3>1. /\ Pc(d) = "claimed" /\ InHand(d)' = InHand(d) /\ InHand(d) # None
          /\ InHand(d).token \in Token
      BY Zenon, <2>6, <1>8 DEF SameClient, PumpInv, AttemptFacts
    <3> QED
      BY Zenon, <3>1, <1>9, <2>1 DEF SeatTokenInv, SameSession
  <2> QED
    BY Zenon, <2>3, <2>5, <2>6 DEF SeatTokenInv
<1>18. SessionInv'
  <2>1. r \notin rooms
    BY Zenon, <1>2 DEF FreshCode
  <2>2. \A q \in rooms : Away(q)' = Away(q)
    BY Zenon, <2>1, <1>7 DEF SameRoom, SameSeats, SeatFacts
  <2>3. \A q \in rooms : HostIDOf(q)' = HostIDOf(q) /\ OwnerIDOf(q)' = OwnerIDOf(q)
    BY Zenon, <2>1, <1>7 DEF SameRoom, SameSeats, SameHost, SeatFacts
  <2>4. \A d \in Client : Pc(d) = "claimed" => Pc(d)' = "claimed" /\ InHand(d)' = InHand(d)
    BY Zenon, <1>3, <1>8 DEF SameClient
  <2> QED
    BY Zenon, <1>3, <1>9, <2>2, <2>3, <2>4, HeldSeatsKept DEF SeatFacts
<1> QED
  BY Zenon, <1>11, <1>12, <1>13, <1>14, <1>15, <1>16, <1>17, <1>18 DEF SeatInv

\* Publishing the room, or giving it up on a full server, keeps SeatInv.
LEMMA CreateRoomCommitInv ==
    ASSUME IInv, TypeOK', NEW c \in Client, CreateRoomCommit(c)
    PROVE  SeatInv'
<1>0. PICK a, r : a = InHand(c) /\ r = a.room
  BY Zenon
<1> DEFINE fits == Cardinality(rooms) < MaxRooms
           done == [client[c] EXCEPT !.pc = "idle", !.attempt = None, !.token = a.token]
<1> SUFFICES ASSUME SeatsAgree, HostSeat, OwnerIsAway, PumpInv, FoundingInv, IdentityInv,
                    SeatTokenInv, OneSession, SessionSeat, AwayKnown,
                    ClientFacts, AttemptFacts, SeatFacts, HostFacts, SessionFacts
             PROVE  SeatInv'
  BY Zenon, TypeOKFacts DEF IInv, SeatInv, SessionInv, TypeFacts
<1>2. /\ Pc(c) = "creating" /\ a # None /\ r \in Code /\ a.token \in Token
      /\ CurrentRoom(c) = r /\ expiring' = expiring
      /\ rooms' = IF fits THEN rooms \cup {r} ELSE rooms
  BY Zenon, <1>0 DEF CreateRoomCommit, Pc, InHand, PumpInv, AttemptFacts
<1>3. /\ room' = IF fits THEN room ELSE [room EXCEPT ![r] = NoRoom]
      /\ client' = [client EXCEPT ![c] = IF fits THEN done ELSE ClearRoom(done, r)]
  BY Zenon, <1>0 DEF CreateRoomCommit, InHand
<1>4. /\ done \in ClientState /\ done.pc = "idle" /\ done.attempt = None
      /\ done.token = a.token /\ done.room = r /\ done.id = ClientID(c)
  <2>1. client[c] \in ClientState /\ client[c].room = r /\ client[c].id = ClientID(c)
    BY Zenon, <1>2 DEF IInv, TypeOK, CurrentRoom, ClientID
  <2> QED
    BY Zenon, <1>2, <2>1 DEF ClientState
<1> DEFINE x == IF fits THEN done ELSE ClearRoom(done, r)
<1> HIDE DEF done, fits
<1>5. /\ x \in ClientState /\ x.pc = "idle" /\ x.attempt = None
      /\ x.token = a.token /\ x.id = ClientID(c)
      /\ x.room = IF fits THEN r ELSE None
  BY <1>2, <1>4, ClearRoomType
<1> HIDE DEF x
<1>6. /\ Pc(c)' = "idle" /\ ClientID(c)' = ClientID(c) /\ SessionToken(c)' = a.token
      /\ CurrentRoom(c)' = (IF fits THEN r ELSE None) /\ InHand(c)' = None
      /\ \A d \in Client \ {c} : SameClient(d)
  BY Zenon, <1>3, <1>5, ClientFields DEF x, IInv
<1>7. fits => \A q \in Code : SameRoom(q)
  BY Zenon, <1>3, SameVars
<1>8. ~fits => /\ \A w \in UserID : Seat(r, w)' = None
               /\ Away(r)' = {} /\ OwnerIDOf(r)' = None
               /\ HostOf(r)' = None /\ HostIDOf(r)' = None /\ HostLost(r)' = None
               /\ \A q \in Code \ {r} : SameRoom(q)
  <2>1. /\ NoRoom.DisconnectedUsers = {} /\ NoRoom.OwnerID = None /\ NoRoom.Host = None
        /\ NoRoom.HostID = None /\ NoRoom.HostDisconnectedAt = None
        /\ \A w \in UserID : NoRoom.Clients[w] = None
    BY Zenon DEF NoRoom, NoMember
  <2> QED
    BY Zenon, <1>2, <1>3, <2>1, NoRoomType, RoomFields DEF IInv
<1>9. \A y \in Token : SameSession(y)
  BY Zenon, SameVars DEF CreateRoomCommit
<1>10. /\ r \notin rooms /\ Away(r) = {}
       /\ \A d \in Client \ {c} : CurrentRoom(d) # r
  BY Zenon, <1>2 DEF FoundingInv, SeatFacts
<1>11. SeatsAgree'
  BY NamesAssumption, <1>2, <1>6, <1>7, <1>8, <1>10
     DEF SeatsAgree, PumpInv, SameClient, SameRoom, SameSeats, ClientFacts
<1>12. HostSeat'
  BY Zenon, <1>7, <1>8 DEF HostSeat, SameRoom, SameSeats, SameHost, HostFacts
<1>13. OwnerIsAway'
  BY Zenon, <1>7, <1>8 DEF OwnerIsAway, SameRoom, SameSeats, SameHost
<1>14. PumpInv'
  BY Zenon, <1>2, <1>6 DEF PumpInv, SameClient
<1>15. FoundingInv'
  BY NamesAssumption, <1>2, <1>6, <1>7, <1>8
     DEF FoundingInv, SameClient, SameRoom, SameSeats
<1>16. IdentityInv'
  <2>1. \A d \in Client : ClientID(d)' = ClientID(d) /\ (Spent(d) => Spent(d)')
    BY Zenon, <1>2, <1>6 DEF Spent, SameClient
  <2>2. \A q \in Code : Away(q)' \subseteq Away(q)
    BY Zenon, <1>7, <1>8 DEF SameRoom, SameSeats
  <2>3. \A q \in Code : \A w \in Away(q)' : Seat(q, w)' = None
    BY <1>7, <1>8 DEF SameRoom, SameSeats, IdentityInv, SeatFacts
  <2> QED
    BY Zenon, <1>2, <2>1, <2>2, <2>3, IdentityKept
<1>17. SeatTokenInv'
  <2>1. \A d \in Client : Spent(d)' <=> Spent(d)
    BY Zenon, <1>2, <1>6 DEF SameClient, Spent
  <2>2. /\ ~HasSession(a.token)
        /\ \A d \in Client : SessionToken(d) # a.token
        /\ \A d \in Client \ {c} : InHand(d) # None => InHand(d).token # a.token
    BY Zenon, <1>0, <1>2 DEF SeatTokenInv
  <2>3. \A y \in Token : HasSession(y)' <=> HasSession(y)
    BY Zenon, <1>9 DEF SameSession
  <2>4. a.token # None
    BY Zenon, <1>2, NamesAssumption
  <2>5. /\ \A d \in Client : CurrentRoom(d)' # None /\ Pc(d)' # "creating" =>
             SessionToken(d)' # None
        /\ \A d \in Client : \A y \in Token : SessionToken(d)' = y /\ HasSession(y)' => Spent(d)'
    BY Zenon, <1>6, <2>1, <2>2, <2>3, <2>4 DEF SeatTokenInv, SameClient
  <2>6. \A d, e \in Client :
          d # e /\ SessionToken(d)' = SessionToken(e)' /\ SessionToken(d)' # None =>
            Spent(d)' \/ Spent(e)'
    BY Zenon, <1>6, <2>1, <2>2 DEF SeatTokenInv, SameClient
  <2>7. \A d \in Client : Pc(d)' \in {"creating", "claimed"} =>
          /\ d # c /\ Pc(d)' = Pc(d) /\ InHand(d)' = InHand(d)
          /\ InHand(d) # None /\ InHand(d).token \in Token
    BY Zenon, <1>6 DEF SameClient, PumpInv, AttemptFacts
  <2>8. ASSUME NEW d \in Client, Pc(d)' = "creating"
        PROVE  /\ ~HasSession(InHand(d).token)'
               /\ \A e \in Client : SessionToken(e)' # InHand(d)'.token
               /\ \A e \in Client : e # d /\ InHand(e)' # None =>
                    InHand(e)'.token # InHand(d)'.token
    BY Zenon, <1>6, <2>2, <2>3, <2>7, <2>8 DEF SeatTokenInv, SameClient
  <2>9. ASSUME NEW d \in Client, Pc(d)' = "claimed"
        PROVE  /\ \A e \in Client : SessionToken(e)' = InHand(d)'.token => Spent(e)'
               /\ HasSession(InHand(d).token)' => SessionClaim(InHand(d).token)' = d
    BY Zenon, <1>6, <1>9, <2>1, <2>2, <2>7, <2>9 DEF SeatTokenInv, SameClient, SameSession
  <2> QED
    BY Zenon, <2>5, <2>6, <2>8, <2>9 DEF SeatTokenInv
<1>18. SessionInv'
  <2>1. /\ \A q \in rooms : Away(q)' = Away(q)
        /\ \A q \in rooms : HostIDOf(q)' = HostIDOf(q) /\ OwnerIDOf(q)' = OwnerIDOf(q)
    BY Zenon, <1>7, <1>8, <1>10 DEF SameRoom, SameSeats, SameHost, SeatFacts
  <2>2. rooms \subseteq rooms' /\ \A q \in rooms' \ rooms : Away(q)' = {}
    BY <1>2, <1>7, <1>10 DEF SameRoom, SameSeats
  <2>3. \A d \in Client : Pc(d) = "claimed" => Pc(d)' = "claimed" /\ InHand(d)' = InHand(d)
    BY Zenon, <1>2, <1>6 DEF SameClient
  <2> QED
    BY Zenon, <1>2, <1>9, <2>1, <2>2, <2>3, HeldSeatsKept DEF SeatFacts
<1> QED
  BY Zenon, <1>11, <1>12, <1>13, <1>14, <1>15, <1>16, <1>17, <1>18 DEF SeatInv

\* A join request keeps SeatInv.
LEMMA HandleJoinRoomInv ==
    ASSUME IInv, TypeOK', NEW c \in Client, NEW r \in Code, HandleJoinRoom(c, r)
    PROVE  SeatInv'
<1>1. \A d \in Client : SameClient(d)
  BY Zenon DEF HandleJoinRoom, SameClient, Pc, ClientID, SessionToken, CurrentRoom, InHand,
       IsClosed, IInv, TypeOK, ClientState
<1>2. \A q \in Code : SameRoom(q)
  BY DEF HandleJoinRoom, SameRoom, SameSeats, SameHost, Seat, Away, OwnerIDOf, HostOf,
       HostIDOf, HostLost
<1> QED
  BY Zenon, <1>1, <1>2, SameVars, FrameInv DEF HandleJoinRoom

\* The room of a host who may act, and what it says of the host.
LEMMA HostChecked ==
    ASSUME IInv, NEW c \in Client, Hosts(c), Idle(c)
    PROVE  \E r \in Code :
             /\ r = CurrentRoom(c) /\ r = client[c].room /\ r \in rooms
             /\ Pc(c) = "idle" /\ ClientID(c) \in UserID /\ HostOf(r) = c
             /\ Seat(r, ClientID(c)) = c /\ HostIDOf(r) = ClientID(c)
<1>1. TypeFacts
  BY Zenon, TypeOKFacts DEF IInv
<1>2. PICK r : r = CurrentRoom(c)
  BY Zenon
<1>3. /\ r # None /\ r \in Code /\ HostOf(r) = c /\ Pc(c) = "idle"
  BY Zenon, <1>1, <1>2 DEF Hosts, Idle, CurrentRoom, HostOf, Pc, ClientFacts, TypeFacts
<1>4. r \in rooms /\ ClientID(c) \in UserID /\ Seat(r, ClientID(c)) = c
  BY Zenon, <1>1, <1>2, <1>3
     DEF IInv, SeatInv, SeatsAgree, PumpInv, ClientFacts, TypeFacts
<1>5. HostIDOf(r) = ClientID(c)
  BY Zenon, <1>1, <1>3, NamesAssumption
     DEF IInv, SeatInv, SeatsAgree, HostSeat, HostFacts, TypeFacts
<1> QED
  BY Zenon, <1>2, <1>3, <1>4, <1>5 DEF CurrentRoom

\* Taking a join request back changes nobody's seat and nobody's connection.
LEMMA RequestGone ==
    ASSUME TypeOK, NEW r \in Code, NEW u \in UserID, NEW j \in Client,
           room' = [room EXCEPT ![r] = WithoutRequest(room[r], u)],
           client' = [client EXCEPT ![j] = ClearPendingRoom(client[j], r)]
    PROVE  /\ \A d \in Client : SameClient(d)
           /\ \A q \in Code : SameRoom(q)
<1> DEFINE rm == WithoutRequest(room[r], u)
           x == ClearPendingRoom(client[j], r)
<1>1. /\ rm.Clients = room[r].Clients /\ rm.DisconnectedUsers = room[r].DisconnectedUsers
      /\ rm.Host = room[r].Host /\ rm.HostID = room[r].HostID
      /\ rm.HostDisconnectedAt = room[r].HostDisconnectedAt /\ rm.OwnerID = room[r].OwnerID
  <2>1. room[r] \in Room
    BY Zenon DEF TypeOK
  <2> QED
    BY Zenon, <2>1, WithoutRequestFields
<1>2. /\ x.pc = client[j].pc /\ x.id = client[j].id /\ x.token = client[j].token
      /\ x.room = client[j].room /\ x.attempt = client[j].attempt
      /\ x.closed = client[j].closed
  <2>1. client[j] \in ClientState
    BY Zenon DEF TypeOK
  <2> QED
    BY <2>1, ClearPendingRoomType
<1> HIDE DEF rm, x
<1>3. room'[r] = rm /\ \A q \in Code \ {r} : room'[q] = room[q]
  BY Zenon DEF TypeOK, rm
<1>4. client'[j] = x /\ \A d \in Client \ {j} : client'[d] = client[d]
  BY Zenon DEF TypeOK, x
<1>5. \A d \in Client : SameClient(d)
  BY Zenon, <1>2, <1>4
     DEF SameClient, Pc, ClientID, SessionToken, CurrentRoom, InHand, IsClosed
<1>6. \A q \in Code : SameRoom(q)
  BY Zenon, <1>1, <1>3
     DEF SameRoom, SameSeats, SameHost, Seat, Away, OwnerIDOf, HostOf, HostIDOf,
       HostLost
<1> QED
  BY Zenon, <1>5, <1>6

\* handleRejectJoin keeps SeatInv.
LEMMA HandleRejectJoinInv ==
    ASSUME IInv, TypeOK', NEW c \in Client, NEW u \in UserID, HandleRejectJoin(c, u)
    PROVE  SeatInv'
<1>1. PICK r \in Code : r = client[c].room
  BY Zenon, HostChecked DEF HandleRejectJoin
<1>2. PICK j \in Client : j = room[r].PendingJoins[u]
  <2>1. room[r] \in Room /\ room[r].PendingJoins[u] # None
    BY Zenon, <1>1 DEF HandleRejectJoin, IInv, TypeOK
  <2> QED
    BY Zenon, <2>1 DEF Room
<1>3. /\ room' = [room EXCEPT ![r] = WithoutRequest(room[r], u)]
      /\ client' = [client EXCEPT ![j] = ClearPendingRoom(client[j], r)]
  BY Zenon, <1>1, <1>2 DEF HandleRejectJoin
<1> QED
  BY Zenon, <1>3, RequestGone, SameVars, FrameInv DEF HandleRejectJoin, IInv

\* Connection j, in no room, is seated as u in room r under the new token t: what
\* changes about the connection and in the room. The sessions are as before.
SeatTaken(j, r, u, t) ==
    /\ Pc(j) = "idle" /\ CurrentRoom(j) = None /\ ClientID(j) = u
    /\ FreshToken(t)
    /\ CurrentRoom(j)' = r /\ SessionToken(j)' = t
    /\ Pc(j)' = Pc(j) /\ ClientID(j)' = u /\ InHand(j)' = InHand(j)
    /\ \A d \in Client \ {j} : SameClient(d)

SeatFilled(j, r, u) ==
    /\ r \in rooms /\ Seat(r, u) = None
    /\ \A w \in UserID : Seat(r, w)' = IF w = u THEN j ELSE Seat(r, w)
    /\ Away(r)' = Away(r) /\ OwnerIDOf(r)' = OwnerIDOf(r) /\ SameHost(r)
    /\ \A q \in Code \ {r} : SameRoom(q)

Seated(j, r, u, t) ==
    /\ SeatTaken(j, r, u, t)
    /\ SeatFilled(j, r, u)
    /\ \A x \in Token : SameSession(x)
    /\ UNCHANGED <<rooms, expiring>>

\* A new member keeps SeatInv.
LEMMA SeatedInv ==
    ASSUME IInv, TypeOK', NEW j \in Client, NEW r \in Code, NEW u \in UserID,
           NEW t \in Token, Seated(j, r, u, t)
    PROVE  SeatInv'
<1> SUFFICES ASSUME SeatsAgree, HostSeat, OwnerIsAway, PumpInv, FoundingInv, IdentityInv,
                    SeatTokenInv, OneSession, SessionSeat, AwayKnown,
                    ClientFacts, AttemptFacts, SeatFacts, HostFacts, SessionFacts,
                    SeatTaken(j, r, u, t), SeatFilled(j, r, u),
                    \A x \in Token : SameSession(x), rooms' = rooms, expiring' = expiring
             PROVE  SeatInv'
  BY Zenon, TypeOKFacts DEF IInv, SeatInv, SessionInv, TypeFacts, Seated
<1>2. \A q \in Code : u \notin Away(q)
  BY Zenon DEF IdentityInv, Spent, SeatTaken
<1>3. \A q \in Code : Away(q)' = Away(q) /\ OwnerIDOf(q)' = OwnerIDOf(q) /\ SameHost(q)
  BY Zenon DEF SeatFilled, SameRoom, SameSeats
<1>11. SeatsAgree'
  BY NamesAssumption
     DEF SeatsAgree, SeatTaken, SeatFilled, PumpInv, SameClient, SameRoom, SameSeats,
       ClientFacts
<1>12. HostSeat'
  BY NamesAssumption DEF HostSeat, SeatFilled, SameRoom, SameSeats, SameHost, HostFacts
<1>13. OwnerIsAway'
  BY Zenon, <1>3 DEF OwnerIsAway, SameHost
<1>14. PumpInv'
  BY Zenon DEF PumpInv, SeatTaken, SameClient
<1>15. FoundingInv'
  BY <1>3 DEF FoundingInv, SeatTaken, SeatFilled, SameClient
<1>16. IdentityInv'
  <2>1. \A d \in Client : ClientID(d)' = ClientID(d) /\ (Spent(d) => Spent(d)')
    BY Zenon DEF Spent, SeatTaken, SameClient
  <2>2. \A q \in Code : \A w \in Away(q)' : Seat(q, w)' = None
    BY <1>2, <1>3 DEF SeatFilled, SameRoom, SameSeats, IdentityInv, SeatFacts
  <2> QED
    BY Zenon, <1>3, <2>1, <2>2, IdentityKept
<1>17. SeatTokenInv'
  <2>1. \A d \in Client : Spent(d)' <=> Spent(d)
    BY Zenon DEF SeatTaken, SameClient, Spent
  <2>2. t # None
    BY Zenon, NamesAssumption
  <2>3. \A x \in Token : HasSession(x)' <=> HasSession(x)
    BY Zenon DEF SameSession
  <2>4. /\ \A d \in Client : CurrentRoom(d)' # None /\ Pc(d)' # "creating" =>
             SessionToken(d)' # None
        /\ \A d \in Client : \A y \in Token : SessionToken(d)' = y /\ HasSession(y)' => Spent(d)'
    BY Zenon, <2>1, <2>2, <2>3 DEF SeatTokenInv, SeatTaken, FreshToken, SameClient
  <2>5. \A d, e \in Client :
          d # e /\ SessionToken(d)' = SessionToken(e)' /\ SessionToken(d)' # None =>
            Spent(d)' \/ Spent(e)'
    BY Zenon, <2>1 DEF SeatTokenInv, SeatTaken, FreshToken, SameClient
  <2>6. \A d \in Client : InHand(d)' = InHand(d) /\ Pc(d)' = Pc(d)
    BY Zenon DEF SeatTaken, SameClient
  <2>7. \A d \in Client : Pc(d) \in {"creating", "claimed"} =>
          InHand(d) # None /\ InHand(d).token \in Token /\ InHand(d).token # t
    BY Zenon DEF SeatTaken, FreshToken, PumpInv, AttemptFacts
  <2>8. ASSUME NEW d \in Client, Pc(d)' = "creating"
        PROVE  /\ ~HasSession(InHand(d).token)'
               /\ \A e \in Client : SessionToken(e)' # InHand(d)'.token
               /\ \A e \in Client : e # d /\ InHand(e)' # None =>
                    InHand(e)'.token # InHand(d)'.token
    BY Zenon, <2>3, <2>6, <2>7, <2>8 DEF SeatTokenInv, SeatTaken, SameClient
  <2>9. ASSUME NEW d \in Client, Pc(d)' = "claimed"
        PROVE  /\ \A e \in Client : SessionToken(e)' = InHand(d)'.token => Spent(e)'
               /\ HasSession(InHand(d).token)' => SessionClaim(InHand(d).token)' = d
    BY Zenon, <2>1, <2>6, <2>7, <2>9 DEF SeatTokenInv, SeatTaken, SameClient, SameSession
  <2> QED
    BY Zenon, <2>4, <2>5, <2>8, <2>9 DEF SeatTokenInv
<1>18. SessionInv'
  <2>1. \A d \in Client : Pc(d) = "claimed" => Pc(d)' = "claimed" /\ InHand(d)' = InHand(d)
    BY Zenon DEF SeatTaken, SameClient
  <2> QED
    BY Zenon, <1>3, <2>1, HeldSeatsKept DEF SameHost, SeatFacts
<1> QED
  BY Zenon, <1>11, <1>12, <1>13, <1>14, <1>15, <1>16, <1>17, <1>18 DEF SeatInv

\* handleApproveJoin keeps SeatInv, whether it seats the applicant or drops a
\* request that is no longer good.
LEMMA HandleApproveJoinInv ==
    ASSUME IInv, TypeOK', NEW c \in Client, NEW u \in UserID, HandleApproveJoin(c, u)
    PROVE  SeatInv'
<1>1. PICK r \in Code : r = client[c].room /\ r \in rooms
  BY Zenon, HostChecked DEF HandleApproveJoin
<1>2. PICK j \in Client : j = room[r].PendingJoins[u]
  <2>1. room[r] \in Room /\ room[r].PendingJoins[u] # None
    BY Zenon, <1>1 DEF HandleApproveJoin, IInv, TypeOK
  <2> QED
    BY Zenon, <2>1 DEF Room
<1>3. room[r] \in Room /\ client[j] \in ClientState
  BY Zenon DEF IInv, TypeOK
<1>4. /\ PendingRoom(j) = r /\ ClientID(j) = u /\ CurrentRoom(j) = None
      /\ Pc(j) \in {"idle", "removing"}
  BY <1>2, NamesAssumption
     DEF IInv, RequestInv, PendingRoom, ClientID, CurrentRoom, Pc
<1> DEFINE full == RoomMembers(room[r]) >= MaxClientsPerRoom
           gone == client[j].closed \/ (~full /\ client[j].room # None)
           dropped == WithoutRequest(room[r], u)
<1>5. CASE gone
  <2>1. /\ room' = [room EXCEPT ![r] = WithoutRequest(room[r], u)]
        /\ client' = [client EXCEPT ![j] = ClearPendingRoom(client[j], r)]
    BY Zenon, <1>1, <1>2, <1>5 DEF HandleApproveJoin
  <2> QED
    BY Zenon, <2>1, RequestGone, SameVars, FrameInv DEF HandleApproveJoin, IInv
<1>6. CASE ~gone
  <2> DEFINE x == ClearPendingRoom(client[j], r)
             y == [x EXCEPT !.room = r, !.token = NewToken]
             rm == Admit(dropped, j, u)
  <2>1. /\ \E t \in Token : FreshToken(t)
        /\ client' = [client EXCEPT ![j] = y]
        /\ room' = [room EXCEPT ![r] = Admit(dropped, j, client[j].id)]
        /\ ~client[j].closed
    BY Zenon, <1>1, <1>2, <1>6 DEF HandleApproveJoin
  <2>2. PICK t \in Token : t = NewToken /\ FreshToken(t)
    BY Zenon, <2>1, NewTokenFresh
  <2>3. /\ y.pc = client[j].pc /\ y.id = client[j].id /\ y.attempt = client[j].attempt
        /\ y.room = r /\ y.token = t
    <3>1. /\ x \in ClientState /\ x.pc = client[j].pc /\ x.id = client[j].id
          /\ x.attempt = client[j].attempt
      BY <1>3, ClearPendingRoomType
    <3> HIDE DEF x
    <3> QED
      BY Zenon, <2>2, <3>1 DEF ClientState
  <2>4. /\ rm.Clients = [room[r].Clients EXCEPT ![u] = j]
        /\ rm.DisconnectedUsers = room[r].DisconnectedUsers /\ rm.OwnerID = room[r].OwnerID
        /\ rm.Host = room[r].Host /\ rm.HostID = room[r].HostID
        /\ rm.HostDisconnectedAt = room[r].HostDisconnectedAt
    <3>1. /\ dropped \in Room /\ dropped.Clients = room[r].Clients
          /\ dropped.DisconnectedUsers = room[r].DisconnectedUsers
          /\ dropped.OwnerID = room[r].OwnerID /\ dropped.Host = room[r].Host
          /\ dropped.HostID = room[r].HostID
          /\ dropped.HostDisconnectedAt = room[r].HostDisconnectedAt
      BY Zenon, <1>3, WithoutRequestFields
    <3> HIDE DEF dropped
    <3>2. /\ rm.Clients = [dropped.Clients EXCEPT ![u] = j]
          /\ rm.DisconnectedUsers = dropped.DisconnectedUsers /\ rm.OwnerID = dropped.OwnerID
          /\ rm.Host = dropped.Host /\ rm.HostID = dropped.HostID
          /\ rm.HostDisconnectedAt = dropped.HostDisconnectedAt
      BY Zenon, <3>1, AdmitFields
    <3> HIDE DEF rm
    <3> QED
      BY Zenon, <3>1, <3>2
  <2>5. room' = [room EXCEPT ![r] = rm]
    BY Zenon, <2>1, <1>4 DEF ClientID
  <2> HIDE DEF y, rm
  <2>6. /\ Pc(j)' = Pc(j) /\ ClientID(j)' = ClientID(j) /\ InHand(j)' = InHand(j)
        /\ CurrentRoom(j)' = r /\ SessionToken(j)' = t
        /\ \A d \in Client \ {j} : SameClient(d)
    BY Zenon, <2>1, <2>3, ClientFields DEF IInv, Pc, ClientID, InHand
  <2>7. /\ \A w \in UserID : rm.Clients[w] = IF w = u THEN j ELSE Seat(r, w)
        /\ rm.DisconnectedUsers = Away(r) /\ rm.OwnerID = OwnerIDOf(r)
        /\ rm.Host = HostOf(r) /\ rm.HostID = HostIDOf(r)
        /\ rm.HostDisconnectedAt = HostLost(r)
    BY Zenon, <1>3, <2>4 DEF Room, Seat, Away, OwnerIDOf, HostOf, HostIDOf, HostLost
  <2>8. /\ \A w \in UserID : Seat(r, w)' = IF w = u THEN j ELSE Seat(r, w)
        /\ Away(r)' = Away(r) /\ OwnerIDOf(r)' = OwnerIDOf(r) /\ HostOf(r)' = HostOf(r)
        /\ HostIDOf(r)' = HostIDOf(r) /\ HostLost(r)' = HostLost(r)
        /\ \A q \in Code \ {r} : SameRoom(q)
    BY Zenon, <2>5, <2>7, RoomFields DEF IInv
  <2>9. Pc(j) = "idle"
    BY Zenon, <1>4, <2>1 DEF IInv, SeatInv, PumpInv, IsClosed
  <2>10. Seat(r, u) = None
    <3>1. Seat(r, u) \in Client \cup {None}
      BY Zenon, TypeOKFacts DEF IInv, SeatFacts, TypeFacts
    <3> QED
      BY <3>1, <1>4, NamesAssumption, <2>9
         DEF IInv, SeatInv, SeatsAgree, IdentityInv, Spent
  <2>11. Seated(j, r, u, t)
    <3>1. SeatTaken(j, r, u, t)
      BY Zenon, <1>1, <1>4, <2>2, <2>6, <2>9 DEF SeatTaken
    <3>2. SeatFilled(j, r, u)
      BY Zenon, <1>1, <2>8, <2>10 DEF SeatFilled, SameHost
    <3> QED
      BY Zenon, <3>1, <3>2, SameVars DEF HandleApproveJoin, Seated
  <2> QED
    BY Zenon, <2>2, <2>11, SeatedInv
<1> QED
  BY Zenon, <1>5, <1>6

\* handleTransferHost keeps SeatInv.
LEMMA HandleTransferHostInv ==
    ASSUME IInv, TypeOK', NEW c \in Client, NEW u \in UserID, HandleTransferHost(c, u)
    PROVE  SeatInv'
<1>1. PICK r \in Code : r = client[c].room
  BY Zenon, HostChecked DEF HandleTransferHost
<1> DEFINE was == [room[r] EXCEPT !.OwnerID = None]
           rm == AssignHost(was, u)
<1>2. /\ was \in Room /\ was.Clients = room[r].Clients /\ was.OwnerID = None
      /\ was.DisconnectedUsers = room[r].DisconnectedUsers
  <2>1. room[r] \in Room
    BY Zenon DEF IInv, TypeOK
  <2> QED
    BY Zenon, <2>1 DEF Room
<1>3. /\ room' = [room EXCEPT ![r] = rm] /\ room[r].Clients[u] \in CanHost
      /\ UNCHANGED <<rooms, client, sessions, expiring>>
  BY Zenon, <1>1 DEF HandleTransferHost
<1> HIDE DEF was
<1>4. /\ rm.Clients = was.Clients /\ rm.DisconnectedUsers = was.DisconnectedUsers
      /\ rm.OwnerID = None /\ rm.Host = was.Clients[u] /\ rm.HostID = u
      /\ rm.HostDisconnectedAt = None
  BY <1>2, AssignHostFields, NamesAssumption
<1> HIDE DEF rm
<1>5. /\ \A w \in UserID : rm.Clients[w] = Seat(r, w)
      /\ rm.DisconnectedUsers = Away(r) /\ rm.Host = Seat(r, u)
  BY Zenon, <1>2, <1>4 DEF Seat, Away
<1>6. /\ \A w \in UserID : Seat(r, w)' = Seat(r, w)
      /\ Away(r)' = Away(r) /\ OwnerIDOf(r)' = None
      /\ HostOf(r)' = Seat(r, u) /\ HostIDOf(r)' = u /\ HostLost(r)' = None
      /\ \A q \in Code \ {r} : SameRoom(q)
  BY Zenon, <1>3, <1>4, <1>5, RoomFields DEF IInv
<1>7. Seat(r, u) \in CanHost
  BY Zenon, <1>3 DEF Seat
<1>8. HostMoved(r, u, None)
  <2>1. HostGiven(r, u, None)
    BY Zenon, <1>6, <1>7 DEF HostGiven
  <2> QED
    BY Zenon, <1>3, <2>1, SameVars DEF HostMoved
<1> QED
  BY Zenon, <1>8, HostMovedInv

\* handleKickUser keeps SeatInv, whether the member is connected or away.
LEMMA HandleKickUserInv ==
    ASSUME IInv, TypeOK', NEW c \in Client, NEW u \in UserID, HandleKickUser(c, u)
    PROVE  SeatInv'
<1>1. PICK r \in Code : /\ r = client[c].room /\ r \in rooms /\ HostOf(r) = c
                        /\ HostIDOf(r) = ClientID(c) /\ Seat(r, ClientID(c)) = c
  BY Zenon, HostChecked DEF HandleKickUser
<1>2. room[r] \in Room /\ TypeFacts
  BY Zenon, TypeOKFacts DEF IInv, TypeOK
<1>3. u # ClientID(c) /\ HostIDOf(r) # u /\ UNCHANGED <<rooms, expiring>>
  BY Zenon, <1>1 DEF HandleKickUser, ClientID
<1>4. CASE room[r].Clients[u] # None
  <2>1. PICK k \in Client : k = room[r].Clients[u]
    BY Zenon, <1>2, <1>4 DEF Room
  <2> DEFINE x == ClearRoom(client[k], r)
             rm == Unseat(room[r], u)
  <2>2. /\ client' = [client EXCEPT ![k] = x]
        /\ room' = [room EXCEPT ![r] = rm]
        /\ sessions' = sessions
    BY Zenon, <1>1, <1>4, <2>1 DEF HandleKickUser
  <2>3. CurrentRoom(k) = r /\ ClientID(k) = u /\ k # c /\ Pc(k) # "creating"
    <3>1. Seat(r, u) = k
      BY Zenon, <2>1 DEF Seat
    <3> QED
      BY <3>1, <1>1, <1>3 DEF IInv, SeatInv, SeatsAgree, FoundingInv
  <2>4. /\ x.pc = client[k].pc /\ x.id = client[k].id /\ x.token = client[k].token
        /\ x.attempt = client[k].attempt /\ x.closed = client[k].closed /\ x.room = None
    <3>1. client[k] \in ClientState /\ client[k].room = r
      BY Zenon, <2>3 DEF IInv, TypeOK, CurrentRoom
    <3> QED
      BY Zenon, <3>1, ClearRoomType
  <2>5. /\ rm.Clients = [room[r].Clients EXCEPT ![u] = None]
        /\ rm.DisconnectedUsers = room[r].DisconnectedUsers
        /\ rm.OwnerID = IF room[r].OwnerID = u THEN None ELSE room[r].OwnerID
        /\ rm.Host = room[r].Host /\ rm.HostID = room[r].HostID
        /\ rm.HostDisconnectedAt = room[r].HostDisconnectedAt
    BY Zenon, <1>2, UnseatFields
  <2> HIDE DEF x, rm
  <2>6. /\ Pc(k)' = Pc(k) /\ ClientID(k)' = ClientID(k)
        /\ SessionToken(k)' = SessionToken(k) /\ IsClosed(k)' = IsClosed(k)
        /\ InHand(k)' = InHand(k) /\ CurrentRoom(k)' = None
        /\ \A d \in Client \ {k} : SameClient(d)
    BY Zenon, <2>2, <2>4, ClientFields
       DEF IInv, Pc, ClientID, SessionToken, InHand, IsClosed
  <2>7. OwnerIDOf(r) # u
    BY Zenon, <2>3, NamesAssumption DEF IInv, SeatInv, OwnerIsAway, IdentityInv, Spent
  <2>8. /\ \A w \in UserID : rm.Clients[w] = IF w = u THEN None ELSE Seat(r, w)
        /\ rm.DisconnectedUsers = Away(r) /\ rm.OwnerID = OwnerIDOf(r)
        /\ rm.Host = HostOf(r) /\ rm.HostID = HostIDOf(r)
        /\ rm.HostDisconnectedAt = HostLost(r)
    BY Zenon, <1>2, <2>5, <2>7 DEF Room, Seat, Away, OwnerIDOf, HostOf, HostIDOf, HostLost
  <2>9. /\ \A w \in UserID : Seat(r, w)' = IF w = u THEN None ELSE Seat(r, w)
        /\ Away(r)' = Away(r) /\ OwnerIDOf(r)' = OwnerIDOf(r) /\ SameHost(r)
        /\ \A q \in Code \ {r} : SameRoom(q)
    <3>1. /\ \A w \in UserID : Seat(r, w)' = rm.Clients[w]
          /\ Away(r)' = rm.DisconnectedUsers /\ OwnerIDOf(r)' = rm.OwnerID
          /\ HostOf(r)' = rm.Host /\ HostIDOf(r)' = rm.HostID
          /\ HostLost(r)' = rm.HostDisconnectedAt
          /\ \A q \in Code \ {r} : SameRoom(q)
      BY Zenon, <2>2, RoomFields DEF IInv
    <3> QED
      BY Zenon, <2>8, <3>1 DEF SameHost
  <2>10. MemberLeft(k, r, u)
    <3>1. SeatEmptied(k, r, u)
      BY Zenon, <1>1, <2>3, <2>9 DEF SeatEmptied
    <3>2. SeatLeft(k, r, u)
      BY Zenon, <2>3, <2>6 DEF SeatLeft
    <3> QED
      BY Zenon, <1>3, <2>2, <3>1, <3>2, SameVars DEF MemberLeft
  <2> QED
    BY Zenon, <2>10, MemberLeftInv
<1>5. CASE room[r].Clients[u] = None
  <2> DEFINE rm == Forget(room[r], u)
  <2>1. /\ room' = [room EXCEPT ![r] = rm]
        /\ u \in room[r].DisconnectedUsers
        /\ \A t \in Token : sessions'[t] =
             IF sessions[t] # None /\ sessions[t].room = r /\ sessions[t].user = u
               THEN None ELSE sessions[t]
        /\ client' = client
    BY Zenon, <1>1, <1>5 DEF HandleKickUser
  <2>2. u \in Away(r)
    BY Zenon, <2>1 DEF Away
  <2>3. /\ rm.Clients = room[r].Clients
        /\ rm.DisconnectedUsers = room[r].DisconnectedUsers \ {u}
        /\ rm.OwnerID = IF room[r].OwnerID = u THEN None ELSE room[r].OwnerID
        /\ rm.Host = room[r].Host /\ rm.HostID = room[r].HostID
        /\ rm.HostDisconnectedAt = room[r].HostDisconnectedAt
    BY Zenon, <1>2, ForgetFields
  <2> HIDE DEF rm
  <2>4. /\ \A w \in UserID : rm.Clients[w] = Seat(r, w)
        /\ rm.DisconnectedUsers = Away(r) \ {u}
        /\ rm.OwnerID = IF OwnerIDOf(r) = u THEN None ELSE OwnerIDOf(r)
        /\ rm.Host = HostOf(r) /\ rm.HostID = HostIDOf(r)
        /\ rm.HostDisconnectedAt = HostLost(r)
    BY Zenon, <2>3 DEF Seat, Away, OwnerIDOf, HostOf, HostIDOf, HostLost
  <2>5. /\ \A w \in UserID : Seat(r, w)' = Seat(r, w)
        /\ Away(r)' = Away(r) \ {u} /\ SameHost(r)
        /\ OwnerIDOf(r)' = IF OwnerIDOf(r) = u THEN None ELSE OwnerIDOf(r)
        /\ \A q \in Code \ {r} : SameRoom(q)
    <3>1. /\ \A w \in UserID : Seat(r, w)' = rm.Clients[w]
          /\ Away(r)' = rm.DisconnectedUsers /\ OwnerIDOf(r)' = rm.OwnerID
          /\ HostOf(r)' = rm.Host /\ HostIDOf(r)' = rm.HostID
          /\ HostLost(r)' = rm.HostDisconnectedAt
          /\ \A q \in Code \ {r} : SameRoom(q)
      <4>1. room' = [room EXCEPT ![r] = rm] /\ TypeOK
        BY Zenon, <2>1 DEF IInv
      <4> QED
        BY Zenon, <4>1, RoomFields
    <3> QED
      BY Zenon, <2>4, <3>1 DEF SameHost
  <2>6. \A t \in Token : IF HasSession(t) /\ SessionRoom(t) = r /\ SessionUser(t) = u
                           THEN ~HasSession(t)' ELSE SameSession(t)
    BY Zenon, <2>1 DEF HasSession, SessionRoom, SessionUser, SameSession, SessionHost, SessionClaim
  <2>7. \A t \in Token : HasSession(t) /\ SessionUser(t) = u => SessionRoom(t) = r
    BY <2>2, <1>2
       DEF IInv, SeatInv, SessionInv, SessionSeat, IdentityInv, SessionFacts, TypeFacts
  <2>8. SeatForgotten(r, u)
    <3>1. HeldSeatEmptied(r, u)
      BY Zenon, <1>1, <1>3, <2>2, <2>5 DEF HeldSeatEmptied
    <3>2. UserForgotten(u)
      BY Zenon, <1>3, <2>6, <2>7 DEF UserForgotten
    <3> QED
      BY Zenon, <1>3, <2>1, <3>1, <3>2, SameVars DEF SeatForgotten
  <2> QED
    BY Zenon, <2>8, SeatForgottenInv
<1> QED
  BY Zenon, <1>4, <1>5

=============================================================================
