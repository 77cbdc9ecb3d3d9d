--------------------------- MODULE MembershipSteps ---------------------------
(***************************************************************************)
(* What the helpers of Membership return; that every action keeps TypeOK;  *)
(* and that the changes of state several actions share keep SeatInv: a     *)
(* seat becomes held, is given up, a room goes.                            *)
(***************************************************************************)
EXTENDS Membership, TLAPS

\* generateUserID returns an ID nothing refers to.
LEMMA NewUserIDFresh ==
    ASSUME \E u \in UserID : FreshUserID(u)
    PROVE  NewUserID \in UserID /\ FreshUserID(NewUserID)
BY Zenon DEF NewUserID

\* generateSessionToken returns a token nothing refers to.
LEMMA NewTokenFresh ==
    ASSUME \E t \in Token : FreshToken(t)
    PROVE  NewToken \in Token /\ FreshToken(NewToken)
BY Zenon DEF NewToken

\* generateRoomCode returns a code nothing refers to.
LEMMA NewCodeFresh ==
    ASSUME \E r \in Code : FreshCode(r)
    PROVE  NewCode \in Code /\ FreshCode(NewCode)
BY Zenon DEF NewCode

\* A free code stands for a value of type Room.
LEMMA NoRoomType == NoRoom \in Room
BY Zenon DEF NoRoom, Room, NoMember

\* An unused connection object has the type of a Client.
LEMMA NoClientType == NoClient \in ClientState
BY Zenon DEF NoClient, ClientState

\* withoutUser returns a roster.
LEMMA WithoutUserType ==
    ASSUME NEW users \in SUBSET UserInfo, NEW u
    PROVE  WithoutUser(users, u) \in SUBSET UserInfo
BY Zenon DEF WithoutUser

\* Marking a member connected or not leaves a roster.
LEMMA SetConnectedType ==
    ASSUME NEW users \in SUBSET UserInfo, NEW u, NEW b \in BOOLEAN
    PROVE  SetConnected(users, u, b) \in SUBSET UserInfo
BY Zenon DEF SetConnected, UserInfo

\* clearRoom touches Client.room and nothing else.
LEMMA ClearRoomType ==
    ASSUME NEW x \in ClientState, NEW r
    PROVE  /\ ClearRoom(x, r) \in ClientState
           /\ ClearRoom(x, r).room = IF x.room = r THEN None ELSE x.room
           /\ ClearRoom(x, r).pc = x.pc
           /\ ClearRoom(x, r).id = x.id
           /\ ClearRoom(x, r).token = x.token
           /\ ClearRoom(x, r).closed = x.closed
           /\ ClearRoom(x, r).pendingRoom = x.pendingRoom
           /\ ClearRoom(x, r).attempt = x.attempt
BY Zenon DEF ClearRoom, ClientState

\* clearPendingRoom touches Client.pendingRoom and nothing else.
LEMMA ClearPendingRoomType ==
    ASSUME NEW x \in ClientState, NEW r
    PROVE  /\ ClearPendingRoom(x, r) \in ClientState
           /\ ClearPendingRoom(x, r).pc = x.pc
           /\ ClearPendingRoom(x, r).id = x.id
           /\ ClearPendingRoom(x, r).token = x.token
           /\ ClearPendingRoom(x, r).room = x.room
           /\ ClearPendingRoom(x, r).closed = x.closed
           /\ ClearPendingRoom(x, r).pendingRoom =
                IF x.pendingRoom = r THEN None ELSE x.pendingRoom
           /\ ClearPendingRoom(x, r).attempt = x.attempt
BY Zenon DEF ClearPendingRoom, ClientState

\* Marking the host in the roster leaves a roster.
LEMMA MarkHostType ==
    ASSUME NEW users \in SUBSET UserInfo, NEW u
    PROVE  {[x EXCEPT !.isHost = (x.id = u)] : x \in users} \in SUBSET UserInfo
<1> SUFFICES ASSUME NEW x \in UserInfo
             PROVE  [x EXCEPT !.isHost = (x.id = u)] \in UserInfo
  BY Zenon
<1> DEFINE b == x.id = u
<1>1. b \in BOOLEAN
  BY Zenon
<1> HIDE DEF b
<1>2. [x EXCEPT !.isHost = b] \in UserInfo
  BY Zenon, <1>1 DEF UserInfo
<1> QED
  BY Zenon, <1>2 DEF b

\* Removing a join request changes nobody's seat.
LEMMA WithoutRequestFields ==
    ASSUME NEW rm \in Room, NEW u \in UserID
    PROVE  /\ WithoutRequest(rm, u) \in Room
           /\ WithoutRequest(rm, u).PendingJoins = [rm.PendingJoins EXCEPT ![u] = None]
           /\ WithoutRequest(rm, u).Clients = rm.Clients
           /\ WithoutRequest(rm, u).DisconnectedUsers = rm.DisconnectedUsers
           /\ WithoutRequest(rm, u).Host = rm.Host
           /\ WithoutRequest(rm, u).HostID = rm.HostID
           /\ WithoutRequest(rm, u).HostDisconnectedAt = rm.HostDisconnectedAt
           /\ WithoutRequest(rm, u).OwnerID = rm.OwnerID
BY Zenon DEF WithoutRequest, Room

\* Admitting a member changes one seat, and neither host nor owner.
LEMMA AdmitFields ==
    ASSUME NEW rm \in Room, NEW c \in Client, NEW u \in UserID
    PROVE  /\ Admit(rm, c, u) \in Room
           /\ Admit(rm, c, u).PendingJoins = rm.PendingJoins
           /\ Admit(rm, c, u).Clients = [rm.Clients EXCEPT ![u] = c]
           /\ Admit(rm, c, u).DisconnectedUsers = rm.DisconnectedUsers
           /\ Admit(rm, c, u).Host = rm.Host
           /\ Admit(rm, c, u).HostID = rm.HostID
           /\ Admit(rm, c, u).HostDisconnectedAt = rm.HostDisconnectedAt
           /\ Admit(rm, c, u).OwnerID = rm.OwnerID
<1>1. [id |-> u, isHost |-> FALSE, isConnected |-> TRUE] \in UserInfo
  BY Zenon DEF UserInfo
<1>2. rm.Users \cup {[id |-> u, isHost |-> FALSE, isConnected |-> TRUE]} \in SUBSET UserInfo
  BY Zenon, <1>1 DEF Room
<1> QED
  BY Zenon, <1>2 DEF Admit, Room

\* What handleClientDisconnect makes of a room.
LEMMA SetAwayFields ==
    ASSUME NEW rm \in Room, NEW c \in Client, NEW u \in UserID
    PROVE  /\ SetAway(rm, c, u) \in Room
           /\ SetAway(rm, c, u).PendingJoins = rm.PendingJoins
           /\ SetAway(rm, c, u).Clients = [rm.Clients EXCEPT ![u] = None]
           /\ SetAway(rm, c, u).DisconnectedUsers = rm.DisconnectedUsers \cup {u}
           /\ SetAway(rm, c, u).Host = IF rm.Host = c THEN None ELSE rm.Host
           /\ SetAway(rm, c, u).HostDisconnectedAt =
                IF rm.Host = c THEN 0 ELSE rm.HostDisconnectedAt
           /\ SetAway(rm, c, u).HostID = rm.HostID
           /\ SetAway(rm, c, u).OwnerID = rm.OwnerID
<1>1. SetConnected(rm.Users, u, FALSE) \in SUBSET UserInfo
  BY Zenon, SetConnectedType DEF Room
<1> QED
  BY Zenon, <1>1 DEF SetAway, Room, Age

\* What the commit of handleReconnect makes of a room, before any host change.
LEMMA ReseatFields ==
    ASSUME NEW rm \in Room, NEW c \in Client, NEW u \in UserID
    PROVE  /\ Reseat(rm, c, u) \in Room
           /\ Reseat(rm, c, u).PendingJoins = rm.PendingJoins
           /\ Reseat(rm, c, u).Clients = [rm.Clients EXCEPT ![u] = c]
           /\ Reseat(rm, c, u).DisconnectedUsers = rm.DisconnectedUsers \ {u}
           /\ Reseat(rm, c, u).Host = rm.Host
           /\ Reseat(rm, c, u).HostID = rm.HostID
           /\ Reseat(rm, c, u).HostDisconnectedAt = rm.HostDisconnectedAt
           /\ Reseat(rm, c, u).OwnerID = rm.OwnerID
<1>1. SetConnected(rm.Users, u, TRUE) \in SUBSET UserInfo
  BY Zenon, SetConnectedType DEF Room
<1> QED
  BY Zenon, <1>1 DEF Reseat, Room, Age

\* What removing a connected member makes of a room.
LEMMA UnseatFields ==
    ASSUME NEW rm \in Room, NEW u \in UserID
    PROVE  /\ Unseat(rm, u) \in Room
           /\ Unseat(rm, u).PendingJoins = rm.PendingJoins
           /\ Unseat(rm, u).Clients = [rm.Clients EXCEPT ![u] = None]
           /\ Unseat(rm, u).OwnerID = IF rm.OwnerID = u THEN None ELSE rm.OwnerID
           /\ Unseat(rm, u).DisconnectedUsers = rm.DisconnectedUsers
           /\ Unseat(rm, u).Host = rm.Host
           /\ Unseat(rm, u).HostID = rm.HostID
           /\ Unseat(rm, u).HostDisconnectedAt = rm.HostDisconnectedAt
BY Zenon, WithoutUserType DEF Unseat, Room

\* What removing a disconnected member makes of a room.
LEMMA ForgetFields ==
    ASSUME NEW rm \in Room, NEW u \in UserID
    PROVE  /\ Forget(rm, u) \in Room
           /\ Forget(rm, u).PendingJoins = rm.PendingJoins
           /\ Forget(rm, u).DisconnectedUsers = rm.DisconnectedUsers \ {u}
           /\ Forget(rm, u).OwnerID = IF rm.OwnerID = u THEN None ELSE rm.OwnerID
           /\ Forget(rm, u).Clients = rm.Clients
           /\ Forget(rm, u).Host = rm.Host
           /\ Forget(rm, u).HostID = rm.HostID
           /\ Forget(rm, u).HostDisconnectedAt = rm.HostDisconnectedAt
BY Zenon, WithoutUserType DEF Forget, Room

\* assignHostLocked moves the host's seat and leaves members and owner alone.
LEMMA AssignHostFields ==
    ASSUME NEW rm \in Room, NEW u \in UserID \cup {None}
    PROVE  /\ AssignHost(rm, u) \in Room
           /\ AssignHost(rm, u).PendingJoins = rm.PendingJoins
           /\ AssignHost(rm, u).Host = IF u = None THEN None ELSE rm.Clients[u]
           /\ AssignHost(rm, u).HostID = u
           /\ AssignHost(rm, u).HostDisconnectedAt = None
           /\ AssignHost(rm, u).Clients = rm.Clients
           /\ AssignHost(rm, u).DisconnectedUsers = rm.DisconnectedUsers
           /\ AssignHost(rm, u).OwnerID = rm.OwnerID
<1>0. rm.Users \in SUBSET UserInfo
  BY Zenon DEF Room
<1>1. {[x EXCEPT !.isHost = (x.id = u)] : x \in rm.Users} \in SUBSET UserInfo
  BY Zenon, <1>0, MarkHostType
<1>2. {a \in Applicants(rm) : ~client[rm.PendingJoins[a]].closed} \in SUBSET UserID
  BY Zenon DEF Applicants
<1>3. (IF u = None THEN None ELSE rm.Clients[u]) \in Client \cup {None}
  BY Zenon DEF Room
<1> QED
  BY Zenon, <1>1, <1>2, <1>3 DEF AssignHost, Room

\* pickDeputy and assignHostLocked return a room.
LEMMA SuccessionType ==
    ASSUME TypeOK, NEW rm \in Room, NEW b, NEW next \in Succession(rm, b)
    PROVE  next \in Room
<1>1. \A u \in PickDeputy(rm) : u \in UserID \cup {None}
  BY Zenon DEF PickDeputy, Deputies, Connected
<1> QED
  BY <1>1, AssignHostFields DEF Succession

\* Deleting an empty room keeps every variable in its type.
LEMMA DeleteRoomType ==
    ASSUME TypeOK, NEW r \in Code, NEW rm, NEW cl \in [Client -> ClientState],
           DeleteRoom(r, rm, cl)
    PROVE  rooms' \subseteq Code /\ room' \in [Code -> Room]
           /\ client' \in [Client -> ClientState]
BY Zenon, NoRoomType, ClearPendingRoomType DEF TypeOK, DeleteRoom

\* closeRoom keeps every variable in its type.
LEMMA CloseRoomType ==
    ASSUME TypeOK, NEW r \in Code, NEW rm, NEW cl \in [Client -> ClientState],
           NEW ss \in [Token -> Session \cup {None}], CloseRoom(r, rm, cl, ss)
    PROVE  rooms' \subseteq Code /\ room' \in [Code -> Room]
           /\ client' \in [Client -> ClientState]
           /\ sessions' \in [Token -> Session \cup {None}]
<1>1. \A x \in ClientState : ClearRoom(x, r) \in ClientState
  BY Zenon, ClearRoomType
<1>2. \A x \in ClientState : ClearPendingRoom(x, r) \in ClientState
  BY Zenon, ClearPendingRoomType
<1> QED
  BY Zenon, <1>1, <1>2, NoRoomType DEF TypeOK, CloseRoom

\* Storing a room, or closing it, keeps every variable in its type.
LEMMA SettleType ==
    ASSUME TypeOK, NEW r \in Code, NEW rm \in Room, NEW cl \in [Client -> ClientState],
           NEW ss \in [Token -> Session \cup {None}], Settle(r, rm, cl, ss)
    PROVE  rooms' \subseteq Code /\ room' \in [Code -> Room]
           /\ client' \in [Client -> ClientState]
           /\ sessions' \in [Token -> Session \cup {None}]
<1>1. CASE HostlessDead(rm)
  BY Zenon, <1>1, CloseRoomType DEF Settle
<1>2. CASE ~HostlessDead(rm)
  BY Zenon, <1>2 DEF Settle, TypeOK
<1> QED
  BY Zenon, <1>1, <1>2

\* Deleting a token leaves a session table.
LEMMA DropTokenType ==
    ASSUME NEW ss \in [Token -> Session \cup {None}], NEW t
    PROVE  DropToken(ss, t) \in [Token -> Session \cup {None}]
BY Zenon DEF DropToken

\* The session a disconnect creates says what it was created with.
LEMMA NewSessionFields ==
    ASSUME NEW u \in UserID, NEW r \in Code, NEW b \in BOOLEAN
    PROVE  /\ NewSession(u, r, b) \in Session
           /\ NewSession(u, r, b).user = u
           /\ NewSession(u, r, b).room = r
           /\ NewSession(u, r, b).isHost = b
           /\ NewSession(u, r, b).claimedBy = None
BY Zenon DEF NewSession, Session, Age

\* handleClientDisconnect keeps every variable in its type.
LEMMA DisconnectType ==
    ASSUME TypeOK, NEW c \in Client, NEW x \in ClientState,
           NEW cl \in [Client -> ClientState],
           client[c].room # None, client[c].id # None, client[c].token # None,
           Disconnect(c, x, cl)
    PROVE  room' \in [Code -> Room] /\ client' \in [Client -> ClientState]
           /\ sessions' \in [Token -> Session \cup {None}]
<1> DEFINE r == client[c].room
           u == client[c].id
           t == client[c].token
           wasHost == room[r].Host = c
<1>1. r \in Code /\ u \in UserID /\ t \in Token /\ room[r] \in Room
  BY Zenon DEF TypeOK, ClientState
<1>2. client' \in [Client -> ClientState]
  BY Zenon DEF Disconnect, ClientState
<1>3. SetAway(room[r], c, u) \in Room
  BY Zenon, <1>1, SetAwayFields
<1>4. NewSession(u, r, wasHost) \in Session
  <2>1. wasHost \in BOOLEAN
    BY Zenon
  <2> HIDE DEF wasHost
  <2> QED
    BY Zenon, <1>1, <2>1, NewSessionFields
<1>5. \/ UNCHANGED <<room, sessions>>
      \/ /\ room' = [room EXCEPT ![r] = SetAway(room[r], c, u)]
         /\ sessions' = [sessions EXCEPT ![t] = NewSession(u, r, wasHost)]
  BY Zenon DEF Disconnect
<1> QED
  BY Zenon, <1>1, <1>2, <1>3, <1>4, <1>5 DEF TypeOK

\* A tick turns an age into an age and leaves a clock that does not run alone.
LEMMA OlderType ==
    /\ \A a \in Nat \cup {None}, n \in Nat : Older(a, n) \in Nat \cup {None}
    /\ \A a, n \in Nat : Older(a, n) \in Nat
BY NilAssumption DEF Older

\* The timeouts are numbers, and so are the ages that are just past them.
LEMMA TimeoutType ==
    /\ HostFailoverTimeout \in Nat
    /\ EmptyRoomCleanupTimeout \in Nat /\ EmptyRoomCleanupTimeout + 1 \in Nat
    /\ ReconnectGracePeriod + 1 \in Nat
BY LimitsAssumption

\* Who a read pump acts for: a live connection has a user ID, a request under
\* way has what it needs in hand, and a seat has a token.
LEMMA PumpTypes ==
    ASSUME TypeOK, PumpInv, SeatTokenInv, NEW c \in Client
    PROVE  /\ client[c].pc # "gone" => client[c].id \in UserID
           /\ ~client[c].closed => client[c].id \in UserID
           /\ client[c].room # None => client[c].id # None
           /\ client[c].room # None /\ client[c].pc # "creating" => client[c].token # None
           /\ client[c].pc \in {"creating", "claimed", "retry"} =>
                client[c].attempt.token \in Token
           /\ client[c].pc \in {"creating", "claimed"} =>
                client[c].attempt.room \in Code /\ client[c].attempt.user \in UserID
<1>1. PICK x \in ClientState : x = client[c]
  BY Zenon DEF TypeOK
<1>2. /\ x.id \in UserID \cup {None} /\ x.attempt \in Attempt \cup {None}
  BY Zenon DEF ClientState
<1>3. x.attempt # None => /\ x.attempt.token \in Token
                          /\ x.attempt.user \in UserID \cup {None}
                          /\ x.attempt.room \in Code \cup {None}
  BY Zenon, <1>2 DEF Attempt
<1>4. /\ x.pc # "gone" => x.id # None
      /\ x.pc = "gone" => x.closed /\ x.room = None
      /\ x.pc \in {"creating", "claimed", "retry"} => x.attempt # None
      /\ x.pc \in {"creating", "claimed"} => x.attempt.room # None /\ x.attempt.user # None
  BY Zenon, <1>1 DEF PumpInv, Pc, ClientID, CurrentRoom, InHand, IsClosed
<1>5. x.room # None /\ x.pc # "creating" => x.token # None
  BY Zenon, <1>1 DEF SeatTokenInv, Pc, SessionToken, CurrentRoom
<1> QED
  BY Zenon, <1>1, <1>2, <1>3, <1>4, <1>5

\* Every step keeps every variable in its type: one step of the proof per action.
LEMMA TypeStep ==
    ASSUME TypeOK, PumpInv, SeatTokenInv, Next
    PROVE  TypeOK'
<1> USE DEF TypeOK
<1>1. ASSUME NEW c \in Client, Connect(c)
      PROVE  TypeOK'
  BY Zenon, <1>1, NewUserIDFresh DEF Connect, NoClient, ClientState
<1>2. ASSUME NEW c \in Client, CloseSend(c)
      PROVE  TypeOK'
  BY Zenon, <1>2 DEF CloseSend, ClientState
<1>3. ASSUME NEW c \in Client, RemoveClient(c)
      PROVE  TypeOK'
  <2> DEFINE x == [client[c] EXCEPT !.pc = "removing", !.closed = TRUE]
  <2>1. x \in ClientState
    BY Zenon DEF ClientState
  <2>2. client' = [client EXCEPT ![c] = x]
    BY Zenon, <1>3 DEF RemoveClient, ClientState
  <2> HIDE DEF x
  <2> QED
    BY Zenon, <1>3, <2>1, <2>2 DEF RemoveClient
<1>4. ASSUME NEW c \in Client, RemoveClientFinish(c)
      PROVE  TypeOK'
  <2>1. CASE client[c].room # None
    BY Zenon, <1>4, <2>1, PumpTypes, DisconnectType, NoClientType DEF RemoveClientFinish
  <2>2. CASE client[c].room = None
    <3>1. client[c].id \in UserID
      BY Zenon, <1>4, PumpTypes DEF RemoveClientFinish
    <3>2. \A r \in Code : WithoutRequest(room[r], client[c].id) \in Room
      BY Zenon, <3>1, WithoutRequestFields
    <3> QED
      BY Zenon, <1>4, <2>2, <3>2, NoClientType DEF RemoveClientFinish
  <2> QED
    BY Zenon, <2>1, <2>2
<1>5. ASSUME NEW c \in Client, HandleCreateRoom(c)
      PROVE  TypeOK'
  <2> DEFINE u == client[c].id
             founded == [NoRoom EXCEPT !.Clients[u] = c, !.Host = c, !.HostID = u,
                               !.Users = {[id |-> u, isHost |-> TRUE,
                                           isConnected |-> TRUE]}]
             x == [client[c] EXCEPT !.pc = "creating", !.room = NewCode,
                     !.attempt = [token |-> NewToken, user |-> u, room |-> NewCode]]
  <2>1. u \in UserID /\ NewCode \in Code /\ NewToken \in Token
    BY Zenon, <1>5, NewCodeFresh, NewTokenFresh, PumpTypes DEF HandleCreateRoom, Idle
  <2>2. founded \in Room
    <3>1. {[id |-> u, isHost |-> TRUE, isConnected |-> TRUE]} \in SUBSET UserInfo
      BY <2>1 DEF UserInfo
    <3> QED
      BY Zenon, <2>1, <3>1, NoRoomType DEF Room
  <2>3. client' \in [Client -> ClientState]
    <3>1. [token |-> NewToken, user |-> u, room |-> NewCode] \in Attempt
      BY Zenon, <2>1 DEF Attempt
    <3>2. x \in ClientState
      BY Zenon, <2>1, <3>1 DEF ClientState
    <3>3. client' = [client EXCEPT ![c] = x]
      BY Zenon, <1>5 DEF HandleCreateRoom, ClientState
    <3> QED
      BY Zenon, <3>2, <3>3
  <2> QED
    BY Zenon, <1>5, <2>1, <2>2, <2>3 DEF HandleCreateRoom
<1>6. ASSUME NEW c \in Client, CreateRoomCommit(c)
      PROVE  TypeOK'
  <2> DEFINE a == client[c].attempt
             done == [client[c] EXCEPT !.pc = "idle", !.attempt = None, !.token = a.token]
  <2>1. a.token \in Token /\ a.room \in Code
    BY Zenon, <1>6, PumpTypes DEF CreateRoomCommit
  <2>2. done \in ClientState
    BY Zenon, <2>1 DEF ClientState
  <2>3. ClearRoom(done, a.room) \in ClientState
    BY Zenon, <2>2, ClearRoomType
  <2> HIDE DEF done
  <2>4. client' \in [Client -> ClientState]
    BY Zenon, <1>6, <2>2, <2>3 DEF CreateRoomCommit, done
  <2> QED
    BY Zenon, <1>6, <2>1, <2>4, NoRoomType DEF CreateRoomCommit
<1>7. ASSUME NEW c \in Client, NEW r \in Code, HandleJoinRoom(c, r)
      PROVE  TypeOK'
  <2> DEFINE u == client[c].id
             rm == room[r]
             asked == [rm EXCEPT !.PendingJoins[u] = c,
                        !.HostSeen = IF rm.Host # None /\ rm.HostDisconnectedAt = None
                                       THEN @ \cup {u} ELSE @]
  <2>1. u \in UserID
    BY Zenon, <1>7, PumpTypes DEF HandleJoinRoom, Idle
  <2>2. asked \in Room
    <3>1. rm \in Room
      BY Zenon
    <3> HIDE DEF rm, u
    <3> QED
      BY Zenon, <2>1, <3>1 DEF Room
  <2>3. client' \in [Client -> ClientState]
    BY <1>7 DEF HandleJoinRoom, ClientState
  <2> HIDE DEF asked
  <2>4. room' = [room EXCEPT ![r] = asked]
    BY Zenon, <1>7 DEF HandleJoinRoom, asked
  <2> QED
    BY Zenon, <1>7, <2>2, <2>3, <2>4 DEF HandleJoinRoom
<1>8. ASSUME NEW c \in Client, NEW u \in UserID, HandleApproveJoin(c, u)
      PROVE  TypeOK'
  <2> DEFINE r == client[c].room
             j == room[r].PendingJoins[u]
             dropped == WithoutRequest(room[r], u)
  <2>1. r \in Code /\ j \in Client
    <3>1. r \in Code /\ j # None
      BY Zenon, <1>8 DEF HandleApproveJoin, Hosts, ClientState
    <3> QED
      BY <3>1 DEF Room
  <2>2. dropped \in Room
    BY Zenon, <2>1, WithoutRequestFields
  <2>3. ClearPendingRoom(client[j], r) \in ClientState
    BY Zenon, <2>1, ClearPendingRoomType
  <2>4. CASE client[j].closed \/ client[j].room # None
    BY Zenon, <1>8, <2>1, <2>2, <2>3, <2>4 DEF HandleApproveJoin
  <2>5. CASE ~(client[j].closed \/ client[j].room # None)
    <3>1. client[j].id \in UserID
      BY Zenon, <2>1, <2>5, PumpTypes
    <3>2. Admit(dropped, j, client[j].id) \in Room
      BY Zenon, <2>1, <2>2, <3>1, AdmitFields
    <3>3. NewToken \in Token
      BY Zenon, <1>8, <2>5, NewTokenFresh DEF HandleApproveJoin
    <3>4. [ClearPendingRoom(client[j], r) EXCEPT !.room = r, !.token = NewToken] \in ClientState
      BY Zenon, <2>1, <2>3, <3>3 DEF ClientState
    <3> QED
      BY Zenon, <1>8, <2>1, <2>5, <3>2, <3>4 DEF HandleApproveJoin
  <2> QED
    BY Zenon, <2>4, <2>5
<1>9. ASSUME NEW c \in Client, NEW u \in UserID, HandleRejectJoin(c, u)
      PROVE  TypeOK'
  <2> DEFINE r == client[c].room
             j == room[r].PendingJoins[u]
  <2>1. r \in Code /\ j \in Client
    BY <1>9 DEF HandleRejectJoin, Hosts, ClientState, Room
  <2>2. WithoutRequest(room[r], u) \in Room
    BY Zenon, <2>1, WithoutRequestFields
  <2>3. ClearPendingRoom(client[j], r) \in ClientState
    BY Zenon, <2>1, ClearPendingRoomType
  <2> QED
    BY Zenon, <1>9, <2>1, <2>2, <2>3 DEF HandleRejectJoin
<1>10. ASSUME NEW c \in Client, NEW u \in UserID, HandleKickUser(c, u)
       PROVE  TypeOK'
  <2> DEFINE r == client[c].room
             j == room[r].Clients[u]
  <2>1. r \in Code /\ j \in Client \cup {None}
    BY <1>10 DEF HandleKickUser, Hosts, ClientState, Room
  <2>2. CASE j # None
    <3>1. Unseat(room[r], u) \in Room
      BY Zenon, <2>1, UnseatFields
    <3>2. ClearRoom(client[j], r) \in ClientState
      BY Zenon, <2>1, <2>2, ClearRoomType
    <3> QED
      BY Zenon, <1>10, <2>1, <2>2, <3>1, <3>2 DEF HandleKickUser
  <2>3. CASE j = None
    <3>1. Forget(room[r], u) \in Room
      BY Zenon, <2>1, ForgetFields
    <3> QED
      BY Zenon, <1>10, <2>1, <2>3, <3>1 DEF HandleKickUser
  <2> QED
    BY Zenon, <2>2, <2>3
<1>11. ASSUME NEW c \in Client, NEW u \in UserID, HandleTransferHost(c, u)
       PROVE  TypeOK'
  <2> DEFINE r == client[c].room
             rm == [room[r] EXCEPT !.OwnerID = None]
  <2>1. r \in Code
    BY Zenon, <1>11 DEF HandleTransferHost, Hosts, ClientState
  <2>2. rm \in Room
    <3>1. room[r] \in Room
      BY Zenon, <2>1
    <3> HIDE DEF r
    <3> QED
      BY Zenon, <3>1 DEF Room
  <2>3. AssignHost(rm, u) \in Room
    BY Zenon, <2>2, AssignHostFields
  <2> QED
    BY Zenon, <1>11, <2>1, <2>3 DEF HandleTransferHost
<1>12. ASSUME NEW c \in Client, LeaveRoom(c)
       PROVE  TypeOK'
  <2> DEFINE r == client[c].room
             u == client[c].id
             left == Forget(Unseat(WithoutRequest(room[r], u), u), u)
             cl == [client EXCEPT ![c].room = None]
             ss == DropToken(sessions, client[c].token)
  <2>1. r \in Code /\ u \in UserID
    BY Zenon, <1>12, PumpTypes DEF LeaveRoom, Idle, ClientState
  <2>2. left \in Room
    BY Zenon, <2>1, WithoutRequestFields, UnseatFields, ForgetFields
  <2>3. cl \in [Client -> ClientState] /\ ss \in [Token -> Session \cup {None}]
    BY Zenon, DropTokenType DEF ClientState
  <2> HIDE DEF left, cl, ss
  <2>4. \/ client' = cl /\ UNCHANGED <<rooms, room, sessions>>
        \/ DeleteRoom(r, left, cl) /\ sessions' = ss
        \/ \E next \in Succession(left, room[r].Host = c) : Settle(r, next, cl, ss)
    BY Zenon, <1>12 DEF LeaveRoom, left, cl, ss
  <2>5. UNCHANGED <<expiring, uptime>>
    BY Zenon, <1>12 DEF LeaveRoom
  <2>6. CASE client' = cl /\ UNCHANGED <<rooms, room, sessions>>
    BY Zenon, <2>3, <2>5, <2>6
  <2>7. CASE DeleteRoom(r, left, cl) /\ sessions' = ss
    BY Zenon, <2>1, <2>3, <2>5, <2>7, DeleteRoomType
  <2>8. ASSUME NEW next \in Succession(left, room[r].Host = c), Settle(r, next, cl, ss)
        PROVE  TypeOK'
    <3>1. next \in Room
      BY Zenon, <2>2, SuccessionType
    <3> QED
      BY Zenon, <2>1, <2>3, <2>5, <2>8, <3>1, SettleType
  <2> QED
    BY Zenon, <2>4, <2>6, <2>7, <2>8
<1>13. ASSUME NEW c \in Client, CancelJoin(c)
       PROVE  TypeOK'
  <2>1. client[c].id \in UserID /\ NewUserID \in UserID
    BY Zenon, <1>13, NewUserIDFresh, PumpTypes DEF CancelJoin, Idle
  <2>2. \A r \in Code : WithoutRequest(room[r], client[c].id) \in Room
    BY Zenon, <2>1, WithoutRequestFields
  <2>3. client' \in [Client -> ClientState]
    <3>1. [client[c] EXCEPT !.pendingRoom = None, !.id = NewUserID] \in ClientState
      BY Zenon, <2>1 DEF ClientState
    <3>2. client' = [client EXCEPT ![c] =
                       [client[c] EXCEPT !.pendingRoom = None, !.id = NewUserID]]
      BY Zenon, <1>13 DEF CancelJoin, ClientState
    <3> QED
      BY Zenon, <3>1, <3>2
  <2> QED
    BY Zenon, <1>13, <2>2, <2>3 DEF CancelJoin
<1>14. ASSUME NEW c \in Client, NEW t \in Token, Claimable(c, t), Claim(c, t),
              UNCHANGED <<rooms, room, expiring, uptime>>
       PROVE  TypeOK'
  <2>1. sessions[t] \in Session
    BY Zenon, <1>14 DEF Claimable
  <2> DEFINE a == [token |-> t, user |-> sessions[t].user, room |-> sessions[t].room]
             x == [client[c] EXCEPT !.pc = "claimed", !.attempt = a]
  <2>2. a \in Attempt
    BY Zenon, <2>1 DEF Session, Attempt
  <2> HIDE DEF a
  <2>3. x \in ClientState
    BY Zenon, <2>2 DEF ClientState
  <2>4. client' = [client EXCEPT ![c] = x]
    BY Zenon, <1>14 DEF Claim, ClientState, a
  <2>5. [sessions[t] EXCEPT !.claimedBy = c] \in Session
    BY Zenon, <2>1 DEF Session
  <2>6. sessions' = [sessions EXCEPT ![t] = [sessions[t] EXCEPT !.claimedBy = c]]
    BY Zenon, <1>14 DEF Claim
  <2> QED
    BY Zenon, <1>14, <2>3, <2>4, <2>5, <2>6
<1>15. ASSUME NEW c \in Client, NEW t \in Token, ReconnectClaim(c, t)
       PROVE  TypeOK'
  BY Zenon, <1>14, <1>15 DEF ReconnectClaim
<1>16. ASSUME NEW c \in Client, NEW t \in Token, NEW old \in Client,
              client[old].pc # "creating", ReconnectReplace(c, t, old)
       PROVE  TypeOK'
  <2> DEFINE x == [client[old] EXCEPT !.closed = TRUE,
                                      !.pc = IF @ = "idle" THEN "stopping" ELSE @]
             a == [token |-> t, user |-> None, room |-> None]
             y == [client[c] EXCEPT !.pc = "retry", !.attempt = a]
             cl == [client EXCEPT ![c].pc = "retry", ![c].attempt = a]
  <2>1. x \in ClientState
    BY Zenon DEF ClientState
  <2>2. a \in Attempt
    BY Zenon DEF Attempt
  <2> HIDE DEF a
  <2>3. y \in ClientState
    BY Zenon, <2>2 DEF ClientState
  <2>4. cl = [client EXCEPT ![c] = y]
    BY Zenon DEF ClientState
  <2>5. cl \in [Client -> ClientState]
    BY Zenon, <2>3, <2>4
  <2>6. client[old].room # None /\ client[old].id # None /\ client[old].token # None
    BY Zenon, <1>16, PumpTypes DEF ReconnectReplace, Registered
  <2> HIDE DEF x, cl
  <2>7. Disconnect(old, x, cl) /\ UNCHANGED <<rooms, expiring, uptime>>
    BY Zenon, <1>16 DEF ReconnectReplace, x, cl, a
  <2> QED
    BY Zenon, <2>1, <2>5, <2>6, <2>7, DisconnectType
<1>17. ASSUME NEW c \in Client, ReconnectRetry(c)
       PROVE  TypeOK'
  <2>1. client[c].attempt.token \in Token
    BY Zenon, <1>17, PumpTypes DEF ReconnectRetry
  <2>2. CASE Claimable(c, client[c].attempt.token)
    BY Zenon, <1>14, <1>17, <2>1, <2>2 DEF ReconnectRetry
  <2>3. CASE ~Claimable(c, client[c].attempt.token)
    BY <1>17, <2>3 DEF ReconnectRetry, ClientState
  <2> QED
    BY Zenon, <2>2, <2>3
<1>18. ASSUME NEW c \in Client, ReconnectRestore(c)
       PROVE  TypeOK'
  <2> DEFINE a == client[c].attempt
             u == a.user
             seated == Reseat(room[a.room], c, u)
             hosting == [AssignHost(seated, u) EXCEPT !.OwnerID = IF @ = u THEN None ELSE @]
             x == [client[c] EXCEPT !.pc = "idle", !.attempt = None, !.room = a.room,
                                    !.id = u, !.token = a.token]
  <2>1. a.room \in Code /\ u \in UserID /\ a.token \in Token
    BY Zenon, <1>18, PumpTypes DEF ReconnectRestore
  <2>2. seated \in Room
    BY Zenon, <2>1, ReseatFields
  <2>3. AssignHost(seated, u) \in Room
    BY Zenon, <2>1, <2>2, AssignHostFields
  <2>4. hosting \in Room
    BY Zenon, <2>1, <2>3 DEF Room
  <2> HIDE DEF hosting, seated
  <2>5. room' \in [Code -> Room]
    BY Zenon, <1>18, <2>1, <2>2, <2>4 DEF ReconnectRestore, hosting, seated
  <2>6. x \in ClientState
    BY Zenon, <2>1 DEF ClientState
  <2>7. client' = [client EXCEPT ![c] = x]
    BY Zenon, <1>18 DEF ReconnectRestore, ClientState
  <2>8. sessions' \in [Token -> Session \cup {None}]
    BY Zenon, <1>18, DropTokenType DEF ReconnectRestore
  <2> HIDE DEF x
  <2>9. client' \in [Client -> ClientState]
    BY Zenon, <2>6, <2>7
  <2> QED
    BY Zenon, <1>18, <2>5, <2>8, <2>9 DEF ReconnectRestore
<1>19. ASSUME NEW c \in Client, ReconnectFail(c)
       PROVE  TypeOK'
  <2> DEFINE a == client[c].attempt
             ss == IF a.room \notin rooms THEN DropToken(sessions, a.token) ELSE sessions
  <2>1. ss \in [Token -> Session \cup {None}]
    BY Zenon, DropTokenType
  <2>2. \A s \in Session : [s EXCEPT !.claimedBy = None] \in Session
    BY Zenon DEF Session
  <2>3. client' \in [Client -> ClientState]
    <3>1. [client[c] EXCEPT !.pc = "idle", !.attempt = None] \in ClientState
      BY Zenon DEF ClientState
    <3>2. client' = [client EXCEPT ![c] =
                       [client[c] EXCEPT !.pc = "idle", !.attempt = None]]
      BY Zenon, <1>19 DEF ReconnectFail, ClientState
    <3> QED
      BY Zenon, <3>1, <3>2
  <2> HIDE DEF ss
  <2>4. sessions' = [t \in Token |->
             IF ss[t] # None /\ ss[t].claimedBy = c
               THEN [ss[t] EXCEPT !.claimedBy = None] ELSE ss[t]]
    BY Zenon, <1>19 DEF ReconnectFail, ss
  <2>5. sessions' \in [Token -> Session \cup {None}]
    BY Zenon, <2>1, <2>2, <2>4
  <2> QED
    BY Zenon, <1>19, <2>3, <2>5 DEF ReconnectFail
<1>20. ASSUME TakeExpired
       PROVE  TypeOK'
  <2> DEFINE past == uptime > MinRoomRetentionAfterRestart
  <2>1. past \in BOOLEAN
    BY SMTT(30)
  <2> HIDE DEF past
  <2>2. \A s \in Session : [user |-> s.user, room |-> s.room, pastRetention |-> past] \in Expiry
    BY Zenon, <2>1 DEF Session, Expiry
  <2>3. expiring' \subseteq Expiry
    <3> DEFINE expired == {t \in Token : /\ sessions[t] # None
                                         /\ sessions[t].age > ReconnectGracePeriod}
               E(t) == [user |-> sessions[t].user, room |-> sessions[t].room,
                        pastRetention |-> past]
    <3>1. expiring' = {E(t) : t \in expired}
      BY Zenon, <1>20 DEF TakeExpired, past
    <3>2. \A t \in expired : sessions[t] \in Session
      BY Zenon
    <3>3. \A t \in expired : E(t) \in Expiry
      BY Zenon, <2>2, <3>2
    <3> HIDE DEF expired, E
    <3> QED
      BY Zenon, <3>1, <3>3
  <2> QED
    BY Zenon, <1>20, <2>3 DEF TakeExpired
<1>21. ASSUME NEW e \in expiring, ExpireSession(e)
       PROVE  TypeOK'
  <2> DEFINE r == e.room
             gone == Forget(room[r], e.user)
  <2>1. r \in Code /\ e.user \in UserID
    BY Zenon DEF Expiry
  <2>2. gone \in Room
    BY Zenon, <2>1, ForgetFields
  <2> HIDE DEF gone
  <2>3. \/ UNCHANGED <<rooms, room, client, sessions>>
        \/ \E next \in Succession(gone, room[r].HostID = e.user) :
             \/ DeleteRoom(r, next, client) /\ UNCHANGED sessions
             \/ Settle(r, next, client, sessions)
    BY Zenon, <1>21 DEF ExpireSession, gone
  <2>4. expiring' \subseteq Expiry /\ uptime' \in Nat
    BY Zenon, <1>21 DEF ExpireSession
  <2>5. ASSUME NEW next \in Succession(gone, room[r].HostID = e.user),
               \/ DeleteRoom(r, next, client) /\ UNCHANGED sessions
               \/ Settle(r, next, client, sessions)
        PROVE  TypeOK'
    <3>1. next \in Room
      BY Zenon, <2>2, SuccessionType
    <3>2. CASE DeleteRoom(r, next, client) /\ UNCHANGED sessions
      BY Zenon, <2>1, <2>4, <3>2, DeleteRoomType
    <3>3. CASE Settle(r, next, client, sessions)
      BY Zenon, <2>1, <2>4, <3>1, <3>3, SettleType
    <3> QED
      BY Zenon, <2>5, <3>2, <3>3
  <2> QED
    BY Zenon, <2>3, <2>4, <2>5
<1>22. ASSUME NEW r \in Code, FailoverHost(r)
       PROVE  TypeOK'
  <2> DEFINE rm == [room[r] EXCEPT !.OwnerID = IF @ = None THEN room[r].HostID ELSE @]
  <2>1. rm \in Room
    BY DEF Room
  <2> HIDE DEF rm
  <2>2. PICK u \in Deputies(room[r]) : room' = [room EXCEPT ![r] = AssignHost(rm, u)]
    BY Zenon, <1>22 DEF FailoverHost, rm
  <2>3. u \in UserID
    BY Zenon DEF Deputies, Connected
  <2>4. AssignHost(rm, u) \in Room
    BY Zenon, <2>1, <2>3, AssignHostFields
  <2> QED
    BY Zenon, <1>22, <2>2, <2>4 DEF FailoverHost
<1>23. ASSUME NEW r \in Code, CleanupEmptyRoom(r)
       PROVE  TypeOK'
  <2>1. CASE DeleteRoom(r, room[r], client)
    BY Zenon, <1>23, <2>1, DeleteRoomType DEF CleanupEmptyRoom
  <2>2. CASE room' = [room EXCEPT ![r].EmptySince = 0] /\ UNCHANGED <<rooms, client>>
    <3>1. [room[r] EXCEPT !.EmptySince = 0] \in Room
      BY Zenon DEF Room, Age
    <3> QED
      BY Zenon, <1>23, <2>2, <3>1 DEF CleanupEmptyRoom
  <2> QED
    BY Zenon, <1>23, <2>1, <2>2 DEF CleanupEmptyRoom
<1>24. ASSUME Tick
       PROVE  TypeOK'
  <2>1. \A a \in Nat \cup {None}, n \in Nat : Older(a, n) \in Nat \cup {None}
    BY Zenon, OlderType
  <2>2. \A a, n \in Nat : Older(a, n) \in Nat
    BY Zenon, OlderType
  <2>3. \A s \in Session : [s EXCEPT !.age = Older(s.age, ReconnectGracePeriod + 1)] \in Session
    BY Zenon, <2>2, TimeoutType DEF Session, Age
  <2>4. \A rm \in Room : [rm EXCEPT
             !.HostDisconnectedAt = Older(rm.HostDisconnectedAt, HostFailoverTimeout),
             !.EmptySince = Older(rm.EmptySince, EmptyRoomCleanupTimeout + 1)] \in Room
    <3> SUFFICES ASSUME NEW rm \in Room
                 PROVE  [rm EXCEPT
             !.HostDisconnectedAt = Older(rm.HostDisconnectedAt, HostFailoverTimeout),
             !.EmptySince = Older(rm.EmptySince, EmptyRoomCleanupTimeout + 1)] \in Room
      BY Zenon
    <3>1. /\ Older(rm.HostDisconnectedAt, HostFailoverTimeout) \in Nat \cup {None}
          /\ Older(rm.EmptySince, EmptyRoomCleanupTimeout + 1) \in Nat \cup {None}
      <4>1. rm.HostDisconnectedAt \in Nat \cup {None} /\ rm.EmptySince \in Nat \cup {None}
        BY Zenon DEF Room, Age
      <4> QED
        BY Zenon, <2>1, <4>1, TimeoutType
    <3> QED
      BY Zenon, <3>1 DEF Room, Age
  <2>5. room' \in [Code -> Room]
    BY Zenon, <1>24, <2>4 DEF Tick
  <2>6. sessions' \in [Token -> Session \cup {None}]
    BY Zenon, <1>24, <2>3 DEF Tick
  <2>7. uptime' \in Nat
    BY Zenon, <1>24, <2>2, TimeoutType DEF Tick
  <2> QED
    BY Zenon, <1>24, <2>5, <2>6, <2>7 DEF Tick
<1>25. ASSUME Restart
       PROVE  TypeOK'
  <2>1. ASSUME NEW r \in rooms
        PROVE  RestoreRoom(r) \in Room
    <3> DEFINE us == {[x EXCEPT !.isConnected = FALSE] :
                        x \in {x \in room[r].Users :
                                 x.id \notin room[r].DisconnectedUsers \ Kept(r)}}
               at == IF room[r].HostDisconnectedAt # None THEN room[r].HostDisconnectedAt
                     ELSE IF room[r].HostID \in Kept(r) THEN 0 ELSE None
    <3>1. room[r] \in Room
      BY Zenon
    <3>2. Kept(r) \in SUBSET UserID
      BY Zenon, <3>1 DEF Kept, Members, Connected, Room
    <3>3. us \in SUBSET UserInfo
      <4>1. \A x \in UserInfo : [x EXCEPT !.isConnected = FALSE] \in UserInfo
        BY Zenon DEF UserInfo
      <4> QED
        BY Zenon, <3>1, <4>1 DEF Room
    <3>4. at \in Age \cup {None}
      BY Zenon, <3>1 DEF Room, Age
    <3> HIDE DEF us, at
    <3>5. RestoreRoom(r) = [NoRoom EXCEPT !.DisconnectedUsers = Kept(r),
                              !.HostID = room[r].HostID, !.OwnerID = room[r].OwnerID,
                              !.HostDisconnectedAt = at, !.Users = us]
      BY Zenon DEF RestoreRoom, us, at
    <3> QED
      BY Zenon, <3>1, <3>2, <3>3, <3>4, <3>5, NoRoomType DEF Room
  <2>2. ASSUME NEW t \in Token
        PROVE  RestoreSession(t) \in Session \cup {None}
    <3>1. CASE Holders(t) # {}
      <4> DEFINE ru == CHOOSE ru \in Holders(t) : TRUE
                 b == room[ru[1]].HostID = ru[2]
      <4>1. ru \in rooms \X UserID
        BY Zenon, <3>1 DEF Holders
      <4>2. b \in BOOLEAN
        BY Zenon
      <4>3. rooms \in SUBSET Code
        BY Zenon
      <4> HIDE DEF ru, b, TypeOK
      <4>4. ru[1] \in Code /\ ru[2] \in UserID
        BY Zenon, <4>3, <4>1
      <4>5. NewSession(ru[2], ru[1], b) \in Session
        BY Zenon, <4>2, <4>4, NewSessionFields
      <4> QED
        BY Zenon, <3>1, <4>5 DEF RestoreSession, ru, b
    <3>2. CASE Holders(t) = {}
      BY Zenon, <3>2 DEF RestoreSession, Session
    <3> QED
      BY Zenon, <3>1, <3>2
  <2> QED
    BY Zenon, <1>25, <2>1, <2>2, NoRoomType, NoClientType DEF Restart
<1> QED
  BY Zenon, <1>1, <1>2, <1>3, <1>4, <1>5, <1>6, <1>7, <1>8, <1>9, <1>10, <1>11, <1>12, <1>13,
     <1>15, <1>16, <1>17, <1>18, <1>19, <1>20, <1>21, <1>22, <1>23, <1>24, <1>25
     DEF Next, Running, ClientStep, TimerStep

-----------------------------------------------------------------------------
(* SeatInv: the changes several actions share.                             *)

\* The parts of TypeOK that the proofs of SeatInv use: of the clients,
ClientFacts ==
    \A c \in Client :
        /\ ClientID(c) \in UserID \cup {None}
        /\ SessionToken(c) \in Token \cup {None}
        /\ CurrentRoom(c) \in Code \cup {None}

\* of what a handler has in hand between its steps,
AttemptFacts ==
    \A c \in Client : InHand(c) # None =>
        /\ InHand(c).token \in Token
        /\ InHand(c).user \in UserID \cup {None}
        /\ InHand(c).room \in Code \cup {None}

\* of the seats of the rooms,
SeatFacts ==
    /\ rooms \subseteq Code
    /\ \A r \in Code :
         /\ \A u \in UserID : Seat(r, u) \in Client \cup {None}
         /\ Away(r) \subseteq UserID

\* of their hosts and owners,
HostFacts ==
    \A r \in Code :
        /\ HostOf(r) \in Client \cup {None}
        /\ HostIDOf(r) \in UserID \cup {None}
        /\ OwnerIDOf(r) \in UserID \cup {None}

\* of the sessions and of the seats whose grace period has run out.
SessionFacts ==
    /\ \A t \in Token : HasSession(t) =>
         /\ SessionUser(t) \in UserID
         /\ SessionRoom(t) \in Code
         /\ SessionClaim(t) \in Client \cup {None}
    /\ \A e \in expiring : e.user \in UserID /\ e.room \in Code

\* All of them.
TypeFacts == ClientFacts /\ AttemptFacts /\ SeatFacts /\ HostFacts /\ SessionFacts

\* TypeFacts follows from TypeOK.
LEMMA TypeOKFacts == TypeOK => TypeFacts
<1> SUFFICES ASSUME TypeOK PROVE TypeFacts
  BY Zenon
<1> USE DEF TypeOK
<1>1. ASSUME NEW c \in Client
      PROVE  /\ ClientID(c) \in UserID \cup {None}
             /\ SessionToken(c) \in Token \cup {None}
             /\ CurrentRoom(c) \in Code \cup {None}
             /\ InHand(c) \in Attempt \cup {None}
  BY Zenon DEF ClientID, SessionToken, CurrentRoom, InHand, ClientState
<1>2. ASSUME NEW c \in Client, InHand(c) # None
      PROVE  /\ InHand(c).token \in Token
             /\ InHand(c).user \in UserID \cup {None}
             /\ InHand(c).room \in Code \cup {None}
  BY Zenon, <1>1, <1>2 DEF Attempt
<1>3. ASSUME NEW r \in Code
      PROVE  /\ \A u \in UserID : Seat(r, u) \in Client \cup {None}
             /\ Away(r) \subseteq UserID
             /\ HostOf(r) \in Client \cup {None}
             /\ HostIDOf(r) \in UserID \cup {None}
             /\ OwnerIDOf(r) \in UserID \cup {None}
  BY DEF Seat, Away, HostOf, HostIDOf, OwnerIDOf, Room
<1>4. ASSUME NEW t \in Token, HasSession(t)
      PROVE  /\ SessionUser(t) \in UserID
             /\ SessionRoom(t) \in Code
             /\ SessionClaim(t) \in Client \cup {None}
  BY Zenon, <1>4 DEF HasSession, SessionUser, SessionRoom, SessionClaim, Session
<1>5. \A e \in expiring : e.user \in UserID /\ e.room \in Code
  BY Zenon DEF Expiry
<1> QED
  BY Zenon, <1>1, <1>2, <1>3, <1>4, <1>5
     DEF ClientFacts, AttemptFacts, SeatFacts, HostFacts, SessionFacts, TypeFacts

\* What SeatInv says of connection c is as before.
SameClient(c) ==
    /\ Pc(c)' = Pc(c)
    /\ ClientID(c)' = ClientID(c)
    /\ SessionToken(c)' = SessionToken(c)
    /\ CurrentRoom(c)' = CurrentRoom(c)
    /\ InHand(c)' = InHand(c)
    /\ IsClosed(c) => IsClosed(c)'

\* Who sits in r, who is away and who owns it is as before; and who hosts it.
SameSeats(r) ==
    /\ \A u \in UserID : Seat(r, u)' = Seat(r, u)
    /\ Away(r)' = Away(r)
    /\ OwnerIDOf(r)' = OwnerIDOf(r)

SameHost(r) ==
    /\ HostOf(r)' = HostOf(r)
    /\ HostIDOf(r)' = HostIDOf(r)
    /\ (HostLost(r)' = None) <=> (HostLost(r) = None)

SameRoom(r) == SameSeats(r) /\ SameHost(r)

\* What SeatInv says of token t is as before.
SameSession(t) ==
    /\ HasSession(t)' <=> HasSession(t)
    /\ HasSession(t) =>
         /\ SessionUser(t)' = SessionUser(t)
         /\ SessionRoom(t)' = SessionRoom(t)
         /\ SessionHost(t)' <=> SessionHost(t)
         /\ SessionClaim(t)' = SessionClaim(t)

\* A variable that does not change leaves its fields alone.
LEMMA SameVars ==
    /\ client' = client => \A d \in Client : SameClient(d)
    /\ room' = room => \A q \in Code : SameRoom(q)
    /\ sessions' = sessions => \A x \in Token : SameSession(x)
<1>1. client' = client => \A d \in Client : SameClient(d)
  BY Zenon DEF SameClient, Pc, ClientID, SessionToken, CurrentRoom, InHand, IsClosed
<1>2. room' = room => \A q \in Code : SameRoom(q)
  BY Zenon DEF SameRoom, SameSeats, SameHost, Seat, Away, OwnerIDOf, HostOf, HostIDOf,
       HostLost
<1>3. sessions' = sessions => \A x \in Token : SameSession(x)
  BY Zenon DEF SameSession, HasSession, SessionUser, SessionRoom, SessionHost, SessionClaim
<1> QED
  BY Zenon, <1>1, <1>2, <1>3

\* Storing rm under code r changes what is said of r, and of no other room.
LEMMA RoomFields ==
    ASSUME TypeOK, NEW r \in Code, NEW rm, room' = [room EXCEPT ![r] = rm]
    PROVE  /\ \A u \in UserID : Seat(r, u)' = rm.Clients[u]
           /\ Away(r)' = rm.DisconnectedUsers
           /\ OwnerIDOf(r)' = rm.OwnerID
           /\ HostOf(r)' = rm.Host
           /\ HostIDOf(r)' = rm.HostID
           /\ HostLost(r)' = rm.HostDisconnectedAt
           /\ \A q \in Code \ {r} : SameRoom(q)
<1>1. room'[r] = rm /\ \A q \in Code \ {r} : room'[q] = room[q]
  BY Zenon DEF TypeOK
<1> QED
  BY Zenon, <1>1
     DEF SameRoom, SameSeats, SameHost, Seat, Away, OwnerIDOf, HostOf, HostIDOf,
       HostLost

\* The same for connection c.
LEMMA ClientFields ==
    ASSUME TypeOK, NEW c \in Client, NEW x,
           client' = [client EXCEPT ![c] = x]
    PROVE  /\ Pc(c)' = x.pc
           /\ ClientID(c)' = x.id
           /\ SessionToken(c)' = x.token
           /\ CurrentRoom(c)' = x.room
           /\ InHand(c)' = x.attempt
           /\ IsClosed(c)' = x.closed
           /\ \A d \in Client \ {c} : SameClient(d)
<1>1. client'[c] = x /\ \A d \in Client \ {c} : client'[d] = client[d]
  BY Zenon DEF TypeOK
<1> QED
  BY Zenon, <1>1 DEF SameClient, Pc, ClientID, SessionToken, CurrentRoom, InHand, IsClosed

\* A connection may lose its room, and nothing else about it changes.
KeptClient(d) ==
    /\ Pc(d)' = Pc(d)
    /\ ClientID(d)' = ClientID(d)
    /\ SessionToken(d)' = SessionToken(d)
    /\ InHand(d)' = InHand(d)
    /\ IsClosed(d) => IsClosed(d)'
    /\ \/ CurrentRoom(d)' = CurrentRoom(d)
       \/ CurrentRoom(d)' = None /\ Pc(d) # "creating"

\* Room r gains no member, connected or not.
NoneSeated(r) ==
    /\ \A u \in UserID : Seat(r, u)' \in {Seat(r, u), None}
    /\ Away(r)' \subseteq Away(r)

\* Members, sessions and expiries may go, and none comes.
NothingGained ==
    /\ rooms' \subseteq rooms /\ expiring' \subseteq expiring
    /\ \A d \in Client : KeptClient(d)
    /\ \A q \in Code : NoneSeated(q)
    /\ \A x \in Token : ~HasSession(x)' \/ SameSession(x)

\* What SessionSeat says of the connection that claims a session.
ClaimTrue(t) ==
    SessionClaim(t) # None =>
        /\ Pc(SessionClaim(t)) = "claimed"
        /\ InHand(SessionClaim(t)).token = t
        /\ InHand(SessionClaim(t)).user = SessionUser(t)
        /\ InHand(SessionClaim(t)).room = SessionRoom(t)
        /\ SessionHost(t) => SessionClaim(t) \in CanHost

\* Who is who stays known when no identity changes hands.
LEMMA IdentityKept ==
    ASSUME IdentityInv, SeatFacts, expiring' \subseteq expiring,
           \A d \in Client : ClientID(d)' = ClientID(d) /\ (Spent(d) => Spent(d)'),
           \A q \in Code : Away(q)' \subseteq Away(q),
           \A q \in Code : \A w \in Away(q)' : Seat(q, w)' = None
    PROVE  IdentityInv'
<1>1. \A c, d \in Client : c # d /\ ClientID(c)' = ClientID(d)' /\ ClientID(c)' # None =>
        Spent(c)' \/ Spent(d)'
  BY Zenon DEF IdentityInv
<1>2. \A r \in Code : \A u \in Away(r)' : \A c \in Client : ClientID(c)' = u => Spent(c)'
  BY Zenon DEF IdentityInv
<1>3. \A r, q \in Code : r # q => (Away(r) \cap Away(q))' = {}
  BY DEF IdentityInv
<1>4. \A e \in expiring' : \A c \in Client : ClientID(c)' = e.user => Spent(c)'
  BY Zenon DEF IdentityInv
<1>5. \A e \in expiring' : \A r \in Code : e.user \in Away(r)' => r = e.room
  BY Zenon DEF IdentityInv
<1> QED
  BY Zenon, <1>1, <1>2, <1>3, <1>4, <1>5 DEF IdentityInv

\* Tokens stay with their owners when none changes hands.
LEMMA TokensKept ==
    ASSUME SeatTokenInv, PumpInv, AttemptFacts,
           \A d \in Client :
             /\ SessionToken(d)' = SessionToken(d) /\ InHand(d)' = InHand(d)
             /\ CurrentRoom(d)' # None => CurrentRoom(d) # None
             /\ Pc(d) = "creating" \/ Pc(d)' \in {"creating", "claimed"} => Pc(d)' = Pc(d)
             /\ Spent(d) => Spent(d)',
           \A x \in Token : ~HasSession(x)' \/ SameSession(x)
    PROVE  SeatTokenInv'
<1>1. \A c \in Client : CurrentRoom(c)' # None /\ Pc(c)' # "creating" => SessionToken(c)' # None
  BY Zenon DEF SeatTokenInv
<1>2. \A t \in Token : HasSession(t)' => HasSession(t)
  BY Zenon DEF SameSession
<1>3. \A c \in Client : \A t \in Token : SessionToken(c)' = t /\ HasSession(t)' => Spent(c)'
  BY Zenon, <1>2 DEF SeatTokenInv
<1>4. \A c, d \in Client :
        c # d /\ SessionToken(c)' = SessionToken(d)' /\ SessionToken(c)' # None =>
          Spent(c)' \/ Spent(d)'
  BY Zenon DEF SeatTokenInv
<1>5. ASSUME NEW c \in Client, Pc(c)' = "creating"
      PROVE  /\ ~HasSession(InHand(c).token)'
             /\ \A d \in Client : SessionToken(d)' # InHand(c)'.token
             /\ \A d \in Client : d # c /\ InHand(d)' # None =>
                  InHand(d)'.token # InHand(c)'.token
  <2>1. Pc(c) = "creating" /\ InHand(c)' = InHand(c) /\ InHand(c).token \in Token
    BY Zenon, <1>5 DEF PumpInv, AttemptFacts
  <2> QED
    BY Zenon, <2>1, <1>2 DEF SeatTokenInv
<1>6. ASSUME NEW c \in Client, Pc(c)' = "claimed"
      PROVE  /\ \A d \in Client : SessionToken(d)' = InHand(c)'.token => Spent(d)'
             /\ HasSession(InHand(c).token)' => SessionClaim(InHand(c).token)' = c
  <2>1. Pc(c) = "claimed" /\ InHand(c)' = InHand(c) /\ InHand(c).token \in Token
    BY Zenon, <1>6 DEF PumpInv, AttemptFacts
  <2> QED
    BY Zenon, <2>1 DEF SeatTokenInv, SameSession
<1> QED
  BY Zenon, <1>1, <1>3, <1>4, <1>5, <1>6 DEF SeatTokenInv

\* A session still names a held seat when the seat is still held and the claim on
\* it stands.
LEMMA SessionSeatKept ==
    ASSUME SessionSeat, SessionFacts, expiring' \subseteq expiring,
           \A x \in Token : ~HasSession(x)' \/ SameSession(x),
           \A x \in Token, q \in Code : HasSession(x)' /\ SessionRoom(x) = q =>
             q \in rooms' /\ SessionUser(x) \in Away(q)',
           \A q \in rooms : \A w \in Away(q) :
             w \in {HostIDOf(q)', OwnerIDOf(q)'} => w \in {HostIDOf(q), OwnerIDOf(q)},
           \A d \in Client : Pc(d) = "claimed" => Pc(d)' = "claimed" /\ InHand(d)' = InHand(d)
    PROVE  SessionSeat'
<1> SUFFICES ASSUME NEW t \in Token, HasSession(t)'
             PROVE  /\ SessionRoom(t)' \in rooms'
                    /\ SessionUser(t)' \in Away(SessionRoom(t))'
                    /\ \A e \in expiring' : e.user # SessionUser(t)'
                    /\ SessionUser(t)' \in {HostIDOf(SessionRoom(t))',
                                           OwnerIDOf(SessionRoom(t))'} => SessionHost(t)'
                    /\ ClaimTrue(t)'
  BY Zenon DEF SessionSeat, ClaimTrue
<1>1. PICK r, u, d : r = SessionRoom(t) /\ u = SessionUser(t) /\ d = SessionClaim(t)
  BY Zenon
<1>2. /\ HasSession(t) /\ SessionUser(t)' = u /\ SessionRoom(t)' = r
      /\ SessionHost(t)' <=> SessionHost(t)
      /\ SessionClaim(t)' = d
  BY Zenon, <1>1 DEF SameSession
<1>3. /\ r \in rooms /\ r \in Code /\ u \in Away(r) /\ \A e \in expiring : e.user # u
      /\ u \in {HostIDOf(r), OwnerIDOf(r)} => SessionHost(t)
  BY Zenon, <1>1, <1>2 DEF SessionSeat, SessionFacts
<1>4. /\ r \in rooms' /\ u \in Away(r)'
      /\ u \in {HostIDOf(r)', OwnerIDOf(r)'} => SessionHost(t)'
  BY Zenon, <1>1, <1>2, <1>3
<1>5. d # None => /\ d \in Client /\ Pc(d) = "claimed"
                  /\ InHand(d).token = t /\ InHand(d).user = u /\ InHand(d).room = r
                  /\ SessionHost(t) => d \in CanHost
  BY Zenon, <1>1, <1>2 DEF SessionSeat, SessionFacts
<1>6. d # None => Pc(d)' = "claimed" /\ InHand(d)' = InHand(d)
  BY Zenon, <1>5
<1>7. ClaimTrue(t)'
  BY Zenon, <1>2, <1>5, <1>6 DEF ClaimTrue, Pc, InHand
<1> QED
  BY Zenon, <1>2, <1>3, <1>4, <1>7 DEF Away, HostIDOf, OwnerIDOf

\* The held seats stay known when they, their sessions and the claims on them are
\* as before and nobody who is away becomes a host.
LEMMA HeldSeatsKept ==
    ASSUME OneSession, SessionSeat, AwayKnown, SeatFacts, SessionFacts,
           \A x \in Token : SameSession(x),
           expiring' = expiring,
           rooms \subseteq rooms', \A q \in rooms' \ rooms : Away(q)' = {},
           \A q \in rooms : Away(q)' = Away(q),
           \A q \in rooms : \A w \in Away(q) :
             w \in {HostIDOf(q)', OwnerIDOf(q)'} => w \in {HostIDOf(q), OwnerIDOf(q)},
           \A d \in Client : Pc(d) = "claimed" => Pc(d)' = "claimed" /\ InHand(d)' = InHand(d)
    PROVE  SessionInv'
<1>1. OneSession'
  BY Zenon DEF OneSession, SameSession
<1>2. \A x \in Token, q \in Code : HasSession(x)' /\ SessionRoom(x) = q =>
        q \in rooms' /\ SessionUser(x) \in Away(q)'
  BY DEF SessionSeat, SameSession
<1>3. SessionSeat'
  BY Zenon, <1>2, SessionSeatKept
<1>4. AwayKnown'
  <2> SUFFICES ASSUME NEW r \in rooms', NEW u \in Away(r)'
               PROVE  \/ \E t \in Token : /\ HasSession(t)' /\ SessionRoom(t)' = r
                                          /\ SessionUser(t)' = u
                      \/ \E e \in expiring' : e.room = r /\ e.user = u
    BY Zenon DEF AwayKnown
  <2>1. r \in rooms /\ u \in Away(r)
    BY Zenon
  <2> QED
    BY <2>1 DEF AwayKnown, SameSession
<1> QED
  BY Zenon, <1>1, <1>3, <1>4 DEF SessionInv

\* A step in which nobody gains anything keeps what SeatInv says of identities,
\* tokens and the work in hand.
LEMMA NothingGainedInv ==
    ASSUME NothingGained, PumpInv, FoundingInv, IdentityInv, SeatTokenInv, OneSession,
           AttemptFacts, SeatFacts
    PROVE  PumpInv' /\ FoundingInv' /\ IdentityInv' /\ SeatTokenInv' /\ OneSession'
<1> SUFFICES ASSUME rooms' \subseteq rooms, expiring' \subseteq expiring,
                    \A d \in Client : KeptClient(d),
                    \A q \in Code : NoneSeated(q),
                    \A x \in Token : ~HasSession(x)' \/ SameSession(x)
             PROVE  PumpInv' /\ FoundingInv' /\ IdentityInv' /\ SeatTokenInv' /\ OneSession'
  BY Zenon DEF NothingGained
<1>1. PumpInv'
  BY DEF PumpInv, KeptClient
<1>2. FoundingInv'
  BY NamesAssumption DEF FoundingInv, KeptClient, NoneSeated
<1>3. \A d \in Client : Spent(d) => Spent(d)'
  BY DEF Spent, KeptClient
<1>4. \A d \in Client : ClientID(d)' = ClientID(d)
  BY Zenon DEF KeptClient
<1>5. IdentityInv'
  <2>1. \A r \in Code : \A u \in Away(r)' : Seat(r, u)' = None
    BY DEF IdentityInv, NoneSeated, SeatFacts
  <2> QED
    BY Zenon, <1>3, <1>4, <2>1, IdentityKept DEF NoneSeated
<1>6. SeatTokenInv'
  BY Zenon, <1>3, TokensKept DEF KeptClient
<1>7. OneSession'
  BY Zenon DEF OneSession, SameSession
<1> QED
  BY Zenon, <1>1, <1>2, <1>5, <1>6, <1>7

\* Rooms and connections that are as before agree as before.
LEMMA SeatsKept ==
    ASSUME SeatsAgree, HostSeat, OwnerIsAway, PumpInv, ClientFacts, HostFacts,
           rooms' = rooms,
           \A d \in Client : SameClient(d),
           \A q \in Code : SameRoom(q)
    PROVE  SeatsAgree' /\ HostSeat' /\ OwnerIsAway'
<1>1. SeatsAgree'
  BY NamesAssumption
     DEF SeatsAgree, PumpInv, SameClient, SameRoom, SameSeats, ClientFacts
<1>2. HostSeat' /\ OwnerIsAway'
  BY Zenon DEF HostSeat, OwnerIsAway, SameRoom, SameSeats, SameHost, HostFacts
<1> QED
  BY Zenon, <1>1, <1>2

\* A step that changes nothing SeatInv speaks of keeps it.
LEMMA FrameInv ==
    ASSUME IInv, TypeOK', rooms' = rooms, expiring' = expiring,
           \A c \in Client : SameClient(c),
           \A r \in Code : SameRoom(r),
           \A t \in Token : SameSession(t)
    PROVE  SeatInv'
<1> SUFFICES ASSUME SeatsAgree, HostSeat, OwnerIsAway, PumpInv, FoundingInv, IdentityInv,
                    SeatTokenInv, OneSession, SessionSeat, AwayKnown,
                    ClientFacts, AttemptFacts, SeatFacts, HostFacts, SessionFacts
             PROVE  SeatInv'
  BY Zenon, TypeOKFacts DEF IInv, SeatInv, SessionInv, TypeFacts
<1>1. NothingGained
  BY Zenon DEF NothingGained, KeptClient, NoneSeated, SameClient, SameRoom, SameSeats
<1>2. SeatsAgree' /\ HostSeat' /\ OwnerIsAway'
  BY Zenon, SeatsKept
<1>3. PumpInv' /\ FoundingInv' /\ IdentityInv' /\ SeatTokenInv'
  BY Zenon, <1>1, NothingGainedInv
<1>4. SessionInv'
  BY Zenon, HeldSeatsKept DEF SameClient, SameRoom, SameSeats, SameHost, SeatFacts
<1> QED
  BY Zenon, <1>2, <1>3, <1>4 DEF SeatInv

\* Connection c loses seat u of room r, which is held under token t.
AwayStep(c, r, u, t) ==
    /\ CurrentRoom(c) = r /\ ClientID(c) = u /\ SessionToken(c) = t
    /\ Pc(c) # "creating"
    /\ CurrentRoom(c)' = None /\ IsClosed(c)'
    /\ \/ /\ Pc(c)' = "gone" /\ ClientID(c)' = None
          /\ SessionToken(c)' = None /\ InHand(c)' = None
       \/ /\ Pc(c)' = "stopping" /\ ClientID(c)' = u /\ SessionToken(c)' = t
          /\ InHand(c)' = InHand(c)
    /\ \A d \in Client \ {c} :
         \/ SameClient(d)
         \/ /\ ClientID(d)' = ClientID(d) /\ SessionToken(d)' = SessionToken(d)
            /\ CurrentRoom(d)' = CurrentRoom(d) /\ IsClosed(d)' = IsClosed(d)
            /\ Pc(d) = "idle" /\ Pc(d)' = "retry"
            /\ CurrentRoom(d) = None
            /\ InHand(d)' # None /\ InHand(d)'.token = t
    /\ \A w \in UserID \ {u} : Seat(r, w)' = Seat(r, w)
    /\ Seat(r, u)' = None
    /\ Away(r)' = Away(r) \cup {u}
    /\ OwnerIDOf(r)' = OwnerIDOf(r)
    /\ HostIDOf(r)' = HostIDOf(r)
    /\ IF HostOf(r) = c THEN HostOf(r)' = None /\ HostLost(r)' # None
                        ELSE HostOf(r)' = HostOf(r) /\ HostLost(r)' = HostLost(r)
    /\ \A q \in Code \ {r} : SameRoom(q)
    /\ HasSession(t)' /\ SessionUser(t)' = u /\ SessionRoom(t)' = r
    /\ SessionHost(t)' <=> (HostOf(r) = c)
    /\ SessionClaim(t)' = None
    /\ \A x \in Token \ {t} : SameSession(x)
    /\ UNCHANGED <<rooms, expiring>>

\* handleClientDisconnect keeps SeatInv, whether a read pump ends or another
\* connection takes the session over.
LEMMA AwayStepInv ==
    ASSUME IInv, TypeOK', NEW c \in Client, NEW r \in Code, NEW u \in UserID, NEW t \in Token,
           AwayStep(c, r, u, t)
    PROVE  SeatInv'
<1> SUFFICES ASSUME SeatsAgree, HostSeat, OwnerIsAway, PumpInv, FoundingInv, IdentityInv,
                    SeatTokenInv, OneSession, SessionSeat, AwayKnown,
                    ClientFacts, AttemptFacts, SeatFacts, HostFacts, SessionFacts,
                    ClientFacts', AttemptFacts', SeatFacts', HostFacts', SessionFacts'
             PROVE  SeatInv'
  BY TypeOKFacts, PTL DEF IInv, SeatInv, SessionInv, TypeFacts
<1>2. r \in rooms /\ Seat(r, u) = c /\ u # None /\ t # None /\ r # None /\ c # None
  BY Zenon, NamesAssumption DEF AwayStep, SeatsAgree
<1>3. /\ \A q \in Code : u \notin Away(q)
      /\ \A d \in Client \ {c} : ClientID(d) = u => Spent(d)
      /\ \A e \in expiring : e.user # u
  BY <1>2 DEF IdentityInv, Spent, AwayStep
<1>4. /\ ~HasSession(t)
      /\ \A d \in Client \ {c} : SessionToken(d) = t => Spent(d)
      /\ \A d \in Client : Pc(d) \in {"creating", "claimed"} => InHand(d).token # t
  BY Zenon, <1>2 DEF SeatTokenInv, Spent, AwayStep
<1>5. (HostOf(r) = c) <=> (HostIDOf(r) = u)
  BY <1>3, <1>2 DEF HostSeat, SeatsAgree, HostFacts
<1>6. \A x \in Token : HasSession(x) => SessionUser(x) # u
  BY Zenon, <1>3 DEF SessionSeat, SessionFacts
<1>11. SeatsAgree'
  BY NamesAssumption
     DEF SeatsAgree, PumpInv, AwayStep, SameClient, SameRoom, SameSeats, ClientFacts
<1>12. HostSeat'
  BY <1>5 DEF HostSeat, AwayStep, SameRoom, SameSeats, SameHost, HostFacts
<1>13. OwnerIsAway'
  BY Zenon DEF OwnerIsAway, AwayStep, SameRoom, SameSeats, SameHost
<1>14. PumpInv'
  BY Zenon, <1>2 DEF PumpInv, AwayStep, SameClient
<1>15. FoundingInv'
  BY NamesAssumption DEF FoundingInv, AwayStep, SameClient, SameRoom, SameSeats
<1>16. IdentityInv'
  BY NamesAssumption
     DEF IdentityInv, Spent, AwayStep, SameClient, SameRoom, SameSeats, SeatFacts,
       SessionFacts
<1>17. SeatTokenInv'
  BY NamesAssumption
     DEF SeatTokenInv, PumpInv, Spent, AwayStep, SameClient, SameSession, AttemptFacts
<1>18. OneSession'
  BY Zenon, <1>6 DEF OneSession, AwayStep, SameSession
<1>19. SessionSeat'
  BY SMTT(30), <1>3, <1>5, <1>2
     DEF SessionSeat, OwnerIsAway, PumpInv, AwayStep, SameClient, SameRoom, SameSeats,
       SameHost, SameSession, SessionFacts
<1>20. AwayKnown'
  BY <1>4 DEF AwayKnown, AwayStep, SameRoom, SameSeats, SameSession, SeatFacts
<1> QED
  BY Zenon, <1>11, <1>12, <1>13, <1>14, <1>15, <1>16, <1>17, <1>18, <1>19, <1>20
     DEF SeatInv, SessionInv

\* Room r leaves the server: it has no members, nobody is in it,
RoomVacated(r) ==
    /\ r \in rooms
    /\ rooms' = rooms \ {r}
    /\ \A u \in UserID : Seat(r, u)' = None
    /\ Away(r)' = {} /\ OwnerIDOf(r)' = None
    /\ HostOf(r)' = None /\ HostIDOf(r)' = None /\ HostLost(r)' = None
    /\ \A q \in Code \ {r} : SameRoom(q)

RoomLeft(r) ==
    \A d \in Client :
        /\ Pc(d)' = Pc(d) /\ ClientID(d)' = ClientID(d)
        /\ SessionToken(d)' = SessionToken(d) /\ IsClosed(d)' = IsClosed(d)
        /\ InHand(d)' = InHand(d)
        /\ CurrentRoom(d)' = IF CurrentRoom(d) = r THEN None ELSE CurrentRoom(d)

\* and no session and no expiry names it.
RoomForgotten(r) ==
    /\ \A x \in Token : IF HasSession(x) /\ SessionRoom(x) = r
                          THEN ~HasSession(x)' ELSE SameSession(x)
    /\ expiring' \subseteq expiring
    /\ \A e \in expiring : e \notin expiring' => e.room = r

RoomGone(r) == RoomVacated(r) /\ RoomLeft(r) /\ RoomForgotten(r)

\* deleteRoomIfEmpty, closeRoom and the empty-room sweep leave no reference to
\* the room behind.
LEMMA RoomGoneInv ==
    ASSUME IInv, NEW r \in Code, RoomGone(r)
    PROVE  SeatInv'
<1> SUFFICES ASSUME SeatsAgree, HostSeat, OwnerIsAway, PumpInv, FoundingInv, IdentityInv,
                    SeatTokenInv, OneSession, SessionSeat, AwayKnown,
                    ClientFacts, AttemptFacts, SeatFacts, HostFacts, SessionFacts,
                    RoomVacated(r), RoomLeft(r), RoomForgotten(r)
             PROVE  SeatInv'
  BY Zenon, TypeOKFacts DEF IInv, SeatInv, SessionInv, TypeFacts, RoomGone
<1>1. NothingGained
  <2>1. \A d \in Client : KeptClient(d)
    BY Zenon DEF KeptClient, RoomLeft, RoomVacated, FoundingInv
  <2>2. \A q \in Code : NoneSeated(q)
    BY Zenon DEF NoneSeated, RoomVacated, SameRoom, SameSeats
  <2>3. \A x \in Token : ~HasSession(x)' \/ SameSession(x)
    BY Zenon DEF RoomForgotten
  <2> QED
    BY Zenon, <2>1, <2>2, <2>3 DEF NothingGained, RoomVacated, RoomForgotten
<1>2. SeatsAgree'
  BY NamesAssumption
     DEF SeatsAgree, PumpInv, RoomVacated, RoomLeft, SameRoom, SameSeats, ClientFacts
<1>3. HostSeat' /\ OwnerIsAway'
  BY Zenon DEF HostSeat, OwnerIsAway, RoomVacated, SameRoom, SameSeats, SameHost, HostFacts
<1>4. PumpInv' /\ FoundingInv' /\ IdentityInv' /\ SeatTokenInv' /\ OneSession'
  BY Zenon, <1>1, NothingGainedInv
<1>5. SessionSeat'
  <2>1. \A x \in Token : HasSession(x)' => SameSession(x) /\ HasSession(x) /\ SessionRoom(x) # r
    BY Zenon DEF RoomForgotten, SameSession
  <2>2. \A x \in Token, q \in Code : HasSession(x)' /\ SessionRoom(x) = q =>
          q \in rooms' /\ SessionUser(x) \in Away(q)'
    BY <2>1 DEF SessionSeat, RoomVacated, SameRoom, SameSeats
  <2>3. \A q \in rooms : \A w \in Away(q) :
          w \in {HostIDOf(q)', OwnerIDOf(q)'} => w \in {HostIDOf(q), OwnerIDOf(q)}
    BY NamesAssumption DEF RoomVacated, SameRoom, SameSeats, SameHost, SeatFacts
  <2>4. \A d \in Client : Pc(d) = "claimed" => Pc(d)' = "claimed" /\ InHand(d)' = InHand(d)
    BY Zenon DEF RoomLeft
  <2> QED
    BY Zenon, <2>1, <2>2, <2>3, <2>4, SessionSeatKept DEF RoomForgotten
<1>6. AwayKnown'
  BY DEF AwayKnown, RoomVacated, RoomForgotten, SameRoom, SameSeats, SameSession, SeatFacts
<1> QED
  BY Zenon, <1>2, <1>3, <1>4, <1>5, <1>6 DEF SeatInv, SessionInv

\* The host of r is a connected member whose client may host, or nobody.
NewHost(r) ==
    /\ HostLost(r)' = None
    /\ \/ HostIDOf(r)' = None /\ HostOf(r)' = None
       \/ /\ HostIDOf(r)' \in UserID /\ HostOf(r)' \in CanHost
          /\ Seat(r, HostIDOf(r))' = HostOf(r)'

\* Connection c gives up seat u of room r, which stays: what changes in the room
\* and about the connection. The sessions are as before.
SeatEmptied(c, r, u) ==
    /\ \A w \in UserID : Seat(r, w)' = IF w = u THEN None ELSE Seat(r, w)
    /\ Away(r)' = Away(r)
    /\ OwnerIDOf(r)' = OwnerIDOf(r)
    /\ IF HostOf(r) = c THEN NewHost(r) ELSE SameHost(r)
    /\ \A q \in Code \ {r} : SameRoom(q)

SeatLeft(c, r, u) ==
    /\ Pc(c) # "creating" /\ CurrentRoom(c) = r /\ ClientID(c) = u
    /\ Pc(c)' = Pc(c) /\ ClientID(c)' = ClientID(c)
    /\ SessionToken(c)' = SessionToken(c) /\ IsClosed(c)' = IsClosed(c)
    /\ InHand(c)' = InHand(c) /\ CurrentRoom(c)' = None
    /\ \A d \in Client \ {c} : SameClient(d)

MemberLeft(c, r, u) ==
    /\ SeatEmptied(c, r, u)
    /\ SeatLeft(c, r, u)
    /\ \A x \in Token : SameSession(x)
    /\ UNCHANGED <<rooms, expiring>>

\* A member who leaves or is kicked from a room that stays keeps SeatInv.
LEMMA MemberLeftInv ==
    ASSUME IInv, TypeOK', NEW c \in Client, NEW r \in Code, NEW u \in UserID,
           MemberLeft(c, r, u)
    PROVE  SeatInv'
<1> SUFFICES ASSUME SeatsAgree, HostSeat, OwnerIsAway, PumpInv, FoundingInv, IdentityInv,
                    SeatTokenInv, OneSession, SessionSeat, AwayKnown,
                    ClientFacts, AttemptFacts, SeatFacts, HostFacts, SessionFacts,
                    SeatEmptied(c, r, u), SeatLeft(c, r, u), rooms' = rooms,
                    expiring' = expiring, \A x \in Token : SameSession(x)
             PROVE  SeatInv'
  BY Zenon, TypeOKFacts DEF IInv, SeatInv, SessionInv, TypeFacts, MemberLeft
<1>1. NothingGained
  <2>1. \A d \in Client : KeptClient(d)
    BY Zenon DEF KeptClient, SeatLeft, SameClient
  <2>2. \A q \in Code : NoneSeated(q)
    BY Zenon DEF NoneSeated, SeatEmptied, SameRoom, SameSeats
  <2> QED
    BY Zenon, <2>1, <2>2 DEF NothingGained
<1>2. /\ (HostOf(r) = c) <=> (HostIDOf(r) = u)
      /\ u \notin Away(r) /\ Seat(r, u) = c /\ r \in rooms
  BY NamesAssumption DEF HostSeat, SeatsAgree, IdentityInv, SeatLeft, SeatFacts, HostFacts
<1>3. \A w \in Away(r) : w = HostIDOf(r)' => w = HostIDOf(r)
  BY NamesAssumption
     DEF IdentityInv, SeatEmptied, NewHost, SameHost, SeatFacts
<1>4. SeatsAgree'
  BY NamesAssumption
     DEF SeatsAgree, PumpInv, SeatEmptied, SeatLeft, SameClient, SameRoom, SameSeats,
       ClientFacts
<1>5. HostSeat'
  BY <1>2, NamesAssumption
     DEF HostSeat, SeatEmptied, NewHost, SameRoom, SameSeats, SameHost, HostFacts
<1>6. OwnerIsAway'
  BY Zenon, <1>3 DEF OwnerIsAway, SeatEmptied, SameRoom, SameSeats, SameHost
<1>7. PumpInv' /\ FoundingInv' /\ IdentityInv' /\ SeatTokenInv'
  BY Zenon, <1>1, NothingGainedInv
<1>8. SessionInv'
  <2>1. \A q \in rooms : Away(q)' = Away(q)
    BY Zenon DEF SeatEmptied, SameRoom, SameSeats, SeatFacts
  <2>2. \A q \in rooms : \A w \in Away(q) :
          w \in {HostIDOf(q)', OwnerIDOf(q)'} => w \in {HostIDOf(q), OwnerIDOf(q)}
    BY Zenon, <1>3 DEF SeatEmptied, SameRoom, SameSeats, SameHost, SeatFacts
  <2>3. \A d \in Client : Pc(d) = "claimed" => Pc(d)' = "claimed" /\ InHand(d)' = InHand(d)
    BY Zenon DEF SeatLeft, SameClient
  <2> QED
    BY Zenon, <2>1, <2>2, <2>3, HeldSeatsKept DEF SeatFacts
<1> QED
  BY Zenon, <1>4, <1>5, <1>6, <1>7, <1>8 DEF SeatInv

\* The held seat u of room r is given up, and r stays; the session or the pending
\* expiry that knew of the seat goes with it.
HeldSeatEmptied(r, u) ==
    /\ r \in rooms /\ u \in Away(r)
    /\ \A w \in UserID : Seat(r, w)' = Seat(r, w)
    /\ Away(r)' = Away(r) \ {u}
    /\ OwnerIDOf(r)' = IF OwnerIDOf(r) = u THEN None ELSE OwnerIDOf(r)
    /\ IF HostIDOf(r) = u THEN NewHost(r) ELSE SameHost(r)
    /\ \A q \in Code \ {r} : SameRoom(q)

UserForgotten(u) ==
    /\ \A x \in Token : IF HasSession(x) /\ SessionUser(x) = u
                          THEN ~HasSession(x)' ELSE SameSession(x)
    /\ expiring' \subseteq expiring
    /\ \A e \in expiring : e \notin expiring' => e.user = u

SeatForgotten(r, u) ==
    /\ HeldSeatEmptied(r, u)
    /\ \A d \in Client : SameClient(d)
    /\ UserForgotten(u)
    /\ UNCHANGED rooms

\* A disconnected member whose time is up, or whom the host kicks, takes along
\* what would have brought them back.
LEMMA SeatForgottenInv ==
    ASSUME IInv, TypeOK', NEW r \in Code, NEW u \in UserID, SeatForgotten(r, u)
    PROVE  SeatInv'
<1> SUFFICES ASSUME SeatsAgree, HostSeat, OwnerIsAway, PumpInv, FoundingInv, IdentityInv,
                    SeatTokenInv, OneSession, SessionSeat, AwayKnown,
                    ClientFacts, AttemptFacts, SeatFacts, HostFacts, SessionFacts,
                    HeldSeatEmptied(r, u), \A d \in Client : SameClient(d),
                    UserForgotten(u), rooms' = rooms
             PROVE  SeatInv'
  BY Zenon, TypeOKFacts DEF IInv, SeatInv, SessionInv, TypeFacts, SeatForgotten
<1>1. NothingGained
  <2>1. \A d \in Client : KeptClient(d)
    BY Zenon DEF KeptClient, SameClient
  <2>2. \A q \in Code : NoneSeated(q)
    BY DEF NoneSeated, HeldSeatEmptied, SameRoom, SameSeats
  <2>3. \A x \in Token : ~HasSession(x)' \/ SameSession(x)
    BY Zenon DEF UserForgotten
  <2> QED
    BY Zenon, <2>1, <2>2, <2>3 DEF NothingGained, UserForgotten
<1>2. \A w \in Away(r) : w = HostIDOf(r)' => w = HostIDOf(r)
  BY NamesAssumption DEF IdentityInv, HeldSeatEmptied, NewHost, SameHost, SeatFacts
<1>3. SeatsAgree'
  BY NamesAssumption
     DEF SeatsAgree, HeldSeatEmptied, PumpInv, SameClient, SameRoom, SameSeats,
       ClientFacts
<1>4. HostSeat'
  BY NamesAssumption
     DEF HostSeat, HeldSeatEmptied, NewHost, SameRoom, SameSeats, SameHost, HostFacts
<1>5. OwnerIsAway'
  BY Zenon, <1>2 DEF OwnerIsAway, HeldSeatEmptied, SameRoom, SameSeats, SameHost
<1>6. PumpInv' /\ FoundingInv' /\ IdentityInv' /\ SeatTokenInv' /\ OneSession'
  BY Zenon, <1>1, NothingGainedInv
<1>7. SessionSeat'
  <2>1. \A x \in Token : HasSession(x)' => SameSession(x) /\ HasSession(x) /\ SessionUser(x) # u
    BY Zenon DEF UserForgotten, SameSession
  <2>2. \A x \in Token, q \in Code : HasSession(x)' /\ SessionRoom(x) = q =>
          q \in rooms' /\ SessionUser(x) \in Away(q)'
    BY <2>1 DEF SessionSeat, HeldSeatEmptied, SameRoom, SameSeats
  <2>3. \A q \in rooms : \A w \in Away(q) :
          w \in {HostIDOf(q)', OwnerIDOf(q)'} => w \in {HostIDOf(q), OwnerIDOf(q)}
    BY <1>2, NamesAssumption DEF HeldSeatEmptied, SameRoom, SameSeats, SameHost, SeatFacts
  <2> QED
    BY Zenon, <2>1, <2>2, <2>3, SessionSeatKept DEF UserForgotten, SameClient
<1>8. AwayKnown'
  <2> SUFFICES ASSUME NEW q \in rooms, NEW w \in Away(q), w # u
               PROVE  \/ \E t \in Token : /\ HasSession(t)' /\ SessionRoom(t)' = q
                                          /\ SessionUser(t)' = w
                      \/ \E e \in expiring' : e.room = q /\ e.user = w
    <3>1. \A q \in rooms' : \A w \in Away(q)' : q \in rooms /\ w \in Away(q) /\ w # u
      BY DEF HeldSeatEmptied, SameRoom, SameSeats, SeatFacts, IdentityInv
    <3> QED
      BY <3>1 DEF AwayKnown
  <2> QED
    BY DEF AwayKnown, UserForgotten, SameSession
<1> QED
  BY Zenon, <1>3, <1>4, <1>5, <1>6, <1>7, <1>8 DEF SeatInv, SessionInv

\* The host's seat of r goes to the connected member u, and the owner a deputy
\* stands in for is o. Nothing but room r changes.
HostGiven(r, u, o) ==
    /\ Seat(r, u) \in CanHost
    /\ o # None => o \in Away(r) /\ o # u /\ o \in {HostIDOf(r), OwnerIDOf(r)}
    /\ HostOf(r)' = Seat(r, u) /\ HostIDOf(r)' = u /\ HostLost(r)' = None
    /\ \A w \in UserID : Seat(r, w)' = Seat(r, w)
    /\ Away(r)' = Away(r) /\ OwnerIDOf(r)' = o
    /\ \A q \in Code \ {r} : SameRoom(q)

HostMoved(r, u, o) ==
    /\ HostGiven(r, u, o)
    /\ \A d \in Client : SameClient(d)
    /\ \A x \in Token : SameSession(x)
    /\ UNCHANGED <<rooms, expiring>>

\* handleTransferHost and failoverHostsOnce keep SeatInv.
LEMMA HostMovedInv ==
    ASSUME IInv, TypeOK', NEW r \in Code, NEW u \in UserID, NEW o, HostMoved(r, u, o)
    PROVE  SeatInv'
<1> SUFFICES ASSUME SeatsAgree, HostSeat, OwnerIsAway, PumpInv, FoundingInv, IdentityInv,
                    SeatTokenInv, OneSession, SessionSeat, AwayKnown,
                    ClientFacts, AttemptFacts, SeatFacts, HostFacts, SessionFacts,
                    HostGiven(r, u, o), \A d \in Client : SameClient(d),
                    \A x \in Token : SameSession(x), rooms' = rooms, expiring' = expiring
             PROVE  SeatInv'
  BY Zenon, TypeOKFacts DEF IInv, SeatInv, SessionInv, TypeFacts, HostMoved
<1>1. NothingGained
  <2>1. \A d \in Client : KeptClient(d)
    BY Zenon DEF KeptClient, SameClient
  <2>2. \A q \in Code : NoneSeated(q)
    BY Zenon DEF NoneSeated, HostGiven, SameRoom, SameSeats
  <2> QED
    BY Zenon, <2>1, <2>2 DEF NothingGained
<1>2. u \notin Away(r) /\ u # None
  BY Zenon, NamesAssumption DEF IdentityInv, HostGiven
<1>3. SeatsAgree'
  BY NamesAssumption
     DEF SeatsAgree, HostGiven, PumpInv, SameClient, SameRoom, SameSeats, ClientFacts
<1>4. HostSeat'
  BY NamesAssumption DEF HostSeat, HostGiven, SameRoom, SameSeats, SameHost, HostFacts
<1>5. OwnerIsAway'
  BY DEF OwnerIsAway, HostGiven, SameRoom, SameSeats, SameHost
<1>6. PumpInv' /\ FoundingInv' /\ IdentityInv' /\ SeatTokenInv'
  BY Zenon, <1>1, NothingGainedInv
<1>7. SessionInv'
  <2>1. \A q \in rooms : Away(q)' = Away(q)
    BY Zenon DEF HostGiven, SameRoom, SameSeats, SeatFacts
  <2>2. \A q \in rooms : \A w \in Away(q) :
          w \in {HostIDOf(q)', OwnerIDOf(q)'} => w \in {HostIDOf(q), OwnerIDOf(q)}
    BY <1>2, NamesAssumption DEF HostGiven, SameRoom, SameSeats, SameHost, SeatFacts
  <2> QED
    BY Zenon, <2>1, <2>2, HeldSeatsKept DEF SameClient, SeatFacts
<1> QED
  BY Zenon, <1>3, <1>4, <1>5, <1>6, <1>7 DEF SeatInv

\* A free code has no member, no host and no owner.
LEMMA NoRoomFields ==
    /\ NoRoom.DisconnectedUsers = {} /\ NoRoom.OwnerID = None /\ NoRoom.Host = None
    /\ NoRoom.HostID = None /\ NoRoom.HostDisconnectedAt = None
    /\ \A u \in UserID : NoRoom.Clients[u] = None
BY Zenon DEF NoRoom, NoMember

\* A code that is freed says so, and no other room changes.
LEMMA RoomEmptied ==
    ASSUME TypeOK, NEW r \in Code, room' = [room EXCEPT ![r] = NoRoom]
    PROVE  /\ \A u \in UserID : Seat(r, u)' = None
           /\ Away(r)' = {} /\ OwnerIDOf(r)' = None
           /\ HostOf(r)' = None /\ HostIDOf(r)' = None /\ HostLost(r)' = None
           /\ \A q \in Code \ {r} : SameRoom(q)
<1>1. room'[r] = NoRoom /\ \A q \in Code \ {r} : room'[q] = room[q]
  BY Zenon DEF TypeOK
<1> QED
  BY Zenon, <1>1, NoRoomFields
     DEF SameRoom, SameSeats, SameHost, Seat, Away, OwnerIDOf, HostOf, HostIDOf,
       HostLost

\* What deleteRoomIfEmpty leaves of room r and of the clients cl.
LEMMA DeleteRoomFields ==
    ASSUME TypeOK, NEW r \in Code, NEW rm, NEW cl \in [Client -> ClientState],
           DeleteRoom(r, rm, cl)
    PROVE  /\ rooms' = rooms \ {r}
           /\ \A u \in UserID : Seat(r, u)' = None
           /\ Away(r)' = {} /\ OwnerIDOf(r)' = None
           /\ HostOf(r)' = None /\ HostIDOf(r)' = None /\ HostLost(r)' = None
           /\ \A q \in Code \ {r} : SameRoom(q)
           /\ \A d \in Client :
                /\ Pc(d)' = cl[d].pc /\ ClientID(d)' = cl[d].id
                /\ SessionToken(d)' = cl[d].token /\ IsClosed(d)' = cl[d].closed
                /\ InHand(d)' = cl[d].attempt /\ CurrentRoom(d)' = cl[d].room
<1>1. rooms' = rooms \ {r} /\ room' = [room EXCEPT ![r] = NoRoom]
  BY Zenon DEF DeleteRoom
<1>2. ASSUME NEW d \in Client
      PROVE  /\ Pc(d)' = cl[d].pc /\ ClientID(d)' = cl[d].id
             /\ SessionToken(d)' = cl[d].token /\ IsClosed(d)' = cl[d].closed
             /\ InHand(d)' = cl[d].attempt /\ CurrentRoom(d)' = cl[d].room
  <2>1. PICK x : x = cl[d]
    BY Zenon
  <2> DEFINE y == ClearPendingRoom(x, r)
  <2>2. client'[d] = x \/ client'[d] = y
    BY Zenon, <2>1 DEF DeleteRoom
  <2>3. /\ y.pc = x.pc /\ y.id = x.id /\ y.token = x.token /\ y.closed = x.closed
        /\ y.attempt = x.attempt /\ y.room = x.room
    BY <2>1, ClearPendingRoomType
  <2> HIDE DEF y
  <2> QED
    BY Zenon, <2>1, <2>2, <2>3 DEF Pc, ClientID, SessionToken, IsClosed, InHand, CurrentRoom
<1>3. /\ \A u \in UserID : Seat(r, u)' = None
      /\ Away(r)' = {} /\ OwnerIDOf(r)' = None
      /\ HostOf(r)' = None /\ HostIDOf(r)' = None /\ HostLost(r)' = None
      /\ \A q \in Code \ {r} : SameRoom(q)
  BY Zenon, <1>1, RoomEmptied
<1> QED
  BY Zenon, <1>1, <1>2, <1>3

\* What closeRoom leaves of room r, and of the clients cl.
LEMMA CloseRoomFields ==
    ASSUME TypeOK, NEW r \in Code, NEW rm, NEW cl \in [Client -> ClientState],
           CloseRoom(r, rm, cl, sessions)
    PROVE  /\ rooms' = rooms \ {r}
           /\ \A u \in UserID : Seat(r, u)' = None
           /\ Away(r)' = {} /\ OwnerIDOf(r)' = None
           /\ HostOf(r)' = None /\ HostIDOf(r)' = None /\ HostLost(r)' = None
           /\ \A q \in Code \ {r} : SameRoom(q)
           /\ \A d \in Client :
                /\ Pc(d)' = cl[d].pc /\ ClientID(d)' = cl[d].id
                /\ SessionToken(d)' = cl[d].token /\ IsClosed(d)' = cl[d].closed
                /\ InHand(d)' = cl[d].attempt
                /\ CurrentRoom(d)' = IF (\E u \in UserID : rm.Clients[u] = d) /\ cl[d].room = r
                                       THEN None ELSE cl[d].room
<1>1. rooms' = rooms \ {r} /\ room' = [room EXCEPT ![r] = NoRoom]
  BY Zenon DEF CloseRoom
<1>2. ASSUME NEW d \in Client
      PROVE  /\ Pc(d)' = cl[d].pc /\ ClientID(d)' = cl[d].id
             /\ SessionToken(d)' = cl[d].token /\ IsClosed(d)' = cl[d].closed
             /\ InHand(d)' = cl[d].attempt
             /\ CurrentRoom(d)' = IF (\E u \in UserID : rm.Clients[u] = d) /\ cl[d].room = r
                                    THEN None ELSE cl[d].room
  <2> DEFINE member == \E u \in UserID : rm.Clients[u] = d
  <2>1. PICK x : x = cl[d] /\ x \in ClientState
    BY Zenon
  <2> DEFINE y == IF member THEN ClearRoom(x, r) ELSE x
             z == ClearPendingRoom(y, r)
  <2>2. client'[d] = y \/ client'[d] = z
    BY Zenon, <2>1 DEF CloseRoom
  <2> HIDE DEF member
  <2>3. /\ y \in ClientState /\ y.pc = x.pc /\ y.id = x.id /\ y.token = x.token
        /\ y.closed = x.closed /\ y.attempt = x.attempt
        /\ y.room = IF member /\ x.room = r THEN None ELSE x.room
    BY <2>1, ClearRoomType
  <2> HIDE DEF y
  <2>4. /\ z.pc = y.pc /\ z.id = y.id /\ z.token = y.token /\ z.closed = y.closed
        /\ z.attempt = y.attempt /\ z.room = y.room
    BY <2>3, ClearPendingRoomType
  <2> HIDE DEF z
  <2>5. CurrentRoom(d)' = IF member /\ cl[d].room = r THEN None ELSE cl[d].room
    BY Zenon, <2>1, <2>2, <2>3, <2>4 DEF CurrentRoom
  <2> QED
    BY Zenon, <2>1, <2>2, <2>3, <2>4, <2>5
       DEF Pc, ClientID, SessionToken, IsClosed, InHand, member
<1>3. /\ \A u \in UserID : Seat(r, u)' = None
      /\ Away(r)' = {} /\ OwnerIDOf(r)' = None
      /\ HostOf(r)' = None /\ HostIDOf(r)' = None /\ HostLost(r)' = None
      /\ \A q \in Code \ {r} : SameRoom(q)
  BY Zenon, <1>1, RoomEmptied
<1> QED
  BY Zenon, <1>1, <1>2, <1>3

\* The host pickDeputy finds is a connected member whose client may host.
LEMMA SuccessionFields ==
    ASSUME TypeOK, NEW rm \in Room, NEW vacated \in BOOLEAN, NEW next \in Succession(rm, vacated)
    PROVE  /\ next \in Room
           /\ next.Clients = rm.Clients /\ next.DisconnectedUsers = rm.DisconnectedUsers
           /\ next.OwnerID = rm.OwnerID
           /\ ~vacated => next = rm
           /\ vacated =>
                /\ next.HostDisconnectedAt = None
                /\ \/ next.HostID = None /\ next.Host = None
                   \/ /\ next.HostID \in UserID /\ next.Host \in CanHost
                      /\ rm.Clients[next.HostID] = next.Host
<1>1. CASE ~vacated
  BY Zenon, <1>1 DEF Succession
<1>2. CASE vacated
  <2>1. PICK u \in PickDeputy(rm) : next = AssignHost(rm, u)
    BY Zenon, <1>2 DEF Succession
  <2>2. u = None \/ (u \in UserID /\ rm.Clients[u] \in CanHost)
    BY Zenon DEF PickDeputy, Deputies, Connected
  <2>3. u \in UserID => u # None
    BY Zenon, NamesAssumption
  <2> QED
    BY <1>2, <2>1, <2>2, <2>3, AssignHostFields
<1> QED
  BY Zenon, <1>1, <1>2

\* An empty room is deleted: with the last member, c if there is one, gone.
LEMMA DeletedInv ==
    ASSUME IInv, TypeOK', NEW r \in rooms, NEW rm, NEW c, NEW cl \in [Client -> ClientState],
           DeleteRoom(r, rm, cl),
           \A u \in UserID : Seat(r, u) \in {None, c},
           \A u \in Away(r) : \E e \in expiring : e \notin expiring' /\ e.user = u,
           \A d \in Client : /\ cl[d].pc = Pc(d) /\ cl[d].id = ClientID(d)
                             /\ cl[d].token = SessionToken(d) /\ cl[d].closed = IsClosed(d)
                             /\ cl[d].attempt = InHand(d)
                             /\ cl[d].room = IF d = c THEN None ELSE CurrentRoom(d),
           c \in Client => CurrentRoom(c) = r,
           \A t \in Token : SameSession(t),
           expiring' \subseteq expiring,
           \A e \in expiring : e \notin expiring' => e.room = r
    PROVE  SeatInv'
<1>1. TypeFacts
  BY Zenon, TypeOKFacts DEF IInv
<1>2. r \in Code
  BY Zenon, <1>1 DEF SeatFacts, TypeFacts
<1>3. \A d \in Client : CurrentRoom(d) = r => d = c
  <2> SUFFICES ASSUME NEW d \in Client, CurrentRoom(d) = r PROVE d = c
    BY Zenon
  <2>1. ClientID(d) \in UserID /\ Seat(r, ClientID(d)) = d
    BY Zenon, <1>1, <1>2, NamesAssumption
       DEF IInv, SeatInv, SeatsAgree, PumpInv, ClientFacts, TypeFacts
  <2> QED
    BY <2>1, NamesAssumption
<1>4. \A t \in Token : HasSession(t) => SessionRoom(t) # r
  BY <1>1 DEF IInv, SeatInv, SessionInv, SessionSeat
<1>5. RoomGone(r)
  <2>1. TypeOK
    BY Zenon DEF IInv
  <2>2. RoomVacated(r)
    BY Zenon, <1>2, <2>1, DeleteRoomFields DEF RoomVacated
  <2>3. RoomLeft(r)
    <3>1. \A d \in Client :
            /\ Pc(d)' = cl[d].pc /\ ClientID(d)' = cl[d].id
            /\ SessionToken(d)' = cl[d].token /\ IsClosed(d)' = cl[d].closed
            /\ InHand(d)' = cl[d].attempt /\ CurrentRoom(d)' = cl[d].room
      BY Zenon, <1>2, <2>1, DeleteRoomFields
    <3> QED
      BY Zenon, <1>3, <3>1 DEF RoomLeft
  <2>4. RoomForgotten(r)
    BY Zenon, <1>4 DEF RoomForgotten
  <2> QED
    BY Zenon, <2>2, <2>3, <2>4 DEF RoomGone
<1> QED
  BY Zenon, <1>2, <1>5, RoomGoneInv

\* closeRoom, with connection c (if any) out of the room already, keeps SeatInv.
LEMMA ClosedInv ==
    ASSUME IInv, TypeOK', NEW r \in rooms, NEW rm, NEW c, NEW cl \in [Client -> ClientState],
           CloseRoom(r, rm, cl, sessions),
           \A u \in UserID : rm.Clients[u] = IF Seat(r, u) = c THEN None ELSE Seat(r, u),
           \A d \in Client : /\ cl[d].pc = Pc(d) /\ cl[d].id = ClientID(d)
                             /\ cl[d].token = SessionToken(d) /\ cl[d].closed = IsClosed(d)
                             /\ cl[d].attempt = InHand(d)
                             /\ cl[d].room = IF d = c THEN None ELSE CurrentRoom(d),
           c \in Client => CurrentRoom(c) = r,
           expiring' \subseteq expiring,
           \A e \in expiring : e \notin expiring' => e.room = r
    PROVE  SeatInv'
<1>1. TypeFacts
  BY Zenon, TypeOKFacts DEF IInv
<1>2. r \in Code
  BY Zenon, <1>1 DEF SeatFacts, TypeFacts
<1>3. \A d \in Client : CurrentRoom(d) = r => d = c \/ \E u \in UserID : rm.Clients[u] = d
  <2> SUFFICES ASSUME NEW d \in Client, CurrentRoom(d) = r, d # c
               PROVE  \E u \in UserID : rm.Clients[u] = d
    BY Zenon
  <2>1. ClientID(d) \in UserID /\ Seat(r, ClientID(d)) = d
    BY Zenon, <1>1, <1>2, NamesAssumption
       DEF IInv, SeatInv, SeatsAgree, PumpInv, ClientFacts, TypeFacts
  <2> QED
    BY Zenon, <2>1
<1>4. \A t \in Token : IF HasSession(t) /\ SessionRoom(t) = r
                         THEN ~HasSession(t)' ELSE SameSession(t)
  <2>1. \A t \in Token : sessions'[t] = IF sessions[t] # None /\ sessions[t].room = r
                                          THEN None ELSE sessions[t]
    BY Zenon DEF CloseRoom
  <2> QED
    BY Zenon, <2>1
       DEF HasSession, SessionRoom, SameSession, SessionUser, SessionHost, SessionClaim
<1>5. RoomLeft(r)
  <2>1. \A d \in Client :
          /\ Pc(d)' = cl[d].pc /\ ClientID(d)' = cl[d].id
          /\ SessionToken(d)' = cl[d].token /\ IsClosed(d)' = cl[d].closed
          /\ InHand(d)' = cl[d].attempt
          /\ CurrentRoom(d)' = IF (\E u \in UserID : rm.Clients[u] = d) /\ cl[d].room = r
                                 THEN None ELSE cl[d].room
    BY <1>2, CloseRoomFields DEF IInv
  <2> QED
    BY <1>3, <2>1, NamesAssumption DEF RoomLeft
<1>6. RoomGone(r)
  <2>1. RoomVacated(r)
    BY Zenon, <1>2, CloseRoomFields DEF RoomVacated, IInv
  <2> QED
    BY Zenon, <1>4, <1>5, <2>1 DEF RoomGone, RoomForgotten
<1> QED
  BY Zenon, <1>2, <1>6, RoomGoneInv

==============================================================================
