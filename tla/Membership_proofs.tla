-------------------------- MODULE Membership_proofs --------------------------
(***************************************************************************)
(* The invariants of Membership, for any number of connections, users,     *)
(* tokens and rooms and any limits and timeouts.  IInv holds initially and *)
(* every step keeps it: TypeOK by MembershipSteps, RequestInv by           *)
(* MembershipHandlers and SeatInv, action by action, by                    *)
(* MembershipHandlers, by MembershipTimers and, for losing a connection,   *)
(* leaving and coming back, by the lemmas below.  The invariants a reader  *)
(* cares about follow.                                                     *)
(***************************************************************************)
EXTENDS MembershipHandlers, MembershipTimers

\* leaveRoom of a member keeps SeatInv, whether the room stays, is deleted or is
\* closed for want of a host.
LEMMA LeaveRoomInv ==
    ASSUME IInv, TypeOK', NEW c \in Client, LeaveRoom(c)
    PROVE  SeatInv'
<1>0. PICK r, u, t : r = CurrentRoom(c) /\ u = ClientID(c) /\ t = SessionToken(c)
  BY Zenon
<1>1. TypeFacts
  BY Zenon, TypeOKFacts DEF IInv
<1>2. Pc(c) = "idle" /\ r \in Code /\ expiring' = expiring
  BY Zenon, <1>0, <1>1 DEF LeaveRoom, Idle, Pc, CurrentRoom, ClientFacts, TypeFacts
<1>3. /\ r \in rooms /\ u \in UserID /\ Seat(r, u) = c /\ u \notin Away(r)
      /\ t \in Token /\ ~HasSession(t) /\ OwnerIDOf(r) # u
  <2>1. r \in rooms /\ u \in UserID /\ Seat(r, u) = c
    BY Zenon, <1>0, <1>1, <1>2 DEF IInv, SeatInv, SeatsAgree, PumpInv, ClientFacts, TypeFacts
  <2>2. u \notin Away(r)
    BY Zenon, <1>0, <1>2, <2>1 DEF IInv, SeatInv, IdentityInv, Spent
  <2>3. t \in Token /\ ~HasSession(t)
    BY Zenon, <1>0, <1>1, <1>2, NamesAssumption
       DEF IInv, SeatInv, SeatTokenInv, Spent, ClientFacts, TypeFacts
  <2> QED
    BY Zenon, <1>2, <2>1, <2>2, <2>3, NamesAssumption DEF IInv, SeatInv, OwnerIsAway
<1> DEFINE quiet == WithoutRequest(room[r], u)
           out == Unseat(quiet, u)
           left == Forget(out, u)
           cl == [client EXCEPT ![c].room = None]
           ss == DropToken(sessions, t)
<1>4. ss = sessions
  BY Zenon, <1>3 DEF DropToken, HasSession, IInv, TypeOK
<1>5. /\ cl \in [Client -> ClientState]
      /\ \A d \in Client : /\ cl[d].pc = Pc(d) /\ cl[d].id = ClientID(d)
                           /\ cl[d].token = SessionToken(d) /\ cl[d].closed = IsClosed(d)
                           /\ cl[d].attempt = InHand(d)
                           /\ cl[d].room = IF d = c THEN None ELSE CurrentRoom(d)
  BY SMTT(30)
     DEF IInv, TypeOK, ClientState, Pc, ClientID, SessionToken, IsClosed, InHand,
       CurrentRoom
<1>6. /\ left \in Room /\ left.Clients = [room[r].Clients EXCEPT ![u] = None]
      /\ left.DisconnectedUsers = room[r].DisconnectedUsers \ {u}
      /\ left.OwnerID = (IF room[r].OwnerID = u THEN None ELSE room[r].OwnerID)
      /\ left.Host = room[r].Host /\ left.HostID = room[r].HostID
      /\ left.HostDisconnectedAt = room[r].HostDisconnectedAt
  <2>1. room[r] \in Room
    BY Zenon, <1>2 DEF IInv, TypeOK
  <2>2. /\ quiet \in Room /\ quiet.Clients = room[r].Clients
        /\ quiet.DisconnectedUsers = room[r].DisconnectedUsers
        /\ quiet.OwnerID = room[r].OwnerID /\ quiet.Host = room[r].Host
        /\ quiet.HostID = room[r].HostID
        /\ quiet.HostDisconnectedAt = room[r].HostDisconnectedAt
    BY ZenonT(30), <1>3, <2>1, WithoutRequestFields
  <2> HIDE DEF quiet
  <2>3. /\ out \in Room /\ out.Clients = [quiet.Clients EXCEPT ![u] = None]
        /\ out.DisconnectedUsers = quiet.DisconnectedUsers
        /\ out.OwnerID = (IF quiet.OwnerID = u THEN None ELSE quiet.OwnerID)
        /\ out.Host = quiet.Host /\ out.HostID = quiet.HostID
        /\ out.HostDisconnectedAt = quiet.HostDisconnectedAt
    BY Zenon, <1>3, <2>2, UnseatFields
  <2> HIDE DEF out
  <2>4. /\ left \in Room /\ left.Clients = out.Clients
        /\ left.DisconnectedUsers = out.DisconnectedUsers \ {u}
        /\ left.OwnerID = (IF out.OwnerID = u THEN None ELSE out.OwnerID)
        /\ left.Host = out.Host /\ left.HostID = out.HostID
        /\ left.HostDisconnectedAt = out.HostDisconnectedAt
    BY <1>3, <2>3, ForgetFields
  <2> HIDE DEF left
  <2> QED
    BY Zenon, <2>2, <2>3, <2>4
<1>7. \/ Empty(left) /\ DeleteRoom(r, left, cl) /\ sessions' = ss
      \/ \E next \in Succession(left, room[r].Host = c) : Settle(r, next, cl, ss)
  <2>1. room[r].Clients[u] = c
    BY Zenon, <1>3 DEF Seat
  <2> QED
    BY ZenonT(30), <1>0, <2>1 DEF LeaveRoom, CurrentRoom, ClientID, SessionToken
<1> HIDE DEF left, ss, cl
<1>8. /\ \A w \in UserID : left.Clients[w] = IF w = u THEN None ELSE Seat(r, w)
      /\ left.DisconnectedUsers = Away(r) /\ left.OwnerID = OwnerIDOf(r)
      /\ left.Host = HostOf(r) /\ left.HostID = HostIDOf(r)
      /\ left.HostDisconnectedAt = HostLost(r)
  <2>1. room[r].Clients \in [UserID -> Client \cup {None}]
    BY Zenon, <1>2 DEF IInv, TypeOK, Room
  <2> QED
    BY Zenon, <1>3, <1>6, <2>1 DEF Seat, Away, OwnerIDOf, HostOf, HostIDOf, HostLost
<1>9. \A w \in UserID : Seat(r, w) = c => w = u
  BY Zenon, <1>0, <1>2 DEF IInv, SeatInv, SeatsAgree
<1>10. CASE Empty(left) /\ DeleteRoom(r, left, cl) /\ sessions' = ss
  <2>1. \A w \in UserID : Seat(r, w) \in {None, c}
    BY Zenon, <1>3, <1>8, <1>10 DEF Empty, Connected
  <2>2. Away(r) = {}
    BY Zenon, <1>8, <1>10 DEF Empty
  <2>3. \A x \in Token : SameSession(x)
    BY Zenon, <1>4, <1>10, SameVars
  <2> QED
    BY <1>0, <1>2, <1>3, <1>5, <1>10, <2>1, <2>2, <2>3, DeletedInv
<1>11. CASE \E next \in Succession(left, room[r].Host = c) : Settle(r, next, cl, ss)
  <2>1. PICK next \in Succession(left, room[r].Host = c) : Settle(r, next, cl, ss)
    BY Zenon, <1>11
  <2>2. /\ next.Clients = left.Clients /\ next.DisconnectedUsers = left.DisconnectedUsers
        /\ next.OwnerID = left.OwnerID
        /\ HostOf(r) # c => next = left
        /\ HostOf(r) = c =>
             /\ next.HostDisconnectedAt = None
             /\ \/ next.HostID = None /\ next.Host = None
                \/ /\ next.HostID \in UserID /\ next.Host \in CanHost
                   /\ left.Clients[next.HostID] = next.Host
    <3>1. PICK b \in BOOLEAN : b = (room[r].Host = c)
      BY ZenonT(30)
    <3> QED
      BY ZenonT(30), <1>6, <3>1, SuccessionFields DEF IInv, HostOf
  <2>3. CASE HostlessDead(next)
    <3>1. CloseRoom(r, next, cl, sessions)
      BY Zenon, <1>4, <2>1, <2>3 DEF Settle
    <3>2. \A w \in UserID : next.Clients[w] = IF Seat(r, w) = c THEN None ELSE Seat(r, w)
      BY Zenon, <1>3, <1>8, <1>9, <2>2
    <3> QED
      BY <1>0, <1>2, <1>3, <1>5, <3>1, <3>2, ClosedInv
  <2>4. CASE ~HostlessDead(next)
    <3>1. /\ room' = [room EXCEPT ![r] = next] /\ client' = cl /\ sessions' = sessions
          /\ rooms' = rooms
      BY Zenon, <1>4, <2>1, <2>4 DEF Settle
    <3>2. /\ \A w \in UserID : Seat(r, w)' = next.Clients[w]
          /\ Away(r)' = next.DisconnectedUsers /\ OwnerIDOf(r)' = next.OwnerID
          /\ HostOf(r)' = next.Host /\ HostIDOf(r)' = next.HostID
          /\ HostLost(r)' = next.HostDisconnectedAt
          /\ \A q \in Code \ {r} : SameRoom(q)
      BY ZenonT(30), <1>2, <3>1, RoomFields DEF IInv
    <3>3. /\ \A d \in Client \ {c} : SameClient(d)
          /\ Pc(c)' = Pc(c) /\ ClientID(c)' = ClientID(c)
          /\ SessionToken(c)' = SessionToken(c) /\ IsClosed(c)' = IsClosed(c)
          /\ InHand(c)' = InHand(c) /\ CurrentRoom(c)' = None
      <4>1. \A d \in Client : client'[d] = cl[d]
        BY Zenon, <3>1
      <4>2. \A d \in Client :
              /\ Pc(d)' = cl[d].pc /\ ClientID(d)' = cl[d].id
              /\ SessionToken(d)' = cl[d].token /\ IsClosed(d)' = cl[d].closed
              /\ InHand(d)' = cl[d].attempt /\ CurrentRoom(d)' = cl[d].room
        BY Zenon, <4>1 DEF Pc, ClientID, SessionToken, IsClosed, InHand, CurrentRoom
      <4> QED
        BY Zenon, <1>5, <4>2 DEF SameClient
    <3>4. IF HostOf(r) = c THEN NewHost(r) ELSE SameHost(r)
      <4>1. HostOf(r) = c => NewHost(r)
        BY Zenon, <2>2, <3>2 DEF NewHost
      <4>2. HostOf(r) # c => SameHost(r)
        BY Zenon, <1>8, <2>2, <3>2 DEF SameHost
      <4> QED
        BY Zenon, <4>1, <4>2
    <3>5. MemberLeft(c, r, u)
      <4>1. SeatEmptied(c, r, u)
        BY Zenon, <1>8, <2>2, <3>2, <3>4 DEF SeatEmptied
      <4>2. SeatLeft(c, r, u)
        BY Zenon, <1>0, <1>2, <3>3 DEF SeatLeft
      <4> QED
        BY Zenon, <1>0, <1>2, <3>1, <4>1, <4>2, SameVars DEF MemberLeft
    <3> QED
      BY Zenon, <1>2, <1>3, <3>5, MemberLeftInv
  <2> QED
    BY Zenon, <2>3, <2>4
<1> QED
  BY Zenon, <1>7, <1>10, <1>11

\* What handleClientDisconnect does to the room and the session of connection c.
LEMMA DisconnectFields ==
    ASSUME IInv, NEW c \in Client, NEW r \in Code, NEW u \in UserID, NEW t \in Token,
           CurrentRoom(c) = r, ClientID(c) = u, SessionToken(c) = t,
           NEW x, NEW cl, Disconnect(c, x, cl)
    PROVE  /\ client' = [cl EXCEPT ![c] = [x EXCEPT !.room = None]]
           /\ \A w \in UserID \ {u} : Seat(r, w)' = Seat(r, w)
           /\ Seat(r, u)' = None
           /\ Away(r)' = Away(r) \cup {u}
           /\ OwnerIDOf(r)' = OwnerIDOf(r)
           /\ HostIDOf(r)' = HostIDOf(r)
           /\ IF HostOf(r) = c THEN HostOf(r)' = None /\ HostLost(r)' # None
                               ELSE HostOf(r)' = HostOf(r) /\ HostLost(r)' = HostLost(r)
           /\ \A q \in Code \ {r} : SameRoom(q)
           /\ HasSession(t)' /\ SessionUser(t)' = u /\ SessionRoom(t)' = r
           /\ SessionHost(t)' <=> (HostOf(r) = c)
           /\ SessionClaim(t)' = None
           /\ \A y \in Token \ {t} : SameSession(y)
<1>1. /\ client[c].room = r /\ client[c].id = u /\ client[c].token = t /\ t # None
      /\ room[r].Clients[u] = c
  BY Zenon, NamesAssumption
     DEF CurrentRoom, ClientID, SessionToken, Seat, IInv, SeatInv, SeatsAgree
<1>2. PICK b \in BOOLEAN : b = (room[r].Host = c)
  BY ZenonT(30)
<1> DEFINE rm == SetAway(room[r], c, u)
           s == NewSession(u, r, b)
<1>3. /\ client' = [cl EXCEPT ![c] = [x EXCEPT !.room = None]]
      /\ room' = [room EXCEPT ![r] = rm]
      /\ sessions' = [sessions EXCEPT ![t] = s]
  BY Zenon, <1>1, <1>2 DEF Disconnect
<1>4. /\ rm.Clients = [room[r].Clients EXCEPT ![u] = None]
      /\ rm.DisconnectedUsers = room[r].DisconnectedUsers \cup {u}
      /\ rm.Host = (IF room[r].Host = c THEN None ELSE room[r].Host)
      /\ rm.HostDisconnectedAt = (IF room[r].Host = c THEN 0
                                  ELSE room[r].HostDisconnectedAt)
      /\ rm.HostID = room[r].HostID /\ rm.OwnerID = room[r].OwnerID
  <2>1. room[r] \in Room
    BY Zenon DEF IInv, TypeOK
  <2> QED
    BY SMTT(30), <2>1, SetAwayFields
<1>5. s \in Session /\ s.user = u /\ s.room = r /\ s.isHost = b /\ s.claimedBy = None
  BY NewSessionFields
<1> HIDE DEF rm, s
<1>6. /\ \A w \in UserID \ {u} : rm.Clients[w] = Seat(r, w)
      /\ rm.Clients[u] = None
      /\ rm.DisconnectedUsers = Away(r) \cup {u}
      /\ rm.OwnerID = OwnerIDOf(r) /\ rm.HostID = HostIDOf(r)
      /\ IF HostOf(r) = c THEN rm.Host = None /\ rm.HostDisconnectedAt # None
                          ELSE rm.Host = HostOf(r) /\ rm.HostDisconnectedAt = HostLost(r)
  <2>1. room[r].Clients \in [UserID -> Client \cup {None}] /\ 0 # None
    BY NilAssumption DEF IInv, TypeOK, Room
  <2> QED
    BY Zenon, <1>4, <2>1 DEF Seat, Away, OwnerIDOf, HostIDOf, HostOf, HostLost
<1>7. /\ HasSession(t)' /\ SessionUser(t)' = u /\ SessionRoom(t)' = r
      /\ SessionHost(t)' <=> (HostOf(r) = c)
      /\ SessionClaim(t)' = None
      /\ \A y \in Token \ {t} : SameSession(y)
  <2>1. sessions'[t] = s /\ \A y \in Token \ {t} : sessions'[y] = sessions[y]
    BY Zenon, <1>3 DEF IInv, TypeOK
  <2> QED
    BY ZenonT(30), <1>2, <1>5, <2>1, NilAssumption
       DEF HasSession, SessionUser, SessionRoom, SessionHost, SessionClaim, SameSession,
         HostOf
<1> QED
  BY ZenonT(30), <1>3, <1>6, <1>7, RoomFields DEF IInv

\* A connection in no room ends and keeps SeatInv.
LEMMA GoneInv ==
    ASSUME IInv, TypeOK', NEW c \in Client, Pc(c) = "removing", CurrentRoom(c) = None,
           Pc(c)' = "gone", ClientID(c)' = None, SessionToken(c)' = None,
           CurrentRoom(c)' = None, InHand(c)' = None, IsClosed(c)',
           \A d \in Client \ {c} : SameClient(d),
           \A q \in Code : SameRoom(q), \A x \in Token : SameSession(x),
           rooms' = rooms, expiring' = expiring
    PROVE  SeatInv'
<1> SUFFICES ASSUME SeatsAgree, HostSeat, OwnerIsAway, PumpInv, FoundingInv, IdentityInv,
                    SeatTokenInv, OneSession, SessionSeat, AwayKnown,
                    ClientFacts, AttemptFacts, SeatFacts, HostFacts, SessionFacts,
                    ClientFacts', AttemptFacts', SeatFacts', HostFacts', SessionFacts'
             PROVE  SeatInv'
  BY TypeOKFacts, PTL DEF IInv, SeatInv, SessionInv, TypeFacts
<1>11. SeatsAgree'
  BY NamesAssumption
     DEF SeatsAgree, PumpInv, SameClient, SameRoom, SameSeats, ClientFacts
<1>12. HostSeat'
  BY Zenon DEF HostSeat, SameRoom, SameSeats, SameHost, HostFacts
<1>13. OwnerIsAway'
  BY Zenon DEF OwnerIsAway, SameRoom, SameSeats, SameHost
<1>14. PumpInv'
  BY Zenon DEF PumpInv, SameClient
<1>15. FoundingInv'
  BY DEF FoundingInv, SameClient, SameRoom, SameSeats
<1>16. IdentityInv'
  BY NamesAssumption
     DEF IdentityInv, Spent, SameClient, SameRoom, SameSeats, SeatFacts, SessionFacts
<1>17. SeatTokenInv'
  BY NamesAssumption
     DEF SeatTokenInv, PumpInv, Spent, SameClient, SameSession, AttemptFacts
<1>18. OneSession'
  BY Zenon DEF OneSession, SameSession
<1>19. SessionSeat'
  BY DEF SessionSeat, SameClient, SameRoom, SameSeats, SameHost, SameSession,
     SessionFacts
<1>20. AwayKnown'
  BY DEF AwayKnown, SameRoom, SameSeats, SameSession, SeatFacts
<1> QED
  BY Zenon, <1>11, <1>12, <1>13, <1>14, <1>15, <1>16, <1>17, <1>18, <1>19, <1>20
     DEF SeatInv, SessionInv

\* The second half of removeClient keeps SeatInv.
LEMMA RemoveClientFinishInv ==
    ASSUME IInv, TypeOK', NEW c \in Client, RemoveClientFinish(c)
    PROVE  SeatInv'
<1>0. /\ NoClient \in ClientState /\ NoClient.pc = "gone" /\ NoClient.id = None
      /\ NoClient.token = None /\ NoClient.room = None /\ NoClient.attempt = None
      /\ NoClient.closed = TRUE
  BY Zenon, NoClientType DEF NoClient
<1>1. TypeFacts /\ Pc(c) = "removing" /\ UNCHANGED <<rooms, expiring>>
  BY Zenon, TypeOKFacts DEF IInv, RemoveClientFinish, Pc
<1>2. PICK r, u, t : r = CurrentRoom(c) /\ u = ClientID(c) /\ t = SessionToken(c)
  BY Zenon
<1>3. CASE r # None
  <2>1. r \in Code /\ u \in UserID /\ t \in Token
    BY Zenon, <1>1, <1>2, <1>3 DEF IInv, SeatInv, PumpInv, SeatTokenInv, ClientFacts, TypeFacts
  <2>2. Disconnect(c, NoClient, client)
    BY Zenon, <1>2, <1>3 DEF RemoveClientFinish, CurrentRoom
  <2> DEFINE x == [NoClient EXCEPT !.room = None]
  <2>3. /\ client' = [client EXCEPT ![c] = x]
        /\ x.pc = "gone" /\ x.id = None /\ x.token = None /\ x.room = None
        /\ x.attempt = None /\ x.closed = TRUE
    BY Zenon, <2>2 DEF Disconnect, NoClient
  <2> HIDE DEF x
  <2>4. /\ Pc(c)' = "gone" /\ ClientID(c)' = None /\ SessionToken(c)' = None
        /\ CurrentRoom(c)' = None /\ InHand(c)' = None /\ IsClosed(c)'
        /\ \A d \in Client \ {c} : SameClient(d)
    BY ZenonT(30), <2>3, ClientFields DEF IInv
  <2>5. AwayStep(c, r, u, t)
    BY Zenon, <1>1, <1>2, <2>1, <2>2, <2>4, DisconnectFields DEF AwayStep
  <2> QED
    BY Zenon, <2>1, <2>5, AwayStepInv
<1>4. CASE r = None
  <2>1. /\ client' = [client EXCEPT ![c] = NoClient] /\ sessions' = sessions
        /\ \A q \in Code : room'[q] = room[q] \/ room'[q] = WithoutRequest(room[q], u)
    BY Zenon, <1>2, <1>4 DEF RemoveClientFinish, CurrentRoom, ClientID
  <2>2. /\ Pc(c)' = "gone" /\ ClientID(c)' = None /\ SessionToken(c)' = None
        /\ CurrentRoom(c)' = None /\ InHand(c)' = None /\ IsClosed(c)'
        /\ \A d \in Client \ {c} : SameClient(d)
    BY ZenonT(30), <1>0, <2>1, ClientFields DEF IInv
  <2>3. u \in UserID
    BY Zenon, <1>1, <1>2 DEF IInv, SeatInv, PumpInv, ClientFacts, TypeFacts
  <2>4. ASSUME NEW q \in Code PROVE SameRoom(q)
    <3> DEFINE rm == WithoutRequest(room[q], u)
    <3>1. /\ rm.Clients = room[q].Clients /\ rm.DisconnectedUsers = room[q].DisconnectedUsers
          /\ rm.Host = room[q].Host /\ rm.HostID = room[q].HostID
          /\ rm.HostDisconnectedAt = room[q].HostDisconnectedAt
          /\ rm.OwnerID = room[q].OwnerID
      <4>1. room[q] \in Room
        BY Zenon DEF IInv, TypeOK
      <4> QED
        BY ZenonT(30), <2>3, <4>1, WithoutRequestFields
    <3>2. room'[q] = room[q] \/ room'[q] = rm
      BY Zenon, <2>1
    <3> HIDE DEF rm
    <3> QED
      BY Zenon, <3>1, <3>2
         DEF SameRoom, SameSeats, SameHost, Seat, Away, OwnerIDOf, HostOf, HostIDOf,
           HostLost
  <2> QED
    BY ZenonT(30), <1>1, <1>2, <1>4, <2>1, <2>2, <2>4, SameVars, GoneInv
<1> QED
  BY Zenon, <1>3, <1>4

\* Sessions whose rooms are as before name held seats when what they say of their
\* claims is true.
LEMMA ClaimsChanged ==
    ASSUME SessionSeat, SessionFacts, UNCHANGED <<rooms, expiring>>,
           \A q \in Code : SameRoom(q),
           \A x \in Token : HasSession(x)' =>
             /\ HasSession(x)
             /\ SessionUser(x)' = SessionUser(x) /\ SessionRoom(x)' = SessionRoom(x)
             /\ SessionHost(x)' <=> SessionHost(x)
             /\ ClaimTrue(x)'
    PROVE  SessionSeat'
<1> SUFFICES ASSUME NEW x \in Token, HasSession(x)'
             PROVE  /\ SessionRoom(x)' \in rooms'
                    /\ SessionUser(x)' \in Away(SessionRoom(x))'
                    /\ \A e \in expiring' : e.user # SessionUser(x)'
                    /\ SessionUser(x)' \in {HostIDOf(SessionRoom(x))',
                                           OwnerIDOf(SessionRoom(x))'} => SessionHost(x)'
                    /\ ClaimTrue(x)'
  BY Zenon DEF SessionSeat, ClaimTrue
<1>1. PICK r, u : r = SessionRoom(x) /\ u = SessionUser(x)
  BY Zenon
<1>2. /\ HasSession(x) /\ SessionUser(x)' = u /\ SessionRoom(x)' = r
      /\ SessionHost(x)' <=> SessionHost(x)
      /\ ClaimTrue(x)'
  BY Zenon, <1>1
<1>3. /\ r \in rooms /\ r \in Code /\ u \in Away(r) /\ \A e \in expiring : e.user # u
      /\ u \in {HostIDOf(r), OwnerIDOf(r)} => SessionHost(x)
  BY Zenon, <1>1, <1>2 DEF SessionSeat, SessionFacts
<1>4. Away(r)' = Away(r) /\ HostIDOf(r)' = HostIDOf(r) /\ OwnerIDOf(r)' = OwnerIDOf(r)
  BY Zenon, <1>3 DEF SameRoom, SameSeats, SameHost
<1>5. /\ r \in rooms' /\ u \in Away(r)'
      /\ u \in {HostIDOf(r)', OwnerIDOf(r)'} => SessionHost(x)'
  BY Zenon, <1>2, <1>3, <1>4
<1> QED
  BY Zenon, <1>2, <1>3, <1>5 DEF Away, HostIDOf, OwnerIDOf

\* Connection c claims the session of token t.
ClaimStep(c, t) ==
    /\ Pc(c) \in {"idle", "retry"} /\ CurrentRoom(c) = None
    /\ HasSession(t) /\ SessionClaim(t) = None
    /\ SessionHost(t) => c \in CanHost
    /\ Pc(c)' = "claimed" /\ CurrentRoom(c)' = None
    /\ ClientID(c)' = ClientID(c) /\ SessionToken(c)' = SessionToken(c)
    /\ InHand(c)' # None /\ InHand(c)'.token = t
    /\ InHand(c)'.user = SessionUser(t) /\ InHand(c)'.room = SessionRoom(t)
    /\ \A d \in Client \ {c} : SameClient(d)
    /\ \A q \in Code : SameRoom(q)
    /\ HasSession(t)' /\ SessionUser(t)' = SessionUser(t) /\ SessionRoom(t)' = SessionRoom(t)
    /\ SessionHost(t)' <=> SessionHost(t)
    /\ SessionClaim(t)' = c
    /\ \A x \in Token \ {t} : SameSession(x)
    /\ UNCHANGED <<rooms, expiring>>

\* claimSession keeps SeatInv.
LEMMA ClaimStepInv ==
    ASSUME IInv, TypeOK', NEW c \in Client, NEW t \in Token, ClaimStep(c, t)
    PROVE  SeatInv'
<1> SUFFICES ASSUME SeatsAgree, HostSeat, OwnerIsAway, PumpInv, FoundingInv, IdentityInv,
                    SeatTokenInv, OneSession, SessionSeat, AwayKnown,
                    ClientFacts, AttemptFacts, SeatFacts, HostFacts, SessionFacts
             PROVE  SeatInv'
  BY Zenon, TypeOKFacts DEF IInv, SeatInv, SessionInv, TypeFacts
<1>11. SeatsAgree'
  BY NamesAssumption
     DEF SeatsAgree, ClaimStep, PumpInv, SameClient, SameRoom, SameSeats, ClientFacts
<1>12. HostSeat'
  BY Zenon DEF HostSeat, ClaimStep, SameRoom, SameSeats, SameHost, HostFacts
<1>13. OwnerIsAway'
  BY Zenon DEF OwnerIsAway, ClaimStep, SameRoom, SameSeats, SameHost
<1>14. PumpInv'
  <2>1. InHand(c)'.user # None /\ InHand(c)'.room # None
    BY NamesAssumption DEF ClaimStep, SessionFacts
  <2>2. \A d \in Client \ {c} : SameClient(d)
    BY Zenon DEF ClaimStep
  <2>3. /\ Pc(c) \in {"idle", "retry"} /\ Pc(c)' = "claimed" /\ CurrentRoom(c)' = None
        /\ ClientID(c)' = ClientID(c) /\ InHand(c)' # None
    BY Zenon DEF ClaimStep
  <2> QED
    BY <2>1, <2>2, <2>3 DEF PumpInv, SameClient
<1>15. FoundingInv'
  BY DEF FoundingInv, ClaimStep, SameClient, SameRoom, SameSeats
<1>16. IdentityInv'
  BY DEF IdentityInv, ClaimStep, Spent, SameClient, SameRoom, SameSeats, SeatFacts
<1>17. SeatTokenInv'
  BY NamesAssumption
     DEF SeatTokenInv, ClaimStep, PumpInv, Spent, SameClient, SameSession, AttemptFacts
<1>18. OneSession'
  BY DEF OneSession, ClaimStep, SameSession
<1>19. SessionSeat'
  <2>1. ClaimTrue(t)'
    BY DEF ClaimTrue, ClaimStep
  <2>2. \A x \in Token \ {t} : HasSession(x)' => ClaimTrue(x)'
    <3> SUFFICES ASSUME NEW x \in Token, x # t, HasSession(x)', SessionClaim(x)' # None
                 PROVE  ClaimTrue(x)'
      BY Zenon DEF ClaimTrue
    <3>1. PICK d : d = SessionClaim(x)
      BY Zenon
    <3>2. SameSession(x) /\ HasSession(x) /\ d # None /\ SessionClaim(x)' = d
      BY Zenon, <3>1 DEF ClaimStep, SameSession
    <3>3. /\ d \in Client /\ Pc(d) = "claimed"
          /\ InHand(d).token = x /\ InHand(d).user = SessionUser(x)
          /\ InHand(d).room = SessionRoom(x) /\ (SessionHost(x) => d \in CanHost)
      BY Zenon, <3>1, <3>2 DEF SessionSeat, SessionFacts
    <3>4. Pc(d)' = "claimed" /\ InHand(d)' = InHand(d)
      BY <3>3 DEF ClaimStep, SameClient
    <3> QED
      BY Zenon, <3>2, <3>3, <3>4 DEF ClaimTrue, SameSession, Pc, InHand
  <2>3. \A x \in Token : HasSession(x)' =>
          /\ HasSession(x)
          /\ SessionUser(x)' = SessionUser(x) /\ SessionRoom(x)' = SessionRoom(x)
          /\ SessionHost(x)' <=> SessionHost(x)
    BY Zenon DEF ClaimStep, SameSession
  <2> QED
    BY Zenon, <2>1, <2>2, <2>3, ClaimsChanged DEF ClaimStep
<1>20. AwayKnown'
  BY DEF AwayKnown, ClaimStep, SameRoom, SameSeats, SameSession, SeatFacts
<1> QED
  BY Zenon, <1>11, <1>12, <1>13, <1>14, <1>15, <1>16, <1>17, <1>18, <1>19, <1>20
     DEF SeatInv, SessionInv

\* Connection c stops waiting for its session and gives back its claim.
GivenBack(c) ==
    /\ Pc(c) \in {"retry", "claimed"} /\ Pc(c)' = "idle" /\ InHand(c)' = None
    /\ ClientID(c)' = ClientID(c) /\ SessionToken(c)' = SessionToken(c)
    /\ CurrentRoom(c)' = CurrentRoom(c)
    /\ \A d \in Client \ {c} : SameClient(d)
    /\ \A q \in Code : SameRoom(q)
    /\ \A x \in Token :
         /\ HasSession(x)' <=> HasSession(x)
         /\ HasSession(x) =>
              /\ SessionUser(x)' = SessionUser(x) /\ SessionRoom(x)' = SessionRoom(x)
              /\ SessionHost(x)' <=> SessionHost(x)
              /\ SessionClaim(x)' = IF SessionClaim(x) = c THEN None ELSE SessionClaim(x)
    /\ UNCHANGED <<rooms, expiring>>

\* A reconnect that fails keeps SeatInv.
LEMMA GivenBackInv ==
    ASSUME IInv, TypeOK', NEW c \in Client, GivenBack(c)
    PROVE  SeatInv'
<1> SUFFICES ASSUME SeatsAgree, HostSeat, OwnerIsAway, PumpInv, FoundingInv, IdentityInv,
                    SeatTokenInv, OneSession, SessionSeat, AwayKnown,
                    ClientFacts, AttemptFacts, SeatFacts, HostFacts, SessionFacts
             PROVE  SeatInv'
  BY Zenon, TypeOKFacts DEF IInv, SeatInv, SessionInv, TypeFacts
<1>11. SeatsAgree'
  BY NamesAssumption
     DEF SeatsAgree, GivenBack, PumpInv, SameClient, SameRoom, SameSeats, ClientFacts
<1>12. HostSeat'
  BY Zenon DEF HostSeat, GivenBack, SameRoom, SameSeats, SameHost, HostFacts
<1>13. OwnerIsAway'
  BY Zenon DEF OwnerIsAway, GivenBack, SameRoom, SameSeats, SameHost
<1>14. PumpInv'
  BY Zenon DEF PumpInv, GivenBack, SameClient
<1>15. FoundingInv'
  BY DEF FoundingInv, GivenBack, SameClient, SameRoom, SameSeats
<1>16. IdentityInv'
  BY DEF IdentityInv, GivenBack, Spent, SameClient, SameRoom, SameSeats, SeatFacts
<1>17. SeatTokenInv'
  BY DEF SeatTokenInv, GivenBack, PumpInv, Spent, SameClient, AttemptFacts
<1>18. OneSession'
  BY Zenon DEF OneSession, GivenBack
<1>19. SessionSeat'
  <2>1. \A x \in Token : HasSession(x)' => ClaimTrue(x)'
    <3> SUFFICES ASSUME NEW x \in Token, HasSession(x)', SessionClaim(x)' # None
                 PROVE  ClaimTrue(x)'
      BY Zenon DEF ClaimTrue
    <3>1. PICK d : d = SessionClaim(x)
      BY Zenon
    <3>2. /\ HasSession(x) /\ d # c /\ d # None /\ SessionClaim(x)' = d
          /\ SessionUser(x)' = SessionUser(x) /\ SessionRoom(x)' = SessionRoom(x)
          /\ SessionHost(x)' <=> SessionHost(x)
      BY Zenon, <3>1 DEF GivenBack
    <3>3. /\ d \in Client /\ Pc(d) = "claimed"
          /\ InHand(d).token = x /\ InHand(d).user = SessionUser(x)
          /\ InHand(d).room = SessionRoom(x) /\ (SessionHost(x) => d \in CanHost)
      BY Zenon, <3>1, <3>2 DEF SessionSeat, SessionFacts
    <3>4. Pc(d)' = "claimed" /\ InHand(d)' = InHand(d)
      BY Zenon, <3>2, <3>3 DEF GivenBack, SameClient
    <3> QED
      BY Zenon, <3>2, <3>3, <3>4 DEF ClaimTrue, Pc, InHand
  <2>2. \A x \in Token : HasSession(x)' =>
          /\ HasSession(x)
          /\ SessionUser(x)' = SessionUser(x) /\ SessionRoom(x)' = SessionRoom(x)
          /\ SessionHost(x)' <=> SessionHost(x)
    BY Zenon DEF GivenBack
  <2> QED
    BY Zenon, <2>1, <2>2, ClaimsChanged DEF GivenBack
<1>20. AwayKnown'
  BY DEF AwayKnown, GivenBack, SameRoom, SameSeats, SeatFacts
<1> QED
  BY Zenon, <1>11, <1>12, <1>13, <1>14, <1>15, <1>16, <1>17, <1>18, <1>19, <1>20
     DEF SeatInv, SessionInv

\* What claimSession does, on the first and on the second attempt.
LEMMA ClaimFields ==
    ASSUME IInv, NEW c \in Client, NEW t \in Token, Claimable(c, t), Claim(c, t),
           Pc(c) \in {"idle", "retry"}, CurrentRoom(c) = None,
           room' = room, rooms' = rooms, expiring' = expiring
    PROVE  ClaimStep(c, t)
<1> DEFINE a == [token |-> t, user |-> sessions[t].user, room |-> sessions[t].room]
<1>1. /\ HasSession(t) /\ SessionClaim(t) = None /\ (SessionHost(t) => c \in CanHost)
      /\ SessionUser(t) \in UserID /\ SessionRoom(t) \in Code
  <2>1. HasSession(t) /\ SessionClaim(t) = None /\ (SessionHost(t) => c \in CanHost)
    BY Zenon DEF Claimable, HasSession, SessionClaim, SessionHost
  <2> QED
    BY Zenon, <2>1, TypeOKFacts DEF IInv, SessionFacts, TypeFacts
<1>2. /\ a # None /\ a.token = t /\ a.user = SessionUser(t) /\ a.room = SessionRoom(t)
  <2>1. a \in Attempt
    BY Zenon, <1>1 DEF Attempt, SessionUser, SessionRoom
  <2> QED
    BY Zenon, <2>1, NilAssumption DEF SessionUser, SessionRoom
<1>3. /\ sessions' = [sessions EXCEPT ![t].claimedBy = c]
      /\ client' = [client EXCEPT ![c].pc = "claimed", ![c].attempt = a]
  BY Zenon DEF Claim
<1> HIDE DEF a
<1>4. /\ Pc(c)' = "claimed" /\ CurrentRoom(c)' = CurrentRoom(c) /\ InHand(c)' = a
      /\ ClientID(c)' = ClientID(c) /\ SessionToken(c)' = SessionToken(c)
      /\ \A d \in Client \ {c} : SameClient(d)
  BY Zenon, <1>3
     DEF SameClient, Pc, ClientID, SessionToken, CurrentRoom, InHand, IsClosed, IInv,
       TypeOK, ClientState
<1>5. /\ HasSession(t)' /\ SessionUser(t)' = SessionUser(t) /\ SessionRoom(t)' = SessionRoom(t)
      /\ SessionHost(t)' <=> SessionHost(t)
      /\ SessionClaim(t)' = c
      /\ \A x \in Token \ {t} : SameSession(x)
  <2> DEFINE s == sessions[t]
             z == [s EXCEPT !.claimedBy = c]
  <2>1. s \in Session
    BY Zenon, <1>1 DEF HasSession, IInv, TypeOK
  <2>2. sessions'[t] = z /\ \A x \in Token \ {t} : sessions'[x] = sessions[x]
    BY Zenon, <1>3 DEF IInv, TypeOK
  <2>3. /\ z \in Session /\ z.user = sessions[t].user /\ z.room = sessions[t].room
        /\ z.isHost = sessions[t].isHost /\ z.claimedBy = c
    BY Zenon, <2>1 DEF Session
  <2> HIDE DEF z
  <2> QED
    BY Zenon, <2>2, <2>3, NilAssumption
       DEF HasSession, SessionUser, SessionRoom, SessionHost, SessionClaim, SameSession
<1> QED
  BY ZenonT(30), <1>1, <1>2, <1>4, <1>5, SameVars DEF ClaimStep

\* A reconnect that claims its session at once keeps SeatInv.
LEMMA ReconnectClaimInv ==
    ASSUME IInv, TypeOK', NEW c \in Client, NEW t \in Token, ReconnectClaim(c, t)
    PROVE  SeatInv'
<1>1. Pc(c) = "idle" /\ CurrentRoom(c) = None
  BY Zenon DEF ReconnectClaim, Idle, Pc, CurrentRoom
<1>2. ClaimStep(c, t)
  BY Zenon, <1>1, ClaimFields DEF ReconnectClaim
<1> QED
  BY Zenon, <1>2, ClaimStepInv

\* A reconnect that replaces a live connection keeps SeatInv.
LEMMA ReconnectReplaceInv ==
    ASSUME IInv, TypeOK', NEW c \in Client, NEW t \in Token, NEW old \in Client,
           ReconnectReplace(c, t, old), Pc(old) # "creating"
    PROVE  SeatInv'
<1>1. TypeFacts
  BY Zenon, TypeOKFacts DEF IInv
<1>2. /\ Pc(c) = "idle" /\ CurrentRoom(c) = None /\ old # c
      /\ Pc(old) \notin {"gone", "removing"}
      /\ SessionToken(old) = t /\ CurrentRoom(old) # None /\ UNCHANGED <<rooms, expiring>>
  BY Zenon DEF ReconnectReplace, Idle, Registered, Pc, CurrentRoom, SessionToken
<1>3. PICK r \in Code, u \in UserID : r = CurrentRoom(old) /\ u = ClientID(old)
  BY Zenon, <1>1, <1>2 DEF IInv, SeatInv, PumpInv, ClientFacts, TypeFacts
<1>4. Pc(old) = "idle"
  <2>1. Pc(old) \in {"gone", "idle", "creating", "retry", "claimed", "stopping", "removing"}
    BY Zenon DEF IInv, TypeOK, ClientState, Pc
  <2> QED
    BY Zenon, <1>2, <2>1 DEF IInv, SeatInv, PumpInv
<1> DEFINE a == [token |-> t, user |-> None, room |-> None]
           cl == [client EXCEPT ![c].pc = "retry", ![c].attempt = a]
           x == [client[old] EXCEPT !.closed = TRUE, !.pc = IF @ = "idle" THEN "stopping" ELSE @]
           y == [x EXCEPT !.room = None]
<1>5. Disconnect(old, x, cl)
  BY Zenon DEF ReconnectReplace
<1>6. client' = [cl EXCEPT ![old] = y]
  BY Zenon, <1>5 DEF Disconnect
<1>7. a # None /\ a.token = t
  <2>1. a \in Attempt
    BY Zenon DEF Attempt
  <2> QED
    BY Zenon, <2>1, NilAssumption
<1>8. /\ y.pc = "stopping" /\ y.id = u /\ y.token = t /\ y.room = None
      /\ y.attempt = client[old].attempt /\ y.closed = TRUE
  <2>1. /\ client[old] \in ClientState /\ client[old].pc = "idle" /\ client[old].id = u
        /\ client[old].token = t
    BY Zenon, <1>2, <1>3, <1>4 DEF IInv, TypeOK, Pc, ClientID, SessionToken
  <2> QED
    BY Zenon, <2>1 DEF ClientState
<1> HIDE DEF a, y
<1>9. /\ cl \in [Client -> ClientState]
      /\ cl[c].pc = "retry" /\ cl[c].attempt = a /\ cl[c].id = client[c].id
      /\ cl[c].token = client[c].token /\ cl[c].room = client[c].room
      /\ cl[c].closed = client[c].closed
      /\ \A d \in Client \ {c} : cl[d] = client[d]
  <2>1. a \in Attempt
    BY Zenon DEF a, Attempt
  <2> QED
    BY ZenonT(30), <2>1 DEF IInv, TypeOK, ClientState
<1> HIDE DEF cl
<1>10. /\ client'[old] = y /\ client'[c] = cl[c]
       /\ \A d \in Client \ {c, old} : client'[d] = client[d]
  BY Zenon, <1>2, <1>6, <1>9
<1>11. /\ Pc(old)' = "stopping" /\ ClientID(old)' = u /\ SessionToken(old)' = t
       /\ CurrentRoom(old)' = None /\ IsClosed(old)' /\ InHand(old)' = InHand(old)
       /\ Pc(c)' = "retry" /\ ClientID(c)' = ClientID(c)
       /\ SessionToken(c)' = SessionToken(c) /\ CurrentRoom(c)' = CurrentRoom(c)
       /\ IsClosed(c)' = IsClosed(c) /\ InHand(c)' = a
       /\ \A d \in Client \ {c, old} : SameClient(d)
  BY Zenon, <1>8, <1>9, <1>10
     DEF SameClient, Pc, ClientID, SessionToken, CurrentRoom, InHand, IsClosed
<1>12. AwayStep(old, r, u, t)
  BY <1>2, <1>3, <1>5, <1>7, <1>11, DisconnectFields DEF AwayStep
<1> QED
  BY Zenon, <1>3, <1>12, AwayStepInv

\* The second claim keeps SeatInv, whether it succeeds or not.
LEMMA ReconnectRetryInv ==
    ASSUME IInv, TypeOK', NEW c \in Client, ReconnectRetry(c)
    PROVE  SeatInv'
<1>1. Pc(c) = "retry" /\ CurrentRoom(c) = None /\ InHand(c) # None
  BY Zenon DEF ReconnectRetry, Pc, IInv, SeatInv, PumpInv
<1>2. PICK t \in Token : t = client[c].attempt.token
  <2>1. InHand(c).token \in Token
    BY Zenon, <1>1, TypeOKFacts DEF IInv, AttemptFacts, TypeFacts
  <2> QED
    BY Zenon, <2>1 DEF InHand
<1>3. CASE Claimable(c, t)
  <2>1. ClaimStep(c, t)
    BY Zenon, <1>1, <1>2, <1>3, ClaimFields DEF ReconnectRetry
  <2> QED
    BY Zenon, <2>1, ClaimStepInv
<1>4. CASE ~Claimable(c, t)
  <2>1. /\ client' = [client EXCEPT ![c].pc = "idle", ![c].attempt = None]
        /\ UNCHANGED <<rooms, room, sessions, expiring>>
    BY Zenon, <1>2, <1>4 DEF ReconnectRetry
  <2>2. /\ Pc(c)' = "idle" /\ InHand(c)' = None /\ ClientID(c)' = ClientID(c)
        /\ SessionToken(c)' = SessionToken(c) /\ CurrentRoom(c)' = CurrentRoom(c)
        /\ \A d \in Client \ {c} : SameClient(d)
    BY Zenon, <2>1
       DEF SameClient, Pc, ClientID, SessionToken, CurrentRoom, InHand, IsClosed, IInv,
         TypeOK, ClientState
  <2>3. \A x \in Token : HasSession(x) => SessionClaim(x) # c
    BY Zenon, <1>1, NamesAssumption DEF IInv, SeatInv, SessionInv, SessionSeat
  <2>4. GivenBack(c)
    BY Zenon, <1>1, <2>1, <2>2, <2>3, SameVars DEF GivenBack, SameSession
  <2> QED
    BY Zenon, <2>4, GivenBackInv
<1> QED
  BY Zenon, <1>3, <1>4

\* A claim that comes to nothing keeps SeatInv: only the claim is undone.
LEMMA ReconnectFailInv ==
    ASSUME IInv, TypeOK', NEW c \in Client, ReconnectFail(c)
    PROVE  SeatInv'
<1>1. PICK a : a = client[c].attempt
  BY Zenon
<1>2. /\ Pc(c) = "claimed" /\ a = InHand(c) /\ a # None /\ a.token \in Token
  <2>1. Pc(c) = "claimed" /\ a = InHand(c)
    BY Zenon, <1>1 DEF ReconnectFail, Pc, InHand
  <2> QED
    BY Zenon, <2>1, TypeOKFacts DEF IInv, SeatInv, PumpInv, AttemptFacts, TypeFacts
<1> DEFINE ss == IF a.room \notin rooms THEN DropToken(sessions, a.token) ELSE sessions
<1>3. /\ client' = [client EXCEPT ![c].pc = "idle", ![c].attempt = None]
      /\ sessions' = [t \in Token |->
             IF ss[t] # None /\ ss[t].claimedBy = c
               THEN [ss[t] EXCEPT !.claimedBy = None] ELSE ss[t]]
      /\ UNCHANGED <<rooms, room, expiring>>
  BY Zenon, <1>1 DEF ReconnectFail
<1>4. a.room \notin rooms => ~HasSession(a.token)
  BY Zenon, <1>2, NamesAssumption DEF IInv, SeatInv, SessionInv, SessionSeat, SeatTokenInv
<1>5. \A t \in Token : ss[t] = sessions[t]
  BY Zenon, <1>4 DEF DropToken, HasSession
<1>6. \A t \in Token : sessions'[t] = IF sessions[t] # None /\ sessions[t].claimedBy = c
                                        THEN [sessions[t] EXCEPT !.claimedBy = None]
                                        ELSE sessions[t]
  BY Zenon, <1>3, <1>5
<1> HIDE DEF ss
<1>7. ASSUME NEW x \in Token
      PROVE  /\ HasSession(x)' <=> HasSession(x)
             /\ HasSession(x) =>
                  /\ SessionUser(x)' = SessionUser(x) /\ SessionRoom(x)' = SessionRoom(x)
                  /\ SessionHost(x)' <=> SessionHost(x)
                  /\ SessionClaim(x)' = IF SessionClaim(x) = c THEN None ELSE SessionClaim(x)
  <2>1. PICK s : s = sessions[x]
    BY Zenon
  <2> DEFINE z == [s EXCEPT !.claimedBy = None]
  <2>2. s = None \/ s \in Session
    BY Zenon, <2>1 DEF IInv, TypeOK
  <2>3. s \in Session => /\ z \in Session /\ z.user = s.user /\ z.room = s.room
                         /\ z.isHost = s.isHost /\ z.claimedBy = None
    BY Zenon DEF Session
  <2>4. sessions'[x] = IF s # None /\ s.claimedBy = c THEN z ELSE s
    BY Zenon, <1>6, <2>1
  <2> HIDE DEF z
  <2> QED
    BY Zenon, <2>1, <2>2, <2>3, <2>4, NilAssumption
       DEF HasSession, SessionUser, SessionRoom, SessionHost, SessionClaim
<1>8. /\ Pc(c)' = "idle" /\ InHand(c)' = None /\ ClientID(c)' = ClientID(c)
      /\ SessionToken(c)' = SessionToken(c) /\ CurrentRoom(c)' = CurrentRoom(c)
      /\ \A d \in Client \ {c} : SameClient(d)
  BY <1>3
     DEF SameClient, Pc, ClientID, SessionToken, CurrentRoom, InHand, IsClosed, TypeOK
<1>9. GivenBack(c)
  BY Zenon, <1>2, <1>3, <1>7, <1>8, SameVars DEF GivenBack
<1> QED
  BY Zenon, <1>9, GivenBackInv

-----------------------------------------------------------------------------
(* The inductive invariant and what follows from it.                       *)

\* NewServer starts without rooms, connections or sessions.
LEMMA InitInv == Init => IInv
<1> SUFFICES ASSUME Init PROVE IInv
  BY Zenon
<1>1. TypeOK
  BY Zenon, NoRoomType, NoClientType DEF Init, TypeOK
<1>2. /\ \A c \in Client : client[c] = NoClient
      /\ \A r \in Code : room[r] = NoRoom
      /\ \A t \in Token : ~HasSession(t)
      /\ rooms = {} /\ expiring = {}
  BY Zenon DEF Init, HasSession
<1>3. /\ \A c \in Client : /\ Pc(c) = "gone" /\ IsClosed(c)
                           /\ ClientID(c) = None /\ SessionToken(c) = None
                           /\ CurrentRoom(c) = None /\ PendingRoom(c) = None
                           /\ InHand(c) = None
      /\ \A r \in Code : /\ Away(r) = {}
                         /\ HostOf(r) = None /\ HostIDOf(r) = None
                         /\ HostLost(r) = None
                         /\ OwnerIDOf(r) = None
      /\ \A r \in Code : \A u \in UserID :
           Seat(r, u) = None /\ Request(r, u) = None
  BY <1>2 DEF NoClient, NoRoom, NoMember, Pc, IsClosed, ClientID, SessionToken, CurrentRoom,
              PendingRoom, InHand, Away, HostOf, HostIDOf, HostLost, OwnerIDOf, Seat, Request
<1>4. RequestInv
  BY Zenon, <1>3, NamesAssumption DEF RequestInv, Request, PendingRoom
<1>5. SeatsAgree /\ HostSeat /\ OwnerIsAway
  BY Zenon, <1>3, NamesAssumption DEF SeatsAgree, HostSeat, OwnerIsAway
<1>6. PumpInv /\ FoundingInv /\ SeatTokenInv
  BY Zenon, <1>2, <1>3, NamesAssumption DEF PumpInv, FoundingInv, SeatTokenInv
<1>7. IdentityInv
  BY Zenon, <1>2, <1>3 DEF IdentityInv
<1>8. SessionInv
  BY Zenon, <1>2, <1>3 DEF SessionInv, OneSession, SessionSeat, AwayKnown
<1> QED
  BY Zenon, <1>1, <1>4, <1>5, <1>6, <1>7, <1>8 DEF IInv, SeatInv

\* Every request, timer, connection loss and restart keeps SeatInv.
LEMMA SeatStep ==
    ASSUME IInv, TypeOK', Next
    PROVE  SeatInv'
<1>1. ASSUME NEW c \in Client, ClientStep(c)
      PROVE  SeatInv'
  <2>1. CASE \/ Connect(c) \/ CloseSend(c) \/ RemoveClient(c) \/ RemoveClientFinish(c)
    BY Zenon, <2>1, ConnectInv, CloseSendInv, RemoveClientInv, RemoveClientFinishInv
  <2>2. CASE \/ HandleCreateRoom(c) \/ CreateRoomCommit(c)
             \/ LeaveRoom(c) \/ CancelJoin(c)
    BY Zenon, <2>2, HandleCreateRoomInv, CreateRoomCommitInv, LeaveRoomInv, CancelJoinInv
  <2>3. CASE \E r \in Code : HandleJoinRoom(c, r)
    BY Zenon, <2>3, HandleJoinRoomInv
  <2>4. CASE \E u \in UserID : \/ HandleApproveJoin(c, u)
                               \/ HandleRejectJoin(c, u)
                               \/ HandleKickUser(c, u)
                               \/ HandleTransferHost(c, u)
    BY Zenon, <2>4, HandleApproveJoinInv, HandleRejectJoinInv, HandleKickUserInv,
       HandleTransferHostInv
  <2>5. CASE \E t \in Token : ReconnectClaim(c, t)
    BY Zenon, <2>5, ReconnectClaimInv
  <2>6. CASE \E t \in Token, old \in Client : /\ client[old].pc # "creating"
                                              /\ ReconnectReplace(c, t, old)
    BY Zenon, <2>6, ReconnectReplaceInv DEF Pc
  <2>7. CASE ReconnectRetry(c) \/ ReconnectRestore(c) \/ ReconnectFail(c)
    BY Zenon, <2>7, ReconnectRetryInv, ReconnectRestoreInv, ReconnectFailInv
  <2> QED
    BY Zenon, <1>1, <2>1, <2>2, <2>3, <2>4, <2>5, <2>6, <2>7 DEF ClientStep
<1>2. ASSUME TimerStep
      PROVE  SeatInv'
  <2>1. CASE TakeExpired \/ Tick
    BY Zenon, <2>1, TakeExpiredInv, TickInv
  <2>2. CASE \E e \in expiring : ExpireSession(e)
    BY Zenon, <2>2, ExpireSessionInv
  <2>3. CASE \E r \in Code : FailoverHost(r) \/ CleanupEmptyRoom(r)
    BY Zenon, <2>3, FailoverHostInv, CleanupEmptyRoomInv
  <2> QED
    BY Zenon, <1>2, <2>1, <2>2, <2>3 DEF TimerStep
<1>3. ASSUME expiring = {}, Restart
      PROVE  SeatInv'
  BY Zenon, <1>3, RestartInv
<1> QED
  BY Zenon, <1>1, <1>2, <1>3 DEF Next, Running

\* A step that changes nothing keeps the inductive invariant.
LEMMA StutterInv ==
    ASSUME IInv, UNCHANGED vars
    PROVE  IInv'
<1>1. TypeOK'
  BY Zenon DEF IInv, TypeOK, vars
<1>2. RequestInv'
  BY DEF IInv, RequestInv, vars
<1>3. /\ \A c \in Client : SameClient(c)
      /\ \A r \in Code : SameRoom(r)
      /\ \A t \in Token : SameSession(t)
  BY Zenon DEF vars, SameClient, SameRoom, SameSeats, SameHost, SameSession, Pc, IsClosed, ClientID,
         SessionToken, CurrentRoom, InHand, Away, HostOf, HostIDOf, HostLost, OwnerIDOf, Seat,
         HasSession, SessionUser, SessionRoom, SessionHost, SessionClaim
<1>4. SeatInv'
  BY Zenon, <1>1, <1>3, FrameInv DEF vars
<1> QED
  BY Zenon, <1>1, <1>2, <1>4 DEF IInv

\* IInv is inductive.
LEMMA StepInv ==
    ASSUME IInv, [Next]_vars
    PROVE  IInv'
<1>1. ASSUME Next
      PROVE  IInv'
  <2>1. TypeOK'
    BY Zenon, <1>1, TypeStep DEF IInv, SeatInv
  <2>2. RequestInv'
    BY Zenon, <1>1, <2>1, RequestStep
  <2>3. SeatInv'
    BY Zenon, <1>1, <2>1, SeatStep
  <2> QED
    BY Zenon, <2>1, <2>2, <2>3 DEF IInv
<1> QED
  BY Zenon, <1>1, StutterInv

\* The inductive invariant holds in every state of every behaviour.
THEOREM Inductive == Spec => []IInv
<1>1. Init => IInv
  BY Zenon, InitInv
<1>2. IInv /\ [Next]_vars => IInv'
  BY Zenon, StepInv
<1> QED
  BY <1>1, <1>2, PTL DEF Spec

\* Type correctness: no interleaving of requests, timers, connection losses and
\* restarts stores a value of the wrong kind, nil included.
THEOREM TypeCorrect == Spec => []TypeOK
<1>1. IInv => TypeOK
  BY Zenon DEF IInv
<1> QED
  BY <1>1, Inductive, PTL

\* Client.room and Room.Clients never disagree, although removeClient,
\* replaceLiveSession, kicks and closeRoom detach a client under other locks
\* than its own requests take.
THEOREM SeatsAlwaysAgree == Spec => []SeatsAgree
<1>1. IInv => SeatsAgree
  BY Zenon DEF IInv, SeatInv
<1> QED
  BY <1>1, Inductive, PTL

\* Room.Host, Room.State.HostID and the failover clock stay consistent through
\* disconnect, failover, reclaim, transfer, expiry and restart.
THEOREM HostSeatConsistent == Spec => []HostSeat
<1>1. IInv => HostSeat
  BY Zenon DEF IInv, SeatInv
<1> QED
  BY <1>1, Inductive, PTL

\* Room.OwnerID only ever names a disconnected member whom a deputy replaces.
THEOREM OwnerAway == Spec => []OwnerIsAway
<1>1. IInv => OwnerIsAway
  BY Zenon DEF IInv, SeatInv
<1> QED
  BY <1>1, Inductive, PTL

\* Every seat held for a disconnected member is reachable by one token, or is
\* in the hands of the cleanup pass: nobody blocks a seat for ever.
THEOREM HeldSeatsResumable == Spec => []AwayHasToken
<1>1. ASSUME IInv
      PROVE  AwayHasToken
  <2> SUFFICES ASSUME NEW r \in rooms, NEW u \in Away(r)
               PROVE  LET toks == {t \in Token : /\ HasSession(t)
                                                 /\ SessionRoom(t) = r
                                                 /\ SessionUser(t) = u}
                      IN  \/ \E t \in Token : toks = {t}
                          \/ toks = {} /\ \E e \in expiring : e.room = r /\ e.user = u
    BY Zenon DEF AwayHasToken
  <2> DEFINE toks == {t \in Token : /\ HasSession(t)
                                    /\ SessionRoom(t) = r
                                    /\ SessionUser(t) = u}
  <2>0. OneSession /\ SessionSeat /\ AwayKnown
    BY Zenon, <1>1 DEF IInv, SeatInv, SessionInv
  <2>1. CASE \E t \in Token : t \in toks
    <3>1. PICK t \in Token : t \in toks
      BY Zenon, <2>1
    <3>2. \A x \in Token : x \in toks => x = t
      BY Zenon, <2>0, <3>1 DEF OneSession
    <3>3. toks = {t}
      BY Zenon, <3>1, <3>2
    <3> QED
      BY Zenon, <3>3
  <2>2. CASE ~ \E t \in Token : t \in toks
    <3>1. toks = {}
      BY Zenon, <2>2
    <3>2. \E e \in expiring : e.room = r /\ e.user = u
      BY Zenon, <2>0, <2>2 DEF AwayKnown
    <3> QED
      BY Zenon, <3>1, <3>2
  <2> QED
    BY Zenon, <2>1, <2>2
<1> QED
  BY <1>1, Inductive, PTL

\* Every token of Server.sessions names a held seat of a room that exists, and
\* none that a connected member still uses.
THEOREM TokensNameSeats == Spec => []TokenNamesSeat
<1>1. ASSUME IInv
      PROVE  TokenNamesSeat
  <2>1. SessionSeat /\ SeatTokenInv
    BY Zenon, <1>1 DEF IInv, SeatInv, SessionInv
  <2> QED
    BY Zenon, <2>1 DEF TokenNamesSeat, SessionSeat, SeatTokenInv, Spent
<1> QED
  BY <1>1, Inductive, PTL

==============================================================================
