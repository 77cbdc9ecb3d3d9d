-------------------------- MODULE MembershipTimers --------------------------
(***************************************************************************)
(* The commit of a reconnect, the timers and a restart keep SeatInv: one   *)
(* lemma per action.                                                       *)
(***************************************************************************)
EXTENDS MembershipSteps

\* Connection c, which claimed session t, takes seat u of room r back.
Restored(c, r, u, t) ==
    /\ Pc(c) = "claimed" /\ CurrentRoom(c) = None
    /\ HasSession(t) /\ SessionClaim(t) = c /\ SessionUser(t) = u /\ SessionRoom(t) = r
    /\ InHand(c).token = t
    /\ Pc(c)' = "idle" /\ InHand(c)' = None /\ CurrentRoom(c)' = r
    /\ ClientID(c)' = u /\ SessionToken(c)' = t
    /\ \A d \in Client \ {c} : SameClient(d)
    /\ \A w \in UserID : Seat(r, w)' = IF w = u THEN c ELSE Seat(r, w)
    /\ Away(r)' = Away(r) \ {u}
    /\ \/ /\ c \in CanHost
          /\ HostOf(r)' = c /\ HostIDOf(r)' = u /\ HostLost(r)' = None
          /\ u = HostIDOf(r) \/ u = OwnerIDOf(r) \/ HostIDOf(r) = None
          /\ OwnerIDOf(r)' = IF OwnerIDOf(r) = u THEN None ELSE OwnerIDOf(r)
       \/ /\ HostIDOf(r) # u /\ OwnerIDOf(r) # u
          /\ SameHost(r) /\ OwnerIDOf(r)' = OwnerIDOf(r)
    /\ \A q \in Code \ {r} : SameRoom(q)
    /\ ~HasSession(t)' /\ \A x \in Token \ {t} : SameSession(x)
    /\ UNCHANGED <<rooms, expiring>>

\* A member who is back keeps SeatInv.
LEMMA RestoredInv ==
    ASSUME IInv, TypeOK', NEW c \in Client, NEW r \in Code, NEW u \in UserID, NEW t \in Token,
           Restored(c, r, u, t)
    PROVE  SeatInv'
<1> SUFFICES ASSUME SeatsAgree, HostSeat, OwnerIsAway, PumpInv, FoundingInv, IdentityInv,
                    SeatTokenInv, OneSession, SessionSeat, AwayKnown,
                    ClientFacts, AttemptFacts, SeatFacts, HostFacts, SessionFacts,
                    ClientFacts', AttemptFacts', SeatFacts', HostFacts', SessionFacts'
             PROVE  SeatInv'
  BY TypeOKFacts, PTL DEF IInv, SeatInv, SessionInv, TypeFacts
<1>2. /\ r \in rooms /\ u \in Away(r) /\ Seat(r, u) = None
      /\ \A d \in Client : ClientID(d) = u => Spent(d)
      /\ \A d \in Client : SessionToken(d) = t => Spent(d)
  BY DEF SessionSeat, IdentityInv, SeatTokenInv, Restored
<1>3. \A d \in Client \ {c} : Pc(d) \in {"creating", "claimed"} => InHand(d).token # t
  BY Zenon DEF SeatTokenInv, Restored
<1>11. SeatsAgree'
  BY <1>2, NamesAssumption
     DEF SeatsAgree, Restored, PumpInv, SameClient, SameRoom, SameSeats, ClientFacts
<1>12. HostSeat'
  BY NamesAssumption DEF HostSeat, Restored, SameRoom, SameSeats, SameHost, HostFacts
<1>13. OwnerIsAway'
  BY Zenon DEF OwnerIsAway, Restored, SameRoom, SameSeats, SameHost
<1>14. PumpInv'
  BY Zenon, NamesAssumption DEF PumpInv, Restored, SameClient
<1>15. FoundingInv'
  BY <1>2 DEF FoundingInv, Restored, SameClient, SameRoom, SameSeats
<1>16. IdentityInv'
  BY SMTT(30)
     DEF IdentityInv, SessionSeat, Spent, Restored, SameClient, SameRoom, SameSeats,
       SeatFacts
<1>17. SeatTokenInv'
  BY NamesAssumption
     DEF SeatTokenInv, Restored, PumpInv, Spent, SameClient, SameSession, AttemptFacts
<1>18. OneSession'
  BY Zenon DEF OneSession, Restored, SameSession
<1>19. SessionSeat'
  BY NamesAssumption
     DEF SessionSeat, Restored, SameClient, SameRoom, SameSeats, SameHost, SameSession,
       SessionFacts, OneSession
<1>20. AwayKnown'
  BY DEF AwayKnown, Restored, SameRoom, SameSeats, SameSession, SeatFacts
<1> QED
  BY Zenon, <1>11, <1>12, <1>13, <1>14, <1>15, <1>16, <1>17, <1>18, <1>19, <1>20
     DEF SeatInv, SessionInv

\* The commit of a reconnect keeps SeatInv: what the claim found is checked
\* again, so the seat is still the one the token names.
LEMMA ReconnectRestoreInv ==
    ASSUME IInv, TypeOK', NEW c \in Client, ReconnectRestore(c)
    PROVE  SeatInv'
<1>1. PICK r, u, t : r = client[c].attempt.room /\ u = client[c].attempt.user
                     /\ t = client[c].attempt.token
  BY Zenon
<1>2. /\ Pc(c) = "claimed" /\ r \in rooms /\ HasSession(t) /\ SessionClaim(t) = c
      /\ CurrentRoom(c) = None
      /\ r = InHand(c).room /\ u = InHand(c).user /\ t = InHand(c).token
      /\ UNCHANGED <<rooms, expiring>>
  BY Zenon, <1>1
     DEF ReconnectRestore, Restorable, Pc, HasSession, SessionClaim, CurrentRoom, InHand
<1>3. r \in Code /\ u \in UserID /\ t \in Token
  BY Zenon, <1>2, TypeOKFacts DEF IInv, SeatInv, PumpInv, AttemptFacts, TypeFacts
<1>4. /\ SessionUser(t) = u /\ SessionRoom(t) = r
      /\ u \in {HostIDOf(r), OwnerIDOf(r)} => c \in CanHost
  BY Zenon, <1>2, <1>3, NamesAssumption DEF IInv, SeatInv, SessionInv, SessionSeat
<1>5. /\ ~HasSession(t)' /\ \A x \in Token \ {t} : SameSession(x)
  <2>1. sessions' = DropToken(sessions, t)
    BY Zenon, <1>1 DEF ReconnectRestore
  <2>2. sessions'[t] = None /\ \A x \in Token \ {t} : sessions'[x] = sessions[x]
    BY Zenon, <1>3, <2>1 DEF DropToken
  <2> QED
    BY Zenon, <2>2
       DEF HasSession, SameSession, SessionUser, SessionRoom, SessionHost, SessionClaim
<1>6. /\ Pc(c)' = "idle" /\ InHand(c)' = None /\ CurrentRoom(c)' = r
      /\ ClientID(c)' = u /\ SessionToken(c)' = t
      /\ \A d \in Client \ {c} : SameClient(d)
  <2>1. client' = [client EXCEPT ![c].pc = "idle", ![c].attempt = None,
                                 ![c].room = r, ![c].id = u, ![c].token = t]
    BY Zenon, <1>1 DEF ReconnectRestore
  <2> QED
    BY <2>1
       DEF SameClient, Pc, ClientID, SessionToken, CurrentRoom, InHand, IsClosed, TypeOK
<1> DEFINE seated == Reseat(room[r], c, u)
           host == AssignHost(seated, u)
           owned == [host EXCEPT !.OwnerID = IF @ = u THEN None ELSE @]
           promoted == /\ c \in CanHost
                       /\ \/ room[r].HostID = u \/ room[r].OwnerID = u
                          \/ room[r].Host = None /\ room[r].HostID = None
<1>7. /\ seated \in Room /\ seated.Clients = [room[r].Clients EXCEPT ![u] = c]
      /\ seated.DisconnectedUsers = room[r].DisconnectedUsers \ {u}
      /\ seated.OwnerID = room[r].OwnerID /\ seated.Host = room[r].Host
      /\ seated.HostID = room[r].HostID
      /\ seated.HostDisconnectedAt = room[r].HostDisconnectedAt
  <2>1. room[r] \in Room
    BY Zenon, <1>3 DEF IInv, TypeOK
  <2> QED
    BY <1>3, <2>1, ReseatFields
<1>8. room' = [room EXCEPT ![r] = IF promoted THEN owned ELSE seated]
  BY Zenon, <1>1 DEF ReconnectRestore
<1> HIDE DEF seated
<1>9. /\ host \in Room /\ host.Clients = seated.Clients
      /\ host.DisconnectedUsers = seated.DisconnectedUsers
      /\ host.OwnerID = seated.OwnerID /\ host.Host = seated.Clients[u]
      /\ host.HostID = u /\ host.HostDisconnectedAt = None
  <2>1. u # None /\ u \in UserID \cup {None} /\ seated \in Room
    BY Zenon, <1>3, <1>7, NamesAssumption
  <2> QED
    BY Zenon, <2>1, AssignHostFields
<1> HIDE DEF host
<1>10. /\ owned.Clients = host.Clients
       /\ owned.DisconnectedUsers = host.DisconnectedUsers
       /\ owned.OwnerID = (IF host.OwnerID = u THEN None ELSE host.OwnerID)
       /\ owned.Host = host.Host /\ owned.HostID = host.HostID
       /\ owned.HostDisconnectedAt = host.HostDisconnectedAt
  BY Zenon, <1>9 DEF Room
<1> HIDE DEF owned
<1>11. /\ \A w \in UserID : seated.Clients[w] = IF w = u THEN c ELSE Seat(r, w)
       /\ seated.DisconnectedUsers = Away(r) \ {u} /\ seated.OwnerID = OwnerIDOf(r)
       /\ seated.Host = HostOf(r) /\ seated.HostID = HostIDOf(r)
       /\ seated.HostDisconnectedAt = HostLost(r)
  <2>1. room[r].Clients \in [UserID -> Client \cup {None}]
    BY Zenon, <1>3 DEF IInv, TypeOK, Room
  <2> QED
    BY Zenon, <1>3, <1>7, <2>1 DEF Seat, Away, OwnerIDOf, HostOf, HostIDOf, HostLost
<1>12. promoted => /\ c \in CanHost
                   /\ u = HostIDOf(r) \/ u = OwnerIDOf(r) \/ HostIDOf(r) = None
  BY Zenon DEF HostIDOf, OwnerIDOf
<1>13. ~promoted => HostIDOf(r) # u /\ OwnerIDOf(r) # u
  BY Zenon, <1>4 DEF HostIDOf, OwnerIDOf
<1> HIDE DEF promoted
<1>14. CASE promoted
  <2>1. room' = [room EXCEPT ![r] = owned]
    BY Zenon, <1>8, <1>14
  <2>2. /\ \A w \in UserID : Seat(r, w)' = owned.Clients[w]
        /\ Away(r)' = owned.DisconnectedUsers /\ OwnerIDOf(r)' = owned.OwnerID
        /\ HostOf(r)' = owned.Host /\ HostIDOf(r)' = owned.HostID
        /\ HostLost(r)' = owned.HostDisconnectedAt
        /\ \A q \in Code \ {r} : SameRoom(q)
    BY Zenon, <1>3, <2>1, RoomFields DEF IInv
  <2>3. Restored(c, r, u, t)
    BY <1>2, <1>3, <1>4, <1>5, <1>6, <1>9, <1>10, <1>11, <1>12, <1>14, <2>2
       DEF Restored
  <2> QED
    BY Zenon, <1>3, <2>3, RestoredInv
<1>15. CASE ~promoted
  <2>1. room' = [room EXCEPT ![r] = seated]
    BY Zenon, <1>8, <1>15
  <2>2. /\ \A w \in UserID : Seat(r, w)' = seated.Clients[w]
        /\ Away(r)' = seated.DisconnectedUsers /\ OwnerIDOf(r)' = seated.OwnerID
        /\ HostOf(r)' = seated.Host /\ HostIDOf(r)' = seated.HostID
        /\ HostLost(r)' = seated.HostDisconnectedAt
        /\ \A q \in Code \ {r} : SameRoom(q)
    <3>1. TypeOK
      BY Zenon DEF IInv
    <3> QED
      BY Zenon, <1>3, <2>1, <3>1, RoomFields
  <2>3. Restored(c, r, u, t)
    BY Zenon, <1>2, <1>4, <1>5, <1>6, <1>11, <1>13, <1>15, <2>2
       DEF Restored, SameHost
  <2> QED
    BY Zenon, <1>3, <2>3, RestoredInv
<1> QED
  BY Zenon, <1>14, <1>15

\* The sessions of ex go, and what they named becomes the pending expiries. No
\* connection and no room changes.
SessionsTaken(ex) ==
    /\ ex \subseteq Token /\ expiring = {}
    /\ \A t \in ex : HasSession(t) /\ ~HasSession(t)'
    /\ \A t \in Token \ ex : SameSession(t)
    /\ \A e \in expiring' : \E t \in ex : e.user = SessionUser(t) /\ e.room = SessionRoom(t)
    /\ \A t \in ex : \E e \in expiring' : e.user = SessionUser(t) /\ e.room = SessionRoom(t)

Taken(ex) ==
    /\ SessionsTaken(ex)
    /\ \A d \in Client : SameClient(d)
    /\ \A q \in Code : SameRoom(q)
    /\ UNCHANGED rooms

\* The first half of the session cleanup keeps SeatInv: a seat whose token is
\* taken away is known to the second half.
LEMMA TakenInv ==
    ASSUME IInv, TypeOK', NEW ex, Taken(ex)
    PROVE  SeatInv'
<1> SUFFICES ASSUME SeatsAgree, HostSeat, OwnerIsAway, PumpInv, FoundingInv, IdentityInv,
                    SeatTokenInv, OneSession, SessionSeat, AwayKnown,
                    ClientFacts, AttemptFacts, SeatFacts, HostFacts, SessionFacts,
                    SessionsTaken(ex), rooms' = rooms,
                    \A d \in Client : SameClient(d),
                    \A q \in Code : SameRoom(q)
             PROVE  SeatInv'
  BY Zenon, TypeOKFacts DEF IInv, SeatInv, SessionInv, TypeFacts, Taken
<1>1. SeatsAgree' /\ HostSeat' /\ OwnerIsAway'
  BY Zenon, SeatsKept
<1>2. PumpInv'
  BY Zenon DEF PumpInv, SameClient
<1>3. FoundingInv'
  BY DEF FoundingInv, SameClient, SameRoom, SameSeats
<1>4. \A d \in Client : ClientID(d)' = ClientID(d) /\ (Spent(d)' <=> Spent(d))
  BY Zenon DEF SameClient, Spent
<1>5. \A q \in Code : Away(q)' = Away(q) /\ \A w \in UserID : Seat(q, w)' = Seat(q, w)
  BY Zenon DEF SameRoom, SameSeats
<1>6. \A e \in expiring' :
        \E t \in ex : /\ HasSession(t) /\ t \in Token
                      /\ e.user = SessionUser(t) /\ e.room = SessionRoom(t)
  BY Zenon DEF SessionsTaken
<1>7. \A e \in expiring' : e.user \in Away(e.room) /\ e.room \in Code
  BY Zenon, <1>6 DEF SessionSeat, SessionFacts
<1>8. IdentityInv'
  <2>1. /\ \A e \in expiring' : \A c \in Client : ClientID(c)' = e.user => Spent(c)'
        /\ \A e \in expiring' : \A r \in Code : e.user \in Away(r)' => r = e.room
    BY <1>4, <1>5, <1>7 DEF IdentityInv
  <2>2. \A r \in Code : \A u \in Away(r)' : Seat(r, u)' = None
    BY <1>5 DEF IdentityInv, SeatFacts
  <2>3. \A r, q \in Code : r # q => (Away(r) \cap Away(q))' = {}
    BY Zenon, <1>5 DEF IdentityInv
  <2>4. \A r \in Code : \A u \in Away(r)' : \A c \in Client : ClientID(c)' = u => Spent(c)'
    BY Zenon, <1>4, <1>5 DEF IdentityInv
  <2>5. \A c, d \in Client : c # d /\ ClientID(c)' = ClientID(d)' /\ ClientID(c)' # None =>
          Spent(c)' \/ Spent(d)'
    BY Zenon, <1>4 DEF IdentityInv
  <2> QED
    BY Zenon, <2>1, <2>2, <2>3, <2>4, <2>5 DEF IdentityInv
<1>9. \A x \in Token : HasSession(x)' => HasSession(x) /\ SameSession(x) /\ x \notin ex
  BY Zenon DEF SessionsTaken, SameSession
<1>10. SeatTokenInv'
  BY Zenon, <1>4, <1>9, TokensKept DEF SameClient
<1>11. OneSession'
  BY Zenon, <1>9 DEF OneSession, SameSession
<1>12. ASSUME NEW t \in Token, HasSession(t)' PROVE \A e \in expiring' : e.user # SessionUser(t)'
  BY Zenon, <1>6, <1>9, <1>12 DEF OneSession, SameSession
<1>13. SessionSeat'
  BY <1>9, <1>12
     DEF SessionSeat, SameClient, SameRoom, SameSeats, SameHost, SameSession, SessionFacts
<1>14. AwayKnown'
  <2> SUFFICES ASSUME NEW r \in rooms, NEW u \in Away(r)
               PROVE  \/ \E t \in Token : /\ HasSession(t)' /\ SessionRoom(t)' = r
                                          /\ SessionUser(t)' = u
                      \/ \E e \in expiring' : e.room = r /\ e.user = u
    BY <1>5 DEF AwayKnown, SeatFacts
  <2>1. PICK t \in Token : HasSession(t) /\ SessionRoom(t) = r /\ SessionUser(t) = u
    BY Zenon DEF AwayKnown, SessionsTaken
  <2> QED
    BY Zenon, <2>1 DEF SessionsTaken, SameSession
<1> QED
  BY Zenon, <1>1, <1>2, <1>3, <1>8, <1>10, <1>11, <1>13, <1>14 DEF SeatInv, SessionInv

\* cleanupExpiredSessionsOnce, first half.
LEMMA TakeExpiredInv ==
    ASSUME IInv, TypeOK', TakeExpired
    PROVE  SeatInv'
<1>1. PICK ex : ex = {t \in Token : /\ sessions[t] # None
                                    /\ sessions[t].age > ReconnectGracePeriod}
  BY Zenon
<1>2. PICK b : b = (uptime > MinRoomRetentionAfterRestart)
  BY Zenon
<1>3. /\ expiring = {}
      /\ expiring' = {[user |-> sessions[t].user, room |-> sessions[t].room,
                       pastRetention |-> b] : t \in ex}
      /\ sessions' = [t \in Token |-> IF t \in ex THEN None ELSE sessions[t]]
      /\ rooms' = rooms /\ room' = room /\ client' = client
  BY Zenon, <1>1, <1>2 DEF TakeExpired
<1>4. ex \subseteq Token
  BY Zenon, <1>1
<1>5. /\ \A t \in ex : HasSession(t) /\ ~HasSession(t)'
      /\ \A t \in Token \ ex : SameSession(t)
  BY Zenon, <1>1, <1>3
     DEF HasSession, SameSession, SessionUser, SessionRoom, SessionHost, SessionClaim
<1>6. /\ \A e \in expiring' : \E t \in ex : e.user = SessionUser(t) /\ e.room = SessionRoom(t)
      /\ \A t \in ex : \E e \in expiring' : e.user = SessionUser(t) /\ e.room = SessionRoom(t)
  <2>1. ASSUME NEW e \in expiring'
        PROVE  \E t \in ex : e.user = SessionUser(t) /\ e.room = SessionRoom(t)
    <3>1. PICK t \in ex : e = [user |-> sessions[t].user, room |-> sessions[t].room,
                               pastRetention |-> b]
      BY Zenon, <1>3, <2>1
    <3>2. e.user = sessions[t].user /\ e.room = sessions[t].room
      BY Zenon, <3>1
    <3> QED
      BY Zenon, <3>2 DEF SessionUser, SessionRoom
  <2>2. ASSUME NEW t \in ex
        PROVE  \E e \in expiring' : e.user = SessionUser(t) /\ e.room = SessionRoom(t)
    <3>1. PICK e : e = [user |-> sessions[t].user, room |-> sessions[t].room,
                        pastRetention |-> b]
      BY Zenon
    <3>2. e.user = sessions[t].user /\ e.room = sessions[t].room /\ e \in expiring'
      BY Zenon, <1>3, <3>1
    <3> QED
      BY Zenon, <3>2 DEF SessionUser, SessionRoom
  <2> QED
    BY Zenon, <2>1, <2>2
<1>7. Taken(ex)
  BY Zenon, <1>3, <1>4, <1>5, <1>6, SameVars DEF Taken, SessionsTaken
<1> QED
  BY Zenon, <1>7, TakenInv

\* A pending expiry whose seat is gone is dropped, and nothing else changes.
LEMMA ExpiryDroppedInv ==
    ASSUME IInv, TypeOK', NEW e \in expiring, expiring' = expiring \ {e},
           e.room \notin rooms \/ e.user \notin Away(e.room),
           rooms' = rooms,
           \A d \in Client : SameClient(d),
           \A q \in Code : SameRoom(q),
           \A t \in Token : SameSession(t)
    PROVE  SeatInv'
<1> SUFFICES ASSUME SeatsAgree, HostSeat, OwnerIsAway, PumpInv, FoundingInv, IdentityInv,
                    SeatTokenInv, OneSession, SessionSeat, AwayKnown,
                    ClientFacts, AttemptFacts, SeatFacts, HostFacts, SessionFacts
             PROVE  SeatInv'
  BY Zenon, TypeOKFacts DEF IInv, SeatInv, SessionInv, TypeFacts
<1>1. NothingGained
  BY Zenon DEF NothingGained, KeptClient, NoneSeated, SameClient, SameRoom, SameSeats
<1>2. SeatsAgree' /\ HostSeat' /\ OwnerIsAway'
  BY Zenon, SeatsKept
<1>3. PumpInv' /\ FoundingInv' /\ IdentityInv' /\ SeatTokenInv' /\ OneSession'
  BY Zenon, <1>1, NothingGainedInv
<1>4. SessionSeat'
  <2>1. \A x \in Token, q \in Code : HasSession(x)' /\ SessionRoom(x) = q =>
          q \in rooms' /\ SessionUser(x) \in Away(q)'
    BY DEF SessionSeat, SameSession, SameRoom, SameSeats
  <2> QED
    BY Zenon, <2>1, SessionSeatKept
       DEF SameClient, SameRoom, SameSeats, SameHost, SeatFacts
<1>5. AwayKnown'
  BY DEF AwayKnown, SameRoom, SameSeats, SameSession, SeatFacts
<1> QED
  BY Zenon, <1>2, <1>3, <1>4, <1>5 DEF SeatInv, SessionInv

\* The clients as they are, in the form DeletedInv and ClosedInv ask for.
LEMMA ClientsNow ==
    ASSUME TypeOK
    PROVE  /\ client \in [Client -> ClientState]
           /\ \A d \in Client :
                /\ client[d].pc = Pc(d) /\ client[d].id = ClientID(d)
                /\ client[d].token = SessionToken(d) /\ client[d].closed = IsClosed(d)
                /\ client[d].attempt = InHand(d)
                /\ client[d].room = IF d = None THEN None ELSE CurrentRoom(d)
BY Zenon, NamesAssumption DEF TypeOK, Pc, ClientID, SessionToken, IsClosed, InHand, CurrentRoom

\* expireSession keeps SeatInv, whether the room stays, is deleted or is closed.
LEMMA ExpireSessionInv ==
    ASSUME IInv, TypeOK', NEW e \in expiring, ExpireSession(e)
    PROVE  SeatInv'
<1>1. PICK r, u : r = e.room /\ u = e.user
  BY Zenon
<1>2. /\ r \in Code /\ u \in UserID /\ expiring' = expiring \ {e}
      /\ expiring' \subseteq expiring /\ \A f \in expiring : f \notin expiring' => f = e
  BY Zenon, <1>1, TypeOKFacts DEF ExpireSession, IInv, SessionFacts, TypeFacts
<1>3. CASE r \notin rooms \/ u \notin Away(r)
  <2>1. /\ rooms' = rooms /\ room' = room /\ client' = client /\ sessions' = sessions
    BY Zenon, <1>1, <1>3 DEF ExpireSession, Away
  <2> QED
    BY Zenon, <1>1, <1>2, <1>3, <2>1, SameVars, ExpiryDroppedInv
<1>4. PICK k, cl : k = None /\ cl = client
  BY Zenon
<1>5. /\ cl \in [Client -> ClientState] /\ k \notin Client
      /\ \A d \in Client :
           /\ cl[d].pc = Pc(d) /\ cl[d].id = ClientID(d)
           /\ cl[d].token = SessionToken(d) /\ cl[d].closed = IsClosed(d)
           /\ cl[d].attempt = InHand(d)
           /\ cl[d].room = IF d = k THEN None ELSE CurrentRoom(d)
  BY Zenon, <1>4, ClientsNow, NamesAssumption DEF IInv
<1>6. CASE r \in rooms /\ u \in Away(r)
  <2> DEFINE gone == Forget(room[r], u)
  <2>1. PICK next \in Succession(gone, room[r].HostID = u) :
          \/ Empty(next) /\ DeleteRoom(r, next, client) /\ sessions' = sessions
          \/ Settle(r, next, client, sessions)
    BY Zenon, <1>1, <1>6 DEF ExpireSession, Away
  <2>2. /\ gone \in Room /\ gone.Clients = room[r].Clients
        /\ gone.DisconnectedUsers = room[r].DisconnectedUsers \ {u}
        /\ gone.OwnerID = (IF room[r].OwnerID = u THEN None ELSE room[r].OwnerID)
        /\ gone.Host = room[r].Host /\ gone.HostID = room[r].HostID
        /\ gone.HostDisconnectedAt = room[r].HostDisconnectedAt
    <3>1. room[r] \in Room
      BY Zenon, <1>2 DEF IInv, TypeOK
    <3> QED
      BY Zenon, <1>2, <3>1, ForgetFields
  <2> HIDE DEF gone
  <2>3. /\ \A w \in UserID : gone.Clients[w] = Seat(r, w)
        /\ gone.DisconnectedUsers = Away(r) \ {u}
        /\ gone.OwnerID = (IF OwnerIDOf(r) = u THEN None ELSE OwnerIDOf(r))
        /\ gone.Host = HostOf(r) /\ gone.HostID = HostIDOf(r)
        /\ gone.HostDisconnectedAt = HostLost(r)
    BY Zenon, <2>2 DEF Seat, Away, OwnerIDOf, HostOf, HostIDOf, HostLost
  <2>4. /\ next.Clients = gone.Clients /\ next.DisconnectedUsers = gone.DisconnectedUsers
        /\ next.OwnerID = gone.OwnerID
        /\ HostIDOf(r) # u => next = gone
        /\ HostIDOf(r) = u =>
             /\ next.HostDisconnectedAt = None
             /\ \/ next.HostID = None /\ next.Host = None
                \/ /\ next.HostID \in UserID /\ next.Host \in CanHost
                   /\ gone.Clients[next.HostID] = next.Host
    <3>1. PICK b \in BOOLEAN : b = (room[r].HostID = u)
      BY Zenon
    <3> QED
      BY Zenon, <2>1, <2>2, <3>1, SuccessionFields DEF IInv, HostIDOf
  <2>5. CASE Empty(next) /\ DeleteRoom(r, next, client) /\ sessions' = sessions
    <3>1. \A w \in UserID : Seat(r, w) \in {None, k}
      BY Zenon, <2>3, <2>4, <2>5 DEF Empty, Connected
    <3>2. \A w \in Away(r) : \E f \in expiring : f \notin expiring' /\ f.user = w
      BY Zenon, <1>1, <1>2, <2>3, <2>4, <2>5 DEF Empty
    <3>3. \A x \in Token : SameSession(x)
      BY Zenon, <2>5, SameVars
    <3>4. \A f \in expiring : f \notin expiring' => f.room = r
      BY Zenon, <1>1, <1>2
    <3>5. DeleteRoom(r, next, cl)
      BY Zenon, <1>4, <2>5
    <3> QED
      BY <1>2, <1>5, <1>6, <3>1, <3>2, <3>3, <3>4, <3>5, DeletedInv
  <2>6. CASE Settle(r, next, client, sessions) /\ HostlessDead(next)
    <3>1. CloseRoom(r, next, cl, sessions)
      BY Zenon, <1>4, <2>6 DEF Settle
    <3>2. \A w \in UserID : next.Clients[w] = IF Seat(r, w) = k THEN None ELSE Seat(r, w)
      BY Zenon, <1>4, <2>3, <2>4
    <3>3. \A f \in expiring : f \notin expiring' => f.room = r
      BY Zenon, <1>1, <1>2
    <3> QED
      BY <1>2, <1>5, <1>6, <3>1, <3>2, <3>3, ClosedInv
  <2>7. CASE Settle(r, next, client, sessions) /\ ~HostlessDead(next)
    <3>1. /\ room' = [room EXCEPT ![r] = next] /\ client' = client /\ sessions' = sessions
          /\ rooms' = rooms
      BY Zenon, <2>7 DEF Settle
    <3>2. /\ \A w \in UserID : Seat(r, w)' = next.Clients[w]
          /\ Away(r)' = next.DisconnectedUsers /\ OwnerIDOf(r)' = next.OwnerID
          /\ HostOf(r)' = next.Host /\ HostIDOf(r)' = next.HostID
          /\ HostLost(r)' = next.HostDisconnectedAt
          /\ \A q \in Code \ {r} : SameRoom(q)
      BY Zenon, <1>2, <3>1, RoomFields DEF IInv
    <3>3. HostIDOf(r) = u => NewHost(r)
      BY Zenon, <2>4, <3>2 DEF NewHost
    <3>4. HostIDOf(r) # u => SameHost(r)
      BY Zenon, <2>3, <2>4, <3>2 DEF SameHost
    <3>5. \A x \in Token : HasSession(x) => SessionUser(x) # u
      BY Zenon, <1>1 DEF IInv, SeatInv, SessionInv, SessionSeat
    <3>6. SeatForgotten(r, u)
      <4>1. HeldSeatEmptied(r, u)
        BY Zenon, <1>1, <1>2, <1>6, <2>3, <2>4, <3>2, <3>3, <3>4 DEF HeldSeatEmptied
      <4>2. UserForgotten(u)
        BY Zenon, <1>1, <1>2, <1>6, <3>1, <3>5, SameVars DEF UserForgotten
      <4> QED
        BY Zenon, <3>1, <4>1, <4>2, SameVars DEF SeatForgotten
    <3> QED
      BY Zenon, <1>2, <3>6, SeatForgottenInv
  <2> QED
    BY Zenon, <2>1, <2>5, <2>6, <2>7
<1> QED
  BY Zenon, <1>3, <1>6

\* failoverHostsOnce keeps SeatInv: the deputy is connected and may host, and
\* the owner it stands in for is away.
LEMMA FailoverHostInv ==
    ASSUME IInv, TypeOK', NEW r \in Code, FailoverHost(r)
    PROVE  SeatInv'
<1> DEFINE owned == [room[r] EXCEPT !.OwnerID = IF @ = None THEN room[r].HostID ELSE @]
<1>1. PICK u \in Deputies(room[r]) : room' = [room EXCEPT ![r] = AssignHost(owned, u)]
  BY Zenon DEF FailoverHost
<1>2. /\ HostIDOf(r) # None /\ HostLost(r) # None
      /\ rooms' = rooms /\ expiring' = expiring /\ client' = client /\ sessions' = sessions
  BY Zenon DEF FailoverHost, HostIDOf, HostLost
<1>3. u \in UserID /\ u # None /\ Seat(r, u) \in CanHost
  BY Zenon, NamesAssumption DEF Deputies, Connected, Seat
<1>4. PICK o : o = IF OwnerIDOf(r) = None THEN HostIDOf(r) ELSE OwnerIDOf(r)
  BY Zenon
<1>5. /\ HostIDOf(r) \in Away(r)
      /\ o \in Away(r) /\ o # u /\ o \in {HostIDOf(r), OwnerIDOf(r)}
  <2>1. HostIDOf(r) \in Away(r)
    BY Zenon, <1>2 DEF IInv, SeatInv, HostSeat
  <2>2. o \in Away(r) /\ o \in {HostIDOf(r), OwnerIDOf(r)}
    BY Zenon, <1>4, <2>1 DEF IInv, SeatInv, OwnerIsAway
  <2>3. u \notin Away(r)
    BY Zenon, <1>3, NamesAssumption DEF IInv, SeatInv, IdentityInv
  <2> QED
    BY Zenon, <2>1, <2>2, <2>3
<1>6. room[r] \in Room
  BY Zenon DEF IInv, TypeOK
<1>7. /\ owned \in Room /\ owned.Clients = room[r].Clients
      /\ owned.DisconnectedUsers = room[r].DisconnectedUsers
      /\ owned.OwnerID = (IF room[r].OwnerID = None THEN room[r].HostID ELSE room[r].OwnerID)
  BY Zenon, <1>6 DEF Room
<1> HIDE DEF owned
<1> DEFINE rm == AssignHost(owned, u)
<1>8. /\ rm.Clients = owned.Clients /\ rm.DisconnectedUsers = owned.DisconnectedUsers
      /\ rm.OwnerID = owned.OwnerID /\ rm.Host = owned.Clients[u] /\ rm.HostID = u
      /\ rm.HostDisconnectedAt = None
  BY <1>3, <1>7, AssignHostFields
<1>9. room' = [room EXCEPT ![r] = rm]
  BY Zenon, <1>1
<1> HIDE DEF rm
<1>10. /\ \A w \in UserID : rm.Clients[w] = Seat(r, w)
       /\ rm.DisconnectedUsers = Away(r) /\ rm.OwnerID = o /\ rm.Host = Seat(r, u)
       /\ rm.HostID = u /\ rm.HostDisconnectedAt = None
  BY Zenon, <1>4, <1>7, <1>8 DEF Seat, Away, OwnerIDOf, HostIDOf
<1>11. /\ \A w \in UserID : Seat(r, w)' = rm.Clients[w]
       /\ Away(r)' = rm.DisconnectedUsers /\ OwnerIDOf(r)' = rm.OwnerID
       /\ HostOf(r)' = rm.Host /\ HostIDOf(r)' = rm.HostID
       /\ HostLost(r)' = rm.HostDisconnectedAt
       /\ \A q \in Code \ {r} : SameRoom(q)
  BY Zenon, <1>9, RoomFields DEF IInv
<1>12. HostMoved(r, u, o)
  <2>1. HostGiven(r, u, o)
    BY Zenon, <1>3, <1>5, <1>10, <1>11 DEF HostGiven
  <2> QED
    BY Zenon, <1>2, <2>1, SameVars DEF HostMoved
<1> QED
  BY Zenon, <1>3, <1>12, HostMovedInv

\* cleanupEmptyRoomsOnce keeps SeatInv, whether it marks the room or deletes it.
LEMMA CleanupEmptyRoomInv ==
    ASSUME IInv, TypeOK', NEW r \in Code, CleanupEmptyRoom(r)
    PROVE  SeatInv'
<1>1. /\ r \in rooms /\ Away(r) = {} /\ \A u \in UserID : Seat(r, u) = None
      /\ expiring' = expiring /\ sessions' = sessions
  BY Zenon DEF CleanupEmptyRoom, Empty, Connected, Away, Seat
<1>2. \/ room' = [room EXCEPT ![r].EmptySince = 0] /\ UNCHANGED <<rooms, client>>
      \/ DeleteRoom(r, room[r], client)
  BY Zenon DEF CleanupEmptyRoom
<1>3. CASE room' = [room EXCEPT ![r].EmptySince = 0] /\ UNCHANGED <<rooms, client>>
  <2> DEFINE rm == [room[r] EXCEPT !.EmptySince = 0]
  <2>1. room' = [room EXCEPT ![r] = rm] /\ room[r] \in Room
    BY Zenon, <1>3 DEF IInv, TypeOK
  <2>2. /\ rm.Clients = room[r].Clients /\ rm.DisconnectedUsers = room[r].DisconnectedUsers
        /\ rm.OwnerID = room[r].OwnerID /\ rm.Host = room[r].Host
        /\ rm.HostID = room[r].HostID
        /\ rm.HostDisconnectedAt = room[r].HostDisconnectedAt
    BY Zenon, <2>1 DEF Room
  <2> HIDE DEF rm
  <2>3. /\ \A w \in UserID : Seat(r, w)' = rm.Clients[w]
        /\ Away(r)' = rm.DisconnectedUsers /\ OwnerIDOf(r)' = rm.OwnerID
        /\ HostOf(r)' = rm.Host /\ HostIDOf(r)' = rm.HostID
        /\ HostLost(r)' = rm.HostDisconnectedAt
        /\ \A q \in Code \ {r} : SameRoom(q)
    BY Zenon, <2>1, RoomFields DEF IInv
  <2>4. SameRoom(r)
    BY Zenon, <2>2, <2>3
       DEF SameRoom, SameSeats, SameHost, Seat, Away, OwnerIDOf, HostOf, HostIDOf,
         HostLost
  <2> QED
    BY Zenon, <1>1, <1>3, <2>3, <2>4, SameVars, FrameInv
<1>4. CASE DeleteRoom(r, room[r], client)
  <2>1. PICK k, cl, rm : k = None /\ cl = client /\ rm = room[r]
    BY Zenon
  <2>2. /\ cl \in [Client -> ClientState] /\ k \notin Client
        /\ \A d \in Client :
             /\ cl[d].pc = Pc(d) /\ cl[d].id = ClientID(d)
             /\ cl[d].token = SessionToken(d) /\ cl[d].closed = IsClosed(d)
             /\ cl[d].attempt = InHand(d)
             /\ cl[d].room = IF d = k THEN None ELSE CurrentRoom(d)
    BY Zenon, <2>1, ClientsNow, NamesAssumption DEF IInv
  <2>3. DeleteRoom(r, rm, cl)
    BY Zenon, <1>4, <2>1
  <2>4. \A x \in Token : SameSession(x)
    BY Zenon, <1>1, SameVars
  <2> QED
    BY <1>1, <2>2, <2>3, <2>4, DeletedInv
<1> QED
  BY Zenon, <1>2, <1>3, <1>4

\* Time passing changes ages only.
LEMMA TickInv ==
    ASSUME IInv, TypeOK', Tick
    PROVE  SeatInv'
<1>1. /\ rooms' = rooms /\ client' = client /\ expiring' = expiring
      /\ sessions' = [t \in Token |->
           IF sessions[t] = None THEN None
           ELSE [sessions[t] EXCEPT !.age = Older(@, ReconnectGracePeriod + 1)]]
      /\ room' = [r \in Code |->
           [room[r] EXCEPT !.HostDisconnectedAt = Older(@, HostFailoverTimeout),
                           !.EmptySince = Older(@, EmptyRoomCleanupTimeout + 1)]]
  BY Zenon DEF Tick
<1>2. ASSUME NEW r \in Code PROVE SameRoom(r)
  <2> DEFINE at == Older(room[r].HostDisconnectedAt, HostFailoverTimeout)
             rm == [room[r] EXCEPT
                      !.HostDisconnectedAt = Older(@, HostFailoverTimeout),
                      !.EmptySince = Older(@, EmptyRoomCleanupTimeout + 1)]
  <2>1. room'[r] = rm /\ room[r] \in Room
    BY Zenon, <1>1 DEF IInv, TypeOK
  <2>2. /\ rm.Clients = room[r].Clients /\ rm.DisconnectedUsers = room[r].DisconnectedUsers
        /\ rm.OwnerID = room[r].OwnerID /\ rm.Host = room[r].Host
        /\ rm.HostID = room[r].HostID
        /\ rm.HostDisconnectedAt = at
    BY Zenon, <2>1 DEF Room
  <2> HIDE DEF rm
  <2>3. at = None <=> room[r].HostDisconnectedAt = None
    BY <2>1, NilAssumption DEF Older, Room, Age
  <2> HIDE DEF at
  <2> QED
    BY Zenon, <2>1, <2>2, <2>3
       DEF SameRoom, SameSeats, SameHost, Seat, Away, OwnerIDOf, HostOf, HostIDOf,
         HostLost
<1>3. ASSUME NEW t \in Token PROVE SameSession(t)
  <2>1. PICK s : s = sessions[t]
    BY Zenon
  <2> DEFINE z == [s EXCEPT !.age = Older(@, ReconnectGracePeriod + 1)]
  <2>2. sessions'[t] = IF s = None THEN None ELSE z
    BY Zenon, <1>1, <2>1
  <2>3. s # None => s \in Session
    BY Zenon, <2>1 DEF IInv, TypeOK
  <2>4. s \in Session => /\ z \in Session /\ z.user = s.user /\ z.room = s.room
                         /\ z.isHost = s.isHost /\ z.claimedBy = s.claimedBy
    <3> SUFFICES ASSUME s \in Session
                 PROVE  /\ z \in Session /\ z.user = s.user /\ z.room = s.room
                        /\ z.isHost = s.isHost /\ z.claimedBy = s.claimedBy
      BY Zenon
    <3>1. s.age \in Nat /\ Older(s.age, ReconnectGracePeriod + 1) \in Nat
      BY NilAssumption, LimitsAssumption DEF Session, Age, Older
    <3> QED
      BY Zenon, <3>1 DEF Session, Age
  <2> HIDE DEF z
  <2> QED
    BY Zenon, <2>1, <2>2, <2>3, <2>4, NilAssumption
       DEF SameSession, HasSession, SessionUser, SessionRoom, SessionHost, SessionClaim
<1> QED
  BY Zenon, <1>1, <1>2, <1>3, SameVars, FrameInv

\* The seat of user w in the published room q is taken under token t.
Holds(t, q, w) ==
    q \in rooms /\ w \in UserID /\ Seat(q, w) # None /\ SessionToken(Seat(q, w)) = t

\* What is left after a stop and a start: nobody is connected, every seat is
\* held, and every token names the seat it was good for.
Stopped ==
    /\ rooms' = rooms /\ expiring = {} /\ expiring' = {}
    /\ \A d \in Client : /\ Pc(d)' = "gone" /\ ClientID(d)' = None
                         /\ SessionToken(d)' = None /\ CurrentRoom(d)' = None
                         /\ IsClosed(d)' /\ InHand(d)' = None
    /\ \A q \in Code :
         /\ HostOf(q)' = None
         /\ \A w \in UserID : Seat(q, w)' = None
         /\ \A w \in UserID : w \in Away(q)' <=>
              q \in rooms /\ (w \in Away(q) \/ Seat(q, w) # None)
         /\ HostIDOf(q)' = IF q \in rooms THEN HostIDOf(q) ELSE None
         /\ OwnerIDOf(q)' = IF q \in rooms THEN OwnerIDOf(q) ELSE None
         /\ HostLost(q)' = None <=> HostIDOf(q)' = None
    /\ \A t \in Token, q \in Code, w \in UserID : Holds(t, q, w) =>
         /\ HasSession(t)' /\ SessionUser(t)' = w /\ SessionRoom(t)' = q
         /\ SessionHost(t)' <=> HostIDOf(q) = w
         /\ SessionClaim(t)' = None
    /\ \A t \in Token : (\A q \in Code, w \in UserID : ~Holds(t, q, w)) =>
         /\ HasSession(t)' <=> HasSession(t)
         /\ HasSession(t) =>
              /\ SessionUser(t)' = SessionUser(t) /\ SessionRoom(t)' = SessionRoom(t)
              /\ SessionHost(t)' <=> SessionHost(t)
              /\ SessionClaim(t)' = None

\* A seat that is taken has one token, no session, and is the only seat of its
\* user and of its token.
LEMMA HoldsFacts ==
    ASSUME IInv, NEW t \in Token, NEW q \in Code, NEW w \in UserID, Holds(t, q, w)
    PROVE  /\ ~HasSession(t)
           /\ \A p \in rooms : w \notin Away(p)
           /\ \A p \in rooms : Seat(p, w) # None => p = q
           /\ \A p \in Code, v \in UserID : Holds(t, p, v) => p = q /\ v = w
<1>1. TypeFacts
  BY Zenon, TypeOKFacts DEF IInv
<1>2. \A p \in rooms, v \in UserID : Seat(p, v) # None =>
        /\ Seat(p, v) \in Client /\ CurrentRoom(Seat(p, v)) = p
        /\ ClientID(Seat(p, v)) = v /\ ~Spent(Seat(p, v))
  BY <1>1, NamesAssumption DEF IInv, SeatInv, SeatsAgree, Spent, SeatFacts, TypeFacts
<1>3. t # None /\ w # None
  BY Zenon, NamesAssumption
<1>4. \A c, d \in Client :
        SessionToken(c) = t /\ SessionToken(d) = t /\ ~Spent(c) /\ ~Spent(d) => c = d
  BY Zenon, <1>3 DEF IInv, SeatInv, SeatTokenInv
<1>5. \A c, d \in Client :
        ClientID(c) = w /\ ClientID(d) = w /\ ~Spent(c) /\ ~Spent(d) => c = d
  BY Zenon, <1>3 DEF IInv, SeatInv, IdentityInv
<1>6. ~HasSession(t)
  BY Zenon, <1>2 DEF IInv, SeatInv, SeatTokenInv, Holds
<1>7. \A p \in rooms : w \notin Away(p)
  BY <1>1, <1>2 DEF IInv, SeatInv, IdentityInv, Holds, SeatFacts, TypeFacts
<1>8. \A p \in rooms : Seat(p, w) # None => p = q
  BY <1>2, <1>5 DEF Holds
<1>9. \A p \in Code, v \in UserID : Holds(t, p, v) => p = q /\ v = w
  BY Zenon, <1>2, <1>4 DEF Holds
<1> QED
  BY Zenon, <1>6, <1>7, <1>8, <1>9

\* Every taken seat of a published room has a token.
LEMMA SeatHolds ==
    ASSUME IInv, NEW q \in rooms, NEW w \in UserID, Seat(q, w) # None
    PROVE  \E t \in Token : Holds(t, q, w)
<1>1. TypeFacts
  BY Zenon, TypeOKFacts DEF IInv
<1>2. PICK d \in Client : d = Seat(q, w)
  BY Zenon, <1>1 DEF SeatFacts, TypeFacts
<1>3. q \in Code /\ CurrentRoom(d) = q /\ q # None
  BY Zenon, <1>1, <1>2, NamesAssumption DEF IInv, SeatInv, SeatsAgree, SeatFacts, TypeFacts
<1>4. Pc(d) # "creating"
  BY Zenon, <1>3 DEF IInv, SeatInv, FoundingInv
<1>5. SessionToken(d) \in Token
  BY Zenon, <1>1, <1>3, <1>4 DEF IInv, SeatInv, SeatTokenInv, ClientFacts, TypeFacts
<1> QED
  BY Zenon, <1>2, <1>5 DEF Holds

\* A stop and the start that follows it keep SeatInv.
LEMMA StoppedInv ==
    ASSUME IInv, TypeOK', Stopped
    PROVE  SeatInv'
<1> SUFFICES ASSUME SeatsAgree, HostSeat, OwnerIsAway, PumpInv, FoundingInv, IdentityInv,
                    SeatTokenInv, OneSession, SessionSeat, AwayKnown,
                    ClientFacts, AttemptFacts, SeatFacts, HostFacts, SessionFacts,
                    ClientFacts', AttemptFacts', SeatFacts', HostFacts', SessionFacts'
             PROVE  SeatInv'
  BY TypeOKFacts, PTL DEF IInv, SeatInv, SessionInv, TypeFacts
<1>2. \A t \in Token, q \in Code, w \in UserID : Holds(t, q, w) =>
           /\ ~HasSession(t)
           /\ \A p \in rooms : w \notin Away(p)
           /\ \A p \in rooms : Seat(p, w) # None => p = q
           /\ \A p \in Code, v \in UserID : Holds(t, p, v) => p = q /\ v = w
  BY Zenon, HoldsFacts
<1>3. \A q \in rooms, w \in UserID : Seat(q, w) # None => \E t \in Token : Holds(t, q, w)
  BY Zenon, SeatHolds
<1>4. /\ \A q \in rooms : HostIDOf(q)' = HostIDOf(q) /\ OwnerIDOf(q)' = OwnerIDOf(q)
      /\ \A q \in Code \ rooms : HostIDOf(q)' = None /\ OwnerIDOf(q)' = None
      /\ \A q \in rooms : \A w \in UserID : w \in Away(q) \/ Seat(q, w) # None => w \in Away(q)'
  BY Zenon DEF Stopped, SeatFacts
<1>11. SeatsAgree'
  BY NamesAssumption DEF SeatsAgree, Stopped
<1>12. HostSeat'
  <2>1. \A q \in Code : HostIDOf(q)' # None => HostIDOf(q)' \in Away(q)'
    BY <1>4, NamesAssumption DEF HostSeat, HostFacts
  <2>2. \A q \in Code : HostOf(q)' = None /\ (HostLost(q)' = None <=> HostIDOf(q)' = None)
    BY Zenon DEF Stopped
  <2> QED
    BY Zenon, <2>1, <2>2 DEF HostSeat
<1>13. OwnerIsAway'
  BY <1>4 DEF OwnerIsAway, HostFacts, SeatFacts
<1>14. PumpInv'
  BY Zenon DEF PumpInv, Stopped
<1>15. FoundingInv'
  BY Zenon DEF FoundingInv, Stopped
<1>16. IdentityInv'
  BY <1>2, <1>3, NamesAssumption DEF IdentityInv, Stopped, SeatFacts
<1>17. SeatTokenInv'
  BY Zenon, NamesAssumption DEF SeatTokenInv, Stopped
<1>18. OneSession'
  BY <1>2 DEF OneSession, Stopped, SessionSeat, Holds
<1>19. SessionSeat'
  <2> SUFFICES ASSUME NEW t \in Token, HasSession(t)'
               PROVE  /\ SessionRoom(t)' \in rooms' /\ SessionRoom(t)' \in Code
                      /\ SessionUser(t)' \in Away(SessionRoom(t))'
                      /\ SessionUser(t)' \in {HostIDOf(SessionRoom(t))',
                                             OwnerIDOf(SessionRoom(t))'} => SessionHost(t)'
                      /\ SessionClaim(t)' = None
    BY Zenon DEF SessionSeat, Stopped
  <2>1. CASE \E q \in Code, w \in UserID : Holds(t, q, w)
    <3>1. PICK q \in Code, w \in UserID : Holds(t, q, w)
      BY Zenon, <2>1
    <3>2. /\ SessionUser(t)' = w /\ SessionRoom(t)' = q /\ SessionClaim(t)' = None
          /\ SessionHost(t)' <=> HostIDOf(q) = w
      BY Zenon, <3>1 DEF Stopped
    <3>3. q \in rooms' /\ w \in Away(q)'
      BY Zenon, <3>1, NamesAssumption DEF Stopped, Holds
    <3>4. w \in {HostIDOf(q)', OwnerIDOf(q)'} => HostIDOf(q) = w
      <4>1. q \in rooms /\ w # None /\ w \notin Away(q)
        BY Zenon, <1>2, <3>1, NamesAssumption DEF Holds
      <4> QED
        BY Zenon, <1>4, <4>1 DEF OwnerIsAway
    <3> QED
      BY <3>2, <3>3, <3>4 DEF Away, HostIDOf, OwnerIDOf
  <2>2. CASE \A q \in Code, w \in UserID : ~Holds(t, q, w)
    <3>1. /\ HasSession(t) /\ SessionUser(t)' = SessionUser(t)
          /\ SessionRoom(t)' = SessionRoom(t) /\ SessionClaim(t)' = None
          /\ SessionHost(t)' <=> SessionHost(t)
      BY Zenon, <2>2 DEF Stopped
    <3>2. PICK q \in Code, w \in UserID : q = SessionRoom(t) /\ w = SessionUser(t)
      BY Zenon, <3>1 DEF SessionFacts
    <3>3. /\ q \in rooms /\ w \in Away(q)
          /\ w \in {HostIDOf(q), OwnerIDOf(q)} => SessionHost(t)
      BY Zenon, <3>1, <3>2 DEF SessionSeat
    <3>4. q \in rooms' /\ w \in Away(q)'
      BY Zenon, <1>4, <3>3 DEF Stopped
    <3> QED
      BY <1>4, <3>1, <3>2, <3>3, <3>4 DEF Away, HostIDOf, OwnerIDOf
  <2> QED
    BY Zenon, <2>1, <2>2
<1>20. AwayKnown'
  BY <1>2, <1>3 DEF AwayKnown, Stopped, SeatFacts
<1> QED
  BY Zenon, <1>11, <1>12, <1>13, <1>14, <1>15, <1>16, <1>17, <1>18, <1>19, <1>20
     DEF SeatInv, SessionInv

\* What a start restores of room r: everyone who was seated or away is away.
LEMMA RestoreRoomFields ==
    ASSUME IInv, expiring = {}, NEW r \in rooms
    PROVE  /\ \A w \in UserID : w \in RestoreRoom(r).DisconnectedUsers <=>
                                  w \in Away(r) \/ Seat(r, w) # None
           /\ RestoreRoom(r).Clients = NoMember /\ RestoreRoom(r).Host = None
           /\ RestoreRoom(r).HostID = HostIDOf(r) /\ RestoreRoom(r).OwnerID = OwnerIDOf(r)
           /\ RestoreRoom(r).HostDisconnectedAt = None <=> HostIDOf(r) = None
<1>1. TypeFacts /\ r \in Code
  BY Zenon, TypeOKFacts DEF IInv, SeatFacts, TypeFacts
<1> DEFINE known == {u \in UserID : \E t \in Token : /\ sessions[t] # None
                                                     /\ sessions[t].room = r
                                                     /\ sessions[t].user = u}
<1>2. \A u \in Away(r) : u \in known
  BY <1>1
     DEF IInv, SeatInv, SessionInv, AwayKnown, HasSession, SessionRoom, SessionUser,
       SessionFacts, TypeFacts
<1>3. Kept(r) = IF Connected(room[r]) \cup known = {} THEN Members(room[r])
                ELSE Members(room[r]) \cap (Connected(room[r]) \cup known)
  BY Zenon DEF Kept
<1> HIDE DEF known
<1>4. Members(room[r]) = Connected(room[r]) \cup Away(r)
  BY Zenon DEF Members, Away
<1>5. Kept(r) = Connected(room[r]) \cup Away(r)
  BY Zenon, <1>2, <1>3, <1>4
<1>6. \A w \in UserID : w \in Kept(r) <=> w \in Away(r) \/ Seat(r, w) # None
  BY Zenon, <1>5 DEF Connected, Seat
<1> DEFINE at == IF HostLost(r) # None THEN HostLost(r)
                 ELSE IF HostIDOf(r) \in Kept(r) THEN 0 ELSE None
<1>7. /\ RestoreRoom(r).Clients = NoMember /\ RestoreRoom(r).Host = None
      /\ RestoreRoom(r).DisconnectedUsers = Kept(r)
      /\ RestoreRoom(r).HostID = HostIDOf(r) /\ RestoreRoom(r).OwnerID = OwnerIDOf(r)
      /\ RestoreRoom(r).HostDisconnectedAt = at
  BY Zenon DEF RestoreRoom, NoRoom, HostLost, HostIDOf, OwnerIDOf
<1>8. at = None <=> HostIDOf(r) = None
  BY <1>1, <1>5, <1>6, NamesAssumption, NilAssumption
     DEF IInv, SeatInv, HostSeat, Connected, SeatFacts, HostFacts, TypeFacts
<1> QED
  BY Zenon, <1>6, <1>7, <1>8

\* restoreRoomLocked and LoadState, right after a flush between two passes of the
\* cleanup, keep SeatInv.
LEMMA RestartInv ==
    ASSUME IInv, TypeOK', expiring = {}, Restart
    PROVE  SeatInv'
<1>1. /\ rooms' = rooms /\ expiring' = {}
      /\ client' = [c \in Client |-> NoClient]
      /\ room' = [r \in Code |-> IF r \in rooms THEN RestoreRoom(r) ELSE NoRoom]
      /\ sessions' = [t \in Token |-> RestoreSession(t)]
  BY Zenon DEF Restart
<1>2. \A d \in Client : /\ Pc(d)' = "gone" /\ ClientID(d)' = None
                        /\ SessionToken(d)' = None /\ CurrentRoom(d)' = None
                        /\ IsClosed(d)' /\ InHand(d)' = None
  BY Zenon, <1>1 DEF NoClient, Pc, ClientID, SessionToken, CurrentRoom, IsClosed, InHand
<1>3. ASSUME NEW q \in Code
      PROVE  /\ HostOf(q)' = None
             /\ \A w \in UserID : Seat(q, w)' = None
             /\ \A w \in UserID : w \in Away(q)' <=>
                  q \in rooms /\ (w \in Away(q) \/ Seat(q, w) # None)
             /\ HostIDOf(q)' = IF q \in rooms THEN HostIDOf(q) ELSE None
             /\ OwnerIDOf(q)' = IF q \in rooms THEN OwnerIDOf(q) ELSE None
             /\ HostLost(q)' = None <=> HostIDOf(q)' = None
  <2>1. PICK rm : rm = IF q \in rooms THEN RestoreRoom(q) ELSE NoRoom
    BY Zenon
  <2>2. room'[q] = rm
    BY Zenon, <1>1, <2>1
  <2>3. /\ HostOf(q)' = rm.Host /\ \A w \in UserID : Seat(q, w)' = rm.Clients[w]
        /\ Away(q)' = rm.DisconnectedUsers /\ HostIDOf(q)' = rm.HostID
        /\ OwnerIDOf(q)' = rm.OwnerID /\ HostLost(q)' = rm.HostDisconnectedAt
    BY Zenon, <2>2 DEF HostOf, Seat, Away, HostIDOf, OwnerIDOf, HostLost
  <2>4. CASE q \in rooms
    <3>1. /\ \A w \in UserID : w \in rm.DisconnectedUsers <=> w \in Away(q) \/ Seat(q, w) # None
          /\ rm.Clients = NoMember /\ rm.Host = None
          /\ rm.HostID = HostIDOf(q) /\ rm.OwnerID = OwnerIDOf(q)
          /\ rm.HostDisconnectedAt = None <=> HostIDOf(q) = None
      BY Zenon, <2>1, <2>4, RestoreRoomFields
    <3>2. \A w \in UserID : NoMember[w] = None
      BY Zenon DEF NoMember
    <3> QED
      BY Zenon, <2>3, <2>4, <3>1, <3>2
  <2>5. CASE q \notin rooms
    BY Zenon, <2>1, <2>3, <2>5, NoRoomFields
  <2> QED
    BY Zenon, <2>4, <2>5
<1>4. ASSUME NEW t \in Token, NEW q \in Code, NEW w \in UserID, Holds(t, q, w)
      PROVE  /\ HasSession(t)' /\ SessionUser(t)' = w /\ SessionRoom(t)' = q
             /\ SessionHost(t)' <=> HostIDOf(q) = w
             /\ SessionClaim(t)' = None
  <2>1. \A p \in Code, v \in UserID : Holds(t, p, v) => p = q /\ v = w
    BY Zenon, <1>4, HoldsFacts
  <2>2. <<q, w>> \in Holders(t)
    BY Zenon, <1>4 DEF Holders, Holds, Seat, SessionToken
  <2>3. \A ru \in Holders(t) : ru = <<q, w>>
    <3> SUFFICES ASSUME NEW p \in rooms, NEW v \in UserID, Holds(t, p, v)
                 PROVE  <<p, v>> = <<q, w>>
      BY DEF Holders, Holds, Seat, SessionToken
    <3>1. p \in Code
      BY Zenon DEF IInv, TypeOK
    <3> QED
      BY Zenon, <2>1, <3>1
  <2>4. PICK ru : ru = (CHOOSE x \in Holders(t) : TRUE)
    BY Zenon
  <2>5. ru[1] = q /\ ru[2] = w
    BY <2>2, <2>3, <2>4
  <2>6. PICK b \in BOOLEAN : b = (room[q].HostID = w)
    BY Zenon
  <2>7. RestoreSession(t) = NewSession(w, q, b)
    BY Zenon, <2>2, <2>4, <2>5, <2>6 DEF RestoreSession
  <2>8. sessions'[t] = NewSession(w, q, b)
    BY Zenon, <1>1, <2>7
  <2>9. /\ sessions'[t] \in Session /\ sessions'[t].user = w /\ sessions'[t].room = q
        /\ sessions'[t].isHost = b /\ sessions'[t].claimedBy = None
    BY <2>8, NewSessionFields
  <2>10. SessionHost(t)' = b
    BY Zenon, <2>9 DEF SessionHost
  <2>11. b <=> HostIDOf(q) = w
    BY Zenon, <2>6 DEF HostIDOf
  <2>12. SessionHost(t)' <=> HostIDOf(q) = w
    BY Zenon, <2>10, <2>11
  <2> QED
    BY Zenon, <2>9, <2>12, NilAssumption DEF HasSession, SessionUser, SessionRoom, SessionClaim
<1>5. ASSUME NEW t \in Token, \A q \in Code, w \in UserID : ~Holds(t, q, w)
      PROVE  /\ HasSession(t)' <=> HasSession(t)
             /\ HasSession(t) =>
                  /\ SessionUser(t)' = SessionUser(t) /\ SessionRoom(t)' = SessionRoom(t)
                  /\ SessionHost(t)' <=> SessionHost(t)
                  /\ SessionClaim(t)' = None
  <2>1. Holders(t) = {}
    <3> SUFFICES ASSUME NEW p \in rooms, NEW v \in UserID, Holds(t, p, v)
                 PROVE  FALSE
      BY Zenon DEF Holders, Holds, Seat, SessionToken
    <3>1. p \in Code
      BY Zenon DEF IInv, TypeOK
    <3> QED
      BY Zenon, <1>5, <3>1
  <2>2. PICK s : s = sessions[t]
    BY Zenon
  <2> DEFINE z == [s EXCEPT !.claimedBy = None]
  <2>3. s = None \/ s \in Session
    BY Zenon, <2>2 DEF IInv, TypeOK
  <2>4. s # None => s.room \in rooms
    BY Zenon, <2>2 DEF IInv, SeatInv, SessionInv, SessionSeat, HasSession, SessionRoom
  <2>5. sessions'[t] = IF s = None THEN None ELSE z
    BY Zenon, <1>1, <2>1, <2>2, <2>4 DEF RestoreSession
  <2>6. s \in Session => /\ z \in Session /\ z.user = s.user /\ z.room = s.room
                         /\ z.isHost = s.isHost /\ z.claimedBy = None
    BY Zenon DEF Session
  <2> HIDE DEF z
  <2>7. CASE s = None
    BY Zenon, <2>2, <2>5, <2>7 DEF HasSession
  <2>8. CASE s # None
    <3>1. /\ sessions'[t] \in Session /\ sessions'[t].user = s.user
          /\ sessions'[t].room = s.room /\ sessions'[t].isHost = s.isHost
          /\ sessions'[t].claimedBy = None
      BY Zenon, <2>3, <2>5, <2>6, <2>8
    <3> QED
      BY Zenon, <2>2, <2>8, <3>1, NilAssumption
         DEF HasSession, SessionUser, SessionRoom, SessionHost, SessionClaim
  <2> QED
    BY Zenon, <2>7, <2>8
<1>6. Stopped
  BY Zenon, <1>1, <1>2, <1>3, <1>4, <1>5 DEF Stopped
<1> QED
  BY Zenon, <1>6, StoppedInv

=============================================================================
