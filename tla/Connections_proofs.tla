------------------------- MODULE Connections_proofs -------------------------
(***************************************************************************)
(* Connections keeps its accounts, tells before it restarts, starts no     *)
(* pump once it drains, and implements Streams, for any number of          *)
(* connections and sources and any limits.                                 *)
(***************************************************************************)
EXTENDS Connections, FiniteSetTheorems, TLAPS

-----------------------------------------------------------------------------
(* The inductive invariant *)

Writer == [state : {"idle", "taken", "writing", "done"}, size : Size \cup {0}]

Socket == {"none", "open", "closed", "finished"}

\* The types of the variables, group by group.
AdmissionTypes ==
    /\ pc \in [Conn -> PC]
    /\ source \in [Conn -> Source]
    /\ sources \in [Source -> 0..MaxConnectionsPerSource]
    /\ slots \in 0..MaxClients
    /\ clients \subseteq Conn
    /\ pumps \in Nat

QueueTypes ==
    /\ send \in [Conn -> Seq(Size)]
    /\ queuedBytes \in [Conn -> Int]
    /\ closed \in [Conn -> BOOLEAN]
    /\ restart \in [Conn -> BOOLEAN]
    /\ accepted \in [Conn -> Nat]

WireTypes ==
    /\ writer \in [Conn -> Writer]
    /\ socket \in [Conn -> Socket]
    /\ delivered \in [Conn -> Nat]

ShutdownTypes ==
    /\ phase \in Phase
    /\ todo \subseteq Conn
    /\ told \subseteq Conn

Types == AdmissionTypes /\ QueueTypes /\ WireTypes /\ ShutdownTypes

\* What the position of handleWebSocket and of the read pump says of the
\* connection's writer, queue and socket.
LifeInv ==
    \A c \in Conn :
       /\ pc[c] \in {"checked", "counted", "slotted", "upgraded", "refused", "slotless"} =>
             writer[c] = Done
       /\ writer[c].state = "done" => writer[c] = Done
       /\ pc[c] = "upgraded" =>
             socket[c] = "open" /\ send[c] = <<>> /\ accepted[c] = 0 /\ delivered[c] = 0
       /\ socket[c] = "open" => pc[c] \in {"upgraded", "running", "ended", "removed", "shut"}
       /\ socket[c] = "finished" => closed[c]
       /\ pc[c] \in {"shut", "closed", "pumpSlotless", "sourceless"} => closed[c]

\* What a running writer has yet to write is in the queue or in its hand.
InHand(w) == IF w.state \in {"taken", "writing"} THEN 1 ELSE 0

Ledger ==
    \A c \in Conn : writer[c] # Done =>
        accepted[c] = delivered[c] + Len(send[c]) + InHand(writer[c])

\* A loop of the shutdown visits connections whose pumps were started.
TodoInv ==
    /\ todo # {} => phase \in Loop
    /\ \A c \in todo : \/ pc[c] \in {"running", "ended", "removed"}
                       \/ closed[c] /\ pc[c] \in HoldsPump \cup {"none"}

\* Connections that the drain may still meet were told or take no more.
ToldInv ==
    \A c \in Capable :
       /\ restart[c] => c \in told
       /\ /\ phase \notin {"up", "announced"}
          /\ c \in clients \/ (phase = "draining" /\ c \in todo)
          /\ phase = "telling" => c \notin todo
          => c \in told \/ closed[c]

IInv == Types /\ Accounted /\ LifeInv /\ Ledger /\ TodoInv /\ ToldInv

-----------------------------------------------------------------------------
(* Which steps change which variables *)

\* The steps of handleWebSocket, and of the read pump to its end.
LEMMA AdmissionSteps ==
    ASSUME Next
    PROVE  \/ UNCHANGED admission
           \/ \E c \in Conn :
              \/ CheckRequest(c) \/ AcquireSource(c) \/ TryAcquireConnectionSlot(c)
              \/ Upgrade(c) \/ BlockClient(c) \/ Register(c) \/ ReadEnds(c)
              \/ RemoveClient(c) \/ RemoveShut(c) \/ RemoveClose(c)
              \/ ReleaseConnectionSlot(c) \/ ReleaseSource(c) \/ PumpsDone(c)
  BY DEF Next, Shutdown, Admit, Write, Unwind, AnnounceRestart, Snapshot, LoopEnds,
         PumpsEnded, Deadline, Enter, SendMessage, ReplaceLiveSession, CloseReplaced,
         WriterTake, WriterAccount, WriterWrite, WriterFail, WriterClose, TellRestart,
         DrainClient, CloseClient

\* The steps that send on a queue, take from it or shut it.
LEMMA QueueSteps ==
    ASSUME Next
    PROVE  \/ UNCHANGED queue
           \/ \E c \in Conn :
              \/ Upgrade(c) \/ ReplaceLiveSession(c) \/ WriterTake(c)
              \/ WriterAccount(c) \/ RemoveShut(c) \/ DrainClient(c) \/ CloseClient(c)
           \/ \E c \in Conn, k \in Size : SendMessage(c, k) \/ TellRestart(c, k)
  BY DEF Next, Shutdown, Admit, Write, Unwind, AnnounceRestart, Snapshot, LoopEnds,
         PumpsEnded, Deadline, Enter, CheckRequest, AcquireSource,
         TryAcquireConnectionSlot, BlockClient, Register, CloseReplaced, WriterWrite,
         WriterFail, WriterClose, ReadEnds, RemoveClient, RemoveClose,
         ReleaseConnectionSlot, ReleaseSource, PumpsDone, queue

\* The steps of the write pump, and those that open or close a socket.
LEMMA WireSteps ==
    ASSUME Next
    PROVE  \/ UNCHANGED wire
           \/ \E c \in Conn :
              \/ Upgrade(c) \/ BlockClient(c) \/ Register(c) \/ CloseReplaced(c)
              \/ WriterTake(c) \/ WriterAccount(c) \/ WriterWrite(c) \/ WriterFail(c)
              \/ WriterClose(c) \/ RemoveClose(c) \/ CloseClient(c)
           \/ \E c \in Conn, k \in Size : SendMessage(c, k) \/ TellRestart(c, k)
  BY DEF Next, Shutdown, Admit, Write, Unwind, AnnounceRestart, Snapshot, LoopEnds,
         PumpsEnded, Deadline, Enter, CheckRequest, AcquireSource,
         TryAcquireConnectionSlot, ReplaceLiveSession, ReadEnds, RemoveClient,
         RemoveShut, ReleaseConnectionSlot, ReleaseSource, PumpsDone, DrainClient, wire

\* The steps of a shutdown.
LEMMA ShutdownSteps ==
    ASSUME Next
    PROVE  \/ UNCHANGED shutdown
           \/ \E c \in Conn :
              \/ DrainClient(c) \/ CloseClient(c)
           \/ \E c \in Conn, k \in Size : TellRestart(c, k)
           \/ \E from, to \in Phase : Enter(from, to)
  BY DEF Next, Shutdown, Admit, Write, Unwind, AnnounceRestart, Snapshot, LoopEnds,
         PumpsEnded, Deadline, CheckRequest, AcquireSource, TryAcquireConnectionSlot,
         Upgrade, BlockClient, Register, SendMessage, ReplaceLiveSession, CloseReplaced,
         WriterTake, WriterAccount, WriterWrite, WriterFail, WriterClose, ReadEnds,
         RemoveClient, RemoveShut, RemoveClose, ReleaseConnectionSlot, ReleaseSource,
         PumpsDone, shutdown, Phase

\* The steps, one by one.
LEMMA Steps ==
    ASSUME Next
    PROVE  \/ \E c \in Conn :
              \/ CheckRequest(c) \/ AcquireSource(c) \/ TryAcquireConnectionSlot(c) \/ Upgrade(c)
              \/ BlockClient(c) \/ Register(c) \/ ReplaceLiveSession(c)
              \/ CloseReplaced(c) \/ WriterTake(c) \/ WriterAccount(c) \/ WriterWrite(c)
              \/ WriterFail(c) \/ WriterClose(c) \/ ReadEnds(c) \/ RemoveClient(c)
              \/ RemoveShut(c) \/ RemoveClose(c) \/ ReleaseConnectionSlot(c)
              \/ ReleaseSource(c) \/ PumpsDone(c) \/ DrainClient(c) \/ CloseClient(c)
           \/ \E c \in Conn, k \in Size : SendMessage(c, k) \/ TellRestart(c, k)
           \/ AnnounceRestart \/ Snapshot \/ LoopEnds \/ PumpsEnded \/ Deadline
  BY Zenon DEF Next, Shutdown, Admit, Write, Unwind

-----------------------------------------------------------------------------
(* The accounts *)

Has(S, x) == IF x \in S THEN 1 ELSE 0

\* The size of a set of which only c comes or goes.
LEMMA CountOne ==
    ASSUME NEW A, NEW B, NEW c, IsFiniteSet(A), A \ {c} = B \ {c}
    PROVE  /\ Cardinality(A) \in Nat /\ Cardinality(B) \in Nat
           /\ Cardinality(B) = Cardinality(A) + Has(B, c) - Has(A, c)
<1>1. IsFiniteSet(B)
  <2>1. IsFiniteSet(A \cup {c}) /\ B \in SUBSET (A \cup {c})
    BY FS_AddElement
  <2> QED
    BY <2>1, FS_Subset
<1>2. Cardinality(A) \in Nat /\ Cardinality(B) \in Nat
  BY <1>1, FS_CardinalityType
<1>3. Cardinality(A \ {c}) = Cardinality(A) - Has(A, c)
  BY <1>2, FS_RemoveElement DEF Has
<1>4. Cardinality(B \ {c}) = Cardinality(B) - Has(B, c)
  BY <1>1, <1>2, FS_RemoveElement DEF Has
<1> QED
  BY <1>2, <1>3, <1>4 DEF Has

\* A connection that holds a pump is counted in pumps.
LEMMA PumpsPositive ==
    ASSUME Accounted, NEW c \in Conn, pc[c] \in HoldsPump
    PROVE  pumps \in Nat /\ pumps > 0
<1>1. IsFiniteSet(In(HoldsPump)) /\ c \in In(HoldsPump)
  BY ConnectionsAssumption, FS_Subset DEF In
<1>2. Cardinality(In(HoldsPump)) \in Nat /\ Cardinality(In(HoldsPump)) # 0
  BY <1>1, FS_CardinalityType, FS_EmptySet
<1> QED
  BY <1>2 DEF Accounted

\* The registered connections are those whose read pump has not ended.
LEMMA ClientsAre ==
    ASSUME Accounted
    PROVE  \A c \in Conn : c \in clients <=> pc[c] \in {"running", "ended"}
  BY DEF Accounted, In

\* Nor is the count of its source ever 0 while a connection holds it.
LEMMA SourcePositive ==
    ASSUME Accounted, AdmissionTypes, NEW c \in Conn, pc[c] \in HoldsSource
    PROVE  source[c] \in Source /\ sources[source[c]] \in Nat /\ sources[source[c]] > 0
<1> DEFINE S == {d \in In(HoldsSource) : source[d] = source[c]}
<1>1. IsFiniteSet(S) /\ c \in S
  BY ConnectionsAssumption, FS_Subset DEF In
<1>2. Cardinality(S) \in Nat /\ Cardinality(S) # 0
  BY <1>1, FS_CardinalityType, FS_EmptySet
<1> QED
  BY <1>2 DEF Accounted, AdmissionTypes

\* A step of one connection keeps the accounts if it settles what it takes up
\* and gives up.
LEMMA Settled ==
    ASSUME AdmissionTypes, Accounted, NEW c \in Conn, NEW p \in PC, Goto(c, p),
           \A d \in Conn : d # c \/ pc[c] \in HoldsSource \/ p \in HoldsSource =>
                             source'[d] = source[d],
           slots' = slots + Has(HoldsSlot, p) - Has(HoldsSlot, pc[c]),
           pumps' = pumps + Has(HoldsPump, p) - Has(HoldsPump, pc[c]),
           \A s \in Source \ {source[c]} : sources'[s] = sources[s],
           sources'[source[c]] = sources[source[c]] + Has(HoldsSource, p)
                                   - Has(HoldsSource, pc[c]),
           clients' \ {c} = clients \ {c},
           c \in clients' <=> p \in {"running", "ended"}
    PROVE  Accounted'
<1>1. /\ \A d \in Conn \ {c} : pc'[d] = pc[d]
      /\ pc'[c] = p
  BY DEF Goto, AdmissionTypes
<1>2. ASSUME NEW CONSTANT S
      PROVE  /\ Cardinality(In(S)) \in Nat
             /\ Cardinality(In(S)') = Cardinality(In(S)) + Has(S, p) - Has(S, pc[c])
  <2>1. IsFiniteSet(In(S))
    BY ConnectionsAssumption, FS_Subset DEF In
  <2>2. /\ In(S) \ {c} = In(S)' \ {c}
        /\ c \in In(S) <=> pc[c] \in S
        /\ c \in In(S)' <=> p \in S
    BY <1>1 DEF In
  <2> QED
    BY <2>1, <2>2, CountOne DEF Has
<1>3. slots' = Cardinality(In(HoldsSlot)')
  BY <1>2 DEF Accounted
<1>4. pumps' = Cardinality(In(HoldsPump)')
  BY <1>2 DEF Accounted
<1>5. ASSUME NEW s \in Source
      PROVE  sources'[s] = Cardinality({d \in In(HoldsSource)' : source'[d] = s})
  <2> DEFINE A == {d \in In(HoldsSource) : source[d] = s}
             B == {d \in In(HoldsSource)' : source'[d] = s}
  <2>1. IsFiniteSet(A)
    BY ConnectionsAssumption, FS_Subset DEF In
  <2>2. /\ A \ {c} = B \ {c}
        /\ c \in A <=> pc[c] \in HoldsSource /\ source[c] = s
        /\ c \in B <=> p \in HoldsSource /\ source[c] = s
    BY <1>1 DEF In
  <2>2a. A \ {c} = B \ {c}
    BY <2>2
  <2> HIDE DEF A, B
  <2>3. /\ Cardinality(A) \in Nat
        /\ Cardinality(B) = Cardinality(A) + Has(B, c) - Has(A, c)
    BY <2>1, <2>2a, CountOne
  <2>4. sources[s] = Cardinality(A)
    BY DEF Accounted, A
  <2>5. sources'[s] = Cardinality(B)
    BY <2>2, <2>3, <2>4 DEF Has
  <2> QED
    BY <2>5 DEF B
<1>6. clients' = In({"running", "ended"})'
  BY <1>1 DEF Accounted, In
<1> QED
  BY <1>3, <1>4, <1>5, <1>6 DEF Accounted

\* Every step keeps the accounts.
LEMMA AccountedStep ==
    ASSUME AdmissionTypes, Accounted, Next
    PROVE  Accounted'
<1>1. ASSUME NEW c \in Conn, CheckRequest(c)
      PROVE  Accounted'
  BY <1>1, Settled, ClientsAre
     DEF CheckRequest, PC, HoldsSlot, HoldsSource, HoldsPump, AdmissionTypes, Has
<1>2. ASSUME NEW c \in Conn, AcquireSource(c)
      PROVE  Accounted'
  <2>1. CASE sources[source[c]] >= MaxConnectionsPerSource
    BY <1>2, <2>1, Settled, ClientsAre DEF AcquireSource, PC, HoldsSlot, HoldsSource, HoldsPump, AdmissionTypes, Has
  <2>2. CASE ~(sources[source[c]] >= MaxConnectionsPerSource)
    BY <1>2, <2>2, Settled, ClientsAre DEF AcquireSource, PC, HoldsSlot, HoldsSource, HoldsPump, AdmissionTypes, Has
  <2> QED
    BY <2>1, <2>2
<1>3. ASSUME NEW c \in Conn, TryAcquireConnectionSlot(c)
      PROVE  Accounted'
  BY <1>3, Settled, ClientsAre
     DEF TryAcquireConnectionSlot, PC, HoldsSlot, HoldsSource, HoldsPump, AdmissionTypes, Has
<1>4. ASSUME NEW c \in Conn, Upgrade(c)
      PROVE  Accounted'
  BY <1>4, Settled, ClientsAre
     DEF Upgrade, PC, HoldsSlot, HoldsSource, HoldsPump, AdmissionTypes, Has
<1>5. ASSUME NEW c \in Conn, BlockClient(c)
      PROVE  Accounted'
  BY <1>5, Settled, ClientsAre
     DEF BlockClient, PC, HoldsSlot, HoldsSource, HoldsPump, AdmissionTypes, Has
<1>6. ASSUME NEW c \in Conn, Register(c)
      PROVE  Accounted'
  BY <1>6, Settled, ClientsAre
     DEF Register, PC, HoldsSlot, HoldsSource, HoldsPump, AdmissionTypes, Has
<1>7. ASSUME NEW c \in Conn, ReadEnds(c)
      PROVE  Accounted'
  BY <1>7, Settled, ClientsAre
     DEF ReadEnds, PC, HoldsSlot, HoldsSource, HoldsPump, AdmissionTypes, Has
<1>8. ASSUME NEW c \in Conn, RemoveClient(c)
      PROVE  Accounted'
  BY <1>8, Settled, ClientsAre
     DEF RemoveClient, PC, HoldsSlot, HoldsSource, HoldsPump, AdmissionTypes, Has
<1>9. ASSUME NEW c \in Conn, RemoveShut(c)
      PROVE  Accounted'
  BY <1>9, Settled, ClientsAre
     DEF RemoveShut, PC, HoldsSlot, HoldsSource, HoldsPump, AdmissionTypes, Has
<1>10. ASSUME NEW c \in Conn, RemoveClose(c)
      PROVE  Accounted'
  BY <1>10, Settled, ClientsAre
     DEF RemoveClose, PC, HoldsSlot, HoldsSource, HoldsPump, AdmissionTypes, Has
<1>11. ASSUME NEW c \in Conn, ReleaseConnectionSlot(c)
      PROVE  Accounted'
  BY <1>11, Settled, ClientsAre
     DEF ReleaseConnectionSlot, PC, HoldsSlot, HoldsSource, HoldsPump, AdmissionTypes, Has
<1>12. ASSUME NEW c \in Conn, ReleaseSource(c)
      PROVE  Accounted'
  BY <1>12, Settled, ClientsAre, SourcePositive
     DEF ReleaseSource, PC, HoldsSlot, HoldsSource, HoldsPump, AdmissionTypes, Has
<1>13. ASSUME NEW c \in Conn, PumpsDone(c)
      PROVE  Accounted'
  BY <1>13, Settled, ClientsAre
     DEF PumpsDone, PC, HoldsSlot, HoldsSource, HoldsPump, AdmissionTypes, Has
<1>14. CASE UNCHANGED admission
  BY <1>14 DEF Accounted, admission, In
<1> QED
  BY Zenon, <1>1, <1>2, <1>3, <1>4, <1>5, <1>6, <1>7, <1>8, <1>9, <1>10, <1>11, <1>12,
     <1>13, <1>14, AdmissionSteps

-----------------------------------------------------------------------------
(* Types *)

\* Every step keeps the types of the variables of handleWebSocket.
LEMMA AdmissionTypesStep ==
    ASSUME AdmissionTypes, Accounted, Next
    PROVE  AdmissionTypes'
<1>1. ASSUME NEW c \in Conn, CheckRequest(c)
      PROVE  AdmissionTypes'
  BY <1>1 DEF CheckRequest, AdmissionTypes, Goto, PC
<1>2. ASSUME NEW c \in Conn, AcquireSource(c)
      PROVE  AdmissionTypes'
  BY <1>2, ConnectionsAssumption DEF AcquireSource, AdmissionTypes, Goto, PC
<1>3. ASSUME NEW c \in Conn, TryAcquireConnectionSlot(c)
      PROVE  AdmissionTypes'
  BY <1>3, ConnectionsAssumption DEF TryAcquireConnectionSlot, AdmissionTypes, Goto, PC
<1>4. ASSUME NEW c \in Conn, Upgrade(c)
      PROVE  AdmissionTypes'
  BY <1>4 DEF Upgrade, AdmissionTypes, Goto, PC
<1>5. ASSUME NEW c \in Conn, BlockClient(c)
      PROVE  AdmissionTypes'
  BY <1>5 DEF BlockClient, AdmissionTypes, Goto, PC
<1>6. ASSUME NEW c \in Conn, Register(c)
      PROVE  AdmissionTypes'
  BY <1>6 DEF Register, AdmissionTypes, Goto, PC
<1>7. ASSUME NEW c \in Conn, ReadEnds(c)
      PROVE  AdmissionTypes'
  BY <1>7 DEF ReadEnds, AdmissionTypes, Goto, PC
<1>8. ASSUME NEW c \in Conn, RemoveClient(c)
      PROVE  AdmissionTypes'
  BY <1>8 DEF RemoveClient, AdmissionTypes, Goto, PC
<1>9. ASSUME NEW c \in Conn, RemoveShut(c)
      PROVE  AdmissionTypes'
  BY <1>9 DEF RemoveShut, AdmissionTypes, Goto, PC
<1>10. ASSUME NEW c \in Conn, RemoveClose(c)
      PROVE  AdmissionTypes'
  BY <1>10 DEF RemoveClose, AdmissionTypes, Goto, PC
<1>11. ASSUME NEW c \in Conn, ReleaseConnectionSlot(c)
      PROVE  AdmissionTypes'
  BY <1>11, ConnectionsAssumption DEF ReleaseConnectionSlot, AdmissionTypes, Goto, PC
<1>12. ASSUME NEW c \in Conn, ReleaseSource(c)
      PROVE  AdmissionTypes'
  <2>1. sources[source[c]] \in 0..MaxConnectionsPerSource
    BY DEF AdmissionTypes
  <2>2. (IF sources[source[c]] <= 1 THEN 0 ELSE sources[source[c]] - 1) \in 0..MaxConnectionsPerSource
    BY <2>1, ConnectionsAssumption
  <2>3. sources' \in [Source -> 0..MaxConnectionsPerSource]
    BY <1>12, <2>2 DEF ReleaseSource, AdmissionTypes
  <2> QED
    BY <1>12, <2>3 DEF ReleaseSource, AdmissionTypes, Goto, PC
<1>13. ASSUME NEW c \in Conn, PumpsDone(c)
      PROVE  AdmissionTypes'
  BY <1>13, PumpsPositive DEF PumpsDone, AdmissionTypes, Goto, PC, HoldsPump
<1>14. CASE UNCHANGED admission
  BY <1>14 DEF admission, AdmissionTypes
<1> QED
  BY Zenon, <1>1, <1>2, <1>3, <1>4, <1>5, <1>6, <1>7, <1>8, <1>9, <1>10, <1>11, <1>12,
     <1>13, <1>14, AdmissionSteps

\* Sending keeps the types.
LEMMA SendTypes ==
    ASSUME QueueTypes, WireTypes, NEW c \in Conn, NEW k \in Size, SendEncodedMessage(c, k)
    PROVE  QueueTypes' /\ socket' \in [Conn -> Socket]
<1>1. k \in Nat
  BY ConnectionsAssumption
<1>2. CASE closed[c]
  BY <1>2 DEF SendEncodedMessage, QueueTypes, WireTypes
<1>3. CASE ~closed[c] /\ Fits(c, k)
  <2>1. Append(send[c], k) \in Seq(Size) /\ queuedBytes[c] + k \in Int /\ accepted[c] + 1 \in Nat
    BY <1>1 DEF QueueTypes
  <2> QED
    BY <1>3, <2>1 DEF SendEncodedMessage, QueueTypes, WireTypes
<1>4. CASE ~closed[c] /\ ~Fits(c, k)
  BY <1>4 DEF SendEncodedMessage, Shut, CloseConn, QueueTypes, WireTypes, Socket
<1> QED
  BY <1>2, <1>3, <1>4

\* Every step keeps the types of the variables of the queue.
LEMMA QueueTypesStep ==
    ASSUME QueueTypes, WireTypes, Next
    PROVE  QueueTypes'
<1>1. ASSUME NEW c \in Conn, Upgrade(c)
      PROVE  QueueTypes'
  <2>1. <<>> \in Seq(Size)
    OBVIOUS
  <2>2. CASE UNCHANGED queue
    BY <2>2 DEF queue, QueueTypes
  <2>3. CASE ~UNCHANGED queue
    <3>1. /\ send' = [send EXCEPT ![c] = <<>>]
          /\ queuedBytes' = [queuedBytes EXCEPT ![c] = 0]
          /\ closed' = [closed EXCEPT ![c] = FALSE]
          /\ restart' = [restart EXCEPT ![c] = FALSE]
          /\ accepted' = [accepted EXCEPT ![c] = 0]
      BY Zenon, <1>1, <2>3 DEF Upgrade
    <3> QED
      BY <2>1, <3>1 DEF QueueTypes
  <2> QED
    BY <2>2, <2>3
<1>2. ASSUME NEW c \in Conn, ReplaceLiveSession(c)
      PROVE  QueueTypes'
  BY <1>2 DEF ReplaceLiveSession, QueueTypes, Shut
<1>3. ASSUME NEW c \in Conn, WriterTake(c)
      PROVE  QueueTypes'
  BY <1>3 DEF WriterTake, QueueTypes
<1>4. ASSUME NEW c \in Conn, WriterAccount(c)
      PROVE  QueueTypes'
  <2>1. writer[c] \in Writer
    BY DEF WireTypes
  <2>2. writer[c].size \in Size \cup {0}
    BY <2>1 DEF Writer
  <2>3. \A x \in Size \cup {0} : x \in Int
    BY ConnectionsAssumption
  <2>4. writer[c].size \in Int
    BY <2>2, <2>3
  <2> QED
    BY <1>4, <2>4 DEF WriterAccount, QueueTypes
<1>5. ASSUME NEW c \in Conn, RemoveShut(c)
      PROVE  QueueTypes'
  BY <1>5 DEF RemoveShut, QueueTypes, Shut
<1>6. ASSUME NEW c \in Conn, DrainClient(c)
      PROVE  QueueTypes'
  BY <1>6 DEF DrainClient, QueueTypes, Shut
<1>7. ASSUME NEW c \in Conn, CloseClient(c)
      PROVE  QueueTypes'
  BY <1>7 DEF CloseClient, QueueTypes, Shut
<1>8. ASSUME NEW c \in Conn, NEW k \in Size, SendMessage(c, k)
      PROVE  QueueTypes'
  BY <1>8, SendTypes DEF SendMessage
<1>9. ASSUME NEW c \in Conn, NEW k \in Size, TellRestart(c, k)
      PROVE  QueueTypes'
  <2>1. CASE c \in Capable
    BY <1>9, <2>1, SendTypes DEF TellRestart
  <2>2. CASE c \notin Capable
    BY <1>9, <2>2 DEF TellRestart, QueueTypes, queue
  <2> QED
    BY <2>1, <2>2
<1>10. CASE UNCHANGED queue
  BY <1>10 DEF queue, QueueTypes
<1> QED
  BY Zenon, <1>1, <1>2, <1>3, <1>4, <1>5, <1>6, <1>7, <1>8, <1>9, <1>10, QueueSteps

\* Every step keeps the types of the variables of the write pump.
LEMMA WireTypesStep ==
    ASSUME QueueTypes, WireTypes, Next
    PROVE  WireTypes'
<1>1. ASSUME NEW c \in Conn, Upgrade(c)
      PROVE  WireTypes'
  BY <1>1 DEF Upgrade, wire, WireTypes, Socket
<1>2. ASSUME NEW c \in Conn, BlockClient(c)
      PROVE  WireTypes'
  BY <1>2 DEF BlockClient, WireTypes, Socket
<1>3. ASSUME NEW c \in Conn, Register(c)
      PROVE  WireTypes'
  <2>1. Idle \in Writer /\ Done \in Writer
    BY DEF Idle, Done, Writer
  <2> QED
    BY <1>3, <2>1 DEF Register, WireTypes, Socket
<1>4. ASSUME NEW c \in Conn, CloseReplaced(c)
      PROVE  WireTypes'
  BY <1>4 DEF CloseReplaced, CloseConn, WireTypes, Socket
<1>5. ASSUME NEW c \in Conn, WriterTake(c)
      PROVE  WireTypes'
  <2>1. [state |-> "taken", size |-> Head(send[c])] \in Writer
    BY <1>5 DEF WriterTake, QueueTypes, Writer
  <2> QED
    BY <1>5, <2>1 DEF WriterTake, WireTypes
<1>6. ASSUME NEW c \in Conn, WriterAccount(c)
      PROVE  WireTypes'
  <2>1. [writer[c] EXCEPT !.state = "writing"] \in Writer
    BY DEF WireTypes, Writer
  <2>2. writer' = [writer EXCEPT ![c] = [writer[c] EXCEPT !.state = "writing"]]
    BY Zenon, <1>6 DEF WriterAccount
  <2> HIDE DEF Writer
  <2> QED
    BY <1>6, <2>1, <2>2 DEF WriterAccount, WireTypes
<1>7. ASSUME NEW c \in Conn, WriterWrite(c)
      PROVE  WireTypes'
  <2>1. Idle \in Writer /\ Done \in Writer
    BY DEF Idle, Done, Writer
  <2> QED
    BY <1>7, <2>1 DEF WriterWrite, WireTypes, Socket
<1>8. ASSUME NEW c \in Conn, WriterFail(c)
      PROVE  WireTypes'
  <2>1. Idle \in Writer /\ Done \in Writer
    BY DEF Idle, Done, Writer
  <2> QED
    BY <1>8, <2>1 DEF WriterFail, CloseConn, WireTypes, Socket
<1>9. ASSUME NEW c \in Conn, WriterClose(c)
      PROVE  WireTypes'
  <2>1. Idle \in Writer /\ Done \in Writer
    BY DEF Idle, Done, Writer
  <2> QED
    BY <1>9, <2>1 DEF WriterClose, WireTypes, Socket
<1>10. ASSUME NEW c \in Conn, RemoveClose(c)
      PROVE  WireTypes'
  BY <1>10 DEF RemoveClose, CloseConn, WireTypes, Socket
<1>11. ASSUME NEW c \in Conn, CloseClient(c)
      PROVE  WireTypes'
  BY <1>11 DEF CloseClient, CloseConn, WireTypes, Socket
<1>12. ASSUME NEW c \in Conn, NEW k \in Size, SendMessage(c, k)
      PROVE  WireTypes'
  BY <1>12, SendTypes DEF SendMessage, WireTypes
<1>13. ASSUME NEW c \in Conn, NEW k \in Size, TellRestart(c, k)
      PROVE  WireTypes'
  <2>1. CASE c \in Capable
    BY <1>13, <2>1, SendTypes DEF TellRestart, WireTypes
  <2>2. CASE c \notin Capable
    BY <1>13, <2>2 DEF TellRestart, WireTypes
  <2> QED
    BY <2>1, <2>2
<1>14. CASE UNCHANGED wire
  BY <1>14 DEF wire, WireTypes
<1> QED
  BY Zenon, <1>1, <1>2, <1>3, <1>4, <1>5, <1>6, <1>7, <1>8, <1>9, <1>10, <1>11, <1>12,
     <1>13, <1>14, WireSteps

\* Every step keeps the types of the variables of the shutdown.
LEMMA ShutdownTypesStep ==
    ASSUME AdmissionTypes, ShutdownTypes, Next
    PROVE  ShutdownTypes'
<1>1. ASSUME NEW c \in Conn, DrainClient(c)
      PROVE  ShutdownTypes'
  BY <1>1 DEF DrainClient, ShutdownTypes
<1>2. ASSUME NEW c \in Conn, CloseClient(c)
      PROVE  ShutdownTypes'
  BY <1>2 DEF CloseClient, ShutdownTypes
<1>3. ASSUME NEW c \in Conn, NEW k \in Size, TellRestart(c, k)
      PROVE  ShutdownTypes'
  BY <1>3 DEF TellRestart, ShutdownTypes
<1>4. ASSUME NEW from \in Phase, NEW to \in Phase, Enter(from, to)
      PROVE  ShutdownTypes'
  BY <1>4 DEF Enter, ShutdownTypes, AdmissionTypes
<1>5. CASE UNCHANGED shutdown
  BY <1>5 DEF shutdown, ShutdownTypes
<1> QED
  BY Zenon, <1>1, <1>2, <1>3, <1>4, <1>5, ShutdownSteps

-----------------------------------------------------------------------------
(* Positions *)

\* Sending keeps LifeInv.
LEMMA SendLife ==
    ASSUME QueueTypes, WireTypes, LifeInv, NEW c \in Conn, NEW k \in Size,
           SendEncodedMessage(c, k), pc[c] # "upgraded", UNCHANGED <<pc, writer, delivered>>
    PROVE  LifeInv'
<1>1. CASE closed[c]
  BY <1>1 DEF SendEncodedMessage, LifeInv
<1>2. CASE ~closed[c] /\ Fits(c, k)
  BY <1>2 DEF SendEncodedMessage, LifeInv, QueueTypes
<1>3. CASE ~closed[c] /\ ~Fits(c, k)
  BY <1>3 DEF SendEncodedMessage, Shut, CloseConn, LifeInv, QueueTypes, WireTypes
<1> QED
  BY <1>1, <1>2, <1>3

\* Every step keeps LifeInv.
LEMMA LifeStep ==
    ASSUME AdmissionTypes, QueueTypes, WireTypes, LifeInv, TodoInv, Next
    PROVE  LifeInv'
<1>1. ASSUME NEW c \in Conn, CheckRequest(c)
      PROVE  LifeInv'
  BY <1>1 DEF CheckRequest, Goto, queue, wire, AdmissionTypes, QueueTypes, WireTypes,
     LifeInv, Idle, Done
<1>2. ASSUME NEW c \in Conn, AcquireSource(c)
      PROVE  LifeInv'
  BY <1>2 DEF AcquireSource, Goto, queue, wire, AdmissionTypes, QueueTypes, WireTypes,
     LifeInv, Idle, Done
<1>3. ASSUME NEW c \in Conn, TryAcquireConnectionSlot(c)
      PROVE  LifeInv'
  BY <1>3 DEF TryAcquireConnectionSlot, Goto, queue, wire, AdmissionTypes, QueueTypes,
     WireTypes, LifeInv, Idle, Done
<1>4. ASSUME NEW c \in Conn, Upgrade(c)
      PROVE  LifeInv'
  BY <1>4 DEF Upgrade, Goto, queue, wire, AdmissionTypes, QueueTypes, WireTypes,
     LifeInv, Idle, Done
<1>5. ASSUME NEW c \in Conn, BlockClient(c)
      PROVE  LifeInv'
  BY <1>5 DEF BlockClient, Goto, queue, AdmissionTypes, QueueTypes, WireTypes,
     LifeInv, Idle, Done
<1>6. ASSUME NEW c \in Conn, Register(c)
      PROVE  LifeInv'
  BY <1>6 DEF Register, Goto, queue, AdmissionTypes, QueueTypes, WireTypes, LifeInv,
     Idle, Done
<1>7. ASSUME NEW c \in Conn, ReplaceLiveSession(c)
      PROVE  LifeInv'
  BY <1>7 DEF ReplaceLiveSession, Shut, admission, wire, AdmissionTypes, QueueTypes,
     WireTypes, LifeInv, Idle, Done
<1>8. ASSUME NEW c \in Conn, CloseReplaced(c)
      PROVE  LifeInv'
  BY <1>8 DEF CloseReplaced, CloseConn, admission, queue, HoldsPump, AdmissionTypes,
     QueueTypes, WireTypes, LifeInv, Idle, Done
<1>9. ASSUME NEW c \in Conn, WriterTake(c)
      PROVE  LifeInv'
  BY <1>9 DEF WriterTake, admission, AdmissionTypes, QueueTypes, WireTypes, LifeInv,
     Idle, Done
<1>10. ASSUME NEW c \in Conn, WriterAccount(c)
      PROVE  LifeInv'
  <2>1. /\ \A d \in Conn \ {c} : writer'[d] = writer[d]
        /\ writer'[c].state = "writing" /\ writer[c] # Done
    BY <1>10 DEF WriterAccount, WireTypes, Writer, Done
  <2> QED
    BY <1>10, <2>1 DEF WriterAccount, admission, LifeInv, Done
<1>11. ASSUME NEW c \in Conn, WriterWrite(c)
      PROVE  LifeInv'
  BY <1>11 DEF WriterWrite, admission, queue, AdmissionTypes, QueueTypes, WireTypes,
     LifeInv, Idle, Done
<1>12. ASSUME NEW c \in Conn, WriterFail(c)
      PROVE  LifeInv'
  BY <1>12 DEF WriterFail, CloseConn, admission, queue, AdmissionTypes, QueueTypes,
     WireTypes, LifeInv, Idle, Done
<1>13. ASSUME NEW c \in Conn, WriterClose(c)
      PROVE  LifeInv'
  BY <1>13 DEF WriterClose, admission, queue, AdmissionTypes, QueueTypes, WireTypes,
     LifeInv, Idle, Done
<1>14. ASSUME NEW c \in Conn, ReadEnds(c)
      PROVE  LifeInv'
  BY <1>14 DEF ReadEnds, Goto, queue, wire, AdmissionTypes, QueueTypes, WireTypes,
     LifeInv, Idle, Done
<1>15. ASSUME NEW c \in Conn, RemoveClient(c)
      PROVE  LifeInv'
  BY <1>15 DEF RemoveClient, Goto, queue, wire, AdmissionTypes, QueueTypes, WireTypes,
     LifeInv, Idle, Done
<1>16. ASSUME NEW c \in Conn, RemoveShut(c)
      PROVE  LifeInv'
  BY <1>16 DEF RemoveShut, Shut, Goto, wire, AdmissionTypes, QueueTypes, WireTypes,
     LifeInv, Idle, Done
<1>17. ASSUME NEW c \in Conn, RemoveClose(c)
      PROVE  LifeInv'
  BY <1>17 DEF RemoveClose, CloseConn, Goto, queue, AdmissionTypes, QueueTypes,
     WireTypes, LifeInv, Idle, Done
<1>18. ASSUME NEW c \in Conn, ReleaseConnectionSlot(c)
      PROVE  LifeInv'
  BY <1>18 DEF ReleaseConnectionSlot, Goto, queue, wire, AdmissionTypes, QueueTypes,
     WireTypes, LifeInv, Idle, Done
<1>19. ASSUME NEW c \in Conn, ReleaseSource(c)
      PROVE  LifeInv'
  BY <1>19 DEF ReleaseSource, Goto, queue, wire, AdmissionTypes, QueueTypes,
     WireTypes, LifeInv, Idle, Done
<1>20. ASSUME NEW c \in Conn, PumpsDone(c)
      PROVE  LifeInv'
  BY <1>20 DEF PumpsDone, Goto, queue, wire, AdmissionTypes, QueueTypes, WireTypes,
     LifeInv, Idle, Done
<1>21. ASSUME NEW c \in Conn, DrainClient(c)
      PROVE  LifeInv'
  BY <1>21 DEF DrainClient, Shut, admission, wire, AdmissionTypes, QueueTypes,
     WireTypes, LifeInv, Idle, Done
<1>22. ASSUME NEW c \in Conn, CloseClient(c)
      PROVE  LifeInv'
  BY <1>22 DEF CloseClient, Shut, CloseConn, admission, TodoInv, HoldsPump,
     AdmissionTypes, QueueTypes, WireTypes, LifeInv, Idle, Done
<1>23. ASSUME NEW c \in Conn, NEW k \in Size, SendMessage(c, k)
      PROVE  LifeInv'
  BY <1>23, SendLife DEF SendMessage, admission, HoldsPump
<1>24. ASSUME NEW c \in Conn, NEW k \in Size, TellRestart(c, k)
      PROVE  LifeInv'
  <2>1. CASE c \in Capable
    BY <1>24, <2>1, SendLife DEF TellRestart, admission, TodoInv, HoldsPump
  <2>2. CASE c \notin Capable
    BY <1>24, <2>2 DEF TellRestart, admission, queue, LifeInv
  <2> QED
    BY <2>1, <2>2
<1>25. CASE AnnounceRestart \/ Snapshot \/ LoopEnds \/ PumpsEnded \/ Deadline
  BY <1>25 DEF AnnounceRestart, Snapshot, LoopEnds, PumpsEnded, Deadline, Enter, admission, queue, wire, LifeInv
<1> QED
  BY Zenon, Steps, <1>1, <1>2, <1>3, <1>4, <1>5, <1>6, <1>7, <1>8, <1>9, <1>10, <1>11,
     <1>12, <1>13, <1>14, <1>15, <1>16, <1>17, <1>18, <1>19, <1>20, <1>21, <1>22,
     <1>23, <1>24, <1>25

-----------------------------------------------------------------------------
(* The ledger *)

\* Sending keeps the ledger.
LEMMA SendLedger ==
    ASSUME QueueTypes, WireTypes, Ledger, NEW c \in Conn, NEW k \in Size,
           SendEncodedMessage(c, k), UNCHANGED <<writer, delivered>>
    PROVE  Ledger'
<1>1. CASE closed[c]
  BY <1>1 DEF SendEncodedMessage, Ledger
<1>2. CASE ~closed[c] /\ Fits(c, k)
  <2>1. send[c] \in Seq(Size) /\ Len(send[c]) \in Nat
    BY DEF QueueTypes
  <2>2. InHand(writer[c]) \in Nat /\ accepted[c] \in Nat /\ delivered[c] \in Nat
    BY DEF InHand, QueueTypes, WireTypes
  <2>3. /\ accepted'[c] = accepted[c] + 1 /\ send'[c] = Append(send[c], k)
        /\ \A d \in Conn \ {c} : accepted'[d] = accepted[d] /\ send'[d] = send[d]
    BY <1>2 DEF SendEncodedMessage, QueueTypes
  <2>4. Len(send'[c]) = Len(send[c]) + 1
    BY <2>1, <2>3
  <2>5. ASSUME NEW d \in Conn, writer'[d] # Done
        PROVE  accepted'[d] = delivered'[d] + Len(send'[d]) + InHand(writer'[d])
    <3>1. CASE d = c
      <4>1. accepted[c] = delivered[c] + Len(send[c]) + InHand(writer[c])
        BY <2>5, <3>1 DEF Ledger
      <4>2. /\ accepted'[d] = accepted[c] + 1 /\ delivered'[d] = delivered[c]
            /\ Len(send'[d]) = Len(send[c]) + 1 /\ InHand(writer'[d]) = InHand(writer[c])
        BY <2>3, <2>4, <3>1
      <4>3. Len(send[c]) \in Nat
        BY <2>1
      <4> QED
        BY <2>2, <4>1, <4>2, <4>3
    <3>2. CASE d # c
      <4>1. accepted[d] = delivered[d] + Len(send[d]) + InHand(writer[d])
        BY <2>3, <2>5, <3>2 DEF Ledger
      <4> QED
        BY <2>3, <3>2, <4>1
    <3> QED
      BY <3>1, <3>2
  <2> QED
    BY <2>5 DEF Ledger
<1>3. CASE ~closed[c] /\ ~Fits(c, k)
  BY <1>3 DEF SendEncodedMessage, Ledger
<1> QED
  BY <1>1, <1>2, <1>3

\* Every step keeps the ledger.
LEMMA LedgerStep ==
    ASSUME QueueTypes, WireTypes, LifeInv, Ledger, Next
    PROVE  Ledger'
<1>1. ASSUME NEW c \in Conn, Upgrade(c)
      PROVE  Ledger'
  <2>1. writer[c] = Done
    BY <1>1 DEF Upgrade, LifeInv
  <2> QED
    BY <1>1, <2>1 DEF Upgrade, queue, wire, QueueTypes, WireTypes, Ledger
<1>2. ASSUME NEW c \in Conn, Register(c)
      PROVE  Ledger'
  <2>1. send[c] = <<>> /\ accepted[c] = 0 /\ delivered[c] = 0 /\ InHand(Idle) = 0
    BY <1>2 DEF Register, LifeInv, InHand, Idle
  <2>2. \A d \in Conn : writer'[d] = writer[d] \/ (d = c /\ writer'[d] = Idle)
    <3>1. writer' = writer \/ writer' = [writer EXCEPT ![c] = Idle]
      BY Zenon, <1>2 DEF Register
    <3> QED
      BY <3>1 DEF WireTypes
  <2> QED
    BY <1>2, <2>1, <2>2 DEF Register, queue, Ledger
<1>3. ASSUME NEW c \in Conn, WriterTake(c)
      PROVE  Ledger'
  <2>1. Len(Tail(send[c])) = Len(send[c]) - 1 /\ Len(send[c]) \in Nat
    BY <1>3 DEF WriterTake, QueueTypes
  <2>2. InHand(Idle) = 0 /\ InHand([state |-> "taken", size |-> Head(send[c])]) = 1 /\ Idle # Done
    BY DEF InHand, Idle, Done
  <2> QED
    BY <1>3, <2>1, <2>2 DEF WriterTake, QueueTypes, WireTypes, Ledger
<1>4. ASSUME NEW c \in Conn, WriterAccount(c)
      PROVE  Ledger'
  <2>1. /\ \A d \in Conn \ {c} : writer'[d] = writer[d]
        /\ writer'[c].state = "writing" /\ writer[c].state = "taken"
    BY <1>4 DEF WriterAccount, WireTypes, Writer
  <2>2. writer[c] # Done /\ InHand(writer[c]) = 1 /\ InHand(writer'[c]) = 1
    BY <2>1 DEF Done, InHand
  <2> QED
    BY <1>4, <2>1, <2>2 DEF WriterAccount, Ledger
<1>5. ASSUME NEW c \in Conn, WriterWrite(c)
      PROVE  Ledger'
  <2>1. writer[c] # Done /\ InHand(writer[c]) = 1 /\ InHand(Idle) = 0
    BY <1>5 DEF WriterWrite, Done, Idle, InHand
  <2>2. Len(send[c]) \in Nat /\ accepted[c] \in Nat /\ delivered[c] \in Nat
    BY DEF QueueTypes, WireTypes
  <2>3. /\ writer'[c] = Idle /\ delivered'[c] = delivered[c] + 1
        /\ \A d \in Conn \ {c} : writer'[d] = writer[d] /\ delivered'[d] = delivered[d]
        /\ UNCHANGED <<accepted, send>>
    BY <1>5 DEF WriterWrite, queue, WireTypes
  <2>4. ASSUME NEW d \in Conn, writer'[d] # Done
        PROVE  accepted'[d] = delivered'[d] + Len(send'[d]) + InHand(writer'[d])
    <3>1. CASE d = c
      <4>1. accepted[c] = delivered[c] + Len(send[c]) + InHand(writer[c])
        BY <2>1, <2>4, <3>1 DEF Ledger
      <4> QED
        BY <2>1, <2>2, <2>3, <3>1, <4>1
    <3>2. CASE d # c
      <4>1. accepted[d] = delivered[d] + Len(send[d]) + InHand(writer[d])
        BY <2>3, <2>4, <3>2 DEF Ledger
      <4> QED
        BY <2>3, <3>2, <4>1
    <3> QED
      BY <3>1, <3>2
  <2> QED
    BY <2>4 DEF Ledger
<1>6. ASSUME NEW c \in Conn, WriterFail(c)
      PROVE  Ledger'
  BY <1>6 DEF WriterFail, queue, WireTypes, Ledger
<1>7. ASSUME NEW c \in Conn, WriterClose(c)
      PROVE  Ledger'
  BY <1>7 DEF WriterClose, queue, WireTypes, Ledger
<1>8. ASSUME NEW c \in Conn, NEW k \in Size, SendMessage(c, k)
      PROVE  Ledger'
  BY <1>8, SendLedger DEF SendMessage
<1>9. ASSUME NEW c \in Conn, NEW k \in Size, TellRestart(c, k)
      PROVE  Ledger'
  <2>1. CASE c \in Capable
    BY <1>9, <2>1, SendLedger DEF TellRestart
  <2>2. CASE c \notin Capable
    BY <1>9, <2>2 DEF TellRestart, queue, Ledger
  <2> QED
    BY <2>1, <2>2
<1>10. ASSUME \/ AnnounceRestart \/ Snapshot \/ LoopEnds \/ PumpsEnded \/ Deadline
              \/ \E c \in Conn :
                    \/ CheckRequest(c) \/ AcquireSource(c)
                    \/ TryAcquireConnectionSlot(c) \/ BlockClient(c)
                    \/ ReplaceLiveSession(c) \/ CloseReplaced(c) \/ ReadEnds(c)
                    \/ RemoveClient(c) \/ RemoveShut(c) \/ RemoveClose(c)
                    \/ ReleaseConnectionSlot(c) \/ ReleaseSource(c) \/ PumpsDone(c)
                    \/ DrainClient(c) \/ CloseClient(c)
      PROVE  UNCHANGED <<send, accepted, writer, delivered>>
  BY <1>10 DEF CheckRequest, AcquireSource, TryAcquireConnectionSlot, BlockClient,
     ReplaceLiveSession, CloseReplaced, ReadEnds, RemoveClient, RemoveShut,
     RemoveClose, ReleaseConnectionSlot, ReleaseSource, PumpsDone, DrainClient,
     CloseClient, AnnounceRestart, Snapshot, LoopEnds, PumpsEnded, Deadline, Enter,
     queue, wire
<1>11. CASE UNCHANGED <<send, accepted, writer, delivered>>
  BY <1>11 DEF Ledger
<1> QED
  BY Zenon, Steps, <1>1, <1>2, <1>3, <1>4, <1>5, <1>6, <1>7, <1>8, <1>9, <1>10, <1>11

-----------------------------------------------------------------------------
(* The shutdown *)

\* A queue that a sending finds closed stays closed, and sending opens none.
LEMMA SendCloses ==
    ASSUME QueueTypes, NEW c \in Conn, NEW k \in Size, SendEncodedMessage(c, k)
    PROVE  /\ \A d \in Conn : closed[d] => closed'[d]
           /\ \A d \in Conn : restart'[d] => restart[d]
           /\ closed'[c] \/ accepted'[c] # accepted[c]
<1>1. CASE closed[c]
  BY <1>1 DEF SendEncodedMessage
<1>2. CASE ~closed[c] /\ Fits(c, k)
  BY <1>2 DEF SendEncodedMessage, QueueTypes
<1>3. CASE ~closed[c] /\ ~Fits(c, k)
  BY <1>3 DEF SendEncodedMessage, Shut, QueueTypes
<1> QED
  BY <1>1, <1>2, <1>3

\* Every step keeps TodoInv.
LEMMA TodoStep ==
    ASSUME AdmissionTypes, QueueTypes, ShutdownTypes, Accounted, LifeInv, TodoInv, Next
    PROVE  TodoInv'
<1>1. ASSUME NEW c \in Conn, CheckRequest(c)
      PROVE  TodoInv'
  BY <1>1 DEF CheckRequest, Goto, queue, shutdown, ShuttingDown, Loop, AdmissionTypes,
     QueueTypes, ShutdownTypes, LifeInv, TodoInv, HoldsPump
<1>2. ASSUME NEW c \in Conn, AcquireSource(c)
      PROVE  TodoInv'
  BY <1>2 DEF AcquireSource, Goto, queue, shutdown, AdmissionTypes, QueueTypes,
     ShutdownTypes, LifeInv, TodoInv, HoldsPump
<1>3. ASSUME NEW c \in Conn, TryAcquireConnectionSlot(c)
      PROVE  TodoInv'
  BY <1>3 DEF TryAcquireConnectionSlot, Goto, queue, shutdown, AdmissionTypes,
     QueueTypes, ShutdownTypes, LifeInv, TodoInv, HoldsPump
<1>4. ASSUME NEW c \in Conn, Upgrade(c)
      PROVE  TodoInv'
  <2>1. c \notin todo
    BY <1>4 DEF Upgrade, TodoInv, HoldsPump
  <2>2. \A d \in Conn \ {c} : pc'[d] = pc[d] /\ closed'[d] = closed[d]
    BY <1>4 DEF Upgrade, Goto, queue, AdmissionTypes, QueueTypes
  <2> QED
    BY <1>4, <2>1, <2>2 DEF Upgrade, shutdown, ShutdownTypes, TodoInv
<1>5. ASSUME NEW c \in Conn, BlockClient(c)
      PROVE  TodoInv'
  BY <1>5 DEF BlockClient, Goto, queue, shutdown, AdmissionTypes, QueueTypes,
     ShutdownTypes, LifeInv, TodoInv, HoldsPump
<1>6. ASSUME NEW c \in Conn, Register(c)
      PROVE  TodoInv'
  BY <1>6 DEF Register, Goto, queue, shutdown, AdmissionTypes, QueueTypes,
     ShutdownTypes, LifeInv, TodoInv, HoldsPump
<1>7. ASSUME NEW c \in Conn, ReplaceLiveSession(c)
      PROVE  TodoInv'
  BY <1>7 DEF ReplaceLiveSession, Shut, admission, shutdown, AdmissionTypes,
     QueueTypes, ShutdownTypes, LifeInv, TodoInv, HoldsPump
<1>8. ASSUME NEW c \in Conn, ReadEnds(c)
      PROVE  TodoInv'
  BY <1>8 DEF ReadEnds, Goto, queue, shutdown, AdmissionTypes, QueueTypes,
     ShutdownTypes, LifeInv, TodoInv, HoldsPump
<1>9. ASSUME NEW c \in Conn, RemoveClient(c)
      PROVE  TodoInv'
  BY <1>9 DEF RemoveClient, Goto, queue, shutdown, AdmissionTypes, QueueTypes,
     ShutdownTypes, LifeInv, TodoInv, HoldsPump
<1>10. ASSUME NEW c \in Conn, RemoveShut(c)
      PROVE  TodoInv'
  BY <1>10 DEF RemoveShut, Shut, Goto, shutdown, AdmissionTypes, QueueTypes,
     ShutdownTypes, LifeInv, TodoInv, HoldsPump
<1>11. ASSUME NEW c \in Conn, RemoveClose(c)
      PROVE  TodoInv'
  BY <1>11 DEF RemoveClose, CloseConn, Goto, queue, shutdown, AdmissionTypes,
     QueueTypes, ShutdownTypes, LifeInv, TodoInv, HoldsPump
<1>12. ASSUME NEW c \in Conn, ReleaseConnectionSlot(c)
      PROVE  TodoInv'
  BY <1>12 DEF ReleaseConnectionSlot, Goto, queue, shutdown, AdmissionTypes,
     QueueTypes, ShutdownTypes, LifeInv, TodoInv, HoldsPump
<1>13. ASSUME NEW c \in Conn, ReleaseSource(c)
      PROVE  TodoInv'
  BY <1>13 DEF ReleaseSource, Goto, queue, shutdown, AdmissionTypes, QueueTypes,
     ShutdownTypes, LifeInv, TodoInv, HoldsPump
<1>14. ASSUME NEW c \in Conn, PumpsDone(c)
      PROVE  TodoInv'
  BY <1>14 DEF PumpsDone, Goto, queue, shutdown, AdmissionTypes, QueueTypes,
     ShutdownTypes, LifeInv, TodoInv, HoldsPump
<1>15. ASSUME NEW c \in Conn, DrainClient(c)
      PROVE  TodoInv'
  BY <1>15 DEF DrainClient, Shut, admission, AdmissionTypes, QueueTypes,
     ShutdownTypes, LifeInv, TodoInv, HoldsPump
<1>16. ASSUME NEW c \in Conn, CloseClient(c)
      PROVE  TodoInv'
  BY <1>16 DEF CloseClient, Shut, CloseConn, admission, AdmissionTypes, QueueTypes,
     ShutdownTypes, LifeInv, TodoInv, HoldsPump
<1>17. ASSUME NEW c \in Conn, NEW k \in Size, SendMessage(c, k)
      PROVE  TodoInv'
  BY <1>17, SendCloses DEF SendMessage, admission, shutdown, ShutdownTypes, TodoInv
<1>18. ASSUME NEW c \in Conn, NEW k \in Size, TellRestart(c, k)
      PROVE  TodoInv'
  <2>1. CASE c \in Capable
    BY <1>18, <2>1, SendCloses DEF TellRestart, admission, ShutdownTypes, TodoInv, Loop
  <2>2. CASE c \notin Capable
    BY <1>18, <2>2 DEF TellRestart, admission, queue, TodoInv, Loop
  <2> QED
    BY <2>1, <2>2
<1>19. CASE AnnounceRestart \/ Snapshot \/ LoopEnds \/ PumpsEnded \/ Deadline
  <2>1. \A d \in clients : pc[d] \in {"running", "ended"}
    BY DEF Accounted, In
  <2> QED
    BY <1>19, <2>1 DEF AnnounceRestart, Snapshot, LoopEnds, PumpsEnded, Deadline, Enter, admission, queue, TodoInv, Loop
<1>20. ASSUME NEW c \in Conn,
              \/ CloseReplaced(c) \/ WriterTake(c) \/ WriterAccount(c) \/ WriterWrite(c)
              \/ WriterFail(c) \/ WriterClose(c)
      PROVE  UNCHANGED <<pc, closed, phase, todo>>
  BY <1>20 DEF CloseReplaced, WriterTake, WriterAccount, WriterWrite, WriterFail,
     WriterClose, admission, queue, shutdown
<1>21. CASE UNCHANGED <<pc, closed, phase, todo>>
  BY <1>21 DEF TodoInv
<1> QED
  BY Zenon, Steps, <1>1, <1>2, <1>3, <1>4, <1>5, <1>6, <1>7, <1>8, <1>9, <1>10, <1>11,
     <1>12, <1>13, <1>14, <1>15, <1>16, <1>17, <1>18, <1>19, <1>20, <1>21

\* Every step keeps ToldInv.
LEMMA ToldStep ==
    ASSUME QueueTypes, Accounted, TodoInv, ToldInv, Next
    PROVE  ToldInv'
<1>1. ASSUME NEW c \in Conn, Upgrade(c)
      PROVE  ToldInv'
  <2>1. c \notin clients /\ c \notin todo
    BY <1>1 DEF Upgrade, Accounted, In, TodoInv, HoldsPump
  <2> QED
    BY <1>1, <2>1, ConnectionsAssumption DEF Upgrade, Goto, queue, shutdown, QueueTypes, ToldInv, ShuttingDown
<1>2. ASSUME NEW c \in Conn, Register(c)
      PROVE  ToldInv'
  <2>1. c \notin clients /\ c \notin todo
    BY <1>2 DEF Register, Accounted, In, TodoInv, HoldsPump
  <2> QED
    BY <1>2, <2>1, ConnectionsAssumption DEF Register, Goto, queue, shutdown, QueueTypes, ToldInv, ShuttingDown
<1>3. ASSUME NEW c \in Conn, ReplaceLiveSession(c)
      PROVE  ToldInv'
  BY <1>3, ConnectionsAssumption DEF ReplaceLiveSession, Shut, admission, shutdown,
     QueueTypes, ToldInv
<1>4. ASSUME NEW c \in Conn, RemoveClient(c)
      PROVE  ToldInv'
  BY <1>4, ConnectionsAssumption DEF RemoveClient, Goto, queue, shutdown, QueueTypes,
     ToldInv
<1>5. ASSUME NEW c \in Conn, RemoveShut(c)
      PROVE  ToldInv'
  BY <1>5, ConnectionsAssumption DEF RemoveShut, Shut, Goto, shutdown, QueueTypes,
     ToldInv
<1>6. ASSUME NEW c \in Conn, DrainClient(c)
      PROVE  ToldInv'
  BY <1>6, ConnectionsAssumption DEF DrainClient, Shut, admission, QueueTypes, ToldInv
<1>7. ASSUME NEW c \in Conn, CloseClient(c)
      PROVE  ToldInv'
  BY <1>7, ConnectionsAssumption DEF CloseClient, Shut, CloseConn, admission,
     QueueTypes, ToldInv
<1>8. ASSUME NEW c \in Conn, NEW k \in Size, SendMessage(c, k)
      PROVE  ToldInv'
  BY <1>8, SendCloses, ConnectionsAssumption DEF SendMessage, admission, shutdown, ToldInv
<1>9. ASSUME NEW c \in Conn, NEW k \in Size, TellRestart(c, k)
      PROVE  ToldInv'
  <2>1. CASE c \in Capable
    BY <1>9, <2>1, SendCloses, ConnectionsAssumption DEF TellRestart, admission, ToldInv
  <2>2. CASE c \notin Capable
    BY <1>9, <2>2 DEF TellRestart, admission, queue, ToldInv
  <2> QED
    BY <2>1, <2>2
<1>10. CASE AnnounceRestart \/ Snapshot \/ LoopEnds \/ PumpsEnded \/ Deadline
  BY <1>10 DEF AnnounceRestart, Snapshot, LoopEnds, PumpsEnded, Deadline, Enter, admission, queue, ToldInv, TodoInv, Loop
<1>11. ASSUME NEW c \in Conn,
              \/ CheckRequest(c) \/ AcquireSource(c) \/ TryAcquireConnectionSlot(c)
              \/ BlockClient(c) \/ CloseReplaced(c) \/ WriterTake(c) \/ WriterAccount(c)
              \/ WriterWrite(c) \/ WriterFail(c) \/ WriterClose(c) \/ ReadEnds(c)
              \/ RemoveClose(c) \/ ReleaseConnectionSlot(c) \/ ReleaseSource(c)
              \/ PumpsDone(c)
      PROVE  UNCHANGED <<clients, closed, restart, phase, todo, told>>
  BY <1>11 DEF CheckRequest, AcquireSource, TryAcquireConnectionSlot, BlockClient,
     CloseReplaced, WriterTake, WriterAccount, WriterWrite, WriterFail, WriterClose,
     ReadEnds, RemoveClose, ReleaseConnectionSlot, ReleaseSource, PumpsDone,
     admission, queue, shutdown
<1>12. CASE UNCHANGED <<clients, closed, restart, phase, todo, told>>
  BY <1>12 DEF ToldInv
<1> QED
  BY Zenon, Steps, <1>1, <1>2, <1>3, <1>4, <1>5, <1>6, <1>7, <1>8, <1>9, <1>10, <1>11,
     <1>12

-----------------------------------------------------------------------------
(* Every reachable state satisfies the invariant *)

\* The types hold at the start.
LEMMA InitTypes ==
    ASSUME Init
    PROVE  Types
<1>1. Done \in Writer
  BY DEF Done, Writer
<1>2. AdmissionTypes
  BY ConnectionsAssumption DEF Init, AdmissionTypes, PC
<1>3. QueueTypes
  BY DEF Init, QueueTypes
<1>4. WireTypes
  BY <1>1 DEF Init, WireTypes, Socket
<1>5. ShutdownTypes
  BY DEF Init, ShutdownTypes, Phase
<1> QED
  BY <1>2, <1>3, <1>4, <1>5 DEF Types

\* The invariant holds at the start.
LEMMA InitInv ==
    ASSUME Init
    PROVE  IInv
<1>1. /\ In(HoldsSlot) = {} /\ In(HoldsSource) = {} /\ In(HoldsPump) = {}
      /\ In({"running", "ended"}) = {}
  BY DEF Init, In, HoldsSlot, HoldsSource, HoldsPump
<1>2. \A t \in Source : {c \in In(HoldsSource) : source[c] = t} = {}
  BY <1>1
<1>3. Accounted
  BY <1>1, <1>2, FS_EmptySet DEF Init, Accounted
<1>4. LifeInv
  BY DEF Init, LifeInv
<1>5. Ledger
  BY DEF Init, Ledger
<1>6. TodoInv /\ ToldInv
  BY ConnectionsAssumption DEF Init, TodoInv, ToldInv
<1> QED
  BY <1>3, <1>4, <1>5, <1>6, InitTypes DEF IInv

\* Every step, and every step of something else, keeps the invariant.
LEMMA NextInv ==
    ASSUME IInv, [Next]_vars
    PROVE  IInv'
<1>1. CASE Next
  <2>1. Types'
    BY <1>1, AdmissionTypesStep, QueueTypesStep, WireTypesStep, ShutdownTypesStep
       DEF IInv, Types
  <2>2. Accounted'
    BY <1>1, AccountedStep DEF IInv, Types
  <2>3. LifeInv' /\ Ledger'
    BY <1>1, LifeStep, LedgerStep DEF IInv, Types
  <2>4. TodoInv' /\ ToldInv'
    BY <1>1, TodoStep, ToldStep DEF IInv, Types
  <2> QED
    BY <2>1, <2>2, <2>3, <2>4 DEF IInv
<1>2. CASE UNCHANGED vars
  <2>1. AdmissionTypes' /\ QueueTypes' /\ WireTypes' /\ ShutdownTypes'
    BY Zenon, <1>2 DEF vars, IInv, Types, AdmissionTypes, QueueTypes, WireTypes, ShutdownTypes
  <2>2. Accounted'
    BY <1>2 DEF vars, IInv, Accounted, In
  <2>3. LifeInv' /\ Ledger'
    BY <1>2 DEF vars, IInv, LifeInv, Ledger
  <2>4. TodoInv' /\ ToldInv'
    BY <1>2 DEF vars, IInv, TodoInv, ToldInv
  <2> QED
    BY <2>1, <2>2, <2>3, <2>4 DEF IInv, Types
<1> QED
  BY <1>1, <1>2

\* So it always holds.
LEMMA Inductive == Spec => []IInv
<1>1. Init => IInv
  BY InitInv
<1>2. IInv /\ [Next]_vars => IInv'
  BY NextInv
<1> QED
  BY <1>1, <1>2, PTL DEF Spec

\* Slots, counts of sources and pumps are given back on every way out, for any
\* number of connections and any limits.
THEOREM SlotsAccounted == Spec => []Accounted
<1>1. IInv => Accounted
  BY DEF IInv
<1> QED
  BY <1>1, Inductive, PTL

\* A capable client that is closed with code 1012 was told first.
THEOREM ToldBeforeRestart == Spec => []RestartTold
<1>1. IInv => RestartTold
  BY DEF IInv, ToldInv, RestartTold
<1> QED
  BY <1>1, Inductive, PTL

\* Once the drain has begun no pump starts and no connection is registered.
THEOREM DrainedForGood == Spec => NoPumpAfterDrain
<1>1. ASSUME IInv, [Next]_vars
      PROVE  [Drained => (pumps' <= pumps) /\ (clients' \subseteq clients)]_vars
  <2> USE DEF Drained
  <2>1. pumps \in Nat
    BY <1>1 DEF IInv, Types, AdmissionTypes
  <2>2. ASSUME NEW c \in Conn, Register(c), Drained
        PROVE  pumps' = pumps /\ clients' = clients
    BY <2>2 DEF Register, ShuttingDown
  <2>3. ASSUME NEW c \in Conn, RemoveClient(c) \/ PumpsDone(c)
        PROVE  pumps' <= pumps /\ clients' \subseteq clients
    BY <2>1, <2>3 DEF RemoveClient, PumpsDone
  <2>4. ASSUME NEW c \in Conn,
               \/ CheckRequest(c) \/ AcquireSource(c) \/ TryAcquireConnectionSlot(c)
               \/ Upgrade(c) \/ BlockClient(c) \/ ReadEnds(c) \/ RemoveShut(c)
               \/ RemoveClose(c) \/ ReleaseConnectionSlot(c) \/ ReleaseSource(c)
        PROVE  pumps' = pumps /\ clients' = clients
    BY <2>4 DEF CheckRequest, AcquireSource, TryAcquireConnectionSlot, Upgrade,
                BlockClient, ReadEnds, RemoveShut, RemoveClose, ReleaseConnectionSlot,
                ReleaseSource
  <2>5. CASE UNCHANGED admission
    BY <2>1, <2>5 DEF admission
  <2>6. CASE UNCHANGED vars
    BY <2>6
  <2> QED
    BY <1>1, <2>1, <2>2, <2>3, <2>4, <2>5, <2>6, AdmissionSteps
<1> QED
  BY <1>1, Inductive, PTL DEF Spec, NoPumpAfterDrain

-----------------------------------------------------------------------------
(* Connections implements Streams *)

\* A step of one connection gives that connection its new status.
LEMMA Moves ==
    ASSUME NEW c \in Conn, NEW x, Status(c)' = x,
           \A d \in Conn \ {c} : socket'[d] = socket[d] /\ closed'[d] = closed[d]
    PROVE  Abstract!Becomes(c, x)
<1>1. \A d \in Conn \ {c} : Status(d)' = Status(d)
  BY DEF Status
<1> QED
  BY <1>1 DEF Abstract!Becomes

\* A step that changes no message and no status is no step of Streams.
LEMMA Stutters ==
    ASSUME UNCHANGED <<accepted, delivered>>, \A d \in Conn : Status(d)' = Status(d)
    PROVE  UNCHANGED Abstract!streams
<1>1. [d \in Conn |-> Status(d)]' = [d \in Conn |-> Status(d)]
  OBVIOUS
<1> QED
  BY <1>1 DEF Abstract!streams

\* A queue that takes no more: its stream is shut, or it was shut or broken before.
LEMMA ShutMaps ==
    ASSUME QueueTypes, NEW c \in Conn, UNCHANGED <<accepted, delivered, socket>>,
           closed' = [closed EXCEPT ![c] = TRUE]
    PROVE  Abstract!StreamsNext \/ UNCHANGED Abstract!streams
<1>1. closed'[c] = TRUE /\ \A d \in Conn \ {c} : closed'[d] = closed[d]
  BY DEF QueueTypes
<1>2. CASE socket[c] = "open" /\ ~closed[c]
  <2>1. Status(c) = "open" /\ Status(c)' = "shut"
    BY <1>1, <1>2 DEF Status
  <2>2. Abstract!Becomes(c, "shut")
    BY <1>1, <2>1, Moves
  <2>3. Abstract!Shut(c)
    BY <2>1, <2>2 DEF Abstract!Shut
  <2> QED
    BY <2>3 DEF Abstract!StreamsNext
<1>3. CASE ~(socket[c] = "open" /\ ~closed[c])
  <2>1. \A d \in Conn : Status(d)' = Status(d)
    BY <1>1, <1>3 DEF Status
  <2> QED
    BY <2>1, Stutters
<1> QED
  BY <1>2, <1>3

\* A socket that is closed, if it was open, whatever becomes of the queue:
\* its stream breaks.
LEMMA CloseMaps ==
    ASSUME QueueTypes, WireTypes, NEW c \in Conn, UNCHANGED <<accepted, delivered>>,
           CloseConn(c), \A d \in Conn \ {c} : closed'[d] = closed[d]
    PROVE  Abstract!StreamsNext \/ UNCHANGED Abstract!streams
<1>1. /\ \A d \in Conn \ {c} : socket'[d] = socket[d]
      /\ socket'[c] = IF socket[c] = "open" THEN "closed" ELSE socket[c]
  BY DEF CloseConn, WireTypes
<1>2. CASE socket[c] = "open"
  <2>1. Status(c) \in {"open", "shut"} /\ Status(c)' = "broken"
    BY <1>1, <1>2 DEF Status
  <2>2. Abstract!Becomes(c, "broken")
    BY <1>1, <2>1, Moves
  <2>3. Abstract!Break(c)
    BY <2>1, <2>2 DEF Abstract!Break
  <2> QED
    BY <2>3 DEF Abstract!StreamsNext
<1>3. CASE socket[c] # "open"
  <2>1. \A d \in Conn : Status(d)' = Status(d)
    BY <1>1, <1>3 DEF Status
  <2> QED
    BY <2>1, Stutters
<1> QED
  BY <1>2, <1>3

\* A message is accepted, or it breaks the stream, or nobody takes it.
LEMMA SendMaps ==
    ASSUME QueueTypes, WireTypes, LifeInv, NEW c \in Conn, NEW k \in Size,
           SendEncodedMessage(c, k), UNCHANGED delivered
    PROVE  Abstract!StreamsNext \/ UNCHANGED Abstract!streams
<1>1. CASE closed[c]
  <2>1. UNCHANGED <<accepted, socket, closed>>
    BY <1>1 DEF SendEncodedMessage
  <2>2. \A d \in Conn : Status(d)' = Status(d)
    BY <2>1 DEF Status
  <2> QED
    BY <2>1, <2>2, Stutters
<1>2. CASE ~closed[c] /\ Fits(c, k)
  <2>1. /\ accepted' = [accepted EXCEPT ![c] = @ + 1]
        /\ UNCHANGED <<socket, closed>>
    BY <1>2 DEF SendEncodedMessage
  <2>2. Status(c) \in {"open", "broken"}
    BY <1>2 DEF LifeInv, Status
  <2>3. [d \in Conn |-> Status(d)]' = [d \in Conn |-> Status(d)]
    BY <2>1 DEF Status
  <2>4. Abstract!Accept(c)
    BY <2>1, <2>2, <2>3 DEF Abstract!Accept
  <2> QED
    BY <2>4 DEF Abstract!StreamsNext
<1>3. CASE ~closed[c] /\ ~Fits(c, k)
  <2>1. CloseConn(c) /\ UNCHANGED accepted /\ closed' = [closed EXCEPT ![c] = TRUE]
    BY <1>3 DEF SendEncodedMessage, Shut
  <2>2. \A d \in Conn \ {c} : closed'[d] = closed[d]
    BY <2>1 DEF QueueTypes
  <2> QED
    BY <2>1, <2>2, CloseMaps
<1> QED
  BY <1>1, <1>2, <1>3

\* What the writer puts on the wire is the oldest message not yet delivered.
LEMMA WriteMaps ==
    ASSUME QueueTypes, WireTypes, Ledger, NEW c \in Conn, WriterWrite(c)
    PROVE  Abstract!Deliver(c)
<1>1. writer[c] # Done /\ InHand(writer[c]) = 1 /\ socket[c] = "open"
  BY DEF WriterWrite, Done, InHand
<1>2. accepted[c] = delivered[c] + Len(send[c]) + 1
  BY <1>1 DEF Ledger
<1>3. Len(send[c]) \in Nat /\ accepted[c] \in Nat /\ delivered[c] \in Nat
  BY DEF QueueTypes, WireTypes
<1>4. delivered[c] < accepted[c]
  BY <1>2, <1>3
<1>5. /\ delivered' = [delivered EXCEPT ![c] = @ + 1]
      /\ UNCHANGED <<accepted, socket, closed>>
  BY DEF WriterWrite, queue
<1>6. [d \in Conn |-> Status(d)]' = [d \in Conn |-> Status(d)]
  BY <1>5 DEF Status
<1>7. Status(c) \in {"open", "shut"}
  BY <1>1 DEF Status
<1> QED
  BY <1>4, <1>5, <1>6, <1>7 DEF Abstract!Deliver

\* The close frame comes when everything accepted has been delivered.
LEMMA FinishMaps ==
    ASSUME QueueTypes, WireTypes, Ledger, NEW c \in Conn, WriterClose(c)
    PROVE  Abstract!StreamsNext \/ UNCHANGED Abstract!streams
<1>1. /\ \A d \in Conn \ {c} : socket'[d] = socket[d]
      /\ socket'[c] = IF socket[c] = "open" THEN "finished" ELSE socket[c]
      /\ closed[c] /\ UNCHANGED <<accepted, delivered, closed>>
  BY DEF WriterClose, queue, WireTypes
<1>2. CASE socket[c] = "open"
  <2>1. Idle # Done /\ InHand(Idle) = 0
    BY DEF Idle, Done, InHand
  <2>2. writer[c] = Idle /\ send[c] = <<>>
    BY DEF WriterClose
  <2>3. accepted[c] = delivered[c] + Len(send[c]) + InHand(writer[c])
    BY <2>1, <2>2 DEF Ledger
  <2>4. delivered[c] \in Nat /\ Len(send[c]) = 0
    BY <2>2 DEF WireTypes
  <2>5. delivered[c] = accepted[c]
    BY <2>1, <2>2, <2>3, <2>4
  <2>6. Status(c) = "shut" /\ Status(c)' = "finished"
    BY <1>1, <1>2 DEF Status
  <2>7. Abstract!Becomes(c, "finished")
    BY <1>1, <2>6, Moves
  <2>8. Abstract!Finish(c)
    BY <1>1, <2>5, <2>6, <2>7 DEF Abstract!Finish
  <2> QED
    BY <2>8 DEF Abstract!StreamsNext
<1>3. CASE socket[c] # "open"
  <2>1. \A d \in Conn : Status(d)' = Status(d)
    BY <1>1, <1>3 DEF Status
  <2> QED
    BY <1>1, <2>1, Stutters
<1> QED
  BY <1>2, <1>3

\* A new connection opens a stream where one had ended.
LEMMA OpenMaps ==
    ASSUME QueueTypes, WireTypes, LifeInv, NEW c \in Conn, Upgrade(c)
    PROVE  Abstract!StreamsNext \/ UNCHANGED Abstract!streams
<1>1. CASE UNCHANGED <<queue, wire>>
  <2>1. UNCHANGED <<accepted, delivered, socket, closed>>
    BY <1>1 DEF queue, wire
  <2>2. \A d \in Conn : Status(d)' = Status(d)
    BY <2>1 DEF Status
  <2> QED
    BY <2>1, <2>2, Stutters
<1>2. CASE ~UNCHANGED <<queue, wire>>
  <2>1. /\ socket' = [socket EXCEPT ![c] = "open"]
        /\ closed' = [closed EXCEPT ![c] = FALSE]
        /\ accepted' = [accepted EXCEPT ![c] = 0]
        /\ delivered' = [delivered EXCEPT ![c] = 0]
    BY Zenon, <1>2 DEF Upgrade
  <2>2. /\ \A d \in Conn \ {c} : socket'[d] = socket[d] /\ closed'[d] = closed[d]
        /\ socket'[c] = "open" /\ closed'[c] = FALSE
    BY <2>1 DEF QueueTypes, WireTypes
  <2>3. Status(c) \in {"broken", "finished"}
    BY DEF Upgrade, LifeInv, Status
  <2>4. Status(c)' = "open"
    BY <2>2 DEF Status
  <2>5. Abstract!Becomes(c, "open")
    BY <2>2, <2>4, Moves
  <2>6. Abstract!Open(c)
    BY <2>1, <2>3, <2>5 DEF Abstract!Open
  <2> QED
    BY <2>6 DEF Abstract!StreamsNext
<1> QED
  BY <1>1, <1>2

\* A connection that is refused after the upgrade breaks its stream.
LEMMA RefuseMaps ==
    ASSUME QueueTypes, WireTypes, LifeInv, NEW c \in Conn, BlockClient(c) \/ Register(c)
    PROVE  Abstract!StreamsNext \/ UNCHANGED Abstract!streams
<1>1. UNCHANGED <<accepted, delivered, closed>> /\ socket[c] = "open"
  BY DEF BlockClient, Register, queue, LifeInv
<1>2. socket' = socket \/ socket' = [socket EXCEPT ![c] = "closed"]
  BY Zenon DEF BlockClient, Register
<1>3. CASE socket' = socket
  <2>1. \A d \in Conn : Status(d)' = Status(d)
    BY <1>1, <1>3 DEF Status
  <2> QED
    BY <1>1, <2>1, Stutters
<1>4. CASE socket' = [socket EXCEPT ![c] = "closed"]
  <2>1. CloseConn(c)
    BY <1>1, <1>4 DEF CloseConn, WireTypes
  <2> QED
    BY <1>1, <2>1, CloseMaps
<1> QED
  BY <1>2, <1>3, <1>4

\* Every step is a step of Streams or none.
LEMMA StepMaps ==
    ASSUME QueueTypes, WireTypes, LifeInv, Ledger, Next
    PROVE  Abstract!StreamsNext \/ UNCHANGED Abstract!streams
<1>1. ASSUME NEW c \in Conn, Upgrade(c)
      PROVE  Abstract!StreamsNext \/ UNCHANGED Abstract!streams
  BY <1>1, OpenMaps
<1>2. ASSUME NEW c \in Conn, BlockClient(c)
      PROVE  Abstract!StreamsNext \/ UNCHANGED Abstract!streams
  BY <1>2, RefuseMaps
<1>3. ASSUME NEW c \in Conn, Register(c)
      PROVE  Abstract!StreamsNext \/ UNCHANGED Abstract!streams
  BY <1>3, RefuseMaps
<1>4. ASSUME NEW c \in Conn, ReplaceLiveSession(c)
      PROVE  Abstract!StreamsNext \/ UNCHANGED Abstract!streams
  BY <1>4, ShutMaps DEF ReplaceLiveSession, Shut, wire
<1>5. ASSUME NEW c \in Conn, CloseReplaced(c)
      PROVE  Abstract!StreamsNext \/ UNCHANGED Abstract!streams
  BY <1>5, CloseMaps DEF CloseReplaced, queue
<1>6. ASSUME NEW c \in Conn, WriterWrite(c)
      PROVE  Abstract!StreamsNext \/ UNCHANGED Abstract!streams
  BY <1>6, WriteMaps DEF Abstract!StreamsNext
<1>7. ASSUME NEW c \in Conn, WriterFail(c)
      PROVE  Abstract!StreamsNext \/ UNCHANGED Abstract!streams
  BY <1>7, CloseMaps DEF WriterFail, queue
<1>8. ASSUME NEW c \in Conn, WriterClose(c)
      PROVE  Abstract!StreamsNext \/ UNCHANGED Abstract!streams
  BY <1>8, FinishMaps
<1>9. ASSUME NEW c \in Conn, RemoveShut(c)
      PROVE  Abstract!StreamsNext \/ UNCHANGED Abstract!streams
  BY <1>9, ShutMaps DEF RemoveShut, Shut, wire
<1>10. ASSUME NEW c \in Conn, RemoveClose(c)
      PROVE  Abstract!StreamsNext \/ UNCHANGED Abstract!streams
  BY <1>10, CloseMaps DEF RemoveClose, queue
<1>11. ASSUME NEW c \in Conn, DrainClient(c)
      PROVE  Abstract!StreamsNext \/ UNCHANGED Abstract!streams
  BY <1>11, ShutMaps DEF DrainClient, Shut, wire
<1>12. ASSUME NEW c \in Conn, CloseClient(c)
      PROVE  Abstract!StreamsNext \/ UNCHANGED Abstract!streams
  <2>1. \A d \in Conn \ {c} : closed'[d] = closed[d]
    BY <1>12 DEF CloseClient, Shut, QueueTypes
  <2> QED
    BY <1>12, <2>1, CloseMaps DEF CloseClient
<1>13. ASSUME NEW c \in Conn, NEW k \in Size, SendMessage(c, k)
      PROVE  Abstract!StreamsNext \/ UNCHANGED Abstract!streams
  BY <1>13, SendMaps DEF SendMessage
<1>14. ASSUME NEW c \in Conn, NEW k \in Size, TellRestart(c, k)
      PROVE  Abstract!StreamsNext \/ UNCHANGED Abstract!streams
  <2>1. CASE c \in Capable
    BY <1>14, <2>1, SendMaps DEF TellRestart
  <2>2. CASE c \notin Capable
    <3>1. UNCHANGED <<accepted, delivered, socket, closed>>
      BY <1>14, <2>2 DEF TellRestart, queue
    <3>2. \A d \in Conn : Status(d)' = Status(d)
      BY <3>1 DEF Status
    <3> QED
      BY <3>1, <3>2, Stutters
  <2> QED
    BY <2>1, <2>2
<1>15. ASSUME \/ AnnounceRestart \/ Snapshot \/ LoopEnds \/ PumpsEnded \/ Deadline
              \/ \E c \in Conn :
                    \/ CheckRequest(c) \/ AcquireSource(c)
                    \/ TryAcquireConnectionSlot(c) \/ WriterTake(c) \/ WriterAccount(c)
                    \/ ReadEnds(c) \/ RemoveClient(c) \/ ReleaseConnectionSlot(c)
                    \/ ReleaseSource(c) \/ PumpsDone(c)
      PROVE  UNCHANGED <<accepted, delivered, socket, closed>>
  BY <1>15 DEF CheckRequest, AcquireSource, TryAcquireConnectionSlot, WriterTake,
     WriterAccount, ReadEnds, RemoveClient, ReleaseConnectionSlot, ReleaseSource,
     PumpsDone, AnnounceRestart, Snapshot, LoopEnds, PumpsEnded, Deadline, Enter,
     queue, wire
<1>16. CASE UNCHANGED <<accepted, delivered, socket, closed>>
  <2>1. \A d \in Conn : Status(d)' = Status(d)
    BY <1>16 DEF Status
  <2> QED
    BY <1>16, <2>1, Stutters
<1> QED
  BY Zenon, Steps, <1>1, <1>2, <1>3, <1>4, <1>5, <1>6, <1>7, <1>8, <1>9, <1>10, <1>11,
     <1>12, <1>13, <1>14, <1>15, <1>16

\* The bounded queue, its writer, the read pump and the shutdown implement
\* Streams: what is accepted arrives in order and before the close frame, and
\* only a connection that breaks loses messages.
THEOREM QueueImplementsStreams == Spec => ImplementsStreams
<1>1. ASSUME Init
      PROVE  Abstract!StreamsInit
  <2>1. [c \in Conn |-> Status(c)] = [c \in Conn |-> "broken"]
    BY <1>1 DEF Init, Status
  <2> QED
    BY <1>1, <2>1 DEF Init, Abstract!StreamsInit
<1>2. ASSUME IInv, [Next]_vars
      PROVE  [Abstract!StreamsNext]_(Abstract!streams)
  <2>1. CASE Next
    BY <1>2, <2>1, StepMaps DEF IInv, Types
  <2>2. CASE UNCHANGED vars
    <3>1. UNCHANGED <<accepted, delivered, socket, closed>>
      BY <2>2 DEF vars
    <3>2. \A d \in Conn : Status(d)' = Status(d)
      BY <3>1 DEF Status
    <3> QED
      BY <3>1, <3>2, Stutters
  <2> QED
    BY <1>2, <2>1, <2>2
<1> QED
  BY <1>1, <1>2, Inductive, PTL DEF Spec, ImplementsStreams, Abstract!StreamsSpec
=============================================================================
