---------------------------- MODULE Connections -----------------------------
(***************************************************************************)
(* A connection from the upgrade request to the end of its pumps, and the  *)
(* shutdown that ends them all: handleWebSocket and the limits it keeps,   *)
(* the bounded send queue with its writer, the read pump's last steps,     *)
(* announceRestart and drainClients.                                       *)
(*                                                                         *)
(* Granularity.  One step per critical section (Server.mu, Client.mu) and  *)
(* per operation on a channel or a socket.  What the handlers do with a    *)
(* message is in Membership and Playback; here any goroutine may send to a *)
(* registered connection, or to one that is going, at any time.            *)
(*                                                                         *)
(* Abstractions.  A message is its size.  Control pings and pongs go past  *)
(* the queue and are only seen when writing one fails.  A write ends in    *)
(* success, an error or its deadline.                                      *)
(***************************************************************************)
EXTENDS Naturals, Sequences, FiniteSets, FiniteSetsExt, SequencesExt

CONSTANTS
    Conn,       \* *Client objects with their sockets; one is reused when it is gone
    Source,     \* where connections come from
    MaxClients, MaxConnectionsPerSource,
    SendCapacity,       \* cap(Client.Send)
    MaxQueuedBytes,
    Size,               \* sizes of messages
    Capable,            \* connections with feature server_restarting
    MaxMessages         \* bound: messages accepted on one connection

ASSUME ConnectionsAssumption ==
    /\ IsFiniteSet(Conn)
    /\ MaxClients \in Nat /\ MaxConnectionsPerSource \in Nat
    /\ SendCapacity \in Nat /\ MaxQueuedBytes \in Nat
    /\ Size \subseteq Nat
    /\ Capable \subseteq Conn
    /\ MaxMessages \in Nat

VARIABLES
    pc,         \* where handleWebSocket, and then the read pump, stands
    source,     \* Client.source
    sources,    \* Server.sources
    slots,      \* tokens in Server.connectionSlots
    clients,    \* Server.clients
    pumps,      \* Server.pumps
    send,       \* Client.Send: the sizes of what is queued
    queuedBytes, closed, restart,   \* Client.queuedBytes, closed, closeCode = 1012
    writer,     \* where the write pump stands, and what it has in hand
    socket,     \* "none", "open", "closed", or "finished": closed after a close frame
    accepted, delivered,    \* messages queued and messages written so far
    phase,      \* of the shutdown
    todo,       \* connections the loop of this phase has still to visit
    told        \* connections whose queue took server_restarting

admission == <<pc, source, sources, slots, clients, pumps>>
queue == <<send, queuedBytes, closed, restart, accepted>>
wire == <<writer, socket, delivered>>
shutdown == <<phase, todo, told>>
vars == <<pc, source, sources, slots, clients, pumps, send, queuedBytes, closed, restart,
          writer, socket, accepted, delivered, phase, todo, told>>

-----------------------------------------------------------------------------

\* handleWebSocket: "none", "checked", "counted" (in sources), "slotted",
\* "upgraded", then "refused" on its way out; readPump: "running", "ended",
\* "removed", "shut", "closed".  Both then release: "slotless", and the pump "sourceless".
PC == {"none", "checked", "counted", "slotted", "upgraded", "refused", "slotless",
       "running", "ended", "removed", "shut", "closed", "pumpSlotless", "sourceless"}

HoldsSlot == {"slotted", "upgraded", "refused", "running", "ended", "removed", "shut", "closed"}
HoldsSource == HoldsSlot \cup {"counted", "slotless", "pumpSlotless"}
HoldsPump == {"running", "ended", "removed", "shut", "closed", "pumpSlotless", "sourceless"}

In(set) == {c \in Conn : pc[c] \in set}

Idle == [state |-> "idle", size |-> 0]
Done == [state |-> "done", size |-> 0]

ShuttingDown == phase # "up"

Goto(c, p) == pc' = [pc EXCEPT ![c] = p]

Init ==
    /\ pc = [c \in Conn |-> "none"]
    /\ source \in [Conn -> Source]
    /\ sources = [s \in Source |-> 0]
    /\ slots = 0
    /\ clients = {}
    /\ pumps = 0
    /\ send = [c \in Conn |-> <<>>]
    /\ queuedBytes = [c \in Conn |-> 0]
    /\ closed = [c \in Conn |-> TRUE]
    /\ restart = [c \in Conn |-> FALSE]
    /\ writer = [c \in Conn |-> Done]
    /\ socket = [c \in Conn |-> "none"]
    /\ accepted = [c \in Conn |-> 0]
    /\ delivered = [c \in Conn |-> 0]
    /\ phase = "up"
    /\ todo = {}
    /\ told = {}

-----------------------------------------------------------------------------
(* handleWebSocket *)

\* A request comes in, from any source, and passes the first checks.
CheckRequest(c) ==
    /\ pc[c] = "none" /\ writer[c] = Done
    /\ ~ShuttingDown
    /\ Cardinality(clients) < MaxClients
    /\ Goto(c, "checked")
    /\ \E s \in Source : source' = [source EXCEPT ![c] = s]
    /\ UNCHANGED <<sources, slots, clients, pumps, queue, wire, shutdown>>

AcquireSource(c) ==
    /\ pc[c] = "checked"
    /\ IF sources[source[c]] >= MaxConnectionsPerSource
         THEN Goto(c, "none") /\ UNCHANGED sources
         ELSE /\ Goto(c, "counted")
              /\ sources' = [sources EXCEPT ![source[c]] = @ + 1]
    /\ UNCHANGED <<source, slots, clients, pumps, queue, wire, shutdown>>

TryAcquireConnectionSlot(c) ==
    /\ pc[c] = "counted"
    /\ IF slots >= MaxClients
         THEN Goto(c, "slotless") /\ UNCHANGED slots
         ELSE Goto(c, "slotted") /\ slots' = slots + 1
    /\ UNCHANGED <<source, sources, clients, pumps, queue, wire, shutdown>>

\* The upgrade succeeds, and newClient makes the queue; or it fails.
Upgrade(c) ==
    /\ pc[c] = "slotted"
    /\ \/ /\ Goto(c, "upgraded")
          /\ socket' = [socket EXCEPT ![c] = "open"]
          /\ send' = [send EXCEPT ![c] = <<>>]
          /\ queuedBytes' = [queuedBytes EXCEPT ![c] = 0]
          /\ closed' = [closed EXCEPT ![c] = FALSE]
          /\ restart' = [restart EXCEPT ![c] = FALSE]
          /\ accepted' = [accepted EXCEPT ![c] = 0]
          /\ delivered' = [delivered EXCEPT ![c] = 0]
          /\ UNCHANGED writer
       \/ Goto(c, "refused") /\ UNCHANGED <<queue, wire>>
    /\ UNCHANGED <<source, sources, slots, clients, pumps, shutdown>>

\* A blocked User-Agent is answered on the spot.
BlockClient(c) ==
    /\ pc[c] = "upgraded"
    /\ Goto(c, "refused")
    /\ socket' = [socket EXCEPT ![c] = "closed"]
    /\ UNCHANGED <<source, sources, slots, clients, pumps, queue, writer, delivered, shutdown>>

\* Mutant: the checks are not repeated under the lock.
RegisterUnchecked(c) ==
    /\ pc[c] = "upgraded"
    /\ Goto(c, "running")
    /\ clients' = clients \cup {c}
    /\ pumps' = pumps + 1
    /\ writer' = [writer EXCEPT ![c] = Idle]
    /\ UNCHANGED <<source, sources, slots, queue, socket, delivered, shutdown>>

\* The checks are repeated under Server.mu; then the pumps start.
Register(c) ==
    /\ pc[c] = "upgraded"
    /\ IF Cardinality(clients) >= MaxClients \/ ShuttingDown
         THEN /\ Goto(c, "refused")
              /\ socket' = [socket EXCEPT ![c] = "closed"]
              /\ UNCHANGED <<clients, pumps, writer>>
         ELSE /\ Goto(c, "running")
              /\ clients' = clients \cup {c}
              /\ pumps' = pumps + 1
              /\ writer' = [writer EXCEPT ![c] = Idle]
              /\ UNCHANGED socket
    /\ UNCHANGED <<source, sources, slots, queue, delivered, shutdown>>

-----------------------------------------------------------------------------
(* Sending *)

\* Client.mu: the queue takes no more; code 1012 if b.
Shut(c, b) ==
    /\ closed' = [closed EXCEPT ![c] = TRUE]
    /\ restart' = [restart EXCEPT ![c] = IF closed[c] THEN @ ELSE b]

CloseConn(c) ==
    socket' = [socket EXCEPT ![c] = IF @ = "open" THEN "closed" ELSE @]

\* Mutant: the bytes in the queue do not count.
FitsCount(c, k) == Len(send[c]) < SendCapacity

Fits(c, k) ==
    /\ queuedBytes[c] + k <= MaxQueuedBytes
    /\ Len(send[c]) < SendCapacity

\* A message that fits is queued; one that does not costs the connection.
SendEncodedMessage(c, k) ==
    IF closed[c] THEN UNCHANGED <<send, queuedBytes, accepted, closed, restart, socket>>
    ELSE IF Fits(c, k)
      THEN /\ send' = [send EXCEPT ![c] = Append(@, k)]
           /\ queuedBytes' = [queuedBytes EXCEPT ![c] = @ + k]
           /\ accepted' = [accepted EXCEPT ![c] = @ + 1]
           /\ UNCHANGED <<closed, restart, socket>>
      ELSE /\ Shut(c, FALSE) /\ CloseConn(c)
           /\ UNCHANGED <<send, queuedBytes, accepted>>

\* Some handler sends to a connection that has been registered.
SendMessage(c, k) ==
    /\ pc[c] \in HoldsPump
    /\ ~closed[c]
    /\ accepted[c] < MaxMessages \/ ~Fits(c, k)
    /\ SendEncodedMessage(c, k)
    /\ UNCHANGED <<admission, writer, delivered, shutdown>>

\* replaceLiveSession shuts the queue of the connection it replaces,
ReplaceLiveSession(c) ==
    /\ c \in clients
    /\ ~closed[c]
    /\ Shut(c, FALSE)
    /\ UNCHANGED <<admission, send, queuedBytes, accepted, wire, shutdown>>

\* and then closes its socket, also if something else had shut the queue.
CloseReplaced(c) ==
    /\ pc[c] \in HoldsPump
    /\ closed[c] /\ socket[c] = "open"
    /\ CloseConn(c)
    /\ UNCHANGED <<admission, queue, writer, delivered, shutdown>>

\* The write pump receives from the channel,
WriterTake(c) ==
    /\ writer[c] = Idle
    /\ send[c] # <<>>
    /\ writer' = [writer EXCEPT ![c] = [state |-> "taken", size |-> Head(send[c])]]
    /\ send' = [send EXCEPT ![c] = Tail(@)]
    /\ UNCHANGED <<admission, queuedBytes, closed, restart, accepted, socket, delivered,
                   shutdown>>

\* takes the message off the account under Client.mu,
WriterAccount(c) ==
    /\ writer[c].state = "taken"
    /\ queuedBytes' = [queuedBytes EXCEPT ![c] = @ - writer[c].size]
    /\ writer' = [writer EXCEPT ![c].state = "writing"]
    /\ UNCHANGED <<admission, send, closed, restart, accepted, socket, delivered, shutdown>>

\* and writes it,
WriterWrite(c) ==
    /\ writer[c].state = "writing"
    /\ socket[c] = "open"
    /\ writer' = [writer EXCEPT ![c] = Idle]
    /\ delivered' = [delivered EXCEPT ![c] = @ + 1]
    /\ UNCHANGED <<admission, queue, socket, shutdown>>

\* or fails, at any write, and closes the socket.
WriterFail(c) ==
    /\ writer[c] # Done
    /\ writer' = [writer EXCEPT ![c] = Done]
    /\ CloseConn(c)
    /\ UNCHANGED <<admission, queue, delivered, shutdown>>

\* Mutant: the close frame does not wait for the queue.
WriterCloseEarly(c) ==
    /\ writer[c] = Idle
    /\ closed[c]
    /\ writer' = [writer EXCEPT ![c] = Done]
    /\ socket' = [socket EXCEPT ![c] = IF @ = "open" THEN "finished" ELSE @]
    /\ UNCHANGED <<admission, queue, delivered, shutdown>>

\* Mutant: the write pump returns without closing the socket.
WriterCloseLeaves(c) ==
    /\ writer[c] = Idle
    /\ closed[c] /\ send[c] = <<>>
    /\ writer' = [writer EXCEPT ![c] = Done]
    /\ UNCHANGED <<admission, queue, socket, delivered, shutdown>>

\* The channel is closed and drained: the close frame, with its code, is last.
WriterClose(c) ==
    /\ writer[c] = Idle
    /\ closed[c] /\ send[c] = <<>>
    /\ writer' = [writer EXCEPT ![c] = Done]
    /\ socket' = [socket EXCEPT ![c] = IF @ = "open" THEN "finished" ELSE @]
    /\ UNCHANGED <<admission, queue, delivered, shutdown>>

-----------------------------------------------------------------------------
(* The read pump's end, and the way out of handleWebSocket *)

\* The peer is gone, silent for too long or says too much; or the socket is closed.
ReadEnds(c) ==
    /\ pc[c] = "running"
    /\ Goto(c, "ended")
    /\ UNCHANGED <<source, sources, slots, clients, pumps, queue, wire, shutdown>>

RemoveClient(c) ==
    /\ pc[c] = "ended"
    /\ Goto(c, "removed")
    /\ clients' = clients \ {c}
    /\ UNCHANGED <<source, sources, slots, pumps, queue, wire, shutdown>>

RemoveShut(c) ==
    /\ pc[c] = "removed"
    /\ Goto(c, "shut")
    /\ Shut(c, FALSE)
    /\ UNCHANGED <<source, sources, slots, clients, pumps, send, queuedBytes, accepted, wire,
                   shutdown>>

\* After the disconnect cleanup.
RemoveClose(c) ==
    /\ pc[c] = "shut"
    /\ Goto(c, "closed")
    /\ CloseConn(c)
    /\ UNCHANGED <<source, sources, slots, clients, pumps, queue, writer, delivered, shutdown>>

\* Mutant: the pump forgets its slot.
ReleaseConnectionSlotRefused(c) ==
    /\ pc[c] \in {"refused", "closed"}
    /\ slots > 0
    /\ Goto(c, IF pc[c] = "refused" THEN "slotless" ELSE "pumpSlotless")
    /\ slots' = IF pc[c] = "refused" THEN slots - 1 ELSE slots
    /\ UNCHANGED <<source, sources, clients, pumps, queue, wire, shutdown>>

\* Receives from the channel: it would wait were the channel empty.
ReleaseConnectionSlot(c) ==
    /\ pc[c] \in {"refused", "closed"}
    /\ slots > 0
    /\ Goto(c, IF pc[c] = "refused" THEN "slotless" ELSE "pumpSlotless")
    /\ slots' = slots - 1
    /\ UNCHANGED <<source, sources, clients, pumps, queue, wire, shutdown>>

ReleaseSource(c) ==
    /\ pc[c] \in {"slotless", "pumpSlotless"}
    /\ Goto(c, IF pc[c] = "slotless" THEN "none" ELSE "sourceless")
    /\ sources' = [sources EXCEPT ![source[c]] = IF @ <= 1 THEN 0 ELSE @ - 1]
    /\ UNCHANGED <<source, slots, clients, pumps, queue, wire, shutdown>>

PumpsDone(c) ==
    /\ pc[c] = "sourceless"
    /\ Goto(c, "none")
    /\ pumps' = pumps - 1
    /\ UNCHANGED <<source, sources, slots, clients, queue, wire, shutdown>>

-----------------------------------------------------------------------------
(* Shutdown *)

\* The order of a shutdown.  Each phase with a loop visits a snapshot of the
\* clients: "telling" (announceRestart), "draining" (drainClients), "forcing"
\* (closeAllClients).
Phase == {"up", "announced", "telling", "told", "draining", "waiting", "forcing", "lastWait",
          "save", "saveLate"}

Loop == {"telling", "draining", "forcing"}

Enter(from, to) ==
    /\ phase = from
    /\ phase' = to
    /\ todo' = IF to \in Loop THEN clients ELSE {}
    /\ UNCHANGED <<admission, queue, wire, told>>

AnnounceRestart == Enter("up", "announced")

Snapshot == Enter("announced", "telling") \/ Enter("told", "draining")

TellRestart(c, k) ==
    /\ phase = "telling" /\ c \in todo
    /\ todo' = todo \ {c}
    /\ IF c \in Capable
         THEN /\ SendEncodedMessage(c, k)
              /\ told' = IF accepted'[c] # accepted[c] THEN told \cup {c} ELSE told
         ELSE UNCHANGED <<queue, socket, told>>
    /\ UNCHANGED <<admission, writer, delivered, phase>>

\* closeSendWith(1012): what is queued is still to be written.
DrainClient(c) ==
    /\ phase = "draining" /\ c \in todo
    /\ todo' = todo \ {c}
    /\ Shut(c, TRUE)
    /\ UNCHANGED <<admission, send, queuedBytes, accepted, wire, phase, told>>

CloseClient(c) ==
    /\ phase = "forcing" /\ c \in todo
    /\ todo' = todo \ {c}
    /\ CloseConn(c) /\ Shut(c, FALSE)
    /\ UNCHANGED <<admission, send, queuedBytes, accepted, writer, delivered, phase, told>>

LoopEnds ==
    /\ todo = {}
    /\ \/ Enter("telling", "told")
       \/ Enter("draining", "waiting")
       \/ Enter("forcing", "lastWait")

\* Both waits end when every pump is done, or when their time is up.
PumpsEnded == pumps = 0 /\ (Enter("waiting", "save") \/ Enter("lastWait", "save"))

Deadline == Enter("waiting", "forcing") \/ Enter("lastWait", "saveLate")

-----------------------------------------------------------------------------

Admit(c) ==
    \/ CheckRequest(c) \/ AcquireSource(c) \/ TryAcquireConnectionSlot(c) \/ Upgrade(c)
    \/ BlockClient(c) \/ Register(c)

Busy(c) == writer[c] # Idle \/ send[c] # <<>> \/ closed[c]

Write(c) == WriterTake(c) \/ WriterAccount(c) \/ WriterWrite(c) \/ WriterFail(c) \/ WriterClose(c)

Unwind(c) ==
    \/ RemoveClient(c) \/ RemoveShut(c) \/ RemoveClose(c)
    \/ ReleaseConnectionSlot(c) \/ ReleaseSource(c) \/ PumpsDone(c)

Shutdown ==
    \/ Snapshot \/ LoopEnds \/ PumpsEnded \/ Deadline
    \/ \E c \in Conn : DrainClient(c) \/ CloseClient(c) \/ \E k \in Size : TellRestart(c, k)

Next ==
    \/ AnnounceRestart
    \/ Shutdown
    \/ \E c \in Conn :
          \/ Admit(c) \/ Write(c) \/ ReadEnds(c) \/ Unwind(c)
          \/ ReplaceLiveSession(c) \/ CloseReplaced(c)
          \/ \E k \in Size : SendMessage(c, k)

Spec == Init /\ [][Next]_vars

\* Goroutines that can run do; a read fails once the socket is closed, and a
\* write ends at its deadline at the latest.  Nothing makes peers come or go,
\* handlers send, or the operator stop the server.
FairSpec ==
    /\ Spec
    /\ WF_vars(Shutdown)
    /\ \A c \in Conn :
          /\ WF_vars(AcquireSource(c) \/ TryAcquireConnectionSlot(c) \/ Upgrade(c) \/ Register(c))
          /\ WF_vars(Busy(c) /\ Write(c))
          /\ WF_vars(Unwind(c))
          /\ WF_vars(socket[c] # "open" /\ ReadEnds(c))

-----------------------------------------------------------------------------
(* Properties *)

TypeOK ==
    /\ pc \in [Conn -> PC]
    /\ source \in [Conn -> Source]
    /\ sources \in [Source -> 0..MaxConnectionsPerSource]
    /\ slots \in 0..MaxClients
    /\ clients \subseteq Conn
    /\ pumps \in 0..Cardinality(Conn)
    /\ send \in [Conn -> Seq(Size)]
    /\ queuedBytes \in [Conn -> 0..MaxQueuedBytes]
    /\ closed \in [Conn -> BOOLEAN]
    /\ restart \in [Conn -> BOOLEAN]
    /\ writer \in [Conn -> [state : {"idle", "taken", "writing", "done"}, size : Size \cup {0}]]
    /\ socket \in [Conn -> {"none", "open", "closed", "finished"}]
    /\ accepted \in [Conn -> 0..MaxMessages + 1]
    /\ delivered \in [Conn -> 0..MaxMessages + 1]
    /\ phase \in Phase
    /\ todo \subseteq Conn
    /\ told \subseteq Conn

\* Every slot, every count of a source and every pump belongs to exactly one
\* connection that will give it back, on every way out of handleWebSocket and
\* readPump; so the limits hold and no capacity is lost.
Accounted ==
    /\ slots = Cardinality(In(HoldsSlot))
    /\ \A s \in Source : sources[s] = Cardinality({c \in In(HoldsSource) : source[c] = s})
    /\ pumps = Cardinality(In(HoldsPump))
    /\ clients = In({"running", "ended"})

\* While a writer runs, queuedBytes is what is in the channel and what the
\* writer has received without accounting for it; never more than the limit.
BytesTrue ==
    \A c \in Conn :
       /\ writer[c] # Done =>
             queuedBytes[c] = FoldSeq(+, 0, send[c])
                                + (IF writer[c].state = "taken" THEN writer[c].size ELSE 0)
       /\ queuedBytes[c] <= MaxQueuedBytes

\* A capable client whose connection ends with close code 1012 got
\* server_restarting first: announceRestart reaches every connection that the
\* drain does.
RestartTold ==
    \A c \in Capable : socket[c] = "finished" /\ restart[c] => c \in told

Drained == phase \in {"draining", "waiting", "forcing", "lastWait", "save", "saveLate"}

\* Once the drain has taken its snapshot no pump starts ("so no pump starts
\* after shutdown began draining"), so the wait for the pumps can be trusted.
NoPumpAfterDrain ==
    [][Drained => (pumps' <= pumps) /\ (clients' \subseteq clients)]_vars

\* A connection's queue, socket and writer, as those who send on it see them.
Status(c) ==
    IF socket[c] = "finished" THEN "finished"
    ELSE IF socket[c] # "open" THEN "broken"
    ELSE IF closed[c] THEN "shut" ELSE "open"

Abstract == INSTANCE Streams WITH status <- [c \in Conn |-> Status(c)]

\* The bounded queue and its writer implement streams: everything accepted
\* arrives in order before the close frame, and only a break loses the newest.
ImplementsStreams == Abstract!StreamsSpec

\* A queue that was shut drains, and its connection gives everything back.
ShutEnds ==
    \A c \in Conn : (closed[c] /\ pc[c] = "running") ~> (pc[c] = "none" /\ writer[c] = Done)

\* A shutdown ends, and every connection it met or that was on its way in ends.
ShutdownEnds ==
    /\ (phase # "up") ~> (phase \in {"save", "saveLate"})
    /\ \A c \in Conn : (phase # "up") ~> (pc[c] = "none")
=============================================================================
