------------------------------ MODULE Playback ------------------------------
(***************************************************************************)
(* What the members of one room hear: the room's playback state, the       *)
(* requests that change it or ask for it (playback.go, handlePing), and    *)
(* the order in which its broadcasts and snapshots reach each connection.  *)
(*                                                                         *)
(* Granularity.  A handler that holds Room.syncMu changes the state in one *)
(* critical section of Room.mu and then sends to the connections one by    *)
(* one; until the last is served no other such handler runs, which is the  *)
(* guard Unlocked.  handlePing does not take syncMu: it reads the state in *)
(* one step and sends its sync_state in a later one, with anything between *)
(* except another request of the same connection.                          *)
(*                                                                         *)
(* Abstractions.  Every connection's queue is first in, first out          *)
(* (Connections), so what has been sent to a connection is folded into     *)
(* view, the state its messages add up to.  A message is a function from   *)
(* the fields it carries to their values.  Positions and times are in      *)
(* Timeline, who may sit and host in Membership; volume, the queue's title *)
(* and track metadata other than the ID are left out, so the actions that  *)
(* set them only count a revision.  Payload checks are one refusal.        *)
(***************************************************************************)
EXTENDS Naturals, Sequences, Functions

CONSTANTS
    Client,         \* members, each with the connection it has now
    Track, None,
    UpdateTrack,    \* the clients with the feature update_track
    DesyncCanary,   \* those with desync_canary: their pings carry a state hash
    MaxQueueSize,
    MaxSequence,    \* bound: highest host_sequence
    MaxRevision     \* bound: revisions counted

VARIABLES
    state,          \* Room.State: what is played and queued, and its revision
    clients, away,  \* Room.Clients, Room.DisconnectedUsers
    host,           \* Room.Host, None while the host is away
    lastHostSequence,
    applied,        \* host_sequence of every action applied since host was set
    delivery,       \* what the holder of syncMu has still to send, and to whom
    view,           \* what the messages sent to a connection add up to
    overtaken,      \* connections whose last sync_state came late
    ping,           \* snapshots handlePing has taken and not yet sent
    closed          \* connections whose send side is shut

room == <<state, lastHostSequence, applied>>
members == <<clients, away, host>>
outbox == <<delivery, view, overtaken, closed>>
playbackVars == <<state, clients, away, host, lastHostSequence, applied, delivery,
                  view, overtaken, ping, closed>>

-----------------------------------------------------------------------------
(* Messages *)

Queue == UNION {[1..n -> Track] : n \in 0..MaxQueueSize}

Playing == [track : Track \cup {None}, queue : Queue, playing : BOOLEAN,
            revision : 0..MaxRevision]

NoPlayback == [track |-> None, queue |-> <<>>, playing |-> FALSE, revision |-> 0]

\* A message's fields replace those of the state it is applied to.
Apply(s, m) == [f \in DOMAIN s |-> IF f \in DOMAIN m THEN m[f] ELSE s[f]]

NoDelivery == [to |-> {}, msg |-> NoPlayback]

Unlocked == delivery.to = {}

\* c's read pump is free for the next request: it is not in the middle of a
\* heartbeat, nor, as the host, of a broadcast.
Reading(c) == c \in clients /\ ping[c] = None /\ (c = host => Unlocked)

\* What c is to hear and does.
Heard(c) == [f \in {"track", "queue", "playing"} |-> view[c][f]]
Played == [f \in {"track", "queue", "playing"} |-> state[f]]

-----------------------------------------------------------------------------
(* The queue *)

\* Playing a queued track consumes the queue up to and including it.
AdvanceQueue(queue, t) ==
    LET first == CHOOSE i \in DOMAIN queue : queue[i] = t /\ \A j \in 1..(i - 1) : queue[j] # t
    IN  IF t \in Range(queue) THEN SubSeq(queue, first + 1, Len(queue)) ELSE queue

Without(queue, t) == SelectSeq(queue, LAMBDA x : x # t)

\* Mutant: the limit is not kept.
AddableUnlimited(t) == t # state.track /\ t \notin Range(state.queue)

Addable(t) ==
    /\ Len(state.queue) < MaxQueueSize
    /\ t # state.track
    /\ t \notin Range(state.queue)

-----------------------------------------------------------------------------
(* Playback actions of the host *)

\* Mutant: every sequence is taken.
AcceptAny(c, seq) ==
    /\ Unlocked /\ Reading(c) /\ host = c
    /\ lastHostSequence' = IF seq = 0 THEN lastHostSequence ELSE seq
    /\ UNCHANGED <<members, view, overtaken, closed, ping>>

\* c is the host, has syncMu, and the observation is newer than those before
\* it.  The sequence is recorded before the action is looked at.
Accept(c, seq) ==
    /\ Unlocked /\ Reading(c) /\ host = c
    /\ seq = 0 \/ seq > lastHostSequence
    /\ lastHostSequence' = IF seq = 0 THEN lastHostSequence ELSE seq
    /\ UNCHANGED <<members, view, overtaken, closed, ping>>

\* Message m with the revision of the state it leads to.
Stamped(m) ==
    [f \in DOMAIN m \cup {"revision"} |-> IF f = "revision" THEN state.revision + 1 ELSE m[f]]

\* Mutant: the sender is left out of the broadcast.
BroadcastOthers(m, to) ==
    /\ state.revision < MaxRevision
    /\ state' = [Apply(state, m) EXCEPT !.revision = state.revision + 1]
    /\ delivery' = [to |-> to \ {host}, msg |-> Stamped(m)]

\* The next revision of the state, which differs in the fields of m, goes out
\* to the connections to.
Broadcast(m, to) ==
    /\ state.revision < MaxRevision
    /\ state' = [Apply(state, m) EXCEPT !.revision = state.revision + 1]
    /\ delivery' = [to |-> to, msg |-> Stamped(m)]

Nothing == [f \in {} |-> None]

\* The queues an edit may leave: a track added at the end or to be played next,
\* a track removed, or another queue.
EditedQueues ==
    {Append(state.queue, t) : t \in {t \in Track : Addable(t)}}
    \cup {<<t>> \o state.queue : t \in {t \in Track : Addable(t)}}
    \cup {Without(state.queue, t) : t \in Track}
    \cup Queue

\* The fields an action that passes its checks sets: play, pause, a seek or a
\* volume, change_track with and without a queue of its own, and the edits of
\* the queue.
Effects ==
    (IF state.track = None THEN {} ELSE {[playing |-> TRUE]})
    \cup {[playing |-> FALSE], Nothing}
    \cup {[track |-> t, queue |-> AdvanceQueue(state.queue, t), playing |-> FALSE] :
            t \in Track}
    \cup {[track |-> t, queue |-> q, playing |-> FALSE] : t \in Track, q \in Queue}
    \cup {[queue |-> q] : q \in EditedQueues}

HandlePlaybackAction(c, seq) ==
    /\ Accept(c, seq)
    /\ \/ /\ \E m \in Effects : Broadcast(m, clients)
          /\ applied' = applied \cup ({seq} \ {0})
       \/ /\ state.track # None       \* update_track, for those who know it
          /\ Broadcast(Nothing, clients \cap UpdateTrack)
          /\ applied' = applied \cup ({seq} \ {0})
       \/ /\ seq # 0                  \* refused, or skip_next and skip_prev
          /\ UNCHANGED <<state, delivery, applied>>

-----------------------------------------------------------------------------
(* Delivery *)

\* Message m is queued for c; or c's queue is full and its send side is shut.
Send(c, m) ==
    \/ /\ c \notin closed
       /\ view' = [view EXCEPT ![c] = Apply(@, m)]
       /\ UNCHANGED closed
    \/ /\ closed' = closed \cup {c}
       /\ view' = [view EXCEPT ![c] = NoPlayback]

\* sendMessageToClients goes on to one of the connections left.
Deliver(c) ==
    /\ c \in delivery.to
    /\ Send(c, delivery.msg)
    /\ delivery' = IF delivery.to = {c} THEN NoDelivery
                   ELSE [delivery EXCEPT !.to = @ \ {c}]
    /\ overtaken' = IF "queue" \in DOMAIN delivery.msg /\ "track" \in DOMAIN delivery.msg
                      THEN overtaken \ {c} ELSE overtaken
    /\ UNCHANGED <<room, members, ping>>

\* A guest whose buffer holds the track the room is at is told whether to play.
HandleBufferReady(c) ==
    /\ Unlocked /\ Reading(c)
    /\ state.track # None
    /\ host # c
    /\ Send(c, [playing |-> state.playing, revision |-> state.revision])
    /\ UNCHANGED <<room, members, delivery, overtaken, ping>>

\* allowSyncResponse: not into a closed queue.  (That a connection is answered
\* once a second at most only delays the request that has an effect.)
SyncAllowed(c) == c \notin closed

HandleRequestSync(c) ==
    /\ Unlocked /\ Reading(c)
    /\ SyncAllowed(c)
    /\ Send(c, state)
    /\ overtaken' = overtaken \ {c}
    /\ UNCHANGED <<room, members, delivery, ping>>

\* handlePing finds another state hash than the room's.
HandlePing(c) ==
    /\ c \in DesyncCanary
    /\ Reading(c)
    /\ SyncAllowed(c)
    /\ ping' = [ping EXCEPT ![c] = state]
    /\ UNCHANGED <<room, members, outbox>>

\* It sends what it has read, unless the connection has been replaced since.
PingSend(c) ==
    /\ ping[c] # None
    /\ ping' = [ping EXCEPT ![c] = None]
    /\ Send(c, ping[c])
    /\ overtaken' = IF ping[c].revision < view[c].revision
                      THEN overtaken \cup {c} ELSE overtaken \ {c}
    /\ UNCHANGED <<room, members, delivery>>

CloseSend(c) ==
    /\ c \in clients \ closed
    /\ closed' = closed \cup {c}
    /\ view' = [view EXCEPT ![c] = NoPlayback]
    /\ UNCHANGED <<room, members, delivery, overtaken, ping>>

-----------------------------------------------------------------------------
(* Comings and goings: who may do which is Membership's *)

\* c's connection is seated and sent the state of the room.
Enter(c) ==
    /\ clients' = clients \cup {c}
    /\ view' = [view EXCEPT ![c] = state]
    /\ closed' = closed \ {c}
    /\ overtaken' = overtaken \ {c}
    /\ UNCHANGED <<state, delivery, ping>>

\* c's connection is no longer the room's.
Exit(c) ==
    /\ clients' = clients \ {c}
    /\ view' = [view EXCEPT ![c] = NoPlayback]
    /\ ping' = [ping EXCEPT ![c] = None]
    /\ closed' = closed \ {c}
    /\ overtaken' = overtaken \ {c}
    /\ UNCHANGED <<state, delivery>>

\* assignHostLocked: the new host counts its observations from the start.
AssignHost(h) ==
    /\ host' = h
    /\ lastHostSequence' = 0
    /\ applied' = {}

KeepHost == UNCHANGED <<host, lastHostSequence, applied>>

\* The host lets c in.
HandleApproveJoin(c) ==
    /\ Unlocked
    /\ host # None /\ Reading(host)
    /\ c \notin clients \cup away
    /\ Enter(c)
    /\ KeepHost
    /\ UNCHANGED away

HandleReconnect(c) ==
    /\ Unlocked
    /\ c \in away
    /\ away' = away \ {c}
    /\ Enter(c)
    /\ KeepHost \/ AssignHost(c)

HandleClientDisconnect(c) ==
    /\ Unlocked
    /\ c \in clients
    /\ away' = away \cup {c}
    /\ Exit(c)
    /\ host' = IF host = c THEN None ELSE host
    /\ UNCHANGED <<lastHostSequence, applied>>

\* c leaves, is kicked, or does not return in time; a host has a successor.
Depart(c) ==
    /\ Unlocked
    /\ c \in clients \cup away
    /\ away' = away \ {c}
    /\ Exit(c)
    /\ IF host = c
         THEN \E h \in (clients \ {c}) \cup {None} : AssignHost(h)
         ELSE KeepHost

\* A transfer, or failover to a deputy.
HandOver(c) ==
    /\ Unlocked
    /\ c \in clients \ {host}
    /\ AssignHost(c)
    /\ UNCHANGED <<state, clients, away, outbox, ping>>

\* The queue half of handleApproveSuggestion: track t is to be played next.
QueueSuggested(c, t) ==
    /\ Unlocked /\ Reading(c) /\ host = c
    /\ Addable(t)
    /\ Broadcast([queue |-> <<t>> \o state.queue], clients)
    /\ UNCHANGED <<lastHostSequence, applied, members, view, overtaken, closed, ping>>

-----------------------------------------------------------------------------
(* Specification *)

PlaybackInit ==
    /\ state = NoPlayback
    /\ \E c \in Client : clients = {c} /\ host = c
    /\ away = {}
    /\ lastHostSequence = 0 /\ applied = {}
    /\ delivery = NoDelivery
    /\ view = [c \in Client |-> NoPlayback]
    /\ ping = [c \in Client |-> None]
    /\ overtaken = {} /\ closed = {}

\* Steps that concern neither membership nor suggestions.
PlaybackStep(c) ==
    \/ \E seq \in 0..MaxSequence : HandlePlaybackAction(c, seq)
    \/ Deliver(c)
    \/ HandleBufferReady(c)
    \/ HandleRequestSync(c)
    \/ HandlePing(c)
    \/ PingSend(c)
    \/ CloseSend(c)

PlaybackNext ==
    \E c \in Client :
        \/ PlaybackStep(c)
        \/ HandleApproveJoin(c)
        \/ HandleReconnect(c)
        \/ HandleClientDisconnect(c)
        \/ Depart(c)
        \/ HandOver(c)
        \/ \E t \in Track : QueueSuggested(c, t)

PlaybackSpec == PlaybackInit /\ [][PlaybackNext]_playbackVars

\* Mutant: the queue is not part of the hash.
HashDiffersTrack(c) == c \in clients \ closed /\ view[c].track # state.track

\* The desync canary: c's state hash, over track and queue, is not the room's.
HashDiffers(c) ==
    c \in clients \ closed /\ <<view[c].track, view[c].queue>> # <<state.track, state.queue>>

\* A handler that holds syncMu or has taken a snapshot goes on to send; a client
\* with the canary goes on pinging.
PlaybackFairSpec ==
    /\ PlaybackSpec
    /\ \A c \in Client : /\ WF_playbackVars(Deliver(c))
                         /\ WF_playbackVars(PingSend(c))
                         /\ WF_playbackVars(HashDiffers(c) /\ HandlePing(c))

-----------------------------------------------------------------------------
(* Properties *)

PlaybackTypeOK ==
    /\ state \in Playing
    /\ clients \subseteq Client /\ away \subseteq Client
    /\ host \in Client \cup {None}
    /\ lastHostSequence \in 0..MaxSequence
    /\ applied \subseteq 1..MaxSequence
    /\ delivery.to \subseteq Client
    /\ view \in [Client -> Playing]
    /\ ping \in [Client -> Playing \cup {None}]
    /\ overtaken \subseteq Client /\ closed \subseteq Client

\* Whoever is connected, owed no message and has not been sent a late heartbeat
\* snapshot hears what the room plays: whatever the order of actions, joins,
\* returns, snapshots and hand-overs, no change of the state is kept from a
\* connection and none reaches it twice with another meaning.
InStep ==
    \A c \in clients :
        c \in delivery.to \cup overtaken \cup closed \/ Heard(c) = Played

\* Observations of one host are applied in the order they were made, even if
\* some were refused in between.
SequenceForward ==
    [][\A new \in applied' \ applied : \A old \in applied : old < new]_playbackVars

Strayed(c) ==
    c \in clients \ closed /\ (view[c].track # state.track \/ view[c].queue # state.queue)

\* A client with the canary that was taken back by a late snapshot does not stay
\* there: its track and queue become the room's again.
Repaired ==
    \A c \in DesyncCanary : Strayed(c) ~> ~Strayed(c)

=============================================================================
