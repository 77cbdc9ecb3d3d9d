------------------------- MODULE Suggestions_proofs -------------------------
(***************************************************************************)
(* The invariants of Playback and of Suggestions, for any members, tracks  *)
(* and limits and any number of revisions, sequences and suggestions.      *)
(***************************************************************************)
EXTENDS Suggestions, FiniteSetTheorems, TLAPS

-----------------------------------------------------------------------------
(* Playback                                                                *)

\* The fields of a state, and those a member hears.
Audible == {"track", "queue", "playing"}
Fields == Audible \cup {"revision"}

IsState(s) == DOMAIN s = Fields /\ s["revision"] \in Nat

\* States s and u sound the same.
SameSound(s, u) == \A f \in Audible : s[f] = u[f]

\* What c will have heard once it is served, if it has heard s so far.
Served(c, s) == IF c \in delivery.to THEN Apply(s, delivery.msg) ELSE s

\* Who is in the room.
Members ==
    /\ clients \subseteq Client /\ away \subseteq Client
    /\ clients \cap away = {}
    /\ host = None \/ host \in clients
    /\ delivery.to \subseteq clients
    /\ \A c \in Client : ping[c] # None => c \in clients

\* The shape of what is played, seen and on its way.
Shapes ==
    /\ IsState(state)
    /\ view = [c \in Client |-> view[c]] /\ \A c \in Client : IsState(view[c])
    /\ ping = [c \in Client |-> ping[c]]
    /\ delivery = [to |-> delivery.to, msg |-> delivery.msg]

\* A broadcast names fields of the state, and the queue together with the track
\* only if it names all that is heard.
IsMessage(m) ==
    /\ DOMAIN m \subseteq Audible
    /\ {"track", "queue"} \subseteq DOMAIN m => "playing" \in DOMAIN m

\* A broadcast under way carries the values the state has.
InTransit ==
    delivery.to # {} =>
        LET m == delivery.msg
        IN  /\ DOMAIN m \subseteq Fields /\ "revision" \in DOMAIN m
            /\ {"track", "queue"} \subseteq DOMAIN m => "playing" \in DOMAIN m
            /\ \A f \in DOMAIN m : m[f] = state[f]

\* A snapshot of handlePing is not newer than the state, and sounds like it if it
\* is of the same revision.
SnapshotOld(c) ==
    ping[c] # None =>
        /\ IsState(ping[c])
        /\ ping[c]["revision"] <= state["revision"]
        /\ ping[c]["revision"] = state["revision"] => SameSound(ping[c], state)

\* A connection that is served what it is owed is in step; and so it will be after
\* a snapshot that is not older than what it has seen.
FollowsAt(c) ==
    /\ c \in overtaken \/ SameSound(Served(c, view[c]), state)
    /\ ping[c] # None /\ ping[c]["revision"] >= view[c]["revision"] =>
         SameSound(Served(c, ping[c]), state)

SnapshotsOld == \A c \in Client : SnapshotOld(c)
Follows == \A c \in clients \ closed : FollowsAt(c)

\* No action was applied after one with a higher sequence.
Sequenced ==
    /\ lastHostSequence \in Nat /\ applied \subseteq Nat
    /\ \A seq \in applied : seq <= lastHostSequence

\* The inductive invariant of Playback.
PlaybackInv == Members /\ Shapes /\ InTransit /\ SnapshotsOld /\ Follows /\ Sequenced

-----------------------------------------------------------------------------
(* What messages do.                                                       *)

\* A message replaces the fields it carries.
LEMMA ApplyFields ==
    ASSUME NEW s, NEW m, DOMAIN s = Fields
    PROVE  /\ DOMAIN Apply(s, m) = Fields
           /\ \A f \in Fields : Apply(s, m)[f] = IF f \in DOMAIN m THEN m[f] ELSE s[f]
BY DEF Apply

\* Every effect of an action is a message.
LEMMA EffectsAreMessages == \A m \in Effects : IsMessage(m)
<1> SUFFICES ASSUME NEW m \in Effects PROVE IsMessage(m)
  OBVIOUS
<1>1. \/ m = [playing |-> TRUE] \/ m = [playing |-> FALSE] \/ m = Nothing
      \/ \E t, q : m = [track |-> t, queue |-> q, playing |-> FALSE]
      \/ \E q : m = [queue |-> q]
  BY DEF Effects
<1> QED
  BY <1>1 DEF IsMessage, Audible, Nothing

\* What a broadcast does to the state and sends.
LEMMA BroadcastFields ==
    ASSUME NEW m, NEW to, IsMessage(m), IsState(state), Broadcast(m, to)
    PROVE  /\ IsState(state')
           /\ state'["revision"] = state["revision"] + 1
           /\ \A f \in Audible : state'[f] = IF f \in DOMAIN m THEN m[f] ELSE state[f]
           /\ delivery' = [to |-> to, msg |-> delivery'.msg] /\ delivery'.to = to
           /\ DOMAIN delivery'.msg = DOMAIN m \cup {"revision"}
           /\ \A f \in DOMAIN delivery'.msg : delivery'.msg[f] = state'[f]
<1>1. state' = [Apply(state, m) EXCEPT !["revision"] = state["revision"] + 1]
  BY DEF Broadcast
<1>2. /\ DOMAIN state' = Fields
      /\ \A f \in Fields : state'[f] = IF f = "revision" THEN state["revision"] + 1
                                       ELSE IF f \in DOMAIN m THEN m[f] ELSE state[f]
  BY <1>1, ApplyFields DEF IsState
<1>3. IsState(state') /\ state'["revision"] = state["revision"] + 1
  BY <1>2 DEF IsState, Fields
<1>4. \A f \in Audible : state'[f] = IF f \in DOMAIN m THEN m[f] ELSE state[f]
  BY <1>2 DEF Fields, Audible
<1>5. delivery' = [to |-> to, msg |-> Stamped(m)]
  BY DEF Broadcast
<1>6. /\ DOMAIN Stamped(m) = DOMAIN m \cup {"revision"}
      /\ \A f \in DOMAIN Stamped(m) :
           Stamped(m)[f] = IF f = "revision" THEN state["revision"] + 1 ELSE m[f]
  BY DEF Stamped
<1>7. \A f \in DOMAIN Stamped(m) : Stamped(m)[f] = state'[f]
  BY <1>3, <1>4, <1>6 DEF IsMessage
<1> QED
  BY <1>3, <1>4, <1>5, <1>6, <1>7

-----------------------------------------------------------------------------
(* Every step keeps PlaybackInv.                                           *)

\* An action of the host that is broadcast, to all or with nothing to hear.
LEMMA BroadcastInv ==
    ASSUME PlaybackInv, Unlocked, NEW m, NEW to, IsMessage(m), Broadcast(m, to),
           to \subseteq clients, to = clients \/ DOMAIN m = {}, Sequenced',
           UNCHANGED <<members, view, overtaken, closed, ping>>
    PROVE  PlaybackInv'
<1> USE DEF members
<1>1. /\ Members /\ Shapes /\ SnapshotsOld /\ Follows /\ delivery.to = {}
      /\ IsState(state) /\ \A c \in Client : IsState(view[c])
  BY DEF PlaybackInv, Shapes, Unlocked
<1>2. /\ IsState(state') /\ state'["revision"] = state["revision"] + 1
      /\ \A f \in Audible : state'[f] = IF f \in DOMAIN m THEN m[f] ELSE state[f]
      /\ delivery' = [to |-> to, msg |-> delivery'.msg] /\ delivery'.to = to
      /\ DOMAIN delivery'.msg = DOMAIN m \cup {"revision"}
      /\ \A f \in DOMAIN delivery'.msg : delivery'.msg[f] = state'[f]
  BY <1>1, BroadcastFields
<1>3. Members'
  BY <1>1, <1>2 DEF Members
<1>4. Shapes'
  BY <1>1, <1>2 DEF Shapes
<1>5. InTransit'
  BY <1>2 DEF InTransit, IsMessage, Fields, Audible
<1>6. SnapshotsOld'
  <2> SUFFICES ASSUME NEW c \in Client PROVE SnapshotOld(c)'
    BY DEF SnapshotsOld
  <2>1. SnapshotOld(c)
    BY <1>1 DEF SnapshotsOld
  <2> QED
    BY <1>1, <1>2, <2>1 DEF SnapshotOld, IsState
<1>7. ASSUME NEW c \in clients, NEW s, IsState(s), SameSound(s, state)
      PROVE  SameSound(Served(c, s)', state')
  <2>1. CASE c \in to
    <3>1. Served(c, s)' = Apply(s, delivery'.msg)
      BY <1>2, <2>1 DEF Served, Apply
    <3>2. \A f \in Audible : Apply(s, delivery'.msg)[f] =
            IF f \in DOMAIN delivery'.msg THEN delivery'.msg[f] ELSE s[f]
      BY <1>7 DEF IsState, Fields, Apply
    <3> QED
      BY <1>2, <1>7, <3>1, <3>2 DEF SameSound, Audible
  <2>2. CASE c \notin to
    BY <1>2, <1>7, <2>2 DEF Served, SameSound
  <2> QED
    BY <2>1, <2>2
<1>8. Follows'
  <2> SUFFICES ASSUME NEW c \in clients \ closed PROVE FollowsAt(c)'
    BY DEF Follows
  <2>1. /\ FollowsAt(c) /\ c \in Client /\ IsState(view[c])
        /\ Served(c, view[c]) = view[c] /\ Served(c, ping[c]) = ping[c]
    BY <1>1 DEF Follows, Members, Served
  <2>2. ping[c] # None => IsState(ping[c])
    BY <1>1, <2>1 DEF SnapshotsOld, SnapshotOld
  <2>3. c \in overtaken \/ SameSound(Served(c, view[c])', state')
    BY <1>7, <2>1 DEF FollowsAt
  <2>4. ping[c] # None /\ ping[c]["revision"] >= view[c]["revision"] =>
          SameSound(Served(c, ping[c])', state')
    BY <1>7, <2>1, <2>2 DEF FollowsAt
  <2> QED
    BY <2>3, <2>4 DEF FollowsAt, Served
<1> QED
  BY <1>3, <1>4, <1>5, <1>6, <1>8 DEF PlaybackInv

\* Nothing changes for connection d.
Kept(d) ==
    /\ d \in clients' <=> d \in clients
    /\ d \in closed' <=> d \in closed
    /\ d \in overtaken' <=> d \in overtaken
    /\ d \in delivery'.to <=> d \in delivery.to
    /\ view'[d] = view[d] /\ ping'[d] = ping[d]

\* A step that concerns connection c only keeps PlaybackInv, if c is in step with
\* it afterwards or shut.
LEMMA OneServed ==
    ASSUME PlaybackInv, NEW c \in Client, state' = state, Members', Sequenced',
           \A d \in Client \ {c} : Kept(d),
           delivery' = [to |-> delivery'.to, msg |-> delivery'.msg],
           delivery'.to \subseteq delivery.to,
           delivery'.to # {} => delivery'.msg = delivery.msg,
           view' = [d \in Client |-> view'[d]], IsState(view'[c]),
           ping' = [d \in Client |-> ping'[d]], SnapshotOld(c)',
           c \in clients' /\ c \notin closed' => FollowsAt(c)'
    PROVE  PlaybackInv'
<1>1. Shapes'
  BY DEF PlaybackInv, Shapes, Kept
<1>2. InTransit'
  BY DEF PlaybackInv, InTransit
<1>3. SnapshotsOld'
  <2> SUFFICES ASSUME NEW d \in Client, d # c PROVE SnapshotOld(d)'
    BY DEF SnapshotsOld
  <2> QED
    BY DEF PlaybackInv, SnapshotsOld, SnapshotOld, Kept
<1>4. Follows'
  <2> SUFFICES ASSUME NEW d \in clients', d \notin closed', d # c PROVE FollowsAt(d)'
    BY DEF Follows
  <2>1. d \in Client /\ Kept(d)
    BY DEF Members
  <2>2. FollowsAt(d)
    BY <2>1 DEF PlaybackInv, Follows, Kept
  <2>3. d \in delivery.to => delivery'.msg = delivery.msg
    BY <2>1 DEF Kept
  <2>4. Served(d, view[d])' = Served(d, view[d]) /\ Served(d, ping[d])' = Served(d, ping[d])
    BY <2>1, <2>3 DEF Served, Kept, Apply
  <2> QED
    BY <2>1, <2>2, <2>4 DEF FollowsAt, Kept
<1> QED
  BY <1>1, <1>2, <1>3, <1>4 DEF PlaybackInv

\* What a message that is queued, or finds the queue full, leaves.
LEMMA SendFields ==
    ASSUME Shapes, NEW c \in Client, NEW m, Send(c, m), "revision" \in DOMAIN m,
           m["revision"] \in Nat
    PROVE  /\ view' = [d \in Client |-> view'[d]] /\ IsState(view'[c])
           /\ \A d \in Client \ {c} : view'[d] = view[d] /\ (d \in closed' <=> d \in closed)
           /\ c \notin closed' =>
                /\ c \notin closed
                /\ \A f \in Fields : view'[c][f] = IF f \in DOMAIN m THEN m[f] ELSE view[c][f]
           /\ closed' \subseteq closed \cup {c}
<1>1. IsState(view[c])
  BY DEF Shapes
<1>2. CASE c \notin closed /\ view' = [view EXCEPT ![c] = Apply(view[c], m)] /\ closed' = closed
  <2>1. view'[c] = Apply(view[c], m)
    BY <1>2 DEF Shapes
  <2>2. /\ DOMAIN view'[c] = Fields
        /\ \A f \in Fields : view'[c][f] = IF f \in DOMAIN m THEN m[f] ELSE view[c][f]
    BY <1>1, <2>1, ApplyFields DEF IsState
  <2>3. IsState(view'[c])
    BY <2>2 DEF IsState, Fields
  <2> QED
    BY <1>2, <2>2, <2>3 DEF Shapes
<1>3. CASE closed' = closed \cup {c} /\ view' = [view EXCEPT ![c] = NoPlayback]
  <2>1. IsState(NoPlayback)
    BY DEF NoPlayback, IsState, Fields, Audible
  <2> QED
    BY <1>3, <2>1 DEF Shapes
<1> QED
  BY <1>2, <1>3 DEF Send

\* sendMessageToClients keeps PlaybackInv.
LEMMA DeliverInv ==
    ASSUME PlaybackInv, NEW c \in Client, Deliver(c)
    PROVE  PlaybackInv'
<1> USE DEF room, members
<1>1. /\ c \in delivery.to /\ Send(c, delivery.msg) /\ state' = state /\ ping' = ping
      /\ UNCHANGED <<clients, away, host, lastHostSequence, applied>>
  BY DEF Deliver
<1>2. /\ Members /\ Shapes /\ InTransit /\ SnapshotsOld /\ IsState(state) /\ c \in clients
  BY <1>1 DEF PlaybackInv, Members, Shapes
<1>3. /\ "revision" \in DOMAIN delivery.msg
      /\ {"track", "queue"} \subseteq DOMAIN delivery.msg => "playing" \in DOMAIN delivery.msg
      /\ \A f \in DOMAIN delivery.msg : delivery.msg[f] = state[f]
      /\ DOMAIN delivery.msg \subseteq Fields /\ delivery.msg["revision"] \in Nat
  BY <1>1, <1>2 DEF InTransit, IsState
<1>4. /\ view' = [d \in Client |-> view'[d]] /\ IsState(view'[c])
      /\ \A d \in Client \ {c} : view'[d] = view[d] /\ (d \in closed' <=> d \in closed)
      /\ c \notin closed' =>
           /\ c \notin closed
           /\ \A f \in Fields : view'[c][f] = IF f \in DOMAIN delivery.msg THEN delivery.msg[f]
                                              ELSE view[c][f]
      /\ closed' \subseteq closed \cup {c}
  BY <1>1, <1>2, <1>3, SendFields
<1>5. /\ delivery'.to = delivery.to \ {c}
      /\ delivery' = [to |-> delivery'.to, msg |-> delivery'.msg]
      /\ delivery'.to # {} => delivery'.msg = delivery.msg
  <2>1. CASE delivery.to = {c}
    BY <2>1 DEF Deliver, NoDelivery
  <2>2. CASE delivery.to # {c}
    <3>1. delivery' = [delivery EXCEPT !.to = delivery.to \ {c}]
      BY <2>2 DEF Deliver
    <3> QED
      BY <1>2, <3>1 DEF Shapes
  <2> QED
    BY <2>1, <2>2
<1>6. \A d \in Client \ {c} : Kept(d)
  BY <1>1, <1>4, <1>5 DEF Kept, Deliver
<1>7. Members' /\ Sequenced'
  BY <1>1, <1>2, <1>5 DEF Members, PlaybackInv, Sequenced
<1>8. SnapshotOld(c)'
  BY <1>1, <1>2 DEF SnapshotsOld, SnapshotOld
<1>9. ASSUME c \notin closed' PROVE FollowsAt(c)'
  <2>1. FollowsAt(c) /\ SnapshotOld(c) /\ IsState(view[c])
    BY <1>2, <1>4, <1>9 DEF PlaybackInv, Follows, SnapshotsOld, Shapes
  <2>2. \A f \in Fields : view'[c][f] = IF f \in DOMAIN delivery.msg THEN delivery.msg[f]
                                        ELSE view[c][f]
    BY <1>4, <1>9
  <2>3. \A s : Served(c, s)' = s
    BY <1>5 DEF Served
  <2>4. ASSUME c \notin overtaken PROVE SameSound(view'[c], state)
    <3>1. SameSound(Apply(view[c], delivery.msg), state)
      BY <1>1, <2>1, <2>4 DEF FollowsAt, Served
    <3> QED
      BY <2>1, <2>2, <3>1 DEF SameSound, Fields, IsState, Apply
  <2>5. ASSUME {"track", "queue"} \subseteq DOMAIN delivery.msg PROVE SameSound(view'[c], state)
    BY <1>3, <2>2, <2>5 DEF SameSound, Fields, Audible
  <2>6. c \in overtaken' \/ SameSound(view'[c], state)
    BY <2>4, <2>5 DEF Deliver
  <2>7. ping[c] # None /\ ping[c]["revision"] >= view'[c]["revision"] => SameSound(ping[c], state)
    BY <1>2, <1>3, <2>1, <2>2 DEF SnapshotOld, IsState, Fields
  <2> QED
    BY <1>1, <1>5, <2>6, <2>7 DEF FollowsAt, Served
<1>10. ping' = [d \in Client |-> ping'[d]] /\ delivery'.to \subseteq delivery.to
  BY <1>1, <1>2, <1>5 DEF Shapes
<1> QED
  BY <1>1, <1>4, <1>5, <1>6, <1>7, <1>8, <1>9, <1>10, OneServed

\* A step of c that sends to c only, with no broadcast of its own, keeps
\* PlaybackInv if what c has then seen is in step.
LEMMA SentInv ==
    ASSUME PlaybackInv, NEW c \in clients, state' = state, delivery' = delivery,
           UNCHANGED <<clients, away, host, lastHostSequence, applied>>,
           view' = [d \in Client |-> view'[d]], IsState(view'[c]),
           ping' = [d \in Client |-> ping'[d]], SnapshotOld(c)',
           \A d \in Client \ {c} : /\ view'[d] = view[d] /\ ping'[d] = ping[d]
                                   /\ d \in closed' <=> d \in closed
                                   /\ d \in overtaken' <=> d \in overtaken,
           c \notin closed' => FollowsAt(c)'
    PROVE  PlaybackInv'
<1>1. Members' /\ Sequenced' /\ c \in Client
  BY DEF PlaybackInv, Members, Sequenced
<1>2. \A d \in Client \ {c} : Kept(d)
  BY DEF Kept
<1>3. delivery' = [to |-> delivery'.to, msg |-> delivery'.msg]
  BY DEF PlaybackInv, Shapes
<1> QED
  BY <1>1, <1>2, <1>3, OneServed

\* handleBufferReady keeps PlaybackInv.
LEMMA HandleBufferReadyInv ==
    ASSUME PlaybackInv, NEW c \in Client, HandleBufferReady(c)
    PROVE  PlaybackInv'
<1> DEFINE m == [playing |-> state.playing, revision |-> state.revision]
<1>1. /\ c \in clients /\ delivery.to = {} /\ ping[c] = None /\ Send(c, m)
      /\ state' = state /\ delivery' = delivery /\ ping' = ping /\ overtaken' = overtaken
      /\ UNCHANGED <<clients, away, host, lastHostSequence, applied>>
  BY DEF HandleBufferReady, Unlocked, Reading, room, members
<1>2. /\ Shapes /\ SnapshotsOld /\ IsState(state) /\ IsState(view[c])
  BY DEF PlaybackInv, Shapes
<1>3. /\ DOMAIN m = {"playing", "revision"} /\ m["playing"] = state["playing"]
      /\ m["revision"] = state["revision"] /\ m["revision"] \in Nat
  BY <1>2 DEF IsState
<1> HIDE DEF m
<1>4. /\ view' = [d \in Client |-> view'[d]] /\ IsState(view'[c])
      /\ \A d \in Client \ {c} : view'[d] = view[d] /\ (d \in closed' <=> d \in closed)
      /\ c \notin closed' =>
           /\ c \notin closed
           /\ \A f \in Fields : view'[c][f] = IF f \in DOMAIN m THEN m[f] ELSE view[c][f]
  BY <1>1, <1>2, <1>3, SendFields
<1>5. SnapshotOld(c)' /\ ping' = [d \in Client |-> ping'[d]]
  BY <1>1, <1>2 DEF SnapshotOld, Shapes
<1>6. ASSUME c \notin closed' PROVE FollowsAt(c)'
  <2>1. FollowsAt(c)
    BY <1>1, <1>4, <1>6 DEF PlaybackInv, Follows
  <2>2. c \in overtaken \/ SameSound(view[c], state)
    BY <1>1, <2>1 DEF FollowsAt, Served
  <2>3. c \in overtaken \/ SameSound(view'[c], state)
    BY <1>3, <1>4, <1>6, <2>2 DEF SameSound, Fields, Audible
  <2> QED
    BY <1>1, <2>3 DEF FollowsAt, Served
<1> QED
  BY <1>1, <1>4, <1>5, <1>6, SentInv

\* handleRequestSync keeps PlaybackInv: c has then seen the whole state.
LEMMA HandleRequestSyncInv ==
    ASSUME PlaybackInv, NEW c \in Client, HandleRequestSync(c)
    PROVE  PlaybackInv'
<1>1. /\ c \in clients /\ delivery.to = {} /\ ping[c] = None /\ Send(c, state)
      /\ state' = state /\ delivery' = delivery /\ ping' = ping /\ overtaken' = overtaken \ {c}
      /\ UNCHANGED <<clients, away, host, lastHostSequence, applied>>
  BY DEF HandleRequestSync, Unlocked, Reading, room, members
<1>2. /\ Shapes /\ SnapshotsOld /\ IsState(state) /\ IsState(view[c])
  BY DEF PlaybackInv, Shapes
<1>3. DOMAIN state = Fields /\ "revision" \in DOMAIN state /\ state["revision"] \in Nat
  BY <1>2 DEF IsState, Fields
<1>4. /\ view' = [d \in Client |-> view'[d]] /\ IsState(view'[c])
      /\ \A d \in Client \ {c} : view'[d] = view[d] /\ (d \in closed' <=> d \in closed)
      /\ c \notin closed' =>
           /\ c \notin closed
           /\ \A f \in Fields : view'[c][f] = IF f \in DOMAIN state THEN state[f] ELSE view[c][f]
  BY <1>1, <1>2, <1>3, SendFields
<1>5. SnapshotOld(c)' /\ ping' = [d \in Client |-> ping'[d]]
  BY <1>1, <1>2 DEF SnapshotOld, Shapes
<1>6. ASSUME c \notin closed' PROVE FollowsAt(c)'
  <2>1. SameSound(view'[c], state)
    BY <1>3, <1>4, <1>6 DEF SameSound, Fields
  <2> QED
    BY <1>1, <2>1 DEF FollowsAt, Served
<1> QED
  BY <1>1, <1>4, <1>5, <1>6, SentInv

\* handlePing up to its answer keeps PlaybackInv: a broadcast under way only
\* repeats what the snapshot has.
LEMMA HandlePingInv ==
    ASSUME PlaybackInv, NEW c \in Client, HandlePing(c)
    PROVE  PlaybackInv'
<1>1. /\ c \in clients /\ ping' = [ping EXCEPT ![c] = state]
      /\ UNCHANGED <<state, delivery, view, overtaken, closed>>
      /\ UNCHANGED <<clients, away, host, lastHostSequence, applied>>
  BY DEF HandlePing, Reading, room, members, outbox
<1>2. /\ Shapes /\ SnapshotsOld /\ InTransit /\ IsState(state) /\ IsState(view[c])
  BY DEF PlaybackInv, Shapes
<1>3. /\ ping'[c] = state /\ ping' = [d \in Client |-> ping'[d]]
      /\ \A d \in Client \ {c} : ping'[d] = ping[d]
  BY <1>1, <1>2 DEF Shapes
<1>4. SnapshotOld(c)'
  BY <1>1, <1>2, <1>3 DEF SnapshotOld, SameSound, IsState
<1>5. SameSound(Served(c, state), state)
  <2>1. CASE c \in delivery.to
    BY <1>2, <2>1 DEF Served, InTransit, SameSound, Apply, IsState, Fields
  <2>2. CASE c \notin delivery.to
    BY <2>2 DEF Served, SameSound
  <2> QED
    BY <2>1, <2>2
<1>6. ASSUME c \notin closed' PROVE FollowsAt(c)'
  <2>1. FollowsAt(c)
    BY <1>1, <1>6 DEF PlaybackInv, Follows
  <2>2. Served(c, view[c])' = Served(c, view[c]) /\ Served(c, ping[c])' = Served(c, state)
    BY <1>1, <1>3 DEF Served, Apply
  <2> QED
    BY <1>1, <1>5, <2>1, <2>2 DEF FollowsAt
<1>7. view' = [d \in Client |-> view'[d]] /\ IsState(view'[c])
  BY <1>1, <1>2 DEF Shapes
<1> QED
  BY <1>1, <1>3, <1>4, <1>6, <1>7, SentInv

\* handlePing's answer keeps PlaybackInv: a snapshot that is older than what c has
\* seen leaves c overtaken, any other leaves it in step.
LEMMA PingSendInv ==
    ASSUME PlaybackInv, NEW c \in Client, PingSend(c)
    PROVE  PlaybackInv'
<1> DEFINE p == ping[c]
<1>1. /\ p # None /\ ping' = [ping EXCEPT ![c] = None] /\ Send(c, p)
      /\ state' = state /\ delivery' = delivery
      /\ overtaken' = IF p["revision"] < view[c]["revision"]
                        THEN overtaken \cup {c} ELSE overtaken \ {c}
      /\ UNCHANGED <<clients, away, host, lastHostSequence, applied>>
  BY DEF PingSend, room, members
<1>2. /\ Shapes /\ IsState(view[c]) /\ IsState(p) /\ c \in clients
  BY <1>1 DEF PlaybackInv, Shapes, SnapshotsOld, SnapshotOld, Members
<1>3. DOMAIN p = Fields /\ "revision" \in DOMAIN p /\ p["revision"] \in Nat
      /\ view[c]["revision"] \in Nat
  BY <1>2 DEF IsState, Fields
<1>4. /\ view' = [d \in Client |-> view'[d]] /\ IsState(view'[c])
      /\ \A d \in Client \ {c} : view'[d] = view[d] /\ (d \in closed' <=> d \in closed)
      /\ c \notin closed' =>
           /\ c \notin closed
           /\ \A f \in Fields : view'[c][f] = IF f \in DOMAIN p THEN p[f] ELSE view[c][f]
  BY <1>1, <1>2, <1>3, SendFields
<1>5. /\ ping'[c] = None /\ ping' = [d \in Client |-> ping'[d]]
      /\ \A d \in Client \ {c} : ping'[d] = ping[d]
  BY <1>1, <1>2 DEF Shapes
<1>6. SnapshotOld(c)'
  BY <1>5 DEF SnapshotOld
<1>7. ASSUME c \notin closed' PROVE FollowsAt(c)'
  <2>1. FollowsAt(c)
    BY <1>2, <1>4, <1>7 DEF PlaybackInv, Follows
  <2>2. \A f \in Fields : view'[c][f] = p[f]
    BY <1>3, <1>4, <1>7
  <2>3. SameSound(Served(c, view'[c]), Served(c, p))
    BY <1>2, <1>3, <1>4, <2>2 DEF SameSound, Served, Apply, IsState, Fields
  <2>4. Served(c, view[c])' = Served(c, view'[c])
    BY <1>1 DEF Served, Apply
  <2>5. CASE p["revision"] < view[c]["revision"]
    BY <1>1, <1>5, <2>5 DEF FollowsAt
  <2>6. CASE p["revision"] >= view[c]["revision"]
    <3>1. SameSound(Served(c, p), state)
      BY <1>1, <2>1, <2>6 DEF FollowsAt
    <3>2. SameSound(Served(c, view[c])', state')
      BY <1>1, <2>3, <2>4, <3>1 DEF SameSound
    <3> QED
      BY <1>5, <3>2 DEF FollowsAt
  <2> QED
    BY <1>3, <2>5, <2>6
<1>8. \A d \in Client \ {c} : d \in overtaken' <=> d \in overtaken
  BY <1>1
<1> QED
  BY <1>1, <1>2, <1>4, <1>5, <1>6, <1>7, <1>8, SentInv

\* A connection that is shut keeps PlaybackInv.
LEMMA CloseSendInv ==
    ASSUME PlaybackInv, NEW c \in Client, CloseSend(c)
    PROVE  PlaybackInv'
<1>1. /\ c \in clients /\ closed' = closed \cup {c} /\ view' = [view EXCEPT ![c] = NoPlayback]
      /\ UNCHANGED <<state, delivery, overtaken, ping>>
      /\ UNCHANGED <<clients, away, host, lastHostSequence, applied>>
  BY DEF CloseSend, room, members
<1>2. /\ Shapes /\ SnapshotOld(c)
  BY DEF PlaybackInv, SnapshotsOld
<1>3. IsState(NoPlayback)
  BY DEF NoPlayback, IsState, Fields, Audible
<1>4. /\ view'[c] = NoPlayback /\ view' = [d \in Client |-> view'[d]]
      /\ \A d \in Client \ {c} : view'[d] = view[d]
      /\ ping' = [d \in Client |-> ping'[d]]
  BY <1>1, <1>2 DEF Shapes
<1>5. SnapshotOld(c)'
  BY <1>1, <1>2 DEF SnapshotOld, SameSound
<1> QED
  BY <1>1, <1>3, <1>4, <1>5, SentInv

\* Whoever is seated and sent the state of the room is in step.
LEMMA EnterInv ==
    ASSUME PlaybackInv, NEW c \in Client, c \notin clients, Unlocked, Enter(c),
           Members', Sequenced'
    PROVE  PlaybackInv'
<1>1. /\ clients' = clients \cup {c} /\ view' = [view EXCEPT ![c] = state]
      /\ closed' = closed \ {c} /\ overtaken' = overtaken \ {c}
      /\ UNCHANGED <<state, delivery, ping>>
  BY DEF Enter
<1>2. /\ Shapes /\ SnapshotsOld /\ IsState(state) /\ ping[c] = None /\ delivery.to = {}
  BY DEF PlaybackInv, Shapes, Members, Unlocked
<1>3. /\ view'[c] = state /\ view' = [d \in Client |-> view'[d]]
      /\ \A d \in Client \ {c} : view'[d] = view[d]
      /\ ping' = [d \in Client |-> ping'[d]]
      /\ delivery' = [to |-> delivery'.to, msg |-> delivery'.msg]
  BY <1>1, <1>2 DEF Shapes
<1>4. \A d \in Client \ {c} : Kept(d)
  BY <1>1, <1>3 DEF Kept
<1>5. SnapshotOld(c)' /\ FollowsAt(c)'
  BY <1>1, <1>2, <1>3 DEF SnapshotOld, FollowsAt, Served, SameSound
<1> QED
  BY <1>1, <1>2, <1>3, <1>4, <1>5, OneServed

\* A connection that is no longer the room's is owed nothing.
LEMMA ExitInv ==
    ASSUME PlaybackInv, NEW c \in Client, Unlocked, Exit(c), Members', Sequenced'
    PROVE  PlaybackInv'
<1>1. /\ clients' = clients \ {c} /\ view' = [view EXCEPT ![c] = NoPlayback]
      /\ ping' = [ping EXCEPT ![c] = None]
      /\ closed' = closed \ {c} /\ overtaken' = overtaken \ {c}
      /\ UNCHANGED <<state, delivery>>
  BY DEF Exit
<1>2. Shapes
  BY DEF PlaybackInv
<1>3. IsState(NoPlayback)
  BY DEF NoPlayback, IsState, Fields, Audible
<1>4. /\ view'[c] = NoPlayback /\ view' = [d \in Client |-> view'[d]]
      /\ ping'[c] = None /\ ping' = [d \in Client |-> ping'[d]]
      /\ \A d \in Client \ {c} : view'[d] = view[d] /\ ping'[d] = ping[d]
      /\ delivery' = [to |-> delivery'.to, msg |-> delivery'.msg]
  BY <1>1, <1>2 DEF Shapes
<1>5. \A d \in Client \ {c} : Kept(d)
  BY <1>1, <1>4 DEF Kept
<1>6. SnapshotOld(c)'
  BY <1>4 DEF SnapshotOld
<1> QED
  BY <1>1, <1>3, <1>4, <1>5, <1>6, OneServed

\* Joins, returns, losses, departures and hand-overs keep PlaybackInv.
LEMMA ComingsAndGoingsInv ==
    ASSUME PlaybackInv, NEW c \in Client,
           \/ HandleApproveJoin(c) \/ HandleReconnect(c) \/ HandleClientDisconnect(c)
           \/ Depart(c) \/ HandOver(c)
    PROVE  PlaybackInv'
<1>1. Members /\ Sequenced /\ Shapes
  BY DEF PlaybackInv
<1>2. ASSUME KeepHost \/ \E h : AssignHost(h) PROVE Sequenced'
  <2>1. CASE KeepHost
    BY <1>1, <2>1 DEF KeepHost, Sequenced
  <2>2. CASE \E h : AssignHost(h)
    <3>1. lastHostSequence' = 0 /\ applied' = {}
      BY <2>2 DEF AssignHost
    <3> QED
      BY <3>1 DEF Sequenced
  <2> QED
    BY <1>2, <2>1, <2>2
<1>3. CASE HandleApproveJoin(c)
  <2>1. /\ Unlocked /\ c \notin clients \cup away /\ Enter(c) /\ KeepHost /\ away' = away
    BY <1>3 DEF HandleApproveJoin
  <2>2. Members'
    BY <1>1, <2>1 DEF Members, Enter, KeepHost, Unlocked
  <2> QED
    BY <1>2, <2>1, <2>2, EnterInv
<1>4. CASE HandleReconnect(c)
  <2>1. /\ Unlocked /\ c \in away /\ away' = away \ {c} /\ Enter(c)
        /\ KeepHost \/ AssignHost(c)
    BY <1>4 DEF HandleReconnect
  <2>2. c \notin clients
    BY <1>1, <2>1 DEF Members
  <2>3. Members'
    BY <1>1, <2>1 DEF Members, Enter, KeepHost, AssignHost, Unlocked
  <2> QED
    BY <1>2, <2>1, <2>2, <2>3, EnterInv
<1>5. ASSUME NEW d \in Client, Exit(c), d # c PROVE ping'[d] = ping[d]
  BY <1>1, <1>5 DEF Shapes, Exit
<1>6. CASE HandleClientDisconnect(c)
  <2>1. /\ Unlocked /\ c \in clients /\ away' = away \cup {c} /\ Exit(c)
        /\ host' = IF host = c THEN None ELSE host
        /\ UNCHANGED <<lastHostSequence, applied>>
    BY <1>6 DEF HandleClientDisconnect
  <2>2. \A d \in Client : ping'[d] # None => d \in clients'
    BY <1>1, <1>5, <2>1 DEF Members, Exit, Shapes
  <2>3. Members'
    BY <1>1, <2>1, <2>2 DEF Members, Exit, Unlocked
  <2>4. Sequenced'
    BY <1>1, <2>1 DEF Sequenced
  <2> QED
    BY <2>1, <2>3, <2>4, ExitInv
<1>7. CASE Depart(c)
  <2>1. /\ Unlocked /\ c \in clients \cup away /\ away' = away \ {c} /\ Exit(c)
        /\ IF host = c THEN \E h \in (clients \ {c}) \cup {None} : AssignHost(h) ELSE KeepHost
    BY <1>7 DEF Depart
  <2>2. \A d \in Client : ping'[d] # None => d \in clients'
    BY <1>1, <1>5, <2>1 DEF Members, Exit, Shapes
  <2>3. host' = None \/ host' \in clients'
    BY <1>1, <2>1 DEF Members, Exit, AssignHost, KeepHost
  <2>4. Members'
    BY <1>1, <2>1, <2>2, <2>3 DEF Members, Exit, Unlocked
  <2>5. Sequenced'
    BY <1>2, <2>1
  <2> QED
    BY <2>1, <2>4, <2>5, ExitInv
<1>8. CASE HandOver(c)
  <2>1. /\ c \in clients /\ AssignHost(c) /\ state' = state
        /\ UNCHANGED <<clients, away, delivery, view, overtaken, closed, ping>>
    BY <1>8 DEF HandOver, outbox
  <2>2. Members' /\ Sequenced'
    BY <1>1, <1>2, <2>1 DEF Members, AssignHost
  <2>3. \A d \in Client : Kept(d)
    BY <2>1 DEF Kept
  <2>4. /\ view' = [d \in Client |-> view'[d]] /\ ping' = [d \in Client |-> ping'[d]]
        /\ delivery' = [to |-> delivery'.to, msg |-> delivery'.msg] /\ IsState(view'[c])
    BY <1>1, <2>1 DEF Shapes
  <2>5. SnapshotOld(c)'
    BY <2>1 DEF PlaybackInv, SnapshotsOld, SnapshotOld, SameSound
  <2>6. c \notin closed => FollowsAt(c)'
    BY <2>1 DEF PlaybackInv, Follows, FollowsAt, Served, SameSound, Apply
  <2> QED
    BY <2>1, <2>2, <2>3, <2>4, <2>5, <2>6, OneServed
<1> QED
  BY <1>3, <1>4, <1>6, <1>7, <1>8

\* The host's actions keep PlaybackInv.
LEMMA HandlePlaybackActionInv ==
    ASSUME PlaybackInv, NEW c \in Client, NEW seq \in 0..MaxSequence,
           HandlePlaybackAction(c, seq)
    PROVE  PlaybackInv'
<1>1. /\ Unlocked /\ seq \in Nat /\ (seq = 0 \/ seq > lastHostSequence)
      /\ lastHostSequence' = IF seq = 0 THEN lastHostSequence ELSE seq
      /\ UNCHANGED <<members, view, overtaken, closed, ping>>
      /\ applied' \subseteq applied \cup ({seq} \ {0})
  BY DEF HandlePlaybackAction, Accept, members
<1>2. Sequenced'
  <2>1. lastHostSequence \in Nat /\ applied \subseteq Nat /\ \A q \in applied : q <= lastHostSequence
    BY DEF PlaybackInv, Sequenced
  <2>2. lastHostSequence' \in Nat /\ lastHostSequence <= lastHostSequence'
    BY <1>1, <2>1
  <2>3. \A q \in applied' : q \in applied \/ (q = seq /\ seq # 0)
    BY <1>1
  <2>4. ASSUME NEW q \in applied' PROVE q \in Nat /\ q <= lastHostSequence'
    BY <1>1, <2>1, <2>2, <2>3
  <2> QED
    BY <2>2, <2>4 DEF Sequenced
<1>3. ASSUME NEW m \in Effects, Broadcast(m, clients) PROVE PlaybackInv'
  BY <1>1, <1>2, <1>3, EffectsAreMessages, BroadcastInv
<1>4. CASE Broadcast(Nothing, clients \cap UpdateTrack)
  <2>1. IsMessage(Nothing) /\ DOMAIN Nothing = {}
    BY DEF IsMessage, Nothing
  <2> QED
    BY <1>1, <1>2, <1>4, <2>1, BroadcastInv
<1>5. CASE UNCHANGED <<state, delivery, applied>>
  <2>1. Members' /\ Shapes' /\ InTransit'
    BY <1>1, <1>5 DEF members, PlaybackInv, Members, Shapes, InTransit
  <2>2. SnapshotsOld'
    BY <1>1, <1>5 DEF members, PlaybackInv, SnapshotsOld, SnapshotOld, SameSound
  <2>3. Follows'
    BY <1>1, <1>5 DEF members, PlaybackInv, Follows, FollowsAt, Served, SameSound, Apply
  <2> QED
    BY <1>2, <2>1, <2>2, <2>3 DEF PlaybackInv
<1> QED
  BY <1>3, <1>4, <1>5 DEF HandlePlaybackAction

\* So does a suggestion that enters the queue.
LEMMA QueueSuggestedInv ==
    ASSUME PlaybackInv, NEW c \in Client, NEW t, QueueSuggested(c, t)
    PROVE  PlaybackInv'
<1> DEFINE m == [queue |-> <<t>> \o state.queue]
<1>1. /\ Unlocked /\ Broadcast(m, clients)
      /\ UNCHANGED <<lastHostSequence, applied, members, view, overtaken, closed, ping>>
  BY DEF QueueSuggested, members
<1>2. IsMessage(m)
  BY DEF IsMessage, Audible
<1>3. Sequenced'
  BY <1>1 DEF PlaybackInv, Sequenced
<1> HIDE DEF m
<1> QED
  BY <1>1, <1>2, <1>3, BroadcastInv

\* A room is created with one member, who hosts it and has seen that nothing plays.
LEMMA PlaybackInitInv == PlaybackInit => PlaybackInv
<1> SUFFICES ASSUME PlaybackInit PROVE PlaybackInv
  OBVIOUS
<1> USE DEF PlaybackInit
<1>1. IsState(NoPlayback)
  BY DEF NoPlayback, IsState, Fields, Audible
<1>2. delivery = NoDelivery /\ delivery.to = {}
  BY DEF NoDelivery
<1>3. Members
  BY <1>2 DEF Members
<1>4. Shapes
  BY <1>1, <1>2 DEF Shapes, NoDelivery
<1>5. InTransit /\ SnapshotsOld
  BY <1>2 DEF InTransit, SnapshotsOld, SnapshotOld
<1>6. Follows
  BY <1>2 DEF Follows, FollowsAt, Served, SameSound
<1>7. Sequenced
  BY DEF Sequenced
<1> QED
  BY <1>3, <1>4, <1>5, <1>6, <1>7 DEF PlaybackInv

\* Every step keeps PlaybackInv.
LEMMA PlaybackNextInv == PlaybackInv /\ [PlaybackNext]_playbackVars => PlaybackInv'
<1> SUFFICES ASSUME PlaybackInv, [PlaybackNext]_playbackVars PROVE PlaybackInv'
  OBVIOUS
<1>1. CASE UNCHANGED playbackVars
  <2>1. UNCHANGED <<state, lastHostSequence, applied, delivery, view, overtaken, closed, ping>>
        /\ UNCHANGED <<host, clients, away>>
    BY <1>1 DEF playbackVars
  <2>2. Members' /\ Shapes' /\ InTransit'
    BY <2>1 DEF PlaybackInv, Members, Shapes, InTransit
  <2>3. SnapshotsOld' /\ Sequenced'
    BY <2>1 DEF PlaybackInv, SnapshotsOld, SnapshotOld, SameSound, Sequenced
  <2>4. Follows'
    BY <2>1 DEF PlaybackInv, Follows, FollowsAt, Served, SameSound, Apply
  <2> QED
    BY <2>2, <2>3, <2>4 DEF PlaybackInv
<1>2. ASSUME NEW c \in Client, PlaybackStep(c) PROVE PlaybackInv'
  BY <1>2, HandlePlaybackActionInv, DeliverInv, HandleBufferReadyInv, HandleRequestSyncInv,
     HandlePingInv, PingSendInv, CloseSendInv DEF PlaybackStep
<1> QED
  BY <1>1, <1>2, ComingsAndGoingsInv, QueueSuggestedInv DEF PlaybackNext

\* PlaybackInv is an invariant.
LEMMA PlaybackInductive == PlaybackSpec => []PlaybackInv
BY PlaybackInitInv, PlaybackNextInv, PTL DEF PlaybackSpec

\* Whoever is connected, owed no message and not taken back by a late heartbeat
\* snapshot hears what the room plays (syncMu, sendMessageToClients, handlePing).
THEOREM MembersInStep == PlaybackSpec => []InStep
<1>1. PlaybackInv => InStep
  <2> SUFFICES ASSUME PlaybackInv, NEW c \in clients, c \notin delivery.to, c \notin overtaken,
                      c \notin closed
               PROVE  Heard(c) = Played
    BY DEF InStep
  <2>1. SameSound(view[c], state)
    BY DEF PlaybackInv, Follows, FollowsAt, Served
  <2> QED
    BY <2>1 DEF SameSound, Audible, Heard, Played
<1> QED
  BY <1>1, PlaybackInductive, PTL

\* Observations of one host are applied in the order they were made
\* (handlePlaybackAction's host_sequence).
THEOREM AppliedInOrder == PlaybackSpec => SequenceForward
<1>1. PlaybackInv /\ [PlaybackNext]_playbackVars =>
        [\A new \in applied' \ applied : \A old \in applied : old < new]_playbackVars
  <2> SUFFICES ASSUME PlaybackInv, PlaybackNext, NEW new \in applied' \ applied,
                      NEW old \in applied
               PROVE  old < new
    OBVIOUS
  <2>1. PICK c \in Client, seq \in 0..MaxSequence : HandlePlaybackAction(c, seq)
    BY DEF PlaybackNext, PlaybackStep, Deliver, HandleBufferReady, HandleRequestSync, HandlePing,
       PingSend, CloseSend, HandleApproveJoin, HandleReconnect, HandleClientDisconnect, Depart,
       HandOver, QueueSuggested, KeepHost, AssignHost, room
  <2>2. new = seq /\ seq # 0 /\ seq > lastHostSequence
    BY <2>1 DEF HandlePlaybackAction, Accept
  <2>3. old \in Nat /\ lastHostSequence \in Nat /\ old <= lastHostSequence
    BY DEF PlaybackInv, Sequenced
  <2> QED
    BY <2>2, <2>3
<1> QED
  BY <1>1, PlaybackInductive, PTL DEF PlaybackSpec, SequenceForward

-----------------------------------------------------------------------------
(* Suggestions: one outcome for each                                       *)

\* Outcomes on their way.
Outcomes == {m \in inHand : m.kind = "outcome"}

\* Where suggestion id, or its outcome, may be.
IsPending(id) == \E s \in suggestions : s.id = id
IsInHand(id) == \E m \in Outcomes : m.id = id
IsNoticed(id) == \E c \in Client : id \in notices[c]
IsDropped(id) == id \in dropped

Typed ==
    /\ issued \in Nat /\ issued <= MaxSuggestions
    /\ told \in [ID -> Nat]
    /\ notices = [c \in Client |-> notices[c]]
    /\ \A m \in inHand : m.kind \in {"notify", "outcome"}
    /\ \A s \in suggestions : s.track \in Track

\* No two suggestions, and no two outcomes of the same kind, share an ID.
Unique ==
    /\ \A s, u \in suggestions : s.id = u.id => s = u
    /\ \A m, n \in Outcomes : m.id = n.id => m = n
    /\ \A c, d \in Client : \A id \in notices[c] : id \in notices[d] => c = d

\* Only a suggestion that was made is anywhere, or told.
Ranges ==
    /\ \A id : IsPending(id) \/ IsInHand(id) \/ IsNoticed(id) \/ IsDropped(id) => id \in 1..issued
    /\ \A id \in ID : told[id] # 0 => id \in 1..issued

\* Suggestion id is in one place only, and nowhere once it was told.
OnePlaceAt(id) ==
    \/ /\ told[id] = 0 /\ IsPending(id)
       /\ ~IsInHand(id) /\ ~IsNoticed(id) /\ ~IsDropped(id)
    \/ /\ told[id] = 0 /\ IsInHand(id)
       /\ ~IsPending(id) /\ ~IsNoticed(id) /\ ~IsDropped(id)
    \/ /\ told[id] = 0 /\ IsNoticed(id)
       /\ ~IsPending(id) /\ ~IsInHand(id) /\ ~IsDropped(id)
    \/ /\ told[id] = 0 /\ IsDropped(id)
       /\ ~IsPending(id) /\ ~IsInHand(id) /\ ~IsNoticed(id)
    \/ /\ told[id] = 1
       /\ ~IsPending(id) /\ ~IsInHand(id) /\ ~IsNoticed(id) /\ ~IsDropped(id)

OnePlace == \A id \in 1..issued : OnePlaceAt(id)

Ledger == Typed /\ Unique /\ Ranges /\ OnePlace

\* The step leaves suggestion id where it is.
Unmoved(id) ==
    /\ id \in ID => told'[id] = told[id]
    /\ IsPending(id)' <=> IsPending(id)
    /\ IsInHand(id)' <=> IsInHand(id)
    /\ IsNoticed(id)' <=> IsNoticed(id)
    /\ IsDropped(id)' <=> IsDropped(id)

\* It is enough to follow the suggestions that a step moves.
LEMMA Moves ==
    ASSUME NEW M, Ledger, Typed', Unique', issued <= issued',
           \A id : id \in M \/ Unmoved(id),
           \A id \in M : id \in 1..issued' /\ OnePlaceAt(id)',
           1..issued' \subseteq 1..issued \cup M
    PROVE  Ledger'
<1>1. 1..issued \subseteq 1..issued' /\ 1..issued \subseteq ID /\ 1..issued' \subseteq ID
  BY SuggestionsAssumption DEF Ledger, Typed, ID
<1>2. ASSUME NEW id, id \notin M,
             IsPending(id)' \/ IsInHand(id)' \/ IsNoticed(id)' \/ IsDropped(id)'
      PROVE  id \in 1..issued'
  BY Zenon, <1>1, <1>2 DEF Unmoved, Ledger, Ranges
<1>3. ASSUME NEW id \in ID, id \notin M, told'[id] # 0 PROVE id \in 1..issued'
  BY Zenon, <1>1, <1>3 DEF Unmoved, Ledger, Ranges
<1>4. Ranges'
  BY Zenon, <1>2, <1>3 DEF Ranges
<1>5. ASSUME NEW id \in 1..issued', id \notin M PROVE OnePlaceAt(id)'
  <2>1. id \in ID /\ OnePlaceAt(id) /\ Unmoved(id)
    BY Zenon, <1>1, <1>5 DEF Ledger, OnePlace
  <2> QED
    BY Zenon, <2>1 DEF OnePlaceAt, Unmoved
<1>6. OnePlace'
  BY Zenon, <1>5 DEF OnePlace
<1> QED
  BY Zenon, <1>4, <1>6 DEF Ledger

\* A step that moves one of them.
LEMMA MovesOne ==
    ASSUME Ledger, Typed', Unique', issued' = issued, NEW id \in 1..issued,
           \A k : k = id \/ Unmoved(k), OnePlaceAt(id)'
    PROVE  Ledger'
<1> SUFFICES ASSUME NEW M, M = {id} PROVE Ledger'
  BY Zenon
<1>1. issued <= issued'
  BY DEF Ledger, Typed
<1>2. \A k : k \in M \/ Unmoved(k)
  BY Zenon
<1>3. \A k \in M : k \in 1..issued' /\ OnePlaceAt(k)'
  BY Zenon
<1>4. 1..issued' \subseteq 1..issued \cup M
  BY Zenon
<1> QED
  BY Zenon, <1>1, <1>2, <1>3, <1>4, Moves

\* A suggestion gets the next ID.
LEMMA SuggestLedger ==
    ASSUME Ledger, NEW c \in Client, NEW t \in Track, HandleSuggestTrack(c, t)
    PROVE  Ledger'
<1>0. PICK id : id = issued + 1
  OBVIOUS
<1> DEFINE s == [id |-> id, from |-> c, track |-> t]
<1>1. /\ issued' = id /\ id \in ID /\ id \notin 1..issued /\ issued <= issued'
      /\ 1..issued' \subseteq 1..issued \cup {id} /\ id \in 1..issued'
      /\ issued' \in Nat /\ issued' <= MaxSuggestions
  BY <1>0, SuggestionsAssumption DEF HandleSuggestTrack, Ledger, Typed, ID
<1>2. /\ suggestions' = suggestions \cup {s} /\ s.id = id /\ s.track \in Track
      /\ UNCHANGED <<notices, told, dropped>>
  BY <1>0 DEF HandleSuggestTrack
<1>3. Outcomes' = Outcomes
  BY DEF HandleSuggestTrack, Outcomes
<1> HIDE DEF s
<1>4. \A k : IsPending(k)' <=> IsPending(k) \/ k = id
  BY Zenon, <1>2 DEF IsPending
<1>5. \A k : /\ IsInHand(k)' <=> IsInHand(k)
             /\ IsNoticed(k)' <=> IsNoticed(k)
             /\ IsDropped(k)' <=> IsDropped(k)
  BY Zenon, <1>2, <1>3 DEF IsInHand, IsNoticed, IsDropped
<1>6. \A k : k \in {id} \/ Unmoved(k)
  BY Zenon, <1>2, <1>4, <1>5 DEF Unmoved
<1>7. ~IsPending(id) /\ ~IsInHand(id) /\ ~IsNoticed(id) /\ ~IsDropped(id) /\ told[id] = 0
  BY Zenon, <1>1 DEF Ledger, Ranges
<1>8. OnePlaceAt(id)'
  BY Zenon, <1>2, <1>4, <1>5, <1>7 DEF OnePlaceAt
<1>9. Typed'
  <2>1. \A m \in inHand' : m \in inHand \/ m.kind = "notify"
    BY DEF HandleSuggestTrack
  <2> QED
    BY Zenon, <1>1, <1>2, <2>1 DEF Ledger, Typed
<1>10. Unique'
  <2>1. \A u \in suggestions : u.id # id
    BY Zenon, <1>7 DEF IsPending
  <2>2. \A u, v \in suggestions' : u.id = v.id => u = v
    BY Zenon, <1>2, <2>1 DEF Ledger, Unique
  <2> QED
    BY Zenon, <1>2, <1>3, <2>2 DEF Ledger, Unique
<1> QED
  <2>1. \A k \in {id} : k \in 1..issued' /\ OnePlaceAt(k)'
    BY Zenon, <1>1, <1>8
  <2> QED
    BY Zenon, <1>1, <1>6, <1>9, <1>10, <2>1, Moves

\* An answered suggestion is told, on its way, kept as a notice or dropped.
LEMMA AnswerLedger ==
    ASSUME Ledger, NEW s \in suggestions, suggestions' = suggestions \ {s}, issued' = issued,
           s.from \in Client,
           \/ told' = [told EXCEPT ![s.id] = @ + 1] /\ UNCHANGED <<inHand, notices, dropped>>
           \/ dropped' = dropped \cup {s.id} /\ UNCHANGED <<told, inHand, notices>>
           \/ /\ notices' = [notices EXCEPT ![s.from] = @ \cup {s.id}]
              /\ UNCHANGED <<told, inHand, dropped>>
           \/ /\ inHand' = inHand \cup {[kind |-> "outcome", to |-> s.from, id |-> s.id]}
              /\ UNCHANGED <<told, notices, dropped>>
    PROVE  Ledger'
<1> DEFINE id == s.id
           m == [kind |-> "outcome", to |-> s.from, id |-> id]
<1>1. id \in 1..issued /\ IsPending(id)
  BY Zenon DEF Ledger, Ranges, IsPending
<1>2. id \in ID /\ issued \in Nat /\ issued <= issued'
  BY <1>1, SuggestionsAssumption DEF Ledger, Typed, ID
<1>3. told[id] = 0 /\ ~IsInHand(id) /\ ~IsNoticed(id) /\ ~IsDropped(id)
  BY Zenon, <1>1 DEF Ledger, OnePlace, OnePlaceAt
<1>4. \A k : IsPending(k)' <=> IsPending(k) /\ k # id
  BY Zenon DEF IsPending, Ledger, Unique
<1>5. \A u, v \in suggestions' : u.id = v.id => u = v
  BY Zenon DEF Ledger, Unique
<1>7. SUFFICES /\ Typed' /\ Unique'
               /\ \A k : k = id \/ Unmoved(k)
               /\ OnePlaceAt(id)'
  BY Zenon, <1>1, <1>7, MovesOne
<1>8. CASE told' = [told EXCEPT ![s.id] = @ + 1] /\ UNCHANGED <<inHand, notices, dropped>>
  <2>1. /\ told' \in [ID -> Nat] /\ told'[id] = 1
        /\ \A k \in ID : k # id => told'[k] = told[k]
    BY <1>2, <1>3, <1>8 DEF Ledger, Typed
  <2>2. Outcomes' = Outcomes
    BY Zenon, <1>8 DEF Outcomes
  <2>3. \A k : /\ IsInHand(k)' <=> IsInHand(k)
               /\ IsNoticed(k)' <=> IsNoticed(k)
               /\ IsDropped(k)' <=> IsDropped(k)
    BY Zenon, <1>8, <2>2 DEF IsInHand, IsNoticed, IsDropped
  <2>4. Typed'
    BY Zenon, <1>8, <2>1 DEF Ledger, Typed
  <2>5. Unique'
    BY Zenon, <1>5, <1>8, <2>2 DEF Ledger, Unique
  <2>6. \A k : k = id \/ Unmoved(k)
    BY Zenon, <1>4, <2>1, <2>3 DEF Unmoved
  <2>7. OnePlaceAt(id)'
    BY Zenon, <1>3, <1>4, <2>1, <2>3 DEF OnePlaceAt
  <2> QED
    BY <2>4, <2>5, <2>6, <2>7
<1>9. CASE dropped' = dropped \cup {s.id} /\ UNCHANGED <<told, inHand, notices>>
  <2>1. Outcomes' = Outcomes
    BY Zenon, <1>9 DEF Outcomes
  <2>2. \A k : /\ IsInHand(k)' <=> IsInHand(k)
               /\ IsNoticed(k)' <=> IsNoticed(k)
               /\ IsDropped(k)' <=> IsDropped(k) \/ k = id
    BY Zenon, <1>9, <2>1 DEF IsInHand, IsNoticed, IsDropped
  <2>3. Typed'
    BY Zenon, <1>9 DEF Ledger, Typed
  <2>4. Unique'
    BY Zenon, <1>5, <1>9, <2>1 DEF Ledger, Unique
  <2>5. \A k : k = id \/ Unmoved(k)
    BY Zenon, <1>4, <1>9, <2>2 DEF Unmoved
  <2>6. OnePlaceAt(id)'
    BY Zenon, <1>3, <1>4, <1>9, <2>2 DEF OnePlaceAt
  <2> QED
    BY <2>3, <2>4, <2>5, <2>6
<1>10. CASE /\ notices' = [notices EXCEPT ![s.from] = @ \cup {s.id}]
            /\ UNCHANGED <<told, inHand, dropped>>
  <2>1. /\ notices' = [d \in Client |-> notices'[d]]
        /\ notices'[s.from] = notices[s.from] \cup {id}
        /\ \A d \in Client : d # s.from => notices'[d] = notices[d]
    BY <1>10 DEF Ledger, Typed
  <2>2. Outcomes' = Outcomes
    BY Zenon, <1>10 DEF Outcomes
  <2>3. \A k : /\ IsInHand(k)' <=> IsInHand(k)
               /\ IsDropped(k)' <=> IsDropped(k)
    BY Zenon, <1>10, <2>2 DEF IsInHand, IsDropped
  <2>4. \A k : IsNoticed(k)' <=> IsNoticed(k) \/ k = id
    BY Zenon, <2>1 DEF IsNoticed
  <2>5. Typed'
    BY Zenon, <1>10, <2>1 DEF Ledger, Typed
  <2>6. Unique'
    <3>1. \A d \in Client : id \notin notices[d]
      BY Zenon, <1>3 DEF IsNoticed
    <3>2. \A d \in Client : \A k \in notices'[d] : k \in notices[d] \/ (k = id /\ d = s.from)
      BY Zenon, <2>1
    <3>3. \A d, e \in Client : \A k \in notices'[d] : k \in notices'[e] => d = e
      <4> SUFFICES ASSUME NEW d \in Client, NEW e \in Client, NEW k,
                          k \in notices'[d], k \in notices'[e]
                   PROVE  d = e
        OBVIOUS
      <4>1. CASE k = id
        BY Zenon, <3>1, <3>2, <4>1
      <4>2. CASE k # id
        BY Zenon, <3>2, <4>2 DEF Ledger, Unique
      <4> QED
        BY <4>1, <4>2
    <3> QED
      BY Zenon, <1>5, <2>2, <3>3 DEF Ledger, Unique
  <2>7. \A k : k = id \/ Unmoved(k)
    BY Zenon, <1>4, <1>10, <2>3, <2>4 DEF Unmoved
  <2>8. OnePlaceAt(id)'
    BY Zenon, <1>3, <1>4, <1>10, <2>3, <2>4 DEF OnePlaceAt
  <2> QED
    BY <2>5, <2>6, <2>7, <2>8
<1>11. CASE inHand' = inHand \cup {m} /\ UNCHANGED <<told, notices, dropped>>
  <2>1. Outcomes' = Outcomes \cup {m} /\ m.id = id /\ m.kind = "outcome"
    BY <1>11 DEF Outcomes
  <2> HIDE DEF m
  <2>2. \A k : /\ IsNoticed(k)' <=> IsNoticed(k)
               /\ IsDropped(k)' <=> IsDropped(k)
    BY Zenon, <1>11 DEF IsNoticed, IsDropped
  <2>3. \A k : IsInHand(k)' <=> IsInHand(k) \/ k = id
    BY Zenon, <2>1 DEF IsInHand
  <2>4. Typed'
    BY Zenon, <1>11, <2>1 DEF Ledger, Typed
  <2>5. Unique'
    <3>1. \A n \in Outcomes : n.id # id
      BY Zenon, <1>3 DEF IsInHand
    <3>2. \A n, o \in Outcomes' : n.id = o.id => n = o
      BY Zenon, <2>1, <3>1 DEF Ledger, Unique
    <3> QED
      BY Zenon, <1>5, <1>11, <3>2 DEF Ledger, Unique
  <2>6. \A k : k = id \/ Unmoved(k)
    BY Zenon, <1>4, <1>11, <2>2, <2>3 DEF Unmoved
  <2>7. OnePlaceAt(id)'
    BY Zenon, <1>3, <1>4, <1>11, <2>2, <2>3 DEF OnePlaceAt
  <2> QED
    BY <2>4, <2>5, <2>6, <2>7
<1> QED
  BY Zenon, <1>8, <1>9, <1>10, <1>11

\* A step that moves none.
LEMMA StillLedger ==
    ASSUME Ledger, Typed', Outcomes' = Outcomes,
           UNCHANGED <<suggestions, issued, notices, told, dropped>>
    PROVE  Ledger'
<1>1. Unique'
  BY Zenon DEF Ledger, Unique
<1>2. \A k : Unmoved(k)
  BY Zenon DEF Unmoved, IsPending, IsInHand, IsNoticed, IsDropped
<1> SUFFICES ASSUME NEW M, M = {} PROVE Ledger'
  BY Zenon
<1>3. issued <= issued'
  BY DEF Ledger, Typed
<1>4. \A k : k \in M \/ Unmoved(k)
  BY Zenon, <1>2
<1>5. \A k \in M : k \in 1..issued' /\ OnePlaceAt(k)'
  BY Zenon
<1>6. 1..issued' \subseteq 1..issued \cup M
  BY Zenon
<1> QED
  BY Zenon, <1>1, <1>3, <1>4, <1>5, <1>6, Moves

\* A message that is sent was told, lost, or no outcome.
LEMMA SendInHandLedger ==
    ASSUME Ledger, NEW m \in inHand, SendInHand(m)
    PROVE  Ledger'
<1>1. inHand' = inHand \ {m} /\ UNCHANGED <<suggestions, issued, notices>>
  BY DEF SendInHand
<1>2. \A n \in inHand' : n.kind \in {"notify", "outcome"}
  BY Zenon, <1>1 DEF Ledger, Typed
<1>3. CASE m.kind = "notify"
  <2>1. UNCHANGED <<told, dropped>>
    BY <1>3 DEF SendInHand
  <2>2. Outcomes' = Outcomes
    BY <1>1, <1>3 DEF Outcomes
  <2>3. Typed'
    BY Zenon, <1>1, <1>2, <2>1 DEF Ledger, Typed
  <2> QED
    BY Zenon, <1>1, <2>1, <2>2, <2>3, StillLedger
<1>4. CASE m.kind # "notify"
  <2> DEFINE id == m.id
  <2>1. m \in Outcomes /\ Outcomes' = Outcomes \ {m}
    BY Zenon, <1>1, <1>4 DEF Ledger, Typed, Outcomes
  <2>2. IsInHand(id) /\ id \in 1..issued
    BY Zenon, <2>1 DEF Ledger, Ranges, IsInHand
  <2>3. id \in ID
    BY <2>2, SuggestionsAssumption DEF Ledger, Typed, ID
  <2>4. told[id] = 0 /\ ~IsPending(id) /\ ~IsNoticed(id) /\ ~IsDropped(id)
    BY Zenon, <2>2 DEF Ledger, OnePlace, OnePlaceAt
  <2>5. \A k : IsInHand(k)' <=> IsInHand(k) /\ k # id
    BY Zenon, <2>1 DEF IsInHand, Ledger, Unique
  <2>6. \A k : /\ IsPending(k)' <=> IsPending(k)
               /\ IsNoticed(k)' <=> IsNoticed(k)
    BY Zenon, <1>1 DEF IsPending, IsNoticed
  <2>7. Unique'
    BY Zenon, <1>1, <2>1 DEF Ledger, Unique
  <2>8. CASE told' = [told EXCEPT ![id] = @ + 1] /\ dropped' = dropped
    <3>1. /\ told' \in [ID -> Nat] /\ told'[id] = 1
          /\ \A k \in ID : k # id => told'[k] = told[k]
      BY <2>3, <2>4, <2>8 DEF Ledger, Typed
    <3>2. \A k : IsDropped(k)' <=> IsDropped(k)
      BY Zenon, <2>8 DEF IsDropped
    <3>3. Typed'
      BY Zenon, <1>1, <1>2, <3>1 DEF Ledger, Typed
    <3>4. \A k : k = id \/ Unmoved(k)
      BY Zenon, <2>5, <2>6, <3>1, <3>2 DEF Unmoved
    <3>5. OnePlaceAt(id)'
      BY Zenon, <2>4, <2>5, <2>6, <3>1, <3>2 DEF OnePlaceAt
    <3> QED
      BY Zenon, <1>1, <2>2, <2>7, <3>3, <3>4, <3>5, MovesOne
  <2>9. CASE told' = told /\ dropped' = dropped \cup {id}
    <3>1. \A k : IsDropped(k)' <=> IsDropped(k) \/ k = id
      BY Zenon, <2>9 DEF IsDropped
    <3>2. Typed'
      BY Zenon, <1>1, <1>2, <2>9 DEF Ledger, Typed
    <3>3. \A k : k = id \/ Unmoved(k)
      BY Zenon, <2>5, <2>6, <2>9, <3>1 DEF Unmoved
    <3>4. OnePlaceAt(id)'
      BY Zenon, <2>4, <2>5, <2>6, <2>9, <3>1 DEF OnePlaceAt
    <3> QED
      BY Zenon, <1>1, <2>2, <2>7, <3>2, <3>3, <3>4, MovesOne
  <2> QED
    BY Zenon, <1>4, <2>8, <2>9 DEF SendInHand
<1> QED
  BY <1>3, <1>4

\* A step that drops pending suggestions P, outcomes in hand H and notices N.
LEMMA DropLedger ==
    ASSUME Ledger, Typed', Unique', issued' = issued, told' = told, NEW P, NEW H, NEW N,
           \A k \in P : IsPending(k), \A k \in H : IsInHand(k), \A k \in N : IsNoticed(k),
           \A k : IsPending(k)' <=> IsPending(k) /\ k \notin P,
           \A k : IsInHand(k)' <=> IsInHand(k) /\ k \notin H,
           \A k : IsNoticed(k)' <=> IsNoticed(k) /\ k \notin N,
           \A k : IsDropped(k)' <=> IsDropped(k) \/ k \in P \/ k \in H \/ k \in N
    PROVE  Ledger'
<1> SUFFICES ASSUME NEW M, \A k : k \in M <=> k \in P \/ k \in H \/ k \in N PROVE Ledger'
  <2>1. PICK M : M = P \cup H \cup N
    OBVIOUS
  <2>2. \A k : k \in M <=> k \in P \/ k \in H \/ k \in N
    BY Zenon, <2>1
  <2> QED
    BY Zenon, <2>2
<1>1. issued <= issued'
  BY DEF Ledger, Typed
<1>2. \A k : k \in M \/ Unmoved(k)
  BY Zenon DEF Unmoved
<1>3. ASSUME NEW k \in M PROVE k \in 1..issued' /\ OnePlaceAt(k)'
  <2>1. k \in 1..issued /\ OnePlaceAt(k)
    BY Zenon DEF Ledger, Ranges, OnePlace
  <2>2. CASE k \in P
    BY Zenon, <2>1, <2>2 DEF OnePlaceAt
  <2>3. CASE k \in H
    BY Zenon, <2>1, <2>3 DEF OnePlaceAt
  <2>4. CASE k \in N
    BY Zenon, <2>1, <2>4 DEF OnePlaceAt
  <2> QED
    BY Zenon, <2>2, <2>3, <2>4
<1>4. 1..issued' \subseteq 1..issued \cup M
  BY Zenon
<1> QED
  BY Zenon, <1>1, <1>2, <1>3, <1>4, Moves

\* Outcomes that were on their way to c go nowhere.
LEMMA Intercepted ==
    ASSUME Ledger, NEW c, NEW H, inHand' = inHand \ InHandFor(c),
           H = IDs({m \in InHandFor(c) : m.kind = "outcome"})
    PROVE  /\ \A k \in H : IsInHand(k)
           /\ \A k : IsInHand(k)' <=> IsInHand(k) /\ k \notin H
           /\ \A m \in inHand' : m \in inHand
           /\ \A m \in Outcomes' : m \in Outcomes
<1>1. \A m : m \in Outcomes' <=> m \in Outcomes /\ m.to # c
  BY Zenon DEF Outcomes, InHandFor
<1>2. \A k : k \in H <=> \E m \in Outcomes : m.to = c /\ m.id = k
  BY Zenon DEF Outcomes, InHandFor, IDs
<1>3. \A k : IsInHand(k)' <=> \E m \in Outcomes : m.to # c /\ m.id = k
  BY Zenon, <1>1 DEF IsInHand
<1>4. \A m, n \in Outcomes : m.id = n.id => m = n
  BY DEF Ledger, Unique
<1>5. \A k \in H : IsInHand(k)
  BY Zenon, <1>2 DEF IsInHand
<1>6. ASSUME NEW k PROVE IsInHand(k)' <=> IsInHand(k) /\ k \notin H
  BY Zenon, <1>2, <1>3, <1>4 DEF IsInHand
<1> QED
  BY Zenon, <1>1, <1>5, <1>6

\* The outcomes on their way to a connection that is lost are dropped.
LEMMA DisconnectLedger ==
    ASSUME Ledger, NEW c, SuggestionsDisconnect(c)
    PROVE  Ledger'
<1>1. PICK H : H = IDs({m \in InHandFor(c) : m.kind = "outcome"})
  OBVIOUS
<1>2. /\ inHand' = inHand \ InHandFor(c) /\ dropped' = dropped \cup H
      /\ UNCHANGED <<suggestions, issued, notices, told>>
  BY <1>1 DEF SuggestionsDisconnect, Intercept
<1>3. /\ \A k \in H : IsInHand(k)
      /\ \A k : IsInHand(k)' <=> IsInHand(k) /\ k \notin H
      /\ \A m \in inHand' : m \in inHand
      /\ \A m \in Outcomes' : m \in Outcomes
  BY Zenon, <1>1, <1>2, Intercepted
<1>4. Typed'
  BY Zenon, <1>2, <1>3 DEF Ledger, Typed
<1>5. Unique'
  BY Zenon, <1>2, <1>3 DEF Ledger, Unique
<1> SUFFICES ASSUME NEW P, P = {} PROVE Ledger'
  BY Zenon
<1>6. /\ \A k \in P : IsPending(k) /\ IsNoticed(k)
      /\ \A k : IsPending(k)' <=> IsPending(k) /\ k \notin P
      /\ \A k : IsNoticed(k)' <=> IsNoticed(k) /\ k \notin P
      /\ \A k : IsDropped(k)' <=> IsDropped(k) \/ k \in P \/ k \in H \/ k \in P
  BY Zenon, <1>2 DEF IsPending, IsNoticed, IsDropped
<1> QED
  BY Zenon, <1>2, <1>3, <1>4, <1>5, <1>6, DropLedger

\* So are the suggestions, notices and outcomes of a member who leaves for good.
LEMMA DepartLedger ==
    ASSUME Ledger, NEW c \in Client, SuggestionsDepart(c)
    PROVE  Ledger'
<1>1. PICK H : H = IDs({m \in InHandFor(c) : m.kind = "outcome"})
  OBVIOUS
<1>2. PICK P : P = IDs(Own(c))
  OBVIOUS
<1>3. PICK N : N = notices[c]
  OBVIOUS
<1>4. /\ inHand' = inHand \ InHandFor(c)
      /\ suggestions' = suggestions \ Own(c) /\ notices' = [notices EXCEPT ![c] = {}]
      /\ dropped' = dropped \cup N \cup P \cup H
      /\ issued' = issued /\ told' = told
  BY <1>1, <1>2, <1>3 DEF SuggestionsDepart
<1>5. /\ \A k \in H : IsInHand(k)
      /\ \A k : IsInHand(k)' <=> IsInHand(k) /\ k \notin H
      /\ \A m \in inHand' : m \in inHand
      /\ \A m \in Outcomes' : m \in Outcomes
  BY Zenon, <1>1, <1>4, Intercepted
<1>6. /\ notices' = [d \in Client |-> notices'[d]]
      /\ \A d \in Client : notices'[d] = IF d = c THEN {} ELSE notices[d]
  BY <1>4 DEF Ledger, Typed
<1>7. Typed'
  BY Zenon, <1>4, <1>5, <1>6 DEF Ledger, Typed
<1>8. Unique'
  <2>1. \A s, u \in suggestions' : s.id = u.id => s = u
    BY Zenon, <1>4 DEF Ledger, Unique
  <2>2. \A d \in Client : \A id \in notices'[d] : id \in notices[d]
    BY <1>6
  <2> QED
    BY Zenon, <1>5, <2>1, <2>2 DEF Ledger, Unique
<1>9. /\ \A k \in P : IsPending(k)
      /\ \A k : IsPending(k)' <=> IsPending(k) /\ k \notin P
  <2>1. \A s, u \in suggestions : s.id = u.id => s = u
    BY DEF Ledger, Unique
  <2>2. \A k : k \in P <=> \E s \in suggestions : s.from = c /\ s.id = k
    BY Zenon, <1>2 DEF IDs, Own
  <2>3. \A k : IsPending(k)' <=> \E s \in suggestions : s.from # c /\ s.id = k
    BY Zenon, <1>4 DEF IsPending, Own
  <2>4. \A k \in P : IsPending(k)
    BY Zenon, <2>2 DEF IsPending
  <2>5. ASSUME NEW k PROVE IsPending(k)' <=> IsPending(k) /\ k \notin P
    BY Zenon, <2>1, <2>2, <2>3 DEF IsPending
  <2> QED
    BY Zenon, <2>4, <2>5
<1>10. /\ \A k \in N : IsNoticed(k)
       /\ \A k : IsNoticed(k)' <=> IsNoticed(k) /\ k \notin N
  <2>1. \A k \in N : IsNoticed(k)
    BY Zenon, <1>3 DEF IsNoticed
  <2>2. \A k : IsNoticed(k)' <=> \E d \in Client : d # c /\ k \in notices[d]
    BY <1>6 DEF IsNoticed
  <2>3. ASSUME NEW k PROVE IsNoticed(k)' <=> IsNoticed(k) /\ k \notin N
    BY Zenon, <1>3, <2>2 DEF IsNoticed, Ledger, Unique
  <2> QED
    BY Zenon, <2>1, <2>3
<1>11. \A k : IsDropped(k)' <=> IsDropped(k) \/ k \in P \/ k \in H \/ k \in N
  BY Zenon, <1>4 DEF IsDropped
<1> QED
  BY Zenon, <1>4, <1>5, <1>7, <1>8, <1>9, <1>10, <1>11, DropLedger

\* A member who comes back is told what was kept for it.
LEMMA ReconnectLedger ==
    ASSUME Ledger, NEW c \in Client, SuggestionsReconnect(c)
    PROVE  Ledger'
<1>1. PICK N : N = notices[c]
  OBVIOUS
<1>2. /\ told' = [id \in ID |-> told[id] + IF id \in N THEN 1 ELSE 0]
      /\ notices' = [notices EXCEPT ![c] = {}]
      /\ UNCHANGED <<suggestions, issued, inHand, dropped>>
  BY <1>1 DEF SuggestionsReconnect
<1>3. /\ notices' = [d \in Client |-> notices'[d]]
      /\ \A d \in Client : notices'[d] = IF d = c THEN {} ELSE notices[d]
  BY <1>2 DEF Ledger, Typed
<1>4. told \in [ID -> Nat]
  BY DEF Ledger, Typed
<1>5. \A k \in ID : told'[k] \in Nat /\ told'[k] = IF k \in N THEN told[k] + 1 ELSE told[k]
  BY <1>2, <1>4
<1>6. told' \in [ID -> Nat]
  BY <1>2, <1>5
<1>7. Outcomes' = Outcomes
  BY Zenon, <1>2 DEF Outcomes
<1>8. Typed'
  BY Zenon, <1>2, <1>3, <1>6 DEF Ledger, Typed
<1>9. Unique'
  <2>1. \A d \in Client : \A id \in notices'[d] : id \in notices[d]
    BY <1>3
  <2> QED
    BY Zenon, <1>2, <1>7, <2>1 DEF Ledger, Unique
<1>10. \A k \in N : IsNoticed(k) /\ k \in 1..issued
  BY Zenon, <1>1 DEF IsNoticed, Ledger, Ranges
<1>11. \A k : IsNoticed(k)' <=> IsNoticed(k) /\ k \notin N
  <2>1. \A k : IsNoticed(k)' <=> \E d \in Client : d # c /\ k \in notices[d]
    BY <1>3 DEF IsNoticed
  <2>2. ASSUME NEW k PROVE IsNoticed(k)' <=> IsNoticed(k) /\ k \notin N
    BY Zenon, <1>1, <2>1 DEF IsNoticed, Ledger, Unique
  <2> QED
    BY Zenon, <2>2
<1>12. \A k : /\ IsPending(k)' <=> IsPending(k)
              /\ IsInHand(k)' <=> IsInHand(k)
              /\ IsDropped(k)' <=> IsDropped(k)
  BY Zenon, <1>2, <1>7 DEF IsPending, IsInHand, IsDropped
<1>13. \A k : k \in N \/ Unmoved(k)
  BY Zenon, <1>5, <1>11, <1>12 DEF Unmoved
<1>14. ASSUME NEW k \in N PROVE k \in 1..issued' /\ OnePlaceAt(k)'
  <2>1. k \in 1..issued /\ IsNoticed(k) /\ OnePlaceAt(k)
    BY Zenon, <1>10 DEF Ledger, OnePlace
  <2>2. k \in ID
    BY <2>1, SuggestionsAssumption DEF Ledger, Typed, ID
  <2>3. /\ told[k] = 0
        /\ ~IsPending(k) /\ ~IsInHand(k) /\ ~IsDropped(k)
    BY Zenon, <2>1 DEF OnePlaceAt
  <2>4. told'[k] = 1
    BY <1>5, <2>2, <2>3
  <2> QED
    BY Zenon, <1>2, <1>11, <1>12, <2>1, <2>3, <2>4 DEF OnePlaceAt
<1>15. issued <= issued' /\ 1..issued' \subseteq 1..issued \cup N
  BY <1>2 DEF Ledger, Typed
<1> QED
  BY Zenon, <1>8, <1>9, <1>13, <1>14, <1>15, Moves

-----------------------------------------------------------------------------
(* Suggestions: members and limits                                         *)

\* SuggestersAreMembers, and the sets whose size is limited are finite.
Limits ==
    /\ IsFiniteSet(suggestions)
    /\ \A c \in Client : IsFiniteSet(notices[c])
    /\ SuggestersAreMembers

\* Fewer suggestions are within their limits,
LEMMA FewerSuggestions ==
    ASSUME Limits, suggestions' \subseteq suggestions
    PROVE  /\ IsFiniteSet(suggestions')
           /\ Cardinality(suggestions') <= MaxPendingSuggestions
           /\ \A d \in Client : Cardinality(Own(d)') <= MaxSuggestionsPerUser
<1>1. /\ IsFiniteSet(suggestions)
      /\ Cardinality(suggestions) <= MaxPendingSuggestions
      /\ \A d \in Client : Cardinality(Own(d)) <= MaxSuggestionsPerUser
  BY DEF Limits, SuggestersAreMembers
<1>2. /\ IsFiniteSet(suggestions') /\ Cardinality(suggestions') \in Nat
      /\ Cardinality(suggestions) \in Nat
      /\ Cardinality(suggestions') <= Cardinality(suggestions)
  BY Zenon, <1>1, FS_Subset, FS_CardinalityType
<1>3. Cardinality(suggestions') <= MaxPendingSuggestions
  BY <1>1, <1>2, SuggestionsAssumption
<1>4. ASSUME NEW d \in Client PROVE Cardinality(Own(d)') <= MaxSuggestionsPerUser
  <2>1. Own(d) \subseteq suggestions /\ Own(d)' \subseteq Own(d)
    BY Zenon DEF Own
  <2>2. IsFiniteSet(Own(d))
    BY Zenon, <1>1, <2>1, FS_Subset
  <2>3. /\ Cardinality(Own(d)') \in Nat /\ Cardinality(Own(d)) \in Nat
        /\ Cardinality(Own(d)') <= Cardinality(Own(d))
    BY Zenon, <2>1, <2>2, FS_Subset, FS_CardinalityType
  <2> QED
    BY <1>1, <2>3, SuggestionsAssumption
<1> QED
  BY Zenon, <1>2, <1>3, <1>4

\* and so are fewer notices.
LEMMA LimitsShrink ==
    ASSUME Limits, suggestions' \subseteq suggestions,
           \A d \in Client : notices'[d] \subseteq notices[d],
           \A s \in suggestions' : s.from \in clients' \cup away',
           \A d \in Client : notices'[d] # {} => d \in away'
    PROVE  Limits'
<1>1. \A d \in Client : /\ IsFiniteSet(notices[d])
                        /\ Cardinality(notices[d]) <= MaxSuggestionsPerUser
  BY DEF Limits, SuggestersAreMembers
<1>2. ASSUME NEW d \in Client
      PROVE  IsFiniteSet(notices'[d]) /\ Cardinality(notices'[d]) <= MaxSuggestionsPerUser
  <2>1. /\ IsFiniteSet(notices'[d]) /\ Cardinality(notices'[d]) \in Nat
        /\ Cardinality(notices[d]) \in Nat
        /\ Cardinality(notices'[d]) <= Cardinality(notices[d])
    BY Zenon, <1>1, <1>2, FS_Subset, FS_CardinalityType
  <2> QED
    BY <1>1, <2>1, SuggestionsAssumption
<1> QED
  BY Zenon, <1>2, FewerSuggestions DEF Limits, SuggestersAreMembers

\* handleSuggestTrack looks at both limits first.
LEMMA SuggestLimits ==
    ASSUME PlaybackInv, Limits, NEW c \in Client, NEW t, HandleSuggestTrack(c, t)
    PROVE  Limits'
<1>1. PICK s : s = [id |-> issued + 1, from |-> c, track |-> t]
  OBVIOUS
<1>2. /\ suggestions' = suggestions \cup {s} /\ s.from = c
      /\ UNCHANGED <<clients, away, notices>>
      /\ Cardinality(suggestions) < MaxPendingSuggestions
      /\ Cardinality(Own(c)) < MaxSuggestionsPerUser
      /\ c \in clients
  BY <1>1 DEF HandleSuggestTrack, Suggestable, playbackVars, Reading
<1>3. IsFiniteSet(suggestions) /\ IsFiniteSet(Own(c)) /\ SuggestersAreMembers
  <2>1. Own(c) \subseteq suggestions
    BY Zenon DEF Own
  <2> QED
    BY Zenon, <2>1, FS_Subset DEF Limits
<1>4. /\ IsFiniteSet(suggestions') /\ Cardinality(suggestions) \in Nat
      /\ Cardinality(suggestions') \in {Cardinality(suggestions), Cardinality(suggestions) + 1}
  BY Zenon, <1>2, <1>3, FS_AddElement, FS_CardinalityType
<1>5. Cardinality(suggestions') <= MaxPendingSuggestions
  BY <1>2, <1>4, SuggestionsAssumption
<1>6. Own(c)' = Own(c) \cup {s}
  BY Zenon, <1>2 DEF Own
<1>7. /\ Cardinality(Own(c)) \in Nat
      /\ Cardinality(Own(c)') \in {Cardinality(Own(c)), Cardinality(Own(c)) + 1}
  BY Zenon, <1>3, <1>6, FS_AddElement, FS_CardinalityType
<1>8. Cardinality(Own(c)') <= MaxSuggestionsPerUser
  BY <1>2, <1>7, SuggestionsAssumption
<1>9. \A d \in Client : d # c => Own(d)' = Own(d)
  BY Zenon, <1>2 DEF Own
<1>10. \A d \in Client : Cardinality(Own(d)') <= MaxSuggestionsPerUser
  BY Zenon, <1>3, <1>8, <1>9 DEF SuggestersAreMembers
<1>11. \A u \in suggestions' : u.from \in clients' \cup away'
  BY Zenon, <1>2, <1>3 DEF SuggestersAreMembers
<1> QED
  BY Zenon, <1>2, <1>4, <1>5, <1>10, <1>11 DEF Limits, SuggestersAreMembers

\* A notice is kept for a member who is away, within its limit.
LEMMA NoticeLimits ==
    ASSUME Ledger, Limits, NEW c \in Client, NEW id, c \in away,
           Cardinality(notices[c]) < MaxSuggestionsPerUser,
           notices' = [notices EXCEPT ![c] = @ \cup {id}],
           suggestions' \subseteq suggestions, UNCHANGED <<clients, away>>
    PROVE  Limits'
<1>1. /\ notices'[c] = notices[c] \cup {id}
      /\ \A d \in Client : d # c => notices'[d] = notices[d]
  BY DEF Ledger, Typed
<1>2. IsFiniteSet(notices[c])
  BY DEF Limits
<1>3. /\ IsFiniteSet(notices'[c]) /\ Cardinality(notices[c]) \in Nat
      /\ Cardinality(notices'[c]) \in {Cardinality(notices[c]), Cardinality(notices[c]) + 1}
  <2>1. /\ IsFiniteSet(notices[c] \cup {id})
        /\ Cardinality(notices[c] \cup {id}) \in {Cardinality(notices[c]), Cardinality(notices[c]) + 1}
    BY Zenon, <1>2, FS_AddElement
  <2>2. Cardinality(notices[c]) \in Nat
    BY Zenon, <1>2, FS_CardinalityType
  <2> QED
    BY Zenon, <1>1, <2>1, <2>2
<1>4. Cardinality(notices'[c]) <= MaxSuggestionsPerUser
  BY <1>3, SuggestionsAssumption
<1>5. \A u \in suggestions' : u.from \in clients' \cup away'
  BY Zenon DEF Limits, SuggestersAreMembers
<1>6. \A d \in Client : /\ IsFiniteSet(notices'[d])
                        /\ Cardinality(notices'[d]) <= MaxSuggestionsPerUser
                        /\ notices'[d] # {} => d \in away'
  BY Zenon, <1>1, <1>3, <1>4 DEF Limits, SuggestersAreMembers
<1> QED
  BY Zenon, <1>5, <1>6, FewerSuggestions DEF Limits, SuggestersAreMembers

-----------------------------------------------------------------------------
(* Suggestions: what the host sees                                         *)

\* The host h was sent suggestion id, or is about to be.
Shown(h, id) == id \in seen \/ \E m \in inHand : m.to = h /\ m.kind = "notify" /\ m.id = id

SeesEach == host # None /\ host \notin closed => \A s \in suggestions : Shown(host, s.id)

\* HostSeesSuggestions, suggestion by suggestion.
LEMMA HostSees == HostSeesSuggestions <=> SeesEach
<1>1. \A id : id \in IDs({m \in InHandFor(host) : m.kind = "notify"})
              <=> \E m \in inHand : m.to = host /\ m.kind = "notify" /\ m.id = id
  BY Zenon DEF IDs, InHandFor
<1>2. (IDs(suggestions) \subseteq seen \cup IDs({m \in InHandFor(host) : m.kind = "notify"}))
      <=> \A s \in suggestions : Shown(host, s.id)
  <2>1. \A id : id \in IDs(suggestions) <=> \E s \in suggestions : id = s.id
    BY Zenon DEF IDs
  <2>2. \A id : id \in seen \cup IDs({m \in InHandFor(host) : m.kind = "notify"})
                <=> Shown(host, id)
    BY Zenon, <1>1 DEF Shown
  <2> HIDE DEF Shown
  <2> QED
    BY Zenon, <2>1, <2>2
<1> QED
  BY Zenon, <1>2 DEF HostSeesSuggestions, SeesEach

\* A host keeps what it has seen.
LEMMA HostSeesKept ==
    ASSUME HostSeesSuggestions, host' = host, host \in closed => host \in closed',
           \A s \in suggestions' : s \in suggestions \/ Shown(host, s.id)',
           \A id \in seen : id \in seen',
           \A m \in inHand : m.to = host /\ m.kind = "notify" => m \in inHand' \/ m.id \in seen'
    PROVE  HostSeesSuggestions'
<1>1. \A id : Shown(host, id) => Shown(host, id)'
  BY Zenon DEF Shown
<1>2. SeesEach'
  BY Zenon, <1>1, HostSees DEF SeesEach
<1>3. HostSeesSuggestions' <=> SeesEach'
  BY HostSees, PTL
<1> QED
  BY Zenon, <1>2, <1>3

\* A new host is sent all that is pending.
LEMMA HostSeesReplayed ==
    ASSUME Replay, host' # host
    PROVE  HostSeesSuggestions'
<1>1. host' # None => seen' = IDs(suggestions')
  BY Zenon DEF Replay
<1> QED
  BY Zenon, <1>1 DEF HostSeesSuggestions

-----------------------------------------------------------------------------
(* Suggestions: every action                                               *)

\* The invariants of suggestions, and with those of Playback the inductive one.
SuggestionsInv == Ledger /\ Limits /\ HostSeesSuggestions
IInv == PlaybackInv /\ SuggestionsInv

\* Suggestions are those of clients.
LEMMA FromClients == IInv => \A s \in suggestions : s.from \in Client
BY Zenon DEF IInv, PlaybackInv, Members, SuggestionsInv, Limits, SuggestersAreMembers

\* A step of Playback that concerns no suggestion keeps SuggestionsInv.
LEMMA QuietInv ==
    ASSUME IInv, UNCHANGED suggestionVars,
           UNCHANGED playbackVars \/ \E c \in Client : PlaybackStep(c) \/ HandleApproveJoin(c)
    PROVE  SuggestionsInv'
<1>1. UNCHANGED <<suggestions, issued, notices, seen, inHand, told, dropped>>
  BY DEF suggestionVars
<1>2. /\ host' = host /\ clients \subseteq clients' /\ away' = away
      /\ host \in closed => host \in closed'
  <2>1. CASE UNCHANGED playbackVars
    BY <2>1 DEF playbackVars
  <2>2. ASSUME NEW c \in Client, PlaybackStep(c)
        PROVE  UNCHANGED <<clients, away, host>> /\ closed \subseteq closed'
    BY <2>2 DEF PlaybackStep, HandlePlaybackAction, Accept, Deliver, HandleBufferReady,
       HandleRequestSync, HandlePing, PingSend, CloseSend, Send, members, outbox
  <2>3. ASSUME NEW c \in Client, HandleApproveJoin(c)
        PROVE  /\ host' = host /\ clients \subseteq clients' /\ away' = away
               /\ host \in closed => host \in closed'
    BY <2>3 DEF HandleApproveJoin, Enter, KeepHost, IInv, PlaybackInv, Members
  <2> QED
    BY <2>1, <2>2, <2>3
<1>3. Ledger'
  <2>1. Outcomes' = Outcomes
    BY Zenon, <1>1 DEF Outcomes
  <2>2. Typed'
    BY Zenon, <1>1 DEF IInv, SuggestionsInv, Ledger, Typed
  <2> QED
    BY Zenon, <1>1, <2>1, <2>2, StillLedger DEF IInv, SuggestionsInv
<1>4. Limits'
  <2>1. \A s \in suggestions' : s.from \in clients' \cup away'
    BY Zenon, <1>1, <1>2 DEF IInv, SuggestionsInv, Limits, SuggestersAreMembers
  <2>2. \A d \in Client : notices'[d] # {} => d \in away'
    BY Zenon, <1>1, <1>2 DEF IInv, SuggestionsInv, Limits, SuggestersAreMembers
  <2>3. suggestions' \subseteq suggestions /\ \A d \in Client : notices'[d] \subseteq notices[d]
    BY Zenon, <1>1
  <2> QED
    BY Zenon, <2>1, <2>2, <2>3, LimitsShrink DEF IInv, SuggestionsInv
<1>5. HostSeesSuggestions'
  BY Zenon, <1>1, <1>2, HostSeesKept DEF IInv, SuggestionsInv
<1> QED
  BY Zenon, <1>3, <1>4, <1>5 DEF SuggestionsInv

\* handleSuggestTrack keeps SuggestionsInv: the host is about to be sent the new
\* suggestion.
LEMMA HandleSuggestTrackInv ==
    ASSUME IInv, NEW c \in Client, NEW t \in Track, HandleSuggestTrack(c, t)
    PROVE  SuggestionsInv'
<1>1. Ledger' /\ Limits'
  BY Zenon, SuggestLedger, SuggestLimits DEF IInv, SuggestionsInv
<1>2. PICK s : s = [id |-> issued + 1, from |-> c, track |-> t]
  OBVIOUS
<1>3. PICK m : m = [kind |-> "notify", to |-> host, id |-> issued + 1]
  OBVIOUS
<1>4. /\ suggestions' = suggestions \cup {s}
      /\ inHand' = IF host = None THEN inHand ELSE inHand \cup {m}
      /\ UNCHANGED <<host, closed, seen>>
  BY <1>2, <1>3 DEF HandleSuggestTrack, playbackVars
<1>5. s.id = m.id /\ m.to = host /\ m.kind = "notify"
  BY <1>2, <1>3
<1>6. ASSUME host = None PROVE HostSeesSuggestions'
  BY Zenon, <1>4, <1>6 DEF HostSeesSuggestions
<1>7. ASSUME host # None PROVE HostSeesSuggestions'
  <2>1. Shown(host, s.id)'
    BY Zenon, <1>4, <1>5, <1>7 DEF Shown
  <2>2. \A u \in suggestions' : u \in suggestions \/ Shown(host, u.id)'
    BY Zenon, <1>4, <2>1
  <2>3. \A n \in inHand : n \in inHand'
    BY Zenon, <1>4
  <2> QED
    BY Zenon, <1>4, <2>2, <2>3, HostSeesKept DEF IInv, SuggestionsInv
<1> QED
  BY Zenon, <1>1, <1>6, <1>7 DEF SuggestionsInv

\* An answer, whatever becomes of the outcome.
LEMMA AnswerInv ==
    ASSUME IInv, NEW s \in suggestions, suggestions' = suggestions \ {s},
           UNCHANGED <<issued, seen, host, clients, away, closed>>,
           \/ told' = [told EXCEPT ![s.id] = @ + 1] /\ UNCHANGED <<inHand, notices, dropped>>
           \/ dropped' = dropped \cup {s.id} /\ UNCHANGED <<told, inHand, notices>>
           \/ /\ inHand' = inHand \cup {[kind |-> "outcome", to |-> s.from, id |-> s.id]}
              /\ UNCHANGED <<told, notices, dropped>>
           \/ QueueNotice(s.from, s.id) /\ UNCHANGED <<told, inHand>>
    PROVE  SuggestionsInv'
<1>1. s.from \in Client
  BY Zenon, FromClients
<1>2. /\ \A u \in suggestions' : u.from \in clients' \cup away'
      /\ suggestions' \subseteq suggestions
  BY Zenon DEF IInv, SuggestionsInv, Limits, SuggestersAreMembers
<1>3. ASSUME notices' = notices PROVE Limits'
  <2>1. \A d \in Client : notices'[d] # {} => d \in away'
    BY Zenon, <1>3 DEF IInv, SuggestionsInv, Limits, SuggestersAreMembers
  <2>2. \A d \in Client : notices'[d] \subseteq notices[d]
    BY Zenon, <1>3
  <2> QED
    BY Zenon, <1>2, <2>1, <2>2, LimitsShrink DEF IInv, SuggestionsInv
<1>4. /\ \/ told' = [told EXCEPT ![s.id] = @ + 1] /\ UNCHANGED <<inHand, notices, dropped>>
         \/ dropped' = dropped \cup {s.id} /\ UNCHANGED <<told, inHand, notices>>
         \/ /\ notices' = [notices EXCEPT ![s.from] = @ \cup {s.id}]
            /\ UNCHANGED <<told, inHand, dropped>>
         \/ /\ inHand' = inHand \cup {[kind |-> "outcome", to |-> s.from, id |-> s.id]}
            /\ UNCHANGED <<told, notices, dropped>>
      /\ \/ notices' = notices
         \/ /\ notices' = [notices EXCEPT ![s.from] = @ \cup {s.id}]
            /\ s.from \in away /\ Cardinality(notices[s.from]) < MaxSuggestionsPerUser
  BY Zenon DEF QueueNotice
<1>5. Ledger'
  BY Zenon, <1>1, <1>4, AnswerLedger DEF IInv, SuggestionsInv
<1>6. Limits'
  BY Zenon, <1>1, <1>2, <1>3, <1>4, NoticeLimits DEF IInv, SuggestionsInv
<1>7. \A m \in inHand : m \in inHand'
  BY Zenon, <1>4
<1>8. HostSeesSuggestions'
  BY Zenon, <1>2, <1>7, HostSeesKept DEF IInv, SuggestionsInv
<1> QED
  BY Zenon, <1>5, <1>6, <1>8 DEF SuggestionsInv

\* handleApproveSuggestion keeps SuggestionsInv.
LEMMA HandleApproveSuggestionInv ==
    ASSUME IInv, NEW c \in Client, NEW s \in suggestions, HandleApproveSuggestion(c, s)
    PROVE  SuggestionsInv'
<1>1. UNCHANGED <<host, clients, away, closed>>
  BY DEF HandleApproveSuggestion, QueueSuggested, members
<1>2. suggestions' = suggestions \ {s} /\ UNCHANGED <<issued, seen, inHand>>
  BY DEF HandleApproveSuggestion
<1>3. \/ told' = [told EXCEPT ![s.id] = @ + 1] /\ UNCHANGED <<notices, dropped>>
      \/ dropped' = dropped \cup {s.id} /\ UNCHANGED <<told, notices>>
      \/ QueueNotice(s.from, s.id) /\ UNCHANGED told
  BY Zenon DEF HandleApproveSuggestion
<1> QED
  BY Zenon, <1>1, <1>2, <1>3, AnswerInv

\* handleRejectSuggestion keeps SuggestionsInv.
LEMMA HandleRejectSuggestionInv ==
    ASSUME IInv, NEW c \in Client, NEW s \in suggestions, HandleRejectSuggestion(c, s)
    PROVE  SuggestionsInv'
<1>1. UNCHANGED <<host, clients, away, closed>>
  BY DEF HandleRejectSuggestion, playbackVars
<1>2. suggestions' = suggestions \ {s} /\ UNCHANGED <<issued, seen, told>>
  BY DEF HandleRejectSuggestion
<1>3. \/ /\ inHand' = inHand \cup {[kind |-> "outcome", to |-> s.from, id |-> s.id]}
         /\ UNCHANGED <<notices, dropped>>
      \/ QueueNotice(s.from, s.id) /\ UNCHANGED inHand
  BY Zenon DEF HandleRejectSuggestion
<1> QED
  BY Zenon, <1>1, <1>2, <1>3, AnswerInv

\* Sending a message in hand keeps SuggestionsInv: what the host was to be sent, it
\* has seen.
LEMMA SendInHandInv ==
    ASSUME IInv, NEW m \in inHand, SendInHand(m)
    PROVE  SuggestionsInv'
<1>1. /\ inHand' = inHand \ {m}
      /\ UNCHANGED <<host, clients, away, closed, suggestions, notices>>
  BY DEF SendInHand, playbackVars
<1>2. /\ \A id \in seen : id \in seen'
      /\ m.to = host /\ m.kind = "notify" => m.id \in seen'
  BY Zenon DEF SendInHand
<1>3. Ledger'
  BY Zenon, SendInHandLedger DEF IInv, SuggestionsInv
<1>4. Limits'
  <2>1. \A s \in suggestions' : s.from \in clients' \cup away'
    BY Zenon, <1>1 DEF IInv, SuggestionsInv, Limits, SuggestersAreMembers
  <2>2. \A d \in Client : notices'[d] # {} => d \in away'
    BY Zenon, <1>1 DEF IInv, SuggestionsInv, Limits, SuggestersAreMembers
  <2>3. suggestions' \subseteq suggestions /\ \A d \in Client : notices'[d] \subseteq notices[d]
    BY Zenon, <1>1
  <2> QED
    BY Zenon, <2>1, <2>2, <2>3, LimitsShrink DEF IInv, SuggestionsInv
<1>5. \A n \in inHand : n.to = host /\ n.kind = "notify" => n \in inHand' \/ n.id \in seen'
  BY Zenon, <1>1, <1>2
<1>6. HostSeesSuggestions'
  BY Zenon, <1>1, <1>2, <1>5, HostSeesKept DEF IInv, SuggestionsInv
<1> QED
  BY Zenon, <1>3, <1>4, <1>6 DEF SuggestionsInv

\* Comings and goings: what becomes of the seat, of pending suggestions and of
\* messages in hand for the host.
LEMMA SeatMoves ==
    ASSUME IInv, Replay, suggestions' \subseteq suggestions,
           \A s \in suggestions' : s.from \in clients' \cup away',
           \A d \in Client : notices'[d] \subseteq notices[d],
           \A d \in Client : notices'[d] # {} => d \in away',
           host' = host => /\ host \in closed => host \in closed' \/ host = None
                           /\ \A m \in inHand : m.to = host => m \in inHand' \/ host = None
    PROVE  Limits' /\ HostSeesSuggestions'
<1>1. Limits'
  BY Zenon, LimitsShrink DEF IInv, SuggestionsInv
<1>2. CASE host' # host
  BY Zenon, <1>1, <1>2, HostSeesReplayed
<1>3. CASE host' = host /\ host = None
  BY Zenon, <1>1, <1>3 DEF HostSeesSuggestions
<1>4. CASE host' = host /\ host # None
  <2>1. seen' = seen
    BY Zenon, <1>4 DEF Replay
  <2>2. HostSeesSuggestions'
    BY Zenon, <1>4, <2>1, HostSeesKept DEF IInv, SuggestionsInv
  <2> QED
    BY <1>1, <2>2
<1> QED
  BY <1>2, <1>3, <1>4

\* A lost connection keeps SuggestionsInv: if it was the host's, the seat is held.
LEMMA SuggestionsDisconnectInv ==
    ASSUME IInv, NEW c \in Client, SuggestionsDisconnect(c)
    PROVE  SuggestionsInv'
<1>1. Ledger'
  BY Zenon, DisconnectLedger DEF IInv, SuggestionsInv
<1>2. /\ clients' = clients \ {c} /\ away' = away \cup {c} /\ closed' = closed \ {c}
      /\ host' = IF host = c THEN None ELSE host
      /\ inHand' = inHand \ InHandFor(c) /\ Replay
      /\ UNCHANGED <<suggestions, notices>>
  BY DEF SuggestionsDisconnect, HandleClientDisconnect, Exit, Intercept
<1>3. /\ \A s \in suggestions' : s.from \in clients' \cup away'
      /\ \A d \in Client : notices'[d] # {} => d \in away'
      /\ \A d \in Client : notices'[d] \subseteq notices[d]
      /\ suggestions' \subseteq suggestions
  BY Zenon, <1>2 DEF IInv, SuggestionsInv, Limits, SuggestersAreMembers
<1>4. host' = host => /\ host \in closed => host \in closed' \/ host = None
                      /\ \A m \in inHand : m.to = host => m \in inHand' \/ host = None
  BY Zenon, <1>2 DEF InHandFor
<1> QED
  BY Zenon, <1>1, <1>2, <1>3, <1>4, SeatMoves DEF SuggestionsInv

\* A return keeps SuggestionsInv: the notices kept are told, and a host who is
\* back is sent what is pending.
LEMMA SuggestionsReconnectInv ==
    ASSUME IInv, NEW c \in Client, SuggestionsReconnect(c)
    PROVE  SuggestionsInv'
<1>1. Ledger'
  BY Zenon, ReconnectLedger DEF IInv, SuggestionsInv
<1>2. /\ c \in away /\ clients' = clients \cup {c} /\ away' = away \ {c}
      /\ closed' = closed \ {c} /\ notices' = [notices EXCEPT ![c] = {}] /\ Replay
      /\ UNCHANGED <<suggestions, inHand>>
  BY DEF SuggestionsReconnect, HandleReconnect, Enter
<1>3. \A d \in Client : notices'[d] = IF d = c THEN {} ELSE notices[d]
  BY <1>2 DEF IInv, SuggestionsInv, Ledger, Typed
<1>4. /\ \A s \in suggestions' : s.from \in clients' \cup away'
      /\ suggestions' \subseteq suggestions
  BY Zenon, <1>2 DEF IInv, SuggestionsInv, Limits, SuggestersAreMembers
<1>5. ASSUME NEW d \in Client
      PROVE  notices'[d] \subseteq notices[d] /\ (notices'[d] # {} => d \in away')
  <2>1. notices[d] # {} => d \in away
    BY DEF IInv, SuggestionsInv, Limits, SuggestersAreMembers
  <2>2. CASE d = c
    BY Zenon, <1>3, <2>2
  <2>3. CASE d # c
    <3>1. notices'[d] = notices[d]
      BY Zenon, <1>3, <2>3
    <3> QED
      BY Zenon, <1>2, <2>1, <2>3, <3>1
  <2> QED
    BY <2>2, <2>3
<1>6. c # host \/ host = None
  BY Zenon, <1>2 DEF IInv, PlaybackInv, Members
<1>7. host' = host => /\ host \in closed => host \in closed' \/ host = None
                      /\ \A m \in inHand : m.to = host => m \in inHand' \/ host = None
  BY Zenon, <1>2, <1>6
<1> QED
  BY Zenon, <1>1, <1>2, <1>4, <1>5, <1>7, SeatMoves DEF SuggestionsInv

\* A departure keeps SuggestionsInv: a successor is sent what is still pending.
LEMMA SuggestionsDepartInv ==
    ASSUME IInv, NEW c \in Client, SuggestionsDepart(c)
    PROVE  SuggestionsInv'
<1>1. Ledger'
  BY Zenon, DepartLedger DEF IInv, SuggestionsInv
<1>2. /\ clients' = clients \ {c} /\ away' = away \ {c}
      /\ closed' = closed \ {c} /\ notices' = [notices EXCEPT ![c] = {}] /\ Replay
      /\ suggestions' = suggestions \ Own(c) /\ inHand' = inHand \ InHandFor(c)
  BY DEF SuggestionsDepart, Depart, Exit
<1>3. \A d \in Client : notices'[d] = IF d = c THEN {} ELSE notices[d]
  BY <1>2 DEF IInv, SuggestionsInv, Ledger, Typed
<1>4. /\ \A s \in suggestions' : s.from \in clients' \cup away'
      /\ suggestions' \subseteq suggestions
  BY Zenon, <1>2 DEF IInv, SuggestionsInv, Limits, SuggestersAreMembers, Own
<1>5. ASSUME NEW d \in Client
      PROVE  notices'[d] \subseteq notices[d] /\ (notices'[d] # {} => d \in away')
  <2>1. notices[d] # {} => d \in away
    BY DEF IInv, SuggestionsInv, Limits, SuggestersAreMembers
  <2>2. CASE d = c
    BY Zenon, <1>3, <2>2
  <2>3. CASE d # c
    <3>1. notices'[d] = notices[d]
      BY Zenon, <1>3, <2>3
    <3> QED
      BY Zenon, <1>2, <2>1, <2>3, <3>1
  <2> QED
    BY <2>2, <2>3
<1>6. host' = host => c # host \/ host = None
  BY Zenon DEF SuggestionsDepart, Depart, AssignHost
<1>7. host' = host => /\ host \in closed => host \in closed' \/ host = None
                      /\ \A m \in inHand : m.to = host => m \in inHand' \/ host = None
  BY Zenon, <1>2, <1>6 DEF InHandFor
<1> QED
  BY Zenon, <1>1, <1>2, <1>4, <1>5, <1>7, SeatMoves DEF SuggestionsInv

\* A transfer or failover keeps SuggestionsInv.
LEMMA SuggestionsHandOverInv ==
    ASSUME IInv, NEW c \in Client, SuggestionsHandOver(c)
    PROVE  SuggestionsInv'
<1>1. /\ UNCHANGED <<suggestions, issued, notices, inHand, told, dropped, clients, away>>
      /\ host' # host /\ Replay
  BY DEF SuggestionsHandOver, HandOver, AssignHost
<1>2. Ledger'
  <2>1. Outcomes' = Outcomes
    BY Zenon, <1>1 DEF Outcomes
  <2>2. Typed'
    BY Zenon, <1>1 DEF IInv, SuggestionsInv, Ledger, Typed
  <2> QED
    BY Zenon, <1>1, <2>1, <2>2, StillLedger DEF IInv, SuggestionsInv
<1>3. /\ \A s \in suggestions' : s.from \in clients' \cup away'
      /\ \A d \in Client : notices'[d] # {} => d \in away'
      /\ \A d \in Client : notices'[d] \subseteq notices[d]
      /\ suggestions' \subseteq suggestions
  BY Zenon, <1>1 DEF IInv, SuggestionsInv, Limits, SuggestersAreMembers
<1> QED
  BY Zenon, <1>1, <1>2, <1>3, SeatMoves DEF SuggestionsInv

\* A room is created without suggestions.
LEMMA InitInv == Init => IInv
<1> SUFFICES ASSUME Init PROVE IInv
  OBVIOUS
<1>1. PlaybackInv
  BY PlaybackInitInv DEF Init
<1>2. /\ suggestions = {} /\ issued = 0 /\ notices = [c \in Client |-> {}]
      /\ inHand = {} /\ told = [id \in ID |-> 0] /\ dropped = {}
  BY Zenon DEF Init
<1>3. Typed
  BY <1>2, SuggestionsAssumption DEF Typed
<1>4. Outcomes = {} /\ \A c \in Client : notices[c] = {}
  BY <1>2 DEF Outcomes
<1>5. Unique
  BY Zenon, <1>2, <1>4 DEF Unique
<1>6. Ranges
  <2>1. \A id : ~IsPending(id) /\ ~IsInHand(id) /\ ~IsNoticed(id) /\ ~IsDropped(id)
    BY Zenon, <1>2, <1>4 DEF IsPending, IsInHand, IsNoticed, IsDropped
  <2>2. \A id \in ID : told[id] = 0
    BY Zenon, <1>2
  <2> QED
    BY Zenon, <2>1, <2>2 DEF Ranges
<1>7. OnePlace
  <2>1. \A id \in 1..issued : FALSE
    BY <1>2
  <2> QED
    BY Zenon, <2>1 DEF OnePlace
<1>8. Limits
  <2>1. IsFiniteSet({}) /\ Cardinality({}) = 0
    BY Zenon, FS_EmptySet
  <2>2. \A c \in Client : Own(c) = {}
    BY Zenon, <1>2 DEF Own
  <2>3. 0 <= MaxPendingSuggestions /\ 0 <= MaxSuggestionsPerUser
    BY SuggestionsAssumption
  <2> QED
    BY Zenon, <1>2, <1>4, <2>1, <2>2, <2>3 DEF Limits, SuggestersAreMembers
<1>9. HostSeesSuggestions
  BY Zenon, <1>2 DEF HostSeesSuggestions, IDs
<1> QED
  BY Zenon, <1>1, <1>3, <1>5, <1>6, <1>7, <1>8, <1>9 DEF IInv, SuggestionsInv, Ledger

\* To Playback, a step of Suggestions is one of its own or none.
LEMMA NextPlayback == IInv /\ [Next]_vars => [PlaybackNext]_playbackVars
<1> SUFFICES ASSUME IInv, [Next]_vars PROVE PlaybackNext \/ UNCHANGED playbackVars
  BY Zenon
<1>1. CASE UNCHANGED vars
  BY <1>1 DEF vars
<1>2. ASSUME NEW c \in Client, NEW s \in suggestions, HandleApproveSuggestion(c, s)
      PROVE  PlaybackNext
  <2>1. QueueSuggested(c, s.track)
    BY Zenon, <1>2 DEF HandleApproveSuggestion
  <2>2. s.track \in Track
    BY Zenon DEF IInv, SuggestionsInv, Ledger, Typed
  <2> QED
    BY Zenon, <2>1, <2>2 DEF PlaybackNext
<1>3. ASSUME NEW c \in Client, NEW t, HandleSuggestTrack(c, t) PROVE UNCHANGED playbackVars
  BY <1>3 DEF HandleSuggestTrack
<1>4. ASSUME NEW c \in Client, NEW s, HandleRejectSuggestion(c, s) PROVE UNCHANGED playbackVars
  BY <1>4 DEF HandleRejectSuggestion
<1>5. ASSUME NEW m, SendInHand(m) PROVE UNCHANGED playbackVars
  BY <1>5 DEF SendInHand
<1> QED
  BY Zenon, <1>1, <1>2, <1>3, <1>4, <1>5 DEF Next, PlaybackNext, SuggestionsDisconnect,
     SuggestionsReconnect, SuggestionsDepart, SuggestionsHandOver

\* Every step keeps IInv.
LEMMA NextInv == IInv /\ [Next]_vars => IInv'
<1> SUFFICES ASSUME IInv, [Next]_vars PROVE IInv'
  OBVIOUS
<1>1. PlaybackInv'
  BY NextPlayback, PlaybackNextInv DEF IInv
<1>2. CASE UNCHANGED vars
  <2>1. UNCHANGED suggestionVars /\ UNCHANGED playbackVars
    BY <1>2 DEF vars
  <2> QED
    BY Zenon, <1>1, <2>1, QuietInv DEF IInv
<1>3. CASE Next
  <2>1. ASSUME NEW c \in Client, (PlaybackStep(c) \/ HandleApproveJoin(c)), UNCHANGED suggestionVars
        PROVE  SuggestionsInv'
    BY Zenon, <2>1, QuietInv
  <2>2. SuggestionsInv'
    BY Zenon, <1>3, <2>1, HandleSuggestTrackInv, HandleApproveSuggestionInv,
       HandleRejectSuggestionInv, SuggestionsDisconnectInv, SuggestionsReconnectInv,
       SuggestionsDepartInv, SuggestionsHandOverInv, SendInHandInv DEF Next
  <2> QED
    BY Zenon, <1>1, <2>2 DEF IInv
<1> QED
  BY Zenon, <1>2, <1>3

\* IInv is an invariant.
LEMMA Inductive == Spec => []IInv
BY InitInv, NextInv, PTL DEF Spec

\* The host is sent every suggestion it may answer (handleSuggestTrack,
\* replayHostWork), whoever holds the seat and whenever it changes hands.
THEOREM HostIsShown == Spec => []HostSeesSuggestions
<1>1. IInv => HostSeesSuggestions
  BY DEF IInv, SuggestionsInv
<1> QED
  BY <1>1, Inductive, PTL

\* Suggestions and notices belong to members and stay within their limits
\* (MaxPendingSuggestions, MaxSuggestionsPerUser, queueNoticeLocked).
THEOREM LimitsOfSuggesters == Spec => []SuggestersAreMembers
<1>1. IInv => SuggestersAreMembers
  BY DEF IInv, SuggestionsInv, Limits
<1> QED
  BY <1>1, Inductive, PTL

\* A suggestion is pending, on its way, kept, dropped, or told once: never lost
\* and never answered twice (handleApproveSuggestion, handleRejectSuggestion).
THEOREM AnsweredOnce == Spec => []OutcomeOnce
<1>1. IInv => OutcomeOnce
  <2> SUFFICES ASSUME IInv, NEW id \in 1..issued
               PROVE  told[id] + Cardinality(
                        {p \in {"pending", "inHand", "noticed", "dropped"} :
                          CASE p = "pending" -> id \in IDs(suggestions)
                            [] p = "inHand"  -> id \in IDs({m \in inHand : m.kind = "outcome"})
                            [] p = "noticed" -> \E c \in Client : id \in notices[c]
                            [] p = "dropped" -> id \in dropped}) = 1
    BY Zenon DEF OutcomeOnce
  <2> DEFINE At(p) == CASE p = "pending" -> id \in IDs(suggestions)
                        [] p = "inHand"  -> id \in IDs({m \in inHand : m.kind = "outcome"})
                        [] p = "noticed" -> \E c \in Client : id \in notices[c]
                        [] p = "dropped" -> id \in dropped
             Places == {p \in {"pending", "inHand", "noticed", "dropped"} : At(p)}
  <2>1. /\ id \in IDs(suggestions) <=> IsPending(id)
        /\ id \in IDs({m \in inHand : m.kind = "outcome"}) <=> IsInHand(id)
        /\ (\E c \in Client : id \in notices[c]) <=> IsNoticed(id)
        /\ id \in dropped <=> IsDropped(id)
    BY Zenon DEF IDs, IsPending, IsInHand, Outcomes, IsNoticed, IsDropped
  <2>2. /\ At("pending") <=> id \in IDs(suggestions)
        /\ At("inHand") <=> id \in IDs({m \in inHand : m.kind = "outcome"})
        /\ At("noticed") <=> \E c \in Client : id \in notices[c]
        /\ At("dropped") <=> id \in dropped
    OBVIOUS
  <2>3. OnePlaceAt(id)
    BY Zenon DEF IInv, SuggestionsInv, Ledger, OnePlace
  <2> HIDE DEF At
  <2>4. \/ told[id] = 1 /\ Places = {}
        \/ told[id] = 0 /\ \E p : Places = {p}
    BY Zenon, <2>1, <2>2, <2>3 DEF OnePlaceAt
  <2>5. told[id] + Cardinality(Places) = 1
    <3>1. /\ Places = {} => Cardinality(Places) = 0
          /\ (\E p : Places = {p}) => Cardinality(Places) = 1
      BY Zenon, FS_EmptySet, FS_Singleton
    <3> HIDE DEF Places
    <3> QED
      BY <2>4, <3>1
  <2> QED
    BY <2>5 DEF At
<1> QED
  BY <1>1, Inductive, PTL

\* Suggestions implements Playback: what guests suggest and the host answers is,
\* to the room, a queue edit of the host, and never anything else.
THEOREM SuggestionsImplementPlayback == Spec => PlaybackSpec
<1>1. Init => PlaybackInit
  BY DEF Init
<1> QED
  BY <1>1, NextPlayback, Inductive, PTL DEF Spec, PlaybackSpec

=============================================================================
