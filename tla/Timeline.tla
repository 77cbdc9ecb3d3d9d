------------------------------ MODULE Timeline ------------------------------
(***************************************************************************)
(* The room's clockwork: the position the server projects while the host's *)
(* player runs, its correction for the time an action spends in transit,   *)
(* the drift samples of the guests, and the projection after a restart.    *)
(*                                                                         *)
(* Granularity.  One step per observation of the host, per action the      *)
(* server applies, and per tick of the clock.  Actions of one host arrive  *)
(* in the order they were sent, each as late as it likes.                  *)
(*                                                                         *)
(* Abstractions.  A tick is a millisecond.  Only the actions that set the  *)
(* position and pass their checks are here; who may act, and what else an  *)
(* action does, is in Playback.                                            *)
(***************************************************************************)
EXTENDS Integers, Sequences

CONSTANTS
    MaxTrackDuration,
    MaxActionTransit,       \* maxActionTransitCompensation
    MaxDriftSampleSkew,
    MaxInt64,               \* the largest int64
    SeekTarget,             \* positions the host seeks to
    RoundTrip,              \* measured round trips
    MaxClock,               \* bound on the clock
    MaxInTransit            \* bound: actions in transit

ASSUME BoundsAssumption ==
    /\ MaxTrackDuration \in Nat /\ MaxActionTransit \in Nat /\ MaxDriftSampleSkew \in Nat
    /\ RoundTrip \subseteq Nat /\ MaxClock \in Nat \ {0} /\ MaxInTransit \in Nat
    /\ MaxInt64 \in Nat /\ MaxTrackDuration <= MaxInt64
    /\ SeekTarget \subseteq 0..MaxInt64

VARIABLES
    now,        \* serverNowMs
    player,     \* the host's player
    transit,    \* actions on their way to the server; at: when they were sent
    state,      \* Room.State
    late,       \* the last action could not be corrected exactly
    parked,     \* a restart stopped the room at the end of its track
    past        \* the positions projected at each time of late

vars == <<now, player, transit, state, late, parked, past>>

-----------------------------------------------------------------------------

Time == 0..MaxClock

Position == 0..MaxInt64

Kind == {"play", "pause", "seek", "change_track"}

Action == [kind : Kind, position : Position, capturedAtServerTime : Time, at : Time,
           playing : BOOLEAN]

RoomState == [position : Int, lastUpdate : Time, playing : BOOLEAN, duration : Nat]

Lesser(a, b) == IF a <= b THEN a ELSE b
Greater(a, b) == IF a >= b THEN a ELSE b

ClampPlaybackPosition(position) == Lesser(Greater(position, 0), MaxTrackDuration)

\* Mutant: the sum wraps around.
CompensateWrapping(position, capturedAtServerTime, nowMs, rttMs) ==
    LET elapsed == IF capturedAtServerTime > 0 THEN nowMs - capturedAtServerTime
                   ELSE rttMs \div 2
    IN  IF elapsed <= 0 \/ elapsed > MaxActionTransit THEN position
        ELSE IF position > MaxInt64 - elapsed THEN position + elapsed - 2 * (MaxInt64 + 1)
        ELSE position + elapsed

\* A position captured earlier, moved on to nowMs; left alone if the capture
\* time makes no sense.
CompensateActionTransit(position, capturedAtServerTime, nowMs, rttMs) ==
    LET elapsed == IF capturedAtServerTime > 0 THEN nowMs - capturedAtServerTime
                   ELSE rttMs \div 2
    IN  IF elapsed <= 0 \/ elapsed > MaxActionTransit THEN position
        ELSE IF position > MaxInt64 - elapsed THEN MaxInt64
        ELSE position + elapsed

LivePlaybackPosition(s, nowMs) ==
    LET elapsed == IF s.playing /\ s.lastUpdate > 0 /\ nowMs > s.lastUpdate
                     THEN nowMs - s.lastUpdate ELSE 0
    IN  Lesser(Greater(s.position, 0) + elapsed, MaxTrackDuration)

\* A room is created paused at its start, and so is the player of its host.
Init ==
    /\ now = 1
    /\ player = [position |-> 0, playing |-> FALSE]
    /\ transit = <<>>
    /\ state = [position |-> 0, lastUpdate |-> 1, playing |-> FALSE, duration |-> 0]
    /\ late = FALSE /\ parked = FALSE
    /\ past = [t \in Time |-> IF t = 1 THEN {0} ELSE {}]

\* Samples that old may be looked at.
Recent(t) == now - t <= MaxDriftSampleSkew

-----------------------------------------------------------------------------

\* The host's player does something and reports it; stamped if the client has
\* estimated the server's clock.
HostActs(kind, target, stamped) ==
    /\ Len(transit) < MaxInTransit
    /\ player.position <= MaxInt64
    /\ player' = [position |-> CASE kind = "change_track" -> 0
                                 [] kind = "seek" -> target
                                 [] OTHER -> player.position,
                  playing |-> CASE kind = "play" -> TRUE
                                [] kind = "seek" -> player.playing
                                [] OTHER -> FALSE]
    /\ transit' = Append(transit, [kind |-> kind, position |-> player'.position, at |-> now,
                                   capturedAtServerTime |-> IF stamped THEN now ELSE 0,
                                   playing |-> player'.playing])
    /\ UNCHANGED <<now, state, late, parked, past>>

\* What the state's position becomes.
Applied(a, rttMs) ==
    CASE a.kind = "change_track" -> 0
      [] a.kind = "pause" \/ (a.kind = "seek" /\ ~state.playing)
           -> ClampPlaybackPosition(a.position)
      [] OTHER
           -> ClampPlaybackPosition(CompensateActionTransit(a.position, a.capturedAtServerTime,
                                                            now, rttMs))

\* The oldest action in transit is applied.  A track's reported duration is
\* anything, a placeholder included.
HandlePlaybackAction(rttMs) ==
    LET a == Head(transit)
    IN  /\ transit # <<>>
        /\ transit' = Tail(transit)
        /\ \E d \in (IF a.kind = "change_track" THEN {0, MaxTrackDuration \div 2}
                                                ELSE {state.duration}) :
              state' = [position |-> Applied(a, rttMs),
                        lastUpdate |-> now,
                        playing |-> IF a.kind = "seek" THEN state.playing ELSE a.kind = "play",
                        duration |-> d]
        /\ late' = (a.kind \in {"play", "seek"} /\ a.playing
                     /\ (a.capturedAtServerTime = 0 \/ now - a.at > MaxActionTransit))
        /\ parked' = (parked /\ a.kind = "seek")
        /\ past' = [past EXCEPT ![now] = @ \cup {LivePlaybackPosition(state', now)}]
        /\ UNCHANGED <<now, player>>

\* Mutant: a sample from before the last action is taken.
DriftValidAnyAge(capturedAt) ==
    /\ now - capturedAt <= MaxDriftSampleSkew
    /\ capturedAt - now <= MaxDriftSampleSkew

\* handlePing: a guest's position, captured at capturedAt and received now, is
\* compared with the projection if it belongs to the present timeline.
DriftValid(capturedAt) ==
    /\ capturedAt >= state.lastUpdate
    /\ now - capturedAt <= MaxDriftSampleSkew
    /\ capturedAt - now <= MaxDriftSampleSkew

\* restoreRoomLocked: a room that has run past the end is stopped there.
Restart ==
    /\ IF state.playing /\ state.duration > 0
            /\ LivePlaybackPosition(state, now) >= state.duration
         THEN /\ state' = [state EXCEPT !.playing = FALSE, !.position = state.duration,
                                        !.lastUpdate = now]
              /\ parked' = TRUE
              /\ past' = [past EXCEPT ![now] = @ \cup {LivePlaybackPosition(state', now)}]
         ELSE UNCHANGED <<state, parked, past>>
    /\ UNCHANGED <<now, player, transit, late>>

Tick ==
    /\ now < MaxClock
    /\ now' = now + 1
    /\ player' = [player EXCEPT !.position = IF player.playing THEN @ + 1 ELSE @]
    /\ past' = [t \in Time |-> IF t = now + 1 THEN {LivePlaybackPosition(state, t)}
                               ELSE IF Recent(t)' THEN past[t] ELSE {}]
    /\ UNCHANGED <<transit, state, late, parked>>

Next ==
    \/ \E kind \in Kind, target \in SeekTarget, stamped \in BOOLEAN :
          HostActs(kind, target, stamped)
    \/ \E rttMs \in RoundTrip : HandlePlaybackAction(rttMs)
    \/ Restart
    \/ Tick

Spec == Init /\ [][Next]_vars

-----------------------------------------------------------------------------
(* Properties *)

\* Once its last action has arrived the host hears in its own player exactly
\* what the server projects for everyone else, however long the actions were
\* under way, in any order of plays, seeks and pauses, and at positions up to
\* the largest int64: unless an action came later than can be corrected, or a
\* restart stopped the room.
Followed ==
    transit = <<>> /\ ~late /\ ~parked =>
        /\ state.playing = player.playing
        /\ LivePlaybackPosition(state, now) = Lesser(player.position, MaxTrackDuration)

\* A guest's sample is compared with a position the room did project when the
\* sample was taken, never with that of a timeline that began later.
DriftTrue ==
    \A t \in 1..now : DriftValid(t) => LivePlaybackPosition(state, t) \in past[t]

TypeOK ==
    /\ now \in Time /\ now >= 1
    /\ player \in [position : Nat, playing : BOOLEAN]
    /\ transit \in Seq(Action)
    /\ state \in RoomState
    /\ state.lastUpdate \in 1..now
    /\ state.position \in 0..MaxTrackDuration
    /\ late \in BOOLEAN /\ parked \in BOOLEAN
    /\ DOMAIN past = Time

\* An action in transit says what the player did; a seek knows whether the
\* room will be playing when it arrives.
ActionOK(i) ==
    LET a == transit[i]
    IN  /\ a.at \in 1..now /\ a.capturedAtServerTime \in {0, a.at}
        /\ a.kind = "play" => a.playing
        /\ a.kind \in {"pause", "change_track"} => ~a.playing
        /\ a.kind = "change_track" => a.position = 0
        /\ a.kind = "seek" => IF i = 1 THEN parked \/ a.playing = state.playing
                                       ELSE a.playing = transit[i - 1].playing

\* The player went on from where action a left it.
Reached(a) ==
    /\ player.playing = a.playing
    /\ player.position = a.position + (IF a.playing THEN now - a.at ELSE 0)

\* The inductive invariant: the last action in transit knows where the player is.
TimelineInv ==
    /\ TypeOK
    /\ \A i \in 1..Len(transit) : ActionOK(i)
    /\ transit # <<>> => Reached(transit[Len(transit)])
    /\ transit = <<>> /\ ~parked => state.playing = player.playing
    /\ Followed
    /\ \A t \in 1..now : t >= state.lastUpdate /\ Recent(t) =>
                          LivePlaybackPosition(state, t) \in past[t]

=============================================================================
