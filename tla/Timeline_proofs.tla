-------------------------- MODULE Timeline_proofs ---------------------------
(***************************************************************************)
(* The server's projection follows the host's player, for every position,  *)
(* delay and limit.                                                        *)
(***************************************************************************)
EXTENDS Timeline, TLAPS

\* What compensateActionTransit and the clamp make of a position captured at
\* time at and received in time is the position the player has reached since,
\* also where the sum would not fit an int64.
LEMMA CompensationExact ==
    ASSUME NEW position \in Position, NEW at \in Int, NEW nowMs \in Int, NEW rttMs \in Nat,
           at > 0, nowMs >= at, nowMs - at <= MaxActionTransit
    PROVE  ClampPlaybackPosition(CompensateActionTransit(position, at, nowMs, rttMs))
             = Lesser(position + (nowMs - at), MaxTrackDuration)
BY BoundsAssumption
   DEF ClampPlaybackPosition, CompensateActionTransit, Lesser, Greater, Position

\* Whatever the capture time and the round trip, the room's position stays
\* between the start and the longest track, and the sum stays within int64.
LEMMA CompensationBounded ==
    ASSUME NEW position \in Position, NEW at \in Int, NEW nowMs \in Int, NEW rttMs \in Nat
    PROVE  /\ CompensateActionTransit(position, at, nowMs, rttMs) \in Position
           /\ ClampPlaybackPosition(CompensateActionTransit(position, at, nowMs, rttMs))
                \in 0..MaxTrackDuration
<1> DEFINE p == CompensateActionTransit(position, at, nowMs, rttMs)
<1>1. p \in Position
  BY BoundsAssumption DEF CompensateActionTransit, Position
<1>2. p \in Position => ClampPlaybackPosition(p) \in 0..MaxTrackDuration
  <2> HIDE DEF p
  <2> QED
    BY BoundsAssumption DEF ClampPlaybackPosition, Lesser, Greater, Position
<1> QED
  BY <1>1, <1>2

\* Clamping a position leaves it where it is, up to the longest track.
LEMMA ClampExact ==
    ASSUME NEW position \in Position
    PROVE  /\ ClampPlaybackPosition(position) = Lesser(position, MaxTrackDuration)
           /\ ClampPlaybackPosition(position) \in 0..MaxTrackDuration
BY BoundsAssumption DEF ClampPlaybackPosition, Lesser, Greater, Position

\* A room starts with the player of its host.
LEMMA InitInv == Init => TimelineInv
<1> SUFFICES ASSUME Init PROVE TimelineInv
  OBVIOUS
<1>1. now = 1 /\ 1 \in Time /\ transit = <<>> /\ Len(transit) = 0 /\ past[1] = {0}
  BY BoundsAssumption DEF Init, Time
<1>2. TypeOK
  <2>1. transit \in Seq(Action)
    BY <1>1
  <2>2. state \in RoomState /\ state.position = 0 /\ state.lastUpdate = 1
    BY <1>1 DEF Init, RoomState
  <2>3. player \in [position : Nat, playing : BOOLEAN]
    BY DEF Init
  <2>4. late \in BOOLEAN /\ parked \in BOOLEAN /\ DOMAIN past = Time
    BY DEF Init
  <2> QED
    BY <1>1, <2>1, <2>2, <2>3, <2>4, BoundsAssumption DEF TypeOK
<1>3. LivePlaybackPosition(state, 1) = 0
  BY BoundsAssumption DEF Init, LivePlaybackPosition, Lesser, Greater
<1>4. Followed
  BY <1>1, <1>3, BoundsAssumption DEF Init, Followed, Lesser
<1> QED
  BY <1>1, <1>2, <1>3, <1>4 DEF Init, TimelineInv

\* The host's player acts.
LEMMA HostActsInv ==
    ASSUME TimelineInv, NEW kind \in Kind, NEW target \in SeekTarget, NEW stamped \in BOOLEAN,
           HostActs(kind, target, stamped)
    PROVE  TimelineInv'
<1>n. PICK n : n = Len(transit) + 1
  OBVIOUS
<1>1. UNCHANGED <<now, state, late, parked, past>>
  BY DEF HostActs
<1>0. PICK p, b : /\ player' = [position |-> p, playing |-> b]
                  /\ p \in 0..MaxInt64 /\ b \in BOOLEAN
                  /\ kind = "play" => b
                  /\ kind \in {"pause", "change_track"} => ~b
                  /\ kind = "seek" => b = player.playing
                  /\ kind = "change_track" => p = 0
  <2> DEFINE p == CASE kind = "change_track" -> 0
                    [] kind = "seek" -> target
                    [] OTHER -> player.position
             b == CASE kind = "play" -> TRUE
                    [] kind = "seek" -> player.playing
                    [] OTHER -> FALSE
  <2>1. player' = [position |-> p, playing |-> b]
    BY DEF HostActs
  <2>2. /\ player.position \in 0..MaxInt64 /\ player.playing \in BOOLEAN
        /\ target \in 0..MaxInt64 /\ 0 \in 0..MaxInt64
    BY BoundsAssumption DEF HostActs, TimelineInv, TypeOK
  <2>3. p \in 0..MaxInt64 /\ (kind = "change_track" => p = 0)
    BY <2>2 DEF Kind
  <2>4. /\ b \in BOOLEAN
        /\ kind = "play" => b
        /\ kind \in {"pause", "change_track"} => ~b
        /\ kind = "seek" => b = player.playing
    BY <2>2 DEF Kind
  <2> HIDE DEF p, b
  <2> QED
    BY <2>1, <2>3, <2>4
<1>2. PICK a : a = [kind |-> kind, position |-> p, at |-> now,
                    capturedAtServerTime |-> IF stamped THEN now ELSE 0, playing |-> b]
  OBVIOUS
<1>3. /\ a \in Action
      /\ a.kind = kind /\ a.position = p /\ a.playing = b /\ a.at = now
      /\ a.capturedAtServerTime \in {0, now}
      /\ transit' = Append(transit, a)
  <2>1. now \in Time /\ 0 \in Time
    BY BoundsAssumption DEF TimelineInv, TypeOK, Time
  <2>2. a \in Action
    BY <1>0, <1>2, <2>1 DEF Action, Position
  <2>3. transit' = Append(transit, a)
    <3>1. player'.position = p /\ player'.playing = b
      BY <1>0
    <3> QED
      BY <1>2, <3>1 DEF HostActs
  <2> QED
    BY <1>2, <2>2, <2>3
<1>4. /\ transit' \in Seq(Action) /\ transit' # <<>> /\ Len(transit') = n
      /\ transit'[n] = a
      /\ \A i \in 1..Len(transit) : transit'[i] = transit[i]
      /\ Len(transit) \in Nat
  BY <1>n, <1>3 DEF TimelineInv, TypeOK
<1>5. TypeOK'
  BY <1>0, <1>1, <1>4, BoundsAssumption DEF TypeOK, TimelineInv
<1>6. ASSUME NEW i \in 1..Len(transit) PROVE ActionOK(i)'
  <2>1. ActionOK(i)
    BY DEF TimelineInv
  <2>2. transit'[i] = transit[i] /\ (i # 1 => transit'[i - 1] = transit[i - 1])
    BY <1>4
  <2> QED
    BY <1>1, <2>1, <2>2 DEF ActionOK
<1>7. ActionOK(n)'
  <2>1. a.at \in 1..now /\ a.capturedAtServerTime \in {0, a.at}
    BY <1>3 DEF TimelineInv, TypeOK, Time
  <2>2. kind = "seek" => IF n = 1 THEN parked \/ a.playing = state.playing
                                 ELSE a.playing = transit'[n - 1].playing
    <3>1. CASE transit = <<>>
      BY <1>n, <1>0, <1>3, <1>4, <3>1 DEF TimelineInv, TypeOK
    <3>2. CASE transit # <<>>
      <4>1. Len(transit) >= 1 /\ transit'[n - 1] = transit[Len(transit)]
        BY <1>n, <1>4, <3>2 DEF TimelineInv, TypeOK
      <4> QED
        BY <1>n, <1>0, <1>3, <1>4, <3>2, <4>1 DEF TimelineInv, Reached
    <3> QED
      BY <3>1, <3>2
  <2> QED
    BY <1>0, <1>1, <1>3, <1>4, <2>1, <2>2 DEF ActionOK
<1>8. Reached(a)'
  BY <1>0, <1>1, <1>3 DEF Reached, TimelineInv, TypeOK, Time
<1>9. \A i \in 1..Len(transit') : ActionOK(i)'
  BY <1>n, <1>4, <1>6, <1>7
<1> QED
  BY <1>1, <1>4, <1>5, <1>8, <1>9 DEF TimelineInv, Followed, Recent, LivePlaybackPosition

\* At the time of its last update a room is where that update put it.
LEMMA LiveNow ==
    ASSUME NEW s, s.position \in 0..MaxTrackDuration, s.lastUpdate \in Int
    PROVE  LivePlaybackPosition(s, s.lastUpdate) = s.position
BY BoundsAssumption DEF LivePlaybackPosition, Lesser, Greater

\* A tick later it is a tick further on, up to the longest track.
LEMMA LiveNext ==
    ASSUME NEW s, s.position \in 0..MaxTrackDuration, s.lastUpdate \in Nat \ {0},
           s.playing \in BOOLEAN, NEW t \in Nat, t >= s.lastUpdate
    PROVE  LivePlaybackPosition(s, t + 1) =
             Lesser(LivePlaybackPosition(s, t) + (IF s.playing THEN 1 ELSE 0), MaxTrackDuration)
BY BoundsAssumption DEF LivePlaybackPosition, Lesser, Greater

\* The state, and with it the timeline, is set anew at the present time.
LEMMA PastSet ==
    ASSUME TypeOK, TypeOK', state'.lastUpdate = now, now' = now,
           past' = [past EXCEPT ![now] = @ \cup {LivePlaybackPosition(state', now)}]
    PROVE  \A t \in 1..now' : t >= state'.lastUpdate /\ Recent(t)' =>
                              LivePlaybackPosition(state', t) \in past'[t]
<1> SUFFICES ASSUME NEW t \in 1..now, t >= now
             PROVE  LivePlaybackPosition(state', t) \in past'[t]
  OBVIOUS
<1>1. t = now /\ now \in DOMAIN past
  BY DEF TypeOK, Time
<1> QED
  BY <1>1

\* The oldest action in transit is applied.
LEMMA HandlePlaybackActionInv ==
    ASSUME TimelineInv, NEW rttMs \in RoundTrip, HandlePlaybackAction(rttMs)
    PROVE  TimelineInv'
<1>n. PICK n : n = Len(transit)
  OBVIOUS
<1>a. PICK a : a = Head(transit)
  OBVIOUS
<1>1. /\ n \in Nat \ {0} /\ a = transit[1] /\ a \in Action /\ ActionOK(1)
      /\ transit' \in Seq(Action) /\ Len(transit') = n - 1
      /\ \A i \in 1..(n - 1) : transit'[i] = transit[i + 1]
  BY <1>n, <1>a DEF HandlePlaybackAction, TimelineInv, TypeOK
<1>2. /\ a.kind \in Kind /\ a.position \in Position /\ a.playing \in BOOLEAN
      /\ a.at \in 1..now /\ a.capturedAtServerTime \in {0, a.at}
      /\ a.kind = "play" => a.playing
      /\ a.kind \in {"pause", "change_track"} => ~a.playing
      /\ a.kind = "change_track" => a.position = 0
      /\ a.kind = "seek" => parked \/ a.playing = state.playing
  BY <1>1 DEF Action, ActionOK
<1>3. /\ now \in 1..MaxClock /\ state \in RoomState /\ rttMs \in Nat
      /\ parked \in BOOLEAN
  BY BoundsAssumption DEF TimelineInv, TypeOK, Time
<1>4. /\ now' = now /\ player' = player
      /\ late' = (a.kind \in {"play", "seek"} /\ a.playing
                   /\ (a.capturedAtServerTime = 0 \/ now - a.at > MaxActionTransit))
      /\ parked' = (parked /\ a.kind = "seek")
      /\ past' = [past EXCEPT ![now] = @ \cup {LivePlaybackPosition(state', now)}]
  BY <1>a DEF HandlePlaybackAction
<1>5. PICK p, b, d : /\ p = Applied(a, rttMs)
                     /\ b = IF a.kind = "seek" THEN state.playing ELSE a.kind = "play"
                     /\ d \in Nat
                     /\ state' = [position |-> p, lastUpdate |-> now, playing |-> b, duration |-> d]
  <2>1. state.duration \in Nat /\ MaxTrackDuration \div 2 \in Nat
    BY <1>3, BoundsAssumption DEF RoomState
  <2>2. PICK d \in Nat :
           state' = [position |-> Applied(a, rttMs), lastUpdate |-> now,
                     playing |-> IF a.kind = "seek" THEN state.playing ELSE a.kind = "play",
                     duration |-> d]
    BY <1>a, <2>1 DEF HandlePlaybackAction
  <2> QED
    BY <2>2
<1>6. /\ p \in 0..MaxTrackDuration
      /\ ~late' /\ ~parked' => p = Lesser(a.position + (IF a.playing THEN now - a.at ELSE 0),
                                         MaxTrackDuration)
  <2>1. CASE a.kind = "change_track"
    BY <1>2, <1>5, <2>1, BoundsAssumption DEF Applied, Lesser, Position
  <2>2. CASE a.kind = "pause" \/ (a.kind = "seek" /\ ~state.playing)
    <3>1. p = ClampPlaybackPosition(a.position)
      BY <1>5, <2>2 DEF Applied
    <3>2. ~parked' => ~a.playing
      BY <1>2, <1>4, <2>2
    <3> QED
      BY <1>2, <3>1, <3>2, ClampExact DEF Position
  <2>3. CASE a.kind = "play" \/ (a.kind = "seek" /\ state.playing)
    <3>1. p = ClampPlaybackPosition(CompensateActionTransit(a.position,
                                       a.capturedAtServerTime, now, rttMs))
      BY <1>5, <2>3 DEF Applied
    <3>2. ~parked' => a.playing
      BY <1>2, <1>4, <2>3
    <3>3. p \in 0..MaxTrackDuration
      BY <1>2, <1>3, <3>1, CompensationBounded
    <3>4. ASSUME ~late', ~parked'
          PROVE  p = Lesser(a.position + (now - a.at), MaxTrackDuration)
      <4>1. a.capturedAtServerTime = a.at /\ now - a.at <= MaxActionTransit
        BY <1>2, <1>3, <1>4, <2>3, <3>2, <3>4, BoundsAssumption
      <4> QED
        BY <1>2, <1>3, <3>1, <4>1, CompensationExact
    <3> QED
      BY <3>2, <3>3, <3>4
  <2> QED
    BY <1>2, <1>3, <2>1, <2>2, <2>3 DEF Kind, RoomState
<1>7. /\ state' \in RoomState /\ state'.position = p /\ state'.lastUpdate = now
      /\ state'.playing = b
  <2>1. b \in BOOLEAN
    BY <1>3, <1>5 DEF RoomState
  <2>2. now \in Time /\ p \in Int
    BY <1>3, <1>6, BoundsAssumption DEF Time
  <2> QED
    BY <1>5, <2>1, <2>2 DEF RoomState
<1>8. TypeOK'
  BY <1>1, <1>3, <1>4, <1>6, <1>7 DEF TypeOK, TimelineInv
<1>9. parked' \/ b = a.playing
  BY <1>2, <1>3, <1>4, <1>5 DEF Kind
<1>10. ASSUME NEW i \in 1..Len(transit') PROVE ActionOK(i)'
  <2>1. i \in 1..(n - 1) /\ transit'[i] = transit[i + 1] /\ ActionOK(i + 1)
    BY <1>n, <1>1 DEF TimelineInv
  <2>2. i # 1 => transit'[i - 1] = transit[i]
    BY <1>1, <2>1
  <2> QED
    BY <1>1, <1>4, <1>7, <1>9, <2>1, <2>2 DEF ActionOK
<1>11. transit' # <<>> => Reached(transit[Len(transit)])'
  <2> SUFFICES ASSUME transit' # <<>> PROVE Reached(transit[Len(transit)])'
    OBVIOUS
  <2>1. n - 1 \in 1..(n - 1)
    BY <1>1
  <2>2. transit'[Len(transit')] = transit[n]
    BY <1>1, <2>1
  <2>3. Reached(transit[n])
    BY <1>n, <1>1 DEF TimelineInv, TypeOK
  <2> QED
    BY <1>4, <2>2, <2>3 DEF Reached
<1>12. transit' = <<>> => Reached(a)
  <2> SUFFICES ASSUME transit' = <<>> PROVE Reached(a)
    OBVIOUS
  <2>1. n = 1
    BY <1>1
  <2>2. transit # <<>>
    BY DEF HandlePlaybackAction
  <2> QED
    BY <1>n, <1>1, <2>1, <2>2 DEF TimelineInv
<1>13. transit' = <<>> /\ ~parked' => state'.playing = player'.playing
  BY <1>4, <1>7, <1>9, <1>12 DEF Reached
<1>14. Followed'
  <2> SUFFICES ASSUME transit' = <<>>, ~late', ~parked'
               PROVE  LivePlaybackPosition(state, now)' = Lesser(player.position, MaxTrackDuration)'
    BY <1>13 DEF Followed
  <2>1. LivePlaybackPosition(state', now) = p
    BY <1>3, <1>6, <1>7, LiveNow
  <2> QED
    BY <1>4, <1>6, <1>12, <2>1 DEF Reached
<1>15. \A t \in 1..now' : t >= state'.lastUpdate /\ Recent(t)' =>
                          LivePlaybackPosition(state', t) \in past'[t]
  BY <1>4, <1>7, <1>8, PastSet DEF TimelineInv
<1> QED
  BY <1>8, <1>10, <1>11, <1>13, <1>14, <1>15 DEF TimelineInv

\* A restart leaves the timeline alone, or starts a new one at the end of the track.
LEMMA RestartInv ==
    ASSUME TimelineInv, Restart
    PROVE  TimelineInv'
<1>1. UNCHANGED <<now, player, transit, late>>
  BY DEF Restart
<1>2. CASE UNCHANGED <<state, parked, past>>
  BY <1>1, <1>2 DEF TimelineInv, TypeOK, ActionOK, Reached, Followed, Recent,
                    LivePlaybackPosition
<1>3. CASE /\ state.playing /\ state.duration > 0
           /\ LivePlaybackPosition(state, now) >= state.duration
           /\ state' = [state EXCEPT !.playing = FALSE, !.position = state.duration,
                                     !.lastUpdate = now]
           /\ parked' = TRUE
           /\ past' = [past EXCEPT ![now] = @ \cup {LivePlaybackPosition(state', now)}]
  <2>1. state \in RoomState /\ now \in Time /\ now >= 1
    BY DEF TimelineInv, TypeOK
  <2>2. state.duration \in 0..MaxTrackDuration
    BY <1>3, <2>1, BoundsAssumption DEF RoomState, LivePlaybackPosition, Lesser, Greater, Time
  <2>3. /\ state' \in RoomState /\ state'.position = state.duration
        /\ state'.lastUpdate = now
    <3>1. state' = [position |-> state.duration, lastUpdate |-> now, playing |-> FALSE,
                    duration |-> state.duration]
      BY <1>3, <2>1 DEF RoomState
    <3> QED
      BY <2>1, <2>2, <3>1 DEF RoomState
  <2>4. TypeOK'
    BY <1>1, <1>3, <2>1, <2>2, <2>3 DEF TypeOK, TimelineInv, Time
  <2>5. \A t \in 1..now' : t >= state'.lastUpdate /\ Recent(t)' =>
                           LivePlaybackPosition(state', t) \in past'[t]
    BY <1>1, <1>3, <2>3, <2>4, PastSet DEF TimelineInv
  <2>6. ASSUME NEW i \in 1..Len(transit') PROVE ActionOK(i)'
    <3>1. i \in 1..Len(transit) /\ ActionOK(i)
      BY <1>1 DEF TimelineInv
    <3> QED
      BY <1>1, <1>3, <3>1 DEF ActionOK
  <2>7. transit' # <<>> => Reached(transit[Len(transit)])'
    BY <1>1 DEF TimelineInv, Reached
  <2>8. Followed'
    BY <1>3 DEF Followed
  <2> QED
    BY <1>3, <2>4, <2>5, <2>6, <2>7, <2>8 DEF TimelineInv
<1> QED
  BY <1>2, <1>3 DEF Restart

\* Time passes for the player as it does for the projection.
LEMMA TickInv ==
    ASSUME TimelineInv, Tick
    PROVE  TimelineInv'
<1>1. /\ now' = now + 1 /\ now \in Nat \ {0} /\ now' \in Time
      /\ UNCHANGED <<transit, state, late, parked>>
  BY BoundsAssumption DEF Tick, TimelineInv, TypeOK, Time
<1>2. /\ player' \in [position : Nat, playing : BOOLEAN]
      /\ player'.playing = player.playing
      /\ player'.position = player.position + (IF player.playing THEN 1 ELSE 0)
      /\ player.position \in Nat /\ player.playing \in BOOLEAN
  BY DEF Tick, TimelineInv, TypeOK
<1>3. TypeOK'
  BY <1>1, <1>2 DEF Tick, TypeOK, TimelineInv
<1>4. ASSUME NEW i \in 1..Len(transit') PROVE ActionOK(i)'
  <2>1. i \in 1..Len(transit) /\ ActionOK(i)
    BY <1>1 DEF TimelineInv
  <2> QED
    BY <1>1, <2>1 DEF ActionOK
<1>5. transit' # <<>> => Reached(transit[Len(transit)])'
  <2> SUFFICES ASSUME transit # <<>> PROVE Reached(transit[Len(transit)])'
    BY <1>1
  <2>0. PICK a : a = transit[Len(transit)]
    OBVIOUS
  <2>1. /\ Reached(a) /\ a \in Action /\ a.at \in 1..now
    BY <2>0 DEF TimelineInv, TypeOK, ActionOK
  <2>2. a.position \in Nat /\ a.playing \in BOOLEAN
    BY <2>1 DEF Action, Position
  <2>3. Reached(a)'
    BY <1>1, <1>2, <2>1, <2>2 DEF Reached
  <2> QED
    BY <1>1, <2>0, <2>3
<1>6. transit' = <<>> /\ ~parked' => state'.playing = player'.playing
  BY <1>1, <1>2 DEF TimelineInv
<1>7. /\ state.position \in 0..MaxTrackDuration /\ state.lastUpdate \in Nat \ {0}
      /\ state.playing \in BOOLEAN /\ now >= state.lastUpdate
  BY <1>1 DEF TimelineInv, TypeOK, RoomState
<1>8. Followed'
  <2> SUFFICES ASSUME transit = <<>>, ~late, ~parked
               PROVE  LivePlaybackPosition(state, now + 1) = Lesser(player'.position, MaxTrackDuration)
    BY <1>1, <1>6 DEF Followed, LivePlaybackPosition
  <2>1. /\ state.playing = player.playing
        /\ LivePlaybackPosition(state, now) = Lesser(player.position, MaxTrackDuration)
    BY DEF TimelineInv, Followed
  <2>2. LivePlaybackPosition(state, now + 1) =
          Lesser(LivePlaybackPosition(state, now) + (IF state.playing THEN 1 ELSE 0),
                 MaxTrackDuration)
    BY <1>1, <1>7, LiveNext
  <2> QED
    BY <1>2, <2>1, <2>2, BoundsAssumption DEF Lesser
<1>9. ASSUME NEW t \in 1..now', t >= state'.lastUpdate, Recent(t)'
      PROVE  LivePlaybackPosition(state', t) \in past'[t]
  <2>1. t \in Time /\ past'[t] = IF t = now + 1 THEN {LivePlaybackPosition(state, t)}
                                               ELSE past[t]
    <3>1. t \in Time
      BY <1>1, <1>9, BoundsAssumption DEF Time
    <3> QED
      BY <1>9, <3>1 DEF Tick
  <2>2. CASE t = now + 1
    BY <1>1, <2>1, <2>2
  <2>3. CASE t # now + 1
    <3>1. t \in 1..now /\ t >= state.lastUpdate /\ Recent(t)
      BY <1>1, <1>9, <2>3, BoundsAssumption DEF Recent
    <3> QED
      BY <1>1, <2>1, <2>3, <3>1 DEF TimelineInv
  <2> QED
    BY <2>2, <2>3
<1> QED
  BY <1>3, <1>4, <1>5, <1>6, <1>8, <1>9 DEF TimelineInv

\* No step breaks TimelineInv.
LEMMA NextInv == TimelineInv /\ [Next]_vars => TimelineInv'
<1> SUFFICES ASSUME TimelineInv, [Next]_vars PROVE TimelineInv'
  OBVIOUS
<1>1. CASE \E kind \in Kind, target \in SeekTarget, stamped \in BOOLEAN :
              HostActs(kind, target, stamped)
  BY <1>1, HostActsInv
<1>2. CASE \E rttMs \in RoundTrip : HandlePlaybackAction(rttMs)
  BY <1>2, HandlePlaybackActionInv
<1>3. CASE Restart
  BY <1>3, RestartInv
<1>4. CASE Tick
  BY <1>4, TickInv
<1>5. CASE UNCHANGED vars
  BY <1>5 DEF vars, TimelineInv, TypeOK, ActionOK, Reached, Followed, Recent,
              LivePlaybackPosition
<1> QED
  BY <1>1, <1>2, <1>3, <1>4, <1>5 DEF Next

\* The host's player and the projection of livePlaybackPosition agree whenever
\* no action is under way, for all limits, positions and delays.
THEOREM HostFollowed == Spec => []Followed
<1>1. TimelineInv => Followed
  BY DEF TimelineInv
<1> QED
  BY <1>1, InitInv, NextInv, PTL DEF Spec

\* handlePing measures drift against what the room projected at the time of
\* the sample, however late the sample and whatever the host did since.
THEOREM DriftAlwaysTrue == Spec => []DriftTrue
<1>1. TimelineInv => DriftTrue
  BY DEF TimelineInv, DriftTrue, DriftValid, Recent
<1> QED
  BY <1>1, InitInv, NextInv, PTL DEF Spec

\* The room's position never leaves the track: it is never negative, and never
\* beyond MaxTrackDuration, whatever a client reports.
THEOREM PositionBounded == Spec => [](state.position \in 0..MaxTrackDuration)
<1>1. TimelineInv => state.position \in 0..MaxTrackDuration
  BY DEF TimelineInv, TypeOK
<1> QED
  BY <1>1, InitInv, NextInv, PTL DEF Spec

=============================================================================
