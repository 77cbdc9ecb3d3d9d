---------------------------- MODULE Suggestions -----------------------------
(***************************************************************************)
(* Tracks that guests suggest and the host approves or rejects             *)
(* (handleSuggestTrack, handleApproveSuggestion, handleRejectSuggestion),  *)
(* on top of Playback: an approved track enters the queue, and members     *)
(* who come, go and take the host's seat take their suggestions, notices   *)
(* and replayed work along.                                                *)
(*                                                                         *)
(* Granularity.  handleSuggestTrack and handleRejectSuggestion hold Room.mu *)
(* only, and send after they have given it up: the message is in hand      *)
(* until then.  handleApproveSuggestion holds syncMu until its messages    *)
(* are queued, so its answer is part of its step.  IDs are never reused.   *)
(* For each suggestion the model remembers where it ended.                 *)
(***************************************************************************)
EXTENDS Playback, FiniteSets

CONSTANTS
    MaxPendingSuggestions, MaxSuggestionsPerUser,
    MaxSuggestions      \* bound: suggestions ever made

ASSUME SuggestionsAssumption ==
    {MaxPendingSuggestions, MaxSuggestionsPerUser, MaxSuggestions} \subseteq Nat

VARIABLES
    suggestions,    \* Room.PendingSuggestions
    issued,         \* suggestions made so far; the last ID
    notices,        \* Room.PendingNotices: outcomes kept for a member who is away
    seen,           \* the suggestions sent to the present host
    inHand,         \* messages on their way to a connection's queue
    told,           \* how often a suggestion's outcome was sent to its author
    dropped         \* suggestions that ended with their author or a connection

suggestionVars == <<suggestions, issued, notices, seen, inHand, told, dropped>>
vars == <<playbackVars, suggestionVars>>

-----------------------------------------------------------------------------

ID == 1..MaxSuggestions

Suggestion == [id : ID, from : Client, track : Track]

\* notify: a suggestion for the host; outcome: the answer for its author.
Message == [kind : {"notify", "outcome"}, to : Client, id : ID]

Own(c) == {s \in suggestions : s.from = c}

IDs(set) == {x.id : x \in set}

InHandFor(c) == {m \in inHand : m.to = c}

\* Mutant: the notice is kept only for members who are connected.
QueueNoticeForgotten(c, id) ==
    /\ dropped' = dropped
    /\ UNCHANGED notices

\* queueNoticeLocked: the outcome waits for c to come back, if there is room.
QueueNotice(c, id) ==
    IF c \in away /\ Cardinality(notices[c]) < MaxSuggestionsPerUser
      THEN /\ notices' = [notices EXCEPT ![c] = @ \cup {id}]
           /\ UNCHANGED dropped
      ELSE /\ dropped' = dropped \cup {id}
           /\ UNCHANGED notices

-----------------------------------------------------------------------------
(* Requests *)

Suggestable(c, t) ==
    /\ Reading(c)
    /\ host # c
    /\ Cardinality(suggestions) < MaxPendingSuggestions
    /\ \A s \in Own(c) : s.track # t
    /\ Cardinality(Own(c)) < MaxSuggestionsPerUser

HandleSuggestTrack(c, t) ==
    LET id == issued + 1
    IN  /\ issued < MaxSuggestions
        /\ Suggestable(c, t)
        /\ issued' = id
        /\ suggestions' = suggestions \cup {[id |-> id, from |-> c, track |-> t]}
        /\ inHand' = IF host = None THEN inHand
                     ELSE inHand \cup {[kind |-> "notify", to |-> host, id |-> id]}
        /\ UNCHANGED <<playbackVars, notices, seen, told, dropped>>

\* The track is queued and the author told, both under syncMu.
HandleApproveSuggestion(c, s) ==
    /\ s \in suggestions
    /\ QueueSuggested(c, s.track)
    /\ suggestions' = suggestions \ {s}
    /\ IF s.from \in clients
         THEN /\ told' = IF s.from \in closed THEN told ELSE [told EXCEPT ![s.id] = @ + 1]
              /\ dropped' = IF s.from \in closed THEN dropped \cup {s.id} ELSE dropped
              /\ UNCHANGED notices
         ELSE QueueNotice(s.from, s.id) /\ UNCHANGED told
    /\ UNCHANGED <<issued, seen, inHand>>

\* The author is told once Room.mu is given up.
HandleRejectSuggestion(c, s) ==
    /\ Reading(c) /\ host = c
    /\ s \in suggestions
    /\ suggestions' = suggestions \ {s}
    /\ IF s.from \in clients
         THEN /\ inHand' = inHand \cup {[kind |-> "outcome", to |-> s.from, id |-> s.id]}
              /\ UNCHANGED <<notices, dropped>>
         ELSE QueueNotice(s.from, s.id) /\ UNCHANGED inHand
    /\ UNCHANGED <<playbackVars, issued, seen, told>>

\* A message in hand is queued, or lost on a connection that is shut.
SendInHand(m) ==
    /\ m \in inHand
    /\ inHand' = inHand \ {m}
    /\ IF m.kind = "notify"
         THEN /\ seen' = IF m.to = host THEN seen \cup {m.id} ELSE seen
              /\ UNCHANGED <<told, dropped>>
         ELSE /\ told' = IF m.to \in closed THEN told ELSE [told EXCEPT ![m.id] = @ + 1]
              /\ dropped' = IF m.to \in closed THEN dropped \cup {m.id} ELSE dropped
              /\ UNCHANGED seen
    /\ UNCHANGED <<playbackVars, suggestions, issued, notices>>

-----------------------------------------------------------------------------
(* Comings and goings *)

\* What was on its way to c's connection goes nowhere.
Intercept(c) ==
    /\ inHand' = inHand \ InHandFor(c)
    /\ dropped' = dropped \cup IDs({m \in InHandFor(c) : m.kind = "outcome"})

\* Mutant: nothing is replayed to a new host.
ReplayNothing ==
    seen' = IF host' = host THEN seen ELSE {}

\* replayHostWork: whoever becomes host is sent the pending suggestions.
Replay ==
    seen' = IF host' = host THEN seen
            ELSE IF host' = None THEN {} ELSE IDs(suggestions')

SuggestionsDisconnect(c) ==
    /\ HandleClientDisconnect(c)
    /\ Intercept(c)
    /\ suggestions' = suggestions
    /\ Replay
    /\ UNCHANGED <<issued, notices, told>>

\* The notices kept for c follow the state of the room.
SuggestionsReconnect(c) ==
    /\ HandleReconnect(c)
    /\ told' = [id \in ID |-> told[id] + IF id \in notices[c] THEN 1 ELSE 0]
    /\ notices' = [notices EXCEPT ![c] = {}]
    /\ suggestions' = suggestions
    /\ Replay
    /\ UNCHANGED <<issued, inHand, dropped>>

\* Mutant: the suggestions of a member who left stay.
SuggestionsDepartKeeps(c) ==
    /\ Depart(c)
    /\ inHand' = inHand \ InHandFor(c)
    /\ notices' = [notices EXCEPT ![c] = {}]
    /\ dropped' = dropped \cup notices[c] \cup IDs(InHandFor(c))
    /\ suggestions' = suggestions
    /\ Replay
    /\ UNCHANGED <<issued, told>>

SuggestionsDepart(c) ==
    /\ Depart(c)
    /\ inHand' = inHand \ InHandFor(c)
    /\ notices' = [notices EXCEPT ![c] = {}]
    /\ dropped' = dropped \cup notices[c] \cup IDs(Own(c))
                    \cup IDs({m \in InHandFor(c) : m.kind = "outcome"})
    /\ suggestions' = suggestions \ Own(c)
    /\ Replay
    /\ UNCHANGED <<issued, told>>

SuggestionsHandOver(c) ==
    /\ HandOver(c)
    /\ suggestions' = suggestions
    /\ Replay
    /\ UNCHANGED <<issued, notices, inHand, told, dropped>>

-----------------------------------------------------------------------------
(* Specification *)

Init ==
    /\ PlaybackInit
    /\ suggestions = {} /\ issued = 0
    /\ notices = [c \in Client |-> {}]
    /\ seen = {} /\ inHand = {}
    /\ told = [id \in ID |-> 0]
    /\ dropped = {}

Next ==
    \/ \E c \in Client :
         \/ (PlaybackStep(c) \/ HandleApproveJoin(c)) /\ UNCHANGED suggestionVars
         \/ \E t \in Track : HandleSuggestTrack(c, t)
         \/ \E s \in suggestions : HandleApproveSuggestion(c, s)
                                   \/ HandleRejectSuggestion(c, s)
         \/ SuggestionsDisconnect(c)
         \/ SuggestionsReconnect(c)
         \/ SuggestionsDepart(c)
         \/ SuggestionsHandOver(c)
    \/ \E m \in inHand : SendInHand(m)

Spec == Init /\ [][Next]_vars

-----------------------------------------------------------------------------
(* Properties *)

\* A host whose connection is open has been sent, or is about to be sent, every
\* suggestion it may answer, although suggestions arrive while the seat changes
\* hands.
HostSeesSuggestions ==
    host # None /\ host \notin closed =>
        IDs(suggestions) \subseteq seen \cup IDs({m \in InHandFor(host) : m.kind = "notify"})

\* Every suggestion is in one place: pending, with its outcome on the way to
\* its author, kept as a notice, told (once), or gone with its author or with
\* the connection the outcome was sent to.  None is lost or answered twice.
OutcomeOnce ==
    \A id \in 1..issued :
        told[id] + Cardinality(
          {p \in {"pending", "inHand", "noticed", "dropped"} :
             CASE p = "pending" -> id \in IDs(suggestions)
               [] p = "inHand"  -> id \in IDs({m \in inHand : m.kind = "outcome"})
               [] p = "noticed" -> \E c \in Client : id \in notices[c]
               [] p = "dropped" -> id \in dropped}) = 1

\* Suggestions are those of members, notices those of members who are away; both
\* go with the member, and neither exceeds its limit.
SuggestersAreMembers ==
    /\ \A s \in suggestions : s.from \in clients \cup away
    /\ \A c \in Client : notices[c] # {} => c \in away
    /\ Cardinality(suggestions) <= MaxPendingSuggestions
    /\ \A c \in Client : /\ Cardinality(Own(c)) <= MaxSuggestionsPerUser
                         /\ Cardinality(notices[c]) <= MaxSuggestionsPerUser

=============================================================================
