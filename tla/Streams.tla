------------------------------- MODULE Streams ------------------------------
(***************************************************************************)
(* What a connection promises to those who send on it: messages arrive in  *)
(* the order they were accepted, none is left out, and the close frame is  *)
(* the last thing to arrive.  Only a connection that breaks loses          *)
(* messages, always the newest ones.  Messages are numbered as they are    *)
(* accepted.                                                               *)
(***************************************************************************)
EXTENDS Naturals

CONSTANT Conn

VARIABLES
    accepted,   \* messages accepted so far
    delivered,  \* messages that reached the peer so far
    status      \* "open", "shut" (accepts nothing more), "finished", "broken"

streams == <<accepted, delivered, status>>

StreamsInit ==
    /\ accepted = [c \in Conn |-> 0]
    /\ delivered = [c \in Conn |-> 0]
    /\ status = [c \in Conn |-> "broken"]

Becomes(c, s) == status' = [status EXCEPT ![c] = s]

\* A new connection takes the place of one that has ended.
Open(c) ==
    /\ status[c] \in {"broken", "finished"}
    /\ Becomes(c, "open")
    /\ accepted' = [accepted EXCEPT ![c] = 0]
    /\ delivered' = [delivered EXCEPT ![c] = 0]

\* A sender does not notice that the connection has broken.
Accept(c) ==
    /\ status[c] \in {"open", "broken"}
    /\ accepted' = [accepted EXCEPT ![c] = @ + 1]
    /\ UNCHANGED <<delivered, status>>

Deliver(c) ==
    /\ status[c] \in {"open", "shut"}
    /\ delivered[c] < accepted[c]
    /\ delivered' = [delivered EXCEPT ![c] = @ + 1]
    /\ UNCHANGED <<accepted, status>>

Shut(c) ==
    /\ status[c] = "open"
    /\ Becomes(c, "shut")
    /\ UNCHANGED <<accepted, delivered>>

Finish(c) ==
    /\ status[c] = "shut"
    /\ delivered[c] = accepted[c]
    /\ Becomes(c, "finished")
    /\ UNCHANGED <<accepted, delivered>>

Break(c) ==
    /\ status[c] \in {"open", "shut"}
    /\ Becomes(c, "broken")
    /\ UNCHANGED <<accepted, delivered>>

StreamsNext ==
    \E c \in Conn : Open(c) \/ Accept(c) \/ Deliver(c) \/ Shut(c) \/ Finish(c) \/ Break(c)

StreamsSpec == StreamsInit /\ [][StreamsNext]_streams

=============================================================================
