------------------------ MODULE TotalOrderBroadcast ------------------------
(***************************************************************************)
(* What the chat server promises to those who are in the room: all of them *)
(* hear the same messages in the same order, without a gap, from the       *)
(* message after they enter to the one after which they leave.             *)
(*                                                                         *)
(* A message is its number in the order of publication.  The one exception *)
(* is that nobody hears the announcement of his own departure, which is    *)
(* his last message.                                                       *)
(***************************************************************************)
EXTENDS Naturals

CONSTANT Members

VARIABLES
    published,     \* the number of messages published so far
    room,          \* who is in it
    heard,         \* for those in it, the number of the last message heard
    departing      \* those whose departure has been announced

vars == <<published, room, heard, departing>>

Init ==
    /\ published = 0
    /\ room = {}
    /\ heard = [c \in Members |-> 0]
    /\ departing = {}

Enter(c) ==
    /\ c \notin room
    /\ room' = room \cup {c}
    /\ heard' = [heard EXCEPT ![c] = published]
    /\ UNCHANGED <<published, departing>>

\* A message is published when everybody has heard the one before.
CaughtUp == \A c \in room : heard[c] = published

Publish ==
    /\ CaughtUp
    /\ published' = published + 1
    /\ UNCHANGED <<room, heard, departing>>

Farewell(c) ==
    /\ CaughtUp
    /\ c \notin departing
    /\ published' = published + 1
    /\ heard' = IF c \in room THEN [heard EXCEPT ![c] = published + 1] ELSE heard
    /\ departing' = departing \cup {c}
    /\ UNCHANGED room

Hear(c) ==
    /\ c \in room /\ heard[c] < published
    /\ heard' = [heard EXCEPT ![c] = heard[c] + 1]
    /\ UNCHANGED <<published, room, departing>>

\* Some leave, or are put out, at any time.
Leave(S) ==
    /\ room' = room \ S
    /\ heard' = [c \in Members |-> IF c \in S THEN 0 ELSE heard[c]]
    /\ UNCHANGED <<published, departing>>

Next ==
    \/ Publish
    \/ \E c \in Members : Enter(c) \/ Farewell(c) \/ Hear(c)
    \/ \E S \in SUBSET room : Leave(S)

Spec == Init /\ [][Next]_vars

=============================================================================
