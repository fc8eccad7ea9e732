---------------------------- MODULE FrameChannel ----------------------------
(***************************************************************************)
(* What sendFrame and recvFrame promise to those who call them: a channel  *)
(* of frames.  One end puts in a frame at a time, the other takes them out *)
(* one at a time, whole and in order, as if there were no stream of bytes  *)
(* in between.                                                             *)
(*                                                                         *)
(* The channel may break.  Then nothing more is put in, and either end may *)
(* fail, for good; as long as the channel is in one piece neither does.    *)
(* What was put in before may still be taken out.                          *)
(***************************************************************************)
EXTENDS Naturals, Sequences

CONSTANT Frames

VARIABLES
    sent,          \* the frames put in
    received,      \* the frames taken out
    broken,
    failed         \* the ends that have failed

vars == <<sent, received, broken, failed>>

Ends == {"sender", "receiver"}

Init ==
    /\ sent = << >> /\ received = << >>
    /\ broken = FALSE
    /\ failed = {}

Put(f) ==
    /\ ~broken
    /\ sent' = Append(sent, f)
    /\ UNCHANGED <<received, broken, failed>>

\* The frame that is taken out was put in before, as a whole.
Take ==
    /\ "receiver" \notin failed
    /\ Len(received) < Len(sent)
    /\ received' = Append(received, sent[Len(received) + 1])
    /\ UNCHANGED <<sent, broken, failed>>

Break ==
    /\ ~broken
    /\ broken' = TRUE
    /\ UNCHANGED <<sent, received, failed>>

Fail(e) ==
    /\ broken /\ e \notin failed
    /\ failed' = failed \cup {e}
    /\ UNCHANGED <<sent, received, broken>>

Next ==
    \/ \E f \in Frames : Put(f)
    \/ Take
    \/ Break
    \/ \E e \in Ends : Fail(e)

Spec == Init /\ [][Next]_vars

=============================================================================
