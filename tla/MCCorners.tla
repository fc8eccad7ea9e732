------------------------------ MODULE MCCorners ------------------------------
(***************************************************************************)
(* Corners of the parameters of DataTransfer, in one run: a behaviour      *)
(* stays in the corner it starts in.                                       *)
(*   plain     no corner at all                                            *)
(*   wrapped   the sequence numbers wrap around within the file            *)
(*   highest   the sender's ISN is the highest number of all, so that      *)
(*             handle_ack takes every ACK for one of a number below it     *)
(*   closed    the peer's window is closed from the first ACK on           *)
(* Everywhere one segment of the file cannot be read from the disk.        *)
(***************************************************************************)
EXTENDS Naturals

VARIABLES
    corner,
    congestion, window, peer_wnd, zero_window, bytes_acked, fin_sent, fin_retry,
    fin_complete, snd_pc, buffer, written, timeouts, burst, rcv_pc, net

snd == <<congestion, window, peer_wnd, zero_window, bytes_acked,
         fin_sent, fin_retry, fin_complete>>

rcv == <<buffer, written, timeouts, burst, rcv_pc>>

vars == <<corner, snd, snd_pc, rcv, net>>

\* What the corners share: two segments in flight, two retransmissions, a
\* FIN that is repeated twice.
Unit == 1
MaxCwnd == 8
MaxDupAcks == 4
Payload == {"a", "b"}
File == <<"a", "b", "a">>
SndWindow == 2
SackBits == 2
MaxRetransmits == 2
SeqMod == 16
FailingReads == {2}
MaxSackRetx == 1
MaxFinRetries == 2
FinAckBurst == 1
MaxConsecutiveTimeouts == 1
MaxBytesAcked == 4

Plain == INSTANCE DataTransfer WITH Isn <- 5, RcvWindow <- 2

Wrapped == INSTANCE DataTransfer WITH Isn <- 12, RcvWindow <- 2

Highest == INSTANCE DataTransfer WITH Isn <- 15, RcvWindow <- 2

Closed == INSTANCE DataTransfer WITH Isn <- 5, RcvWindow <- 0

Init ==
    \/ corner = "plain"   /\ Plain!Init
    \/ corner = "wrapped" /\ Wrapped!Init
    \/ corner = "highest" /\ Highest!Init
    \/ corner = "closed"  /\ Closed!Init

Next ==
    /\ UNCHANGED corner
    /\ \/ corner = "plain"   /\ Plain!Next
       \/ corner = "wrapped" /\ Wrapped!Next
       \/ corner = "highest" /\ Highest!Next
       \/ corner = "closed"  /\ Closed!Next

\* The fairness of DataTransfer, corner by corner.
SenderStep ==
    \/ corner = "plain"   /\ Plain!SenderStep
    \/ corner = "wrapped" /\ Wrapped!SenderStep
    \/ corner = "highest" /\ Highest!SenderStep
    \/ corner = "closed"  /\ Closed!SenderStep

BaseExpires ==
    \/ corner = "plain"   /\ Plain!BaseExpires
    \/ corner = "wrapped" /\ Wrapped!BaseExpires
    \/ corner = "highest" /\ Highest!BaseExpires
    \/ corner = "closed"  /\ Closed!BaseExpires

ResendFin ==
    \/ corner = "plain"   /\ Plain!ResendFin
    \/ corner = "wrapped" /\ Wrapped!ResendFin
    \/ corner = "highest" /\ Highest!ResendFin
    \/ corner = "closed"  /\ Closed!ResendFin

FairSpec ==
    /\ Init /\ [][Next]_vars
    /\ WF_vars(UNCHANGED corner /\ SenderStep)
    /\ SF_vars(UNCHANGED corner /\ BaseExpires)
    /\ SF_vars(UNCHANGED corner /\ ResendFin)

-----------------------------------------------------------------------------
\* DataTransfer's properties, in the corners: the file is written in order and
\* success means that it is all there, although handle_ack and the receive window
\* compare numbers before and after the wrap with plain <, ...
DeliversReliably == Wrapped!DeliversReliably

\* ... and the sender returns, or has reset the connection, in every corner.
EndsOrResets == Wrapped!EndsOrResets

=============================================================================
