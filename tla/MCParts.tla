------------------------------- MODULE MCParts -------------------------------
(***************************************************************************)
(* The parts of lab2 that can be looked at on their own, in one run:       *)
(* congestion control, the timers of the sender, and the packet format.    *)
(* A behaviour is of one of them; the variables of the others stand still. *)
(***************************************************************************)
EXTENDS CongestionControl, RetransmissionTimers, Checksum

VARIABLE part

vars == <<part, congestion, timer_vars, packet_vars>>

\* Any one packet, for the parts that have no use for it.
SomePacket == [fields |-> 0, payload |-> << >>]

NoPacket ==
    /\ packet = SomePacket
    /\ wire = serialize_packet(SomePacket)
    /\ fault = "none"
    /\ result = [status |-> "none"]

Init ==
    \/ part = "congestion" /\ CongestionInit /\ TimersInit /\ NoPacket
    \/ /\ part = "timers" /\ TimersInit /\ NoPacket
       /\ congestion = NewCongestionControl(MaxCwnd)
    \/ /\ part = "packet" /\ ChecksumInit /\ TimersInit
       /\ congestion = NewCongestionControl(MaxCwnd)

\* One packet is sent and parsed.
Parsed == part = "packet" /\ result.status # "none" /\ UNCHANGED vars

Next ==
    \/ /\ part = "congestion" /\ CongestionNext
       /\ UNCHANGED <<part, timer_vars, packet_vars>>
    \/ /\ part = "timers" /\ TimersNext
       /\ UNCHANGED <<part, congestion, packet_vars>>
    \/ /\ part = "packet" /\ ChecksumNext
       /\ UNCHANGED <<part, congestion, timer_vars>>
    \/ Parsed

Spec == Init /\ [][Next]_vars

=============================================================================
