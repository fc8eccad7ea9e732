---------------------------- MODULE DataTransfer ----------------------------
(***************************************************************************)
(* The transfer of one file over an established connection: the main loops *)
(* of ReliableSender::run and ReliableReceiver::run with every handler     *)
(* they call, and the UDP network between them.                            *)
(*                                                                         *)
(* The sender repeats six steps in a fixed order (snd_pc); the receiver is *)
(* in its receive loop or in handle_fin (rcv_pc).  Each step is one action *)
(* here: the two processes share nothing but the network.                  *)
(*                                                                         *)
(* The network keeps every packet that was ever sent.  A packet may be     *)
(* delivered at any time, any number of times or never, so it is lost,     *)
(* delayed, duplicated and reordered at will; a corrupted packet fails     *)
(* parse_packet and is as good as lost.                                    *)
(*                                                                         *)
(* Time is left out: a timer may expire whenever what it waits for has not *)
(* happened.  Statistics and progress output are left out, except          *)
(* bytes_acked, counted here in segments.                                  *)
(***************************************************************************)
EXTENDS CongestionControl, SendWindow, ReceiveBuffer

CONSTANTS
    Isn,                     \* the sender's initial sequence number
    FailingReads,            \* segments the sender may fail to read from disk
    MaxSackRetx,             \* MAX_SACK_RETX_PER_ACK: 4
    MaxFinRetries,           \* MAX_FIN_RETRIES: 5
    FinAckBurst,             \* FIN_ACK_BURST: 3
    MaxConsecutiveTimeouts,  \* MAX_CONSECUTIVE_TIMEOUTS: 10
    MaxBytesAcked            \* bound: bytes_acked saturates here

ASSUME DataTransferAssumption ==
    /\ Isn \in SeqNumbers
    /\ Total + 2 + SackBits < SeqMod
    /\ FailingReads \subseteq Segments
    /\ MaxSackRetx \in Nat
    /\ MaxFinRetries \in Nat \ {0}
    /\ FinAckBurst \in Nat \ {0}
    /\ MaxConsecutiveTimeouts \in Nat \ {0}
    /\ MaxBytesAcked \in Nat
    /\ RcvWindow <= SackBits
    /\ RcvWindow * Unit <= MaxCwnd /\ SndWindow * Unit <= MaxCwnd

VARIABLES
    window,          \* window_: see SendWindow
    peer_wnd,        \* the window the receiver advertised last
    zero_window,     \* zero_window_: the persist timer is running
    bytes_acked,     \* bytes_acked_
    fin_sent,        \* fin_sent_
    fin_retry,       \* fin_retry_count_
    fin_complete,    \* fin_complete_
    snd_pc,          \* the sender's place in its loop
    buffer,          \* buffer_: see ReceiveBuffer
    written,         \* what the receiver has written to its output file
    timeouts,        \* consecutive_timeouts_
    burst,           \* the loop index i of handle_fin
    rcv_pc,          \* the receiver's place
    net              \* every packet sent so far

snd == <<congestion, window, peer_wnd, zero_window, bytes_acked,
         fin_sent, fin_retry, fin_complete>>

rcv == <<buffer, written, timeouts, burst, rcv_pc>>

vars == <<snd, snd_pc, rcv, net>>

-----------------------------------------------------------------------------
(***************************************************************************)
(* Packets.  Only the fields that some handler reads are kept.             *)
(***************************************************************************)

\* Relative sequence numbers start at 1; on the wire they are absolute.
Abs(seq) == Wrap(Isn + seq)

DataPacket(s) == [type |-> "DATA", seq |-> Abs(s), data |-> File[s]]

AckPacket(ack, sack) == [type |-> "ACK", ack |-> ack, sack |-> sack]

FinPacket == [type |-> "FIN"]

FinAckPacket == [type |-> "FINACK"]     \* flags FIN and ACK

RstPacket == [type |-> "RST"]

\* An ACK of the sender: the last packet of either handshake.  The data loop of
\* the receiver ignores it, handle_fin takes any ACK for the final one.
PureAck == [type |-> "PURE_ACK"]

Probe == [type |-> "PROBE"]             \* a window probe: an empty ACK too

Packets ==
    [type : {"DATA"}, seq : SeqNumbers, data : Payload]
        \cup [type : {"ACK"}, ack : SeqNumbers, sack : SUBSET (0 .. SackBits - 1)]
        \cup {FinPacket, FinAckPacket, RstPacket, PureAck, Probe}

-----------------------------------------------------------------------------
(***************************************************************************)
(* The state after the handshake.  Its last two packets may still be on    *)
(* the way: the ACK of the sender, and a SYN+ACK, which handle_ack takes   *)
(* for an ACK of nothing.                                                  *)
(***************************************************************************)
InitialPeerWnd == IF RcvWindow # 0 THEN RcvWindow ELSE SndWindow

Init ==
    /\ congestion = NewCongestionControl(Larger(2, InitialPeerWnd) * Unit)
    /\ window = NewWindow
    /\ peer_wnd = InitialPeerWnd
    /\ zero_window = FALSE
    /\ bytes_acked = 0
    /\ fin_sent = FALSE /\ fin_retry = 0 /\ fin_complete = FALSE
    /\ snd_pc = "send"
    /\ buffer = NewBuffer(Abs(1))
    /\ written = << >>
    /\ timeouts = 0 /\ burst = 0
    /\ rcv_pc = "recv"
    /\ net = {PureAck, AckPacket(Abs(1), {})}

-----------------------------------------------------------------------------
(***************************************************************************)
(* The sender.                                                             *)
(***************************************************************************)

\* transmit_segment, for the segments of S; those of failed could not be read.
\* A segment that was sent before is in memory and is not read again.
Transmit(w, S, failed) == MarkSent(w, S \ failed)

\* Mutant of Transmitted: a failed read is ignored.
TransmittedSilently(w, S, failed) ==
    {DataPacket(s) : s \in S \ failed}
        \cup (IF \E s \in S \cap w.sent : w.retx[s] >= MaxRetransmits
              THEN {RstPacket} ELSE {})

Transmitted(w, S, failed) ==
    {DataPacket(s) : s \in S \ failed}
        \cup (IF failed # {} \/ \E s \in S \cap w.sent : w.retx[s] >= MaxRetransmits
              THEN {RstPacket} ELSE {})

MayFail(w, S) == SUBSET ((S \ w.sent) \cap FailingReads)

\* No ACK for GLOBAL_TIMEOUT_MS.
GiveUp ==
    /\ snd_pc = "send"
    /\ net' = net \cup {RstPacket}
    /\ snd_pc' = "done"
    /\ UNCHANGED <<snd, rcv>>

\* Mutant of SendLimit: <= for <.
SendLimitPlusOne ==
    IF peer_wnd = 0 THEN window.next_seq
    ELSE Larger(window.next_seq,
                Smaller(Total + 1,
                        window.base_seq + 1
                          + CalculateWindowSize(peer_wnd, congestion.cwnd \div Unit)))

\* Where try_send_data stops: the first segment beyond the window or the file.
SendLimit ==
    IF peer_wnd = 0 THEN window.next_seq
    ELSE Larger(window.next_seq,
                Smaller(Total + 1,
                        window.base_seq
                          + CalculateWindowSize(peer_wnd, congestion.cwnd \div Unit)))

\* try_send_data: new segments up to the edge of the window, stopping at one
\* that was already sent.  next_seq advances over a segment that could not be
\* read.
TrySendData ==
    /\ snd_pc = "send"
    /\ \E stop \in window.next_seq .. SendLimit :
           LET new == window.next_seq .. stop - 1
           IN  /\ new \cap window.sent = {}
               /\ stop = SendLimit \/ stop \in window.sent
               /\ \E failed \in MayFail(window, new) :
                      /\ window' = [Transmit(window, new, failed) EXCEPT !.next_seq = stop]
                      /\ net' = net \cup Transmitted(window, new, failed)
    /\ snd_pc' = "network"
    /\ UNCHANGED <<congestion, peer_wnd, zero_window, bytes_acked,
                   fin_sent, fin_retry, fin_complete, rcv>>

\* process_network: nothing within 50 ms, or a packet nobody handles.
NoPacket ==
    /\ snd_pc = "network"
    /\ snd_pc' = "timers"
    /\ UNCHANGED <<snd, rcv, net>>

\* handle_fin_ack
HandleFinAck ==
    /\ snd_pc = "network"
    /\ FinAckPacket \in net
    /\ net' = net \cup {PureAck}
    /\ fin_complete' = TRUE
    /\ snd_pc' = "timers"
    /\ UNCHANGED <<congestion, window, peer_wnd, zero_window, bytes_acked,
                   fin_sent, fin_retry, rcv>>

\* The first lines of handle_ack: flow control.  Every ACK advertises RcvWindow.
UpdatePeerWindow ==
    /\ peer_wnd' = Smaller(RcvWindow, SackBits)
    /\ zero_window' = (Smaller(RcvWindow, SackBits) = 0)

\* Mutant of Credit: one segment for each call.
CreditOne(w, S, bytes) ==
    Saturate(bytes + Smaller(1, Cardinality((S \cap Segments) \ w.acked)), MaxBytesAcked)

\* bytes_acked_ after the segments of S were found acknowledged; one that the
\* window has as acked is not counted again.
Credit(w, S, bytes) ==
    Saturate(bytes + Cardinality((S \cap Segments) \ w.acked), MaxBytesAcked)

\* Mutant of SackedBy: bit i is the segment ack + i.
SackedOffByOne(ack, mask) == {Wrap(ack + i) : i \in mask}

\* The relative sequence numbers that a SACK mask stands for.
SackedBy(ack, mask) == {Wrap(ack + 1 + i) : i \in mask}

\* Mutant of GapSegments: a segment that was never sent is a gap too.
GapsNeverSent(w, ack, mask) ==
    {s \in Segments \ w.acked : s > ack /\ s <= ack + SackBits}
        \ SackedBy(ack, mask)

\* Segments a SACK mask leaves out although they were sent.
GapSegments(w, ack, mask) ==
    {s \in w.sent \ w.acked : s > ack /\ s <= ack + SackBits}
        \ SackedBy(ack, mask)

\* The end of handle_ack: handle_sack, then advance_base_seq.  w is the window
\* so far, sofar what this ACK has made the sender send, bytes the credit.
\* Of the gaps, those whose last transmission is old enough are resent.
HandleSack(w, ack, mask, bytes, sofar) ==
    LET marked == MarkAcked(w, SackedBy(ack, mask))
        gaps   == GapSegments(marked, ack, mask)
    IN  /\ bytes_acked' = Credit(w, SackedBy(ack, mask), bytes)
        /\ \E resent \in SUBSET gaps :
               /\ Cardinality(resent) <= MaxSackRetx
               /\ window' = AdvanceBaseSeq(Transmit(marked, resent, {}))
               /\ net' = net \cup sofar \cup Transmitted(marked, resent, {})

\* handle_new_ack: everything below ack is acknowledged and forgotten.
HandleNewAck(ack, mask) ==
    LET covered == window.base_seq .. ack - 1
        w == SetBaseSeq(MarkAcked(window, covered), ack)
    IN  /\ ack > window.base_seq
        /\ congestion' = OnNewAck(congestion)
        /\ HandleSack(w, ack, mask, Credit(window, covered, bytes_acked), {})

\* handle_duplicate_ack, without and with a fast retransmit of base_seq.
HandleDuplicateAck(ack, mask) ==
    LET base == {window.base_seq}
        fast == ShouldFastRetransmit(OnDuplicateAck(congestion))
    IN  /\ ack = window.base_seq /\ window.base_seq <= Total
        /\ congestion' = AfterDuplicateAck(congestion)
        /\ \/ ~fast /\ HandleSack(window, ack, mask, bytes_acked, {})
           \/ /\ fast
              /\ \E failed \in MayFail(window, base) :
                     HandleSack(Transmit(window, base, failed), ack, mask,
                                bytes_acked, Transmitted(window, base, failed))

\* An ACK that was overtaken, or any ACK of the last number: only its mask is used.
HandleOldAck(ack, mask) ==
    /\ ack < window.base_seq \/ (ack = window.base_seq /\ window.base_seq > Total)
    /\ UNCHANGED congestion
    /\ HandleSack(window, ack, mask, bytes_acked, {})

\* handle_ack; a number that is not above the sender's ISN makes it return early.
HandleAck ==
    /\ snd_pc = "network"
    /\ \E m \in net :
           /\ m.type = "ACK"
           /\ IF m.ack <= Isn
              THEN UNCHANGED <<congestion, window, bytes_acked, net>>
              ELSE \/ HandleNewAck(m.ack - Isn, m.sack)
                   \/ HandleDuplicateAck(m.ack - Isn, m.sack)
                   \/ HandleOldAck(m.ack - Isn, m.sack)
    /\ UpdatePeerWindow
    /\ snd_pc' = "timers"
    /\ UNCHANGED <<fin_sent, fin_retry, fin_complete, rcv>>

\* Mutant of InFlight: the scan starts behind the first segment.
InFlightWithoutBase ==
    {s \in window.sent \ window.acked :
        s > window.base_seq /\ s < window.next_seq}

\* The segments handle_timeouts looks at.
InFlight ==
    {s \in window.sent \ window.acked :
        s >= window.base_seq /\ s < window.next_seq}

\* handle_timeouts: on_timeout is called once for each expired segment.  From
\* the second call on it changes nothing more: ssthresh is at its minimum.
AfterTimeouts(n) ==
    IF n = 1 THEN OnTimeout(congestion) ELSE OnTimeout(OnTimeout(congestion))

HandleTimeouts(expired) ==
    /\ snd_pc = "timers"
    /\ congestion' = IF expired = {} THEN congestion
                     ELSE AfterTimeouts(Cardinality(expired))
    /\ window' = Transmit(window, expired, {})
    /\ net' = net \cup Transmitted(window, expired, {})
    /\ snd_pc' = "probe"
    /\ UNCHANGED <<peer_wnd, zero_window, bytes_acked, fin_sent, fin_retry,
                   fin_complete, rcv>>

\* handle_window_probe: a probe when the persist timer has expired.
HandleWindowProbe ==
    /\ snd_pc = "probe"
    /\ \/ UNCHANGED net
       \/ zero_window /\ net' = net \cup {Probe}
    /\ snd_pc' = "fin"
    /\ UNCHANGED <<snd, rcv>>

\* try_send_fin and the checks that close the loop.  After the last FIN that may
\* be sent the sender gives up at once.
SendFin ==
    /\ snd_pc = "fin"
    /\ ~fin_complete /\ ~fin_sent /\ AllAcked(window)
    /\ net' = net \cup {FinPacket}
    /\ fin_sent' = TRUE /\ fin_retry' = 0
    /\ snd_pc' = "send"
    /\ UNCHANGED <<congestion, window, peer_wnd, zero_window, bytes_acked,
                   fin_complete, rcv>>

ResendFin ==
    /\ snd_pc = "fin"
    /\ ~fin_complete /\ fin_sent /\ fin_retry < MaxFinRetries
    /\ net' = net \cup {FinPacket}
    /\ fin_retry' = fin_retry + 1
    /\ snd_pc' = IF fin_retry' >= MaxFinRetries THEN "done" ELSE "send"
    /\ UNCHANGED <<congestion, window, peer_wnd, zero_window, bytes_acked,
                   fin_sent, fin_complete, rcv>>

NoFin ==
    /\ snd_pc = "fin"
    /\ fin_complete \/ fin_sent \/ ~AllAcked(window)
    /\ snd_pc' = IF fin_complete THEN "done" ELSE "send"
    /\ UNCHANGED <<snd, rcv, net>>

SenderNext ==
    \/ GiveUp
    \/ TrySendData
    \/ NoPacket \/ HandleFinAck \/ HandleAck
    \/ \E expired \in SUBSET InFlight : HandleTimeouts(expired)
    \/ HandleWindowProbe
    \/ SendFin \/ ResendFin \/ NoFin

-----------------------------------------------------------------------------
(***************************************************************************)
(* The receiver.                                                           *)
(***************************************************************************)

\* What send_ack sends for a buffer in state b.
AckOf(b) == AckPacket(b.expected_seq, BuildSackMask(b, SackBits))

\* Nothing that parses arrived in time: a timeout, or a corrupted packet.
ReceiveTimeout ==
    /\ rcv_pc = "recv"
    /\ timeouts' = timeouts + 1
    /\ rcv_pc' = IF timeouts' >= MaxConsecutiveTimeouts THEN "closed" ELSE "recv"
    /\ UNCHANGED <<snd, snd_pc, buffer, written, burst, net>>

ReceiveRst ==
    /\ rcv_pc = "recv"
    /\ RstPacket \in net
    /\ timeouts' = 0
    /\ rcv_pc' = "closed"
    /\ UNCHANGED <<snd, snd_pc, buffer, written, burst, net>>

\* A packet with none of the flags RST, FIN and DATA.
ReceiveOther ==
    /\ rcv_pc = "recv"
    /\ {PureAck, Probe} \cap net # {}
    /\ timeouts' = 0
    /\ UNCHANGED <<snd, snd_pc, buffer, written, burst, rcv_pc, net>>

\* process_data_packet: the early returns, for a duplicate and for a segment out
\* of the window ...
RefuseData(seq) ==
    /\ seq < buffer.expected_seq \/ ~IsInWindow(buffer, seq)
    /\ net' = net \cup {AckOf(buffer)}
    /\ UNCHANGED <<buffer, written>>

\* Mutant of AcceptData: the file is overwritten, not appended to.
AcceptDataOverwrites(seq, data) ==
    LET b == AddSegment(buffer, seq, data)
    IN  /\ seq >= buffer.expected_seq /\ IsInWindow(buffer, seq)
        /\ \E n \in 0 .. RcvWindow :
               /\ RunLength(b, n)
               /\ buffer' = AfterExtract(b, n)
               /\ written' = Extracted(b, n)
               /\ net' = net \cup {AckOf(AfterExtract(b, n))}

\* ... and the rest: buffer it, write what has become contiguous, acknowledge.
AcceptData(seq, data) ==
    LET b == AddSegment(buffer, seq, data)
    IN  /\ seq >= buffer.expected_seq /\ IsInWindow(buffer, seq)
        /\ \E n \in 0 .. RcvWindow :
               /\ RunLength(b, n)
               /\ buffer' = AfterExtract(b, n)
               /\ written' = written \o Extracted(b, n)
               /\ net' = net \cup {AckOf(AfterExtract(b, n))}

ReceiveData ==
    /\ rcv_pc = "recv"
    /\ \E m \in net :
           /\ m.type = "DATA"
           /\ RefuseData(m.seq) \/ AcceptData(m.seq, m.data)
    /\ timeouts' = 0
    /\ UNCHANGED <<snd, snd_pc, burst, rcv_pc>>

\* handle_fin sends a first FIN+ACK and waits ...
ReceiveFin ==
    /\ rcv_pc = "recv"
    /\ FinPacket \in net
    /\ net' = net \cup {FinAckPacket}
    /\ timeouts' = 0
    /\ burst' = 1
    /\ rcv_pc' = "closing"
    /\ UNCHANGED <<snd, snd_pc, buffer, written>>

\* ... for any ACK, a delayed one of the handshake included ...
ReceiveFinalAck ==
    /\ rcv_pc = "closing"
    /\ {PureAck, Probe} \cap net # {}
    /\ rcv_pc' = "closed"
    /\ UNCHANGED <<snd, snd_pc, buffer, written, timeouts, burst, net>>

\* Mutant of NextBurst: <= for <.
OneBurstMore ==
    /\ rcv_pc = "closing"
    /\ \/ /\ burst <= FinAckBurst
          /\ burst' = burst + 1
          /\ net' = net \cup {FinAckPacket}
          /\ UNCHANGED rcv_pc
       \/ /\ burst >= FinAckBurst
          /\ rcv_pc' = "closed"
          /\ UNCHANGED <<burst, net>>
    /\ UNCHANGED <<snd, snd_pc, buffer, written, timeouts>>

\* ... and sends FIN+ACK again after a timeout, another FIN or any other packet,
\* FinAckBurst times in all.
NextBurst ==
    /\ rcv_pc = "closing"
    /\ \/ /\ burst < FinAckBurst
          /\ burst' = burst + 1
          /\ net' = net \cup {FinAckPacket}
          /\ UNCHANGED rcv_pc
       \/ /\ burst = FinAckBurst
          /\ rcv_pc' = "closed"
          /\ UNCHANGED <<burst, net>>
    /\ UNCHANGED <<snd, snd_pc, buffer, written, timeouts>>

ReceiverNext ==
    \/ ReceiveTimeout \/ ReceiveRst \/ ReceiveOther \/ ReceiveData
    \/ ReceiveFin \/ ReceiveFinalAck \/ NextBurst

-----------------------------------------------------------------------------
\* Both programs have returned.
Finished ==
    /\ snd_pc = "done" /\ rcv_pc = "closed"
    /\ UNCHANGED vars

Next == SenderNext \/ ReceiverNext \/ Finished

Spec == Init /\ [][Next]_vars

-----------------------------------------------------------------------------
(***************************************************************************)
(* Fairness: the sender's loop never stops, the timer of the segment that  *)
(* holds the window back runs out, and so does the timer of the FIN.       *)
(* Nothing is assumed of the network, of the receiver or of the give-up    *)
(* timer.                                                                  *)
(***************************************************************************)
SenderStep ==
    \/ TrySendData
    \/ NoPacket \/ HandleFinAck \/ HandleAck
    \/ \E expired \in SUBSET InFlight : HandleTimeouts(expired)
    \/ HandleWindowProbe
    \/ SendFin \/ ResendFin \/ NoFin

BaseExpires ==
    \E expired \in SUBSET InFlight :
        window.base_seq \in expired /\ HandleTimeouts(expired)

FairSpec ==
    Spec /\ WF_vars(SenderStep) /\ SF_vars(BaseExpires) /\ SF_vars(ResendFin)

-----------------------------------------------------------------------------
(***************************************************************************)
(* Properties.                                                             *)
(***************************************************************************)
SenderTypeOK ==
    /\ congestion \in CongestionState
    /\ window \in WindowState
    /\ peer_wnd \in {InitialPeerWnd, Smaller(RcvWindow, SackBits)}
    /\ zero_window \in BOOLEAN
    /\ bytes_acked \in 0 .. MaxBytesAcked
    /\ fin_sent \in BOOLEAN
    /\ fin_retry \in 0 .. MaxFinRetries
    /\ fin_complete \in BOOLEAN
    /\ snd_pc \in {"send", "network", "timers", "probe", "fin", "done"}

ReceiverTypeOK ==
    /\ IsBuffer(buffer, Payload)
    /\ written \in Seq(Payload)
    /\ timeouts \in 0 .. MaxConsecutiveTimeouts
    /\ burst \in 0 .. FinAckBurst
    /\ rcv_pc \in {"recv", "closing", "closed"}

TypeOK == SenderTypeOK /\ ReceiverTypeOK /\ net \subseteq Packets

\* The output file is a beginning of the input file, whatever is lost, repeated,
\* delayed or reordered (process_data_packet writes what is contiguous).
PrefixWritten ==
    /\ Len(written) <= Total
    /\ \A i \in 1 .. Len(written) : written[i] = File[i]

\* The receiver enters the closing handshake, and run() of the sender returns
\* success, only when the whole file has been written.
SuccessMeansDelivered ==
    (fin_complete \/ rcv_pc = "closing") => written = File

\* The segments the receiver has written or holds in its buffer.
Received ==
    (1 .. Len(written)) \cup {s \in Segments : Abs(s) \in DOMAIN buffer.held}

\* The sender takes a segment for acknowledged, by a cumulative number or by a
\* SACK bit, only when the receiver has it.
AckedReceived ==
    window.acked \cup (1 .. window.base_seq - 1) \subseteq Received

\* The segment try_send_data sends next was never sent before.  If another path
\* had sent it (a gap of a SACK mask, a timeout), the break of its loop would
\* stop the sender for good: next_seq would never advance again.
NoWedge == window.next_seq <= Total => window.next_seq \notin window.sent

\* The ACKs agree with each other: the number one of them expects next is in no
\* mask, of an earlier or of a later one.  So in whatever order they arrive, the
\* first segment of the window is never one that was already sacked.
AcksConsistent ==
    \A m1, m2 \in {m \in net : m.type = "ACK"} :
        m1.ack \notin SackedBy(m2.ack, m2.sack)

\* The sender is never ahead of the first unacknowledged segment by more than
\* either window, although cwnd and the edges of the window move on their own.
WindowRespected ==
    /\ window.base_seq <= window.next_seq
    /\ window.next_seq <= window.base_seq + Smaller(SndWindow, InitialPeerWnd)

\* A segment on the network is not beyond the receive window: the receiver never
\* has to throw away what this sender sends (the OVERFLOW branch).
NoOverflow ==
    \A s \in Segments :
        DataPacket(s) \in net => s <= Len(written) + RcvWindow

\* The reordering buffer holds nothing but segments of the open window: what was
\* delivered is gone, and there is less of it than the window is wide.
BufferInWindow ==
    /\ \A q \in DOMAIN buffer.held :
           IsInWindow(buffer, q) /\ q # buffer.expected_seq
    /\ RcvWindow > 0 => Cardinality(DOMAIN buffer.held) < RcvWindow

\* A segment of the window that was passed over because it could not be read
\* (next_seq advanced, nothing was sent) has cost the connection a RST.
SkippedMeansReset ==
    \/ (window.base_seq .. window.next_seq - 1) \subseteq window.sent
    \/ RstPacket \in net

\* The progress output never lags behind what is acknowledged, whichever of the
\* cumulative number and the SACK bits of reordered ACKs told it first.  (It may
\* run ahead: a segment that was erased is counted again by an old mask.)
ProgressNotBehind ==
    Smaller(MaxBytesAcked,
            Cardinality(window.acked \cup (1 .. window.base_seq - 1))) <= bytes_acked

\* What the sender takes for acknowledged is neither too much nor too little: the
\* receiver has it, and the progress output counts it.
AckedAndCounted == AckedReceived /\ ProgressNotBehind

\* What the two programs promise together: see ReliableDelivery.
Outcome ==
    IF fin_complete THEN "success"
    ELSE IF snd_pc = "done" THEN "failure" ELSE "running"

Abstract == INSTANCE ReliableDelivery WITH outcome <- Outcome

DeliversReliably == Abstract!Spec

\* The sender never hangs: without any help of the network it returns, or it has
\* told the receiver that the connection is lost.
EndsOrResets == <>(snd_pc = "done" \/ RstPacket \in net)

-----------------------------------------------------------------------------
(***************************************************************************)
(* What comments of the code say, and what it does not do.                 *)
(***************************************************************************)

\* sender.cpp: beyond the limit of retransmissions the connection is closed; a
\* RST ends it.  So after a RST nothing new is sent.
ResetIsFinal ==
    [][(RstPacket \in net) =>
           (\A m \in net' \ net : m.type \notin {"DATA", "FIN", "PROBE"})]_vars

\* receive_buffer.h: is_in_window tells whether a number is in the window.  The
\* next expected one is, when the window is open.
NextExpectedInWindow == RcvWindow > 0 => IsInWindow(buffer, buffer.expected_seq)

=============================================================================
