-------------------------- MODULE CongestionControl --------------------------
(***************************************************************************)
(* The class rtp::CongestionControl: TCP Reno with slow start, congestion  *)
(* avoidance, fast retransmit and fast recovery.                           *)
(*                                                                         *)
(* cwnd_ and ssthresh_ are doubles counted in segments.  Here they are     *)
(* naturals counted in 1/Unit of a segment, so the additive increase       *)
(* 1/cwnd and the halving of cwnd are rounded down to a multiple of        *)
(* 1/Unit.  Two counters of the code grow without limit: cwnd_ saturates   *)
(* at the bound MaxCwnd and dup_ack_count_ at the bound MaxDupAcks.        *)
(***************************************************************************)
EXTENDS Integers

CONSTANTS
    Unit,           \* one segment, in the units cwnd and ssthresh are counted in
    MaxCwnd,        \* bound: cwnd saturates here
    MaxDupAcks      \* bound: dup_ack_count saturates here

ASSUME CongestionAssumption ==
    /\ Unit \in Nat \ {0}
    /\ MaxCwnd \in Nat /\ MaxCwnd >= 8 * Unit
    /\ MaxDupAcks \in Nat /\ MaxDupAcks >= 4

VARIABLE congestion     \* the object congestion_ of the sender

CongestionState ==
    [cwnd : Unit .. MaxCwnd, ssthresh : (2 * Unit) .. MaxCwnd,
     dup_ack_count : 0 .. MaxDupAcks, in_fast_recovery : BOOLEAN]

-----------------------------------------------------------------------------
(***************************************************************************)
(* The methods, as functions from the state of the object to its next one. *)
(***************************************************************************)
Larger(a, b) == IF a >= b THEN a ELSE b

Saturate(n, bound) == IF n > bound THEN bound ELSE n

NewCongestionControl(initial_ssthresh) ==
    [cwnd |-> Unit, ssthresh |-> initial_ssthresh,
     dup_ack_count |-> 0, in_fast_recovery |-> FALSE]

Increase(c) ==
    IF c.cwnd < c.ssthresh THEN Unit            \* slow start
                           ELSE (Unit * Unit) \div c.cwnd   \* avoidance

OnNewAck(c) ==
    IF c.in_fast_recovery
    THEN [c EXCEPT !.dup_ack_count = 0, !.cwnd = c.ssthresh,
                   !.in_fast_recovery = FALSE]
    ELSE [c EXCEPT !.dup_ack_count = 0,
                   !.cwnd = Saturate(c.cwnd + Increase(c), MaxCwnd)]

OnDuplicateAck(c) ==
    [c EXCEPT !.dup_ack_count = Saturate(c.dup_ack_count + 1, MaxDupAcks),
              !.cwnd = IF c.in_fast_recovery
                       THEN Saturate(c.cwnd + Unit, MaxCwnd) ELSE c.cwnd]

ShouldFastRetransmit(c) == c.dup_ack_count = 3 /\ ~c.in_fast_recovery

\* Mutant of HalfWindow: no lower limit.
HalfWithoutFloor(c) == c.cwnd \div 2

HalfWindow(c) == Larger(4 * Unit, c.cwnd \div 2)

\* Mutant of OnFastRetransmit: the window is not inflated.
RetransmitWithoutInflation(c) ==
    [c EXCEPT !.ssthresh = HalfWindow(c), !.cwnd = HalfWindow(c),
              !.in_fast_recovery = TRUE]

OnFastRetransmit(c) ==
    [c EXCEPT !.ssthresh = HalfWindow(c), !.cwnd = HalfWindow(c) + 3 * Unit,
              !.in_fast_recovery = TRUE]

\* Mutant of OnTimeout: the count of duplicate ACKs survives.
TimeoutKeepsCount(c) ==
    [cwnd |-> Unit, ssthresh |-> HalfWindow(c),
     dup_ack_count |-> c.dup_ack_count, in_fast_recovery |-> FALSE]

OnTimeout(c) ==
    [cwnd |-> Unit, ssthresh |-> HalfWindow(c),
     dup_ack_count |-> 0, in_fast_recovery |-> FALSE]

\* What ReliableSender::handle_duplicate_ack does to the object.
AfterDuplicateAck(c) ==
    LET d == OnDuplicateAck(c)
    IN  IF ShouldFastRetransmit(d) THEN OnFastRetransmit(d) ELSE d

-----------------------------------------------------------------------------
(***************************************************************************)
(* The object on its own: the sender may call the methods in any order.    *)
(***************************************************************************)
CongestionInit ==
    \E initial_ssthresh \in (2 * Unit) .. MaxCwnd :
        congestion = NewCongestionControl(initial_ssthresh)

NewAck == congestion' = OnNewAck(congestion)

DuplicateAck == congestion' = AfterDuplicateAck(congestion)

Timeout == congestion' = OnTimeout(congestion)

CongestionNext == NewAck \/ DuplicateAck \/ Timeout

CongestionSpec == CongestionInit /\ [][CongestionNext]_congestion

-----------------------------------------------------------------------------
(***************************************************************************)
(* Properties.                                                             *)
(***************************************************************************)

\* The object keeps its type: the window never falls below one segment, so the
\* sender is never throttled to zero, and ssthresh never below two.
CongestionTypeOK == congestion \in CongestionState

\* Fast retransmit is triggered by dup_ack_count == 3, an equality.  It can be
\* missed only if the count passes 3 outside fast recovery, and it never does:
\* outside recovery the count is below 3, inside it is at least 3.
RecoveryCounts ==
    IF congestion.in_fast_recovery THEN congestion.dup_ack_count >= 3
                                   ELSE congestion.dup_ack_count <= 2

\* During fast recovery the window is inflated by exactly one segment for each
\* duplicate ACK of this episode, the three that triggered it included (up to
\* the bounds of the model).
InflationMatchesDupAcks ==
    (/\ congestion.in_fast_recovery
     /\ congestion.dup_ack_count < MaxDupAcks
     /\ congestion.cwnd < MaxCwnd)
    => congestion.cwnd = congestion.ssthresh + congestion.dup_ack_count * Unit

=============================================================================
