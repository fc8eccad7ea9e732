------------------------ MODULE RetransmissionTimers ------------------------
(***************************************************************************)
(* The timers of ReliableSender that DataTransfer lets expire at any time: *)
(* the retransmission timer of each segment with the estimate of the       *)
(* round-trip time behind it, the persist timer of a closed window, and    *)
(* the time without an ACK after which run() gives the connection up.      *)
(*                                                                         *)
(* Time is counted in units no shorter than one call of process_network.   *)
(* It passes there; the handlers take none, so an ACK arrives at the       *)
(* beginning of a unit.  What is sent and what is acknowledged is left     *)
(* open, within the limits of the code: DataTransfer says which of it      *)
(* happens, and (NoWedge there) that only what was sent is sent again.     *)
(* The FIN, which has a timer of its own, is left out.                     *)
(***************************************************************************)
EXTENDS Integers

CONSTANTS
    LastSegment,    \* total_segments
    InitialRto,     \* 1 s
    MinRto,         \* MIN_RTO: 20 ms
    MaxRto,         \* MAX_RTO: 60 s
    FirstProbe,     \* 5 s
    MaxProbe,       \* 60 s
    MaxBackoff,     \* 12
    GlobalTimeout   \* GLOBAL_TIMEOUT_MS

ASSUME TimersAssumption ==
    /\ LastSegment \in Nat \ {0}
    /\ MinRto \in Nat \ {0} /\ MaxRto \in Nat
    /\ InitialRto \in MinRto .. MaxRto
    /\ FirstProbe \in Nat \ {0}
    /\ MaxProbe \in Nat /\ FirstProbe <= MaxProbe
    /\ MaxBackoff \in Nat
    /\ GlobalTimeout \in Nat

VARIABLES
    next,           \* next_seq_ of the window
    segment,        \* of each segment: "unsent", "sent" or "acked"
    age,            \* of each segment in flight: time since last_send
    resent,         \* is_retransmitted
    rto,            \* rto_
    srtt, rttvar,   \* srtt_ in eighths, rttvar_ in fourths, of a unit of time
    rtt_initialized,    \* rtt_initialized_
    since_ack,      \* time since last_ack_time_
    zero_window,    \* zero_window_
    persist_left,   \* time until persist_timer_
    backoff,        \* persist_backoff_
    step,           \* the step of the loop of run() that comes next
    scan,           \* the loop index i of handle_timeouts
    tries,          \* history: retransmissions of each segment since the last ACK
    quiet,          \* history: time since the last ACK or, if later, the first
                    \* transmission of each segment
    probes,         \* history: window probes since the last ACK
    sample          \* history: the round-trip time that was measured last

flight == <<next, segment, age, resent, tries, quiet>>

estimate == <<rto, srtt, rttvar, rtt_initialized, sample>>

persist == <<zero_window, persist_left, backoff, probes>>

timer_vars == <<flight, estimate, persist, since_ack, step, scan>>

-----------------------------------------------------------------------------
AllSegments == 1 .. LastSegment

Sent == {s \in AllSegments : segment[s] = "sent"}

AtMost(n, bound) == IF n > bound THEN bound ELSE n

AtLeast(n, bound) == IF n < bound THEN bound ELSE n

TimersInit ==
    /\ next = 1
    /\ segment = [s \in AllSegments |-> "unsent"]
    /\ age = [s \in AllSegments |-> 0]
    /\ resent = [s \in AllSegments |-> FALSE]
    /\ rto = InitialRto
    /\ srtt = 0 /\ rttvar = 0 /\ rtt_initialized = FALSE
    /\ since_ack = 0
    /\ zero_window = FALSE /\ persist_left = 0 /\ backoff = 0
    /\ step = "send" /\ scan = 1
    /\ tries = [s \in AllSegments |-> 0]
    /\ quiet = [s \in AllSegments |-> 0]
    /\ probes = 0 /\ sample = 0

-----------------------------------------------------------------------------
(***************************************************************************)
(* The loop of run().                                                      *)
(***************************************************************************)

\* No ACK for longer than GLOBAL_TIMEOUT_MS.
LoseConnection ==
    /\ step = "send" /\ since_ack > GlobalTimeout
    /\ step' = "lost"
    /\ UNCHANGED <<flight, estimate, persist, since_ack, scan>>

\* try_send_data: with the window open some new segments, of which those of failed
\* cannot be read; next_seq passes over them.
SendNew ==
    /\ step = "send" /\ since_ack <= GlobalTimeout
    /\ \E stop \in next .. LastSegment + 1 :
           \E failed \in SUBSET (next .. stop - 1) :
               /\ zero_window => stop = next
               /\ next' = stop
               /\ segment' = [s \in AllSegments |->
                                 IF s \in (next .. stop - 1) \ failed THEN "sent"
                                 ELSE segment[s]]
    /\ step' = "network"
    /\ UNCHANGED <<age, resent, tries, quiet, estimate, persist, since_ack, scan>>

\* A unit of time.
TimePasses ==
    /\ age' = [s \in AllSegments |-> IF s \in Sent THEN age[s] + 1 ELSE age[s]]
    /\ quiet' = [s \in AllSegments |-> IF s \in Sent THEN quiet[s] + 1 ELSE quiet[s]]
    /\ since_ack' = since_ack + 1
    /\ persist_left' = AtLeast(persist_left - 1, 0)
    /\ UNCHANGED <<next, segment, resent, tries, zero_window, backoff, probes>>

\* process_network: no packet for a unit of time, or one that is not an ACK.
NoAck ==
    /\ step = "network"
    /\ TimePasses \/ UNCHANGED <<flight, persist, since_ack>>
    /\ step' = "timers" /\ scan' = 1
    /\ UNCHANGED estimate

\* Mutant of NewRto: the factor 4 is forgotten.
RtoOfDeviation(s8, v4) == AtLeast(AtMost((s8 \div 8) + (v4 \div 4), MaxRto), MinRto)

\* SRTT + 4 * RTTVAR, between the two limits.
NewRto(s8, v4) == AtLeast(AtMost((s8 \div 8) + v4, MaxRto), MinRto)

Distance(a, b) == IF a >= b THEN a - b ELSE b - a

\* update_rto.  What is not a multiple of the units is rounded up: 7/8 of srtt,
\* 3/4 of rttvar, and the distance of the sample from srtt; the doubles of the code
\* are taken for exact.
UpdateRto(rtt) ==
    /\ srtt' = IF rtt_initialized THEN srtt - (srtt \div 8) + rtt ELSE 8 * rtt
    /\ rttvar' = IF rtt_initialized
                 THEN rttvar - (rttvar \div 4) + ((Distance(8 * rtt, srtt) + 7) \div 8)
                 ELSE 2 * rtt
    /\ rto' = NewRto(srtt', rttvar')
    /\ rtt_initialized' = TRUE
    /\ sample' = rtt

\* handle_new_ack measures the round-trip time of the first segment that is
\* acknowledged and was sent only once (Karn).
Measure(covered) ==
    LET once == {s \in covered : ~resent[s]}
    IN  \/ /\ once = {}
           /\ UNCHANGED estimate
        \/ \E first \in once :
               /\ \A s \in once : first <= s
               /\ UpdateRto(age[first])

\* The persist timer in handle_ack: it starts when the window closes.
NotePeerWindow(closed) ==
    /\ zero_window' = closed
    /\ backoff' = IF closed = zero_window THEN backoff ELSE 0
    /\ persist_left' = IF closed /\ ~zero_window THEN FirstProbe ELSE persist_left

\* handle_ack: everything up to ack and all of sacked is acknowledged; gaps are
\* the segments that a fast retransmit or handle_sack sends again.  The receiver
\* acknowledges what it was sent.
ReceiveAck ==
    /\ step = "network"
    /\ \E ack \in 0 .. next - 1, sacked \in SUBSET Sent :
           LET covered == {s \in Sent : s <= ack}
               left    == Sent \ (covered \cup sacked)
           IN  /\ \A s \in 1 .. ack : segment[s] # "unsent"
               /\ Measure(covered)
               /\ \E gaps \in SUBSET left :
                      /\ segment' = [s \in AllSegments |->
                                        IF s \in covered \cup sacked THEN "acked"
                                        ELSE segment[s]]
                      /\ age' = [s \in AllSegments |->
                                    IF s \in left \ gaps THEN age[s] ELSE 0]
                      /\ resent' = [s \in AllSegments |->
                                       s \in gaps \/ (s \in left /\ resent[s])]
                      /\ tries' = [s \in AllSegments |-> IF s \in gaps THEN 1 ELSE 0]
    /\ quiet' = [s \in AllSegments |-> 0]
    /\ \E closed \in BOOLEAN : NotePeerWindow(closed)
    /\ since_ack' = 0 /\ probes' = 0
    /\ step' = "timers" /\ scan' = 1
    /\ UNCHANGED next

\* Mutant of Doubled: without the limit.
DoubledFreely(r) == 2 * r

Doubled(r) == AtMost(2 * r, MaxRto)

\* handle_timeouts, one segment after the other.  rto_ is doubled for each that
\* has expired, and those that follow are compared with the doubled one.
Expires(s) == segment[s] = "sent" /\ age[s] > rto

ExpiredSegment ==
    /\ step = "timers" /\ scan < next
    /\ Expires(scan)
    /\ rto' = Doubled(rto)
    /\ age' = [age EXCEPT ![scan] = 0]
    /\ resent' = [resent EXCEPT ![scan] = TRUE]
    /\ tries' = [tries EXCEPT ![scan] = @ + 1]
    /\ scan' = scan + 1
    /\ UNCHANGED <<next, segment, quiet, srtt, rttvar, rtt_initialized, sample,
                   persist, since_ack, step>>

OtherSegment ==
    /\ step = "timers" /\ scan < next
    /\ ~Expires(scan)
    /\ scan' = scan + 1
    /\ UNCHANGED <<flight, estimate, persist, since_ack, step>>

EndOfScan ==
    /\ step = "timers" /\ scan >= next
    /\ step' = "probe"
    /\ UNCHANGED <<flight, estimate, persist, since_ack, scan>>

\* Mutant of ProbeInterval: without the limit.
ProbeIntervalFree(b) == FirstProbe * 2 ^ b

\* 5 s, 10 s, 20 s, 40 s, 60 s
ProbeInterval(b) == AtMost(FirstProbe * 2 ^ b, MaxProbe)

\* handle_window_probe
SendProbe ==
    /\ step = "probe" /\ zero_window /\ persist_left = 0
    /\ backoff' = AtMost(backoff + 1, MaxBackoff)
    /\ persist_left' = ProbeInterval(backoff')
    /\ probes' = probes + 1
    /\ step' = "send"
    /\ UNCHANGED <<flight, estimate, zero_window, since_ack, scan>>

NoProbe ==
    /\ step = "probe" /\ ~(zero_window /\ persist_left = 0)
    /\ step' = "send"
    /\ UNCHANGED <<flight, estimate, persist, since_ack, scan>>

\* run() has returned.
Returned == step = "lost" /\ UNCHANGED timer_vars

TimersNext ==
    \/ LoseConnection \/ SendNew
    \/ NoAck \/ ReceiveAck
    \/ ExpiredSegment \/ OtherSegment \/ EndOfScan
    \/ SendProbe \/ NoProbe
    \/ Returned

TimersSpec == TimersInit /\ [][TimersNext]_timer_vars

-----------------------------------------------------------------------------
(***************************************************************************)
(* Properties.                                                             *)
(***************************************************************************)

\* Backing off does not make the sender fall silent: while no ACK comes, each
\* segment in flight is sent again at least once in MaxRto + 1 units of time, so
\* at least four times before the connection is given up after 300 s.  rto_ is
\* doubled once for each expired segment of a window, and is compared while it
\* grows.
KeepsTrying ==
    \A s \in Sent : quiet[s] <= (tries[s] + 1) * (MaxRto + 1)

\* While the window is closed and no ACK comes, probes follow each other at least
\* once in MaxProbe, whatever the backoff and however often the window was
\* opened and closed before: a lost probe, or a lost answer, is made up for.
KeepsProbing == zero_window => since_ack <= (probes + 1) * MaxProbe

\* The timer is never shorter than the round-trip time that was measured last
\* (or than its upper limit): a network that has not become slower since makes no
\* segment expire whose ACK is on the way.
RtoCoversSample == rto >= AtMost(sample, MaxRto)

=============================================================================
