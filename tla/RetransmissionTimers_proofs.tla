--------------------- MODULE RetransmissionTimers_proofs ---------------------
(***************************************************************************)
(* Proofs about RetransmissionTimers, for every number of segments and for *)
(* every choice of the limits.                                             *)
(***************************************************************************)
EXTENDS RetransmissionTimers, FiniteSetTheorems, TLAPS

-----------------------------------------------------------------------------
(***************************************************************************)
(* The invariant.                                                          *)
(***************************************************************************)
FlightType ==
    /\ next \in 1 .. LastSegment + 1
    /\ segment \in [AllSegments -> {"unsent", "sent", "acked"}]
    /\ age \in [AllSegments -> Nat]
    /\ tries \in [AllSegments -> Nat]
    /\ quiet \in [AllSegments -> Nat]
    /\ scan \in 1 .. LastSegment + 1
    /\ step \in {"send", "network", "timers", "probe", "lost"}

EstimateType ==
    /\ rto \in MinRto .. MaxRto
    /\ srtt \in Nat /\ rttvar \in Nat /\ sample \in Nat
    /\ rtt_initialized \in BOOLEAN

PersistType ==
    /\ zero_window \in BOOLEAN
    /\ persist_left \in 0 .. MaxProbe
    /\ backoff \in 0 .. MaxBackoff
    /\ since_ack \in Nat /\ probes \in Nat

\* No segment in flight is older than the limit of rto_ by more than the unit in
\* which it is looked at; once handle_timeouts has passed it, by nothing.
Ages ==
    \A s \in Sent :
        /\ s < next
        /\ age[s] <= MaxRto + 1
        /\ step # "timers" \/ s < scan => age[s] <= MaxRto

\* The clocks of the other segments stand at zero.
Idle == \A s \in AllSegments \ Sent : age[s] = 0 /\ quiet[s] = 0

\* The time without an ACK is made up of the tries and of what has passed since
\* the last one.
QuietTime == \A s \in Sent : quiet[s] <= tries[s] * (MaxRto + 1) + age[s]

\* ... and of the probes; at the wait for a packet the persist timer is running.
ProbeTime ==
    zero_window =>
        /\ since_ack + persist_left <= (probes + 1) * MaxProbe
        /\ step \in {"send", "network"} => persist_left > 0

TimersInv ==
    /\ FlightType /\ EstimateType /\ PersistType
    /\ Ages /\ Idle /\ QuietTime /\ ProbeTime /\ RtoCoversSample

-----------------------------------------------------------------------------
(***************************************************************************)
(* Lemmas.                                                                 *)
(***************************************************************************)

\* 2 ^ b counts the subsets of a set of b elements, the empty one among them.
LEMMA PowerOfTwo ==
    ASSUME NEW b \in Nat
    PROVE  2 ^ b \in Nat \ {0}
  <1> DEFINE S == 1 .. b
  <1>1. IsFiniteSet(S) /\ Cardinality(S) = b
    BY FS_Interval
  <1> HIDE DEF S
  <1>2. IsFiniteSet(SUBSET S) /\ Cardinality(SUBSET S) = 2 ^ b
    BY <1>1, FS_SUBSET
  <1>3. Cardinality(SUBSET S) \in Nat /\ Cardinality(SUBSET S) # 0
    BY <1>2, FS_CardinalityType, FS_EmptySet
  <1> QED
    BY <1>2, <1>3

\* The interval between two probes is not zero and not above its limit.
LEMMA ProbeIntervalType ==
    ASSUME NEW b \in Nat
    PROVE  ProbeInterval(b) \in 1 .. MaxProbe
  <1> DEFINE p == 2 ^ b
  <1>1. p \in Nat \ {0}
    BY PowerOfTwo
  <1> HIDE DEF p
  <1>2. FirstProbe * p \in Nat \ {0}
    BY <1>1, TimersAssumption
  <1> QED
    BY <1>2, TimersAssumption DEF ProbeInterval, AtMost, p

\* A try pays for one unit more than the longest timeout.
LEMMA OneMoreTry ==
    ASSUME NEW t \in Nat, NEW m \in Nat
    PROVE  (t + 1) * m = t * m + m /\ t * m \in Nat
  OBVIOUS

LEMMA EighthType ==
    ASSUME NEW x \in Nat, NEW y \in Nat
    PROVE  (x \div 8) + y \in Nat
  OBVIOUS

LEMMA WithinSum ==
    ASSUME NEW a \in Nat, NEW b \in Nat, NEW x \in Nat, NEW y \in Nat, x <= a, y <= b
    PROVE  x + y <= a + b
  OBVIOUS

LEMMA FirstInterval ==
    ASSUME NEW m \in Nat, NEW x \in Nat
    PROVE  (0 + 1) * m = m /\ 0 + x = x
  OBVIOUS

\* SRTT + 4 * RTTVAR is not below the sample it was computed from: the part of
\* the old estimate that is below the sample is made up for by the deviation.
LEMMA UpdateRtoCovers ==
    ASSUME EstimateType, NEW rtt \in Nat, UpdateRto(rtt)
    PROVE  EstimateType' /\ RtoCoversSample'
  <1> USE TimersAssumption
  <1>1. srtt' \in Nat /\ rttvar' \in Nat
    BY DEF EstimateType, UpdateRto, Distance
  <1>2. (srtt' \div 8) + rttvar' >= rtt
    <2>1. CASE ~rtt_initialized
      BY <2>1 DEF EstimateType, UpdateRto
    <2>2. CASE rtt_initialized
      <3>1. /\ srtt' = srtt - (srtt \div 8) + rtt
            /\ rttvar' = rttvar - (rttvar \div 4) + ((Distance(8 * rtt, srtt) + 7) \div 8)
            /\ srtt \in Nat /\ rttvar \in Nat
        BY <2>2 DEF EstimateType, UpdateRto
      <3>2. CASE 8 * rtt >= srtt
        BY <3>1, <3>2 DEF Distance
      <3>3. CASE 8 * rtt < srtt
        BY <3>1, <3>3 DEF Distance
      <3> QED
        BY <3>1, <3>2, <3>3
    <2> QED
      BY <2>1, <2>2 DEF EstimateType
  <1>3. rto' = NewRto(srtt', rttvar') /\ sample' = rtt /\ rtt_initialized' = TRUE
    BY DEF UpdateRto
  <1>4. (srtt' \div 8) + rttvar' \in Nat
    BY <1>1, EighthType
  <1> DEFINE estimated == (srtt' \div 8) + rttvar'
  <1>5. rto' = AtLeast(AtMost(estimated, MaxRto), MinRto)
    BY <1>3 DEF NewRto
  <1> HIDE DEF estimated
  <1>6. estimated \in Nat /\ estimated >= rtt
    BY <1>2, <1>4 DEF estimated
  <1>7. rto' \in MinRto .. MaxRto /\ rto' >= AtMost(rtt, MaxRto)
    BY <1>5, <1>6 DEF AtLeast, AtMost
  <1> QED
    BY <1>1, <1>3, <1>7 DEF EstimateType, RtoCoversSample

-----------------------------------------------------------------------------
(***************************************************************************)
(* The steps.                                                              *)
(***************************************************************************)
LEMMA TimersInv_Init ==
    ASSUME TimersInit
    PROVE  TimersInv
  <1> USE TimersAssumption DEF TimersInit
  <1>1. FlightType
    BY DEF FlightType
  <1>a. EstimateType
    BY DEF EstimateType
  <1>b. PersistType
    <2>1. zero_window \in BOOLEAN
      OBVIOUS
    <2>2. persist_left \in 0 .. MaxProbe /\ backoff \in 0 .. MaxBackoff
      OBVIOUS
    <2> QED
      BY <2>1, <2>2 DEF PersistType
  <1>2. Sent = {}
    BY DEF Sent
  <1>3. Ages /\ QuietTime
    BY <1>2 DEF Ages, QuietTime
  <1>4. Idle /\ ProbeTime
    BY DEF Idle, ProbeTime
  <1>5. RtoCoversSample
    BY DEF RtoCoversSample, AtMost
  <1> QED
    BY <1>1, <1>a, <1>b, <1>3, <1>4, <1>5 DEF TimersInv

\* try_send_data
LEMMA SendNew_Inv ==
    ASSUME TimersInv, SendNew
    PROVE  TimersInv'
  <1>1. PICK stop \in next .. LastSegment + 1 :
            \E failed \in SUBSET (next .. stop - 1) :
               /\ next' = stop
               /\ segment' = [s \in AllSegments |->
                                 IF s \in (next .. stop - 1) \ failed THEN "sent"
                                 ELSE segment[s]]
    BY DEF SendNew
  <1>2. PICK failed \in SUBSET (next .. stop - 1) :
            segment' = [s \in AllSegments |->
                           IF s \in (next .. stop - 1) \ failed THEN "sent"
                           ELSE segment[s]]
    BY <1>1
  <1> DEFINE new == (next .. stop - 1) \ failed
  <1>3. /\ next' = stop /\ step = "send" /\ step' = "network"
        /\ UNCHANGED <<age, resent, tries, quiet, estimate, persist, since_ack, scan>>
    BY <1>1 DEF SendNew
  <1>4. FlightType'
    BY <1>1, <1>2, <1>3 DEF TimersInv, FlightType
  <1>5. EstimateType' /\ PersistType' /\ ProbeTime' /\ RtoCoversSample'
    BY <1>3 DEF TimersInv, EstimateType, PersistType, ProbeTime, RtoCoversSample,
                estimate, persist
  <1>6. ASSUME NEW s \in Sent'
        PROVE  /\ s \in AllSegments /\ s < next' /\ age'[s] <= MaxRto
               /\ quiet'[s] <= tries'[s] * (MaxRto + 1) + age'[s]
    <2>1. s \in AllSegments /\ (s \in Sent \/ s \in new)
      BY <1>2, <1>6 DEF Sent
    <2>2. CASE s \in Sent
      BY <1>1, <1>3, <2>1, <2>2
         DEF TimersInv, FlightType, Ages, QuietTime, AllSegments
    <2>3. CASE s \in new /\ s \notin Sent
      <3>1. age'[s] = 0 /\ quiet'[s] = 0 /\ tries'[s] \in Nat
        BY <1>3, <2>1, <2>3 DEF TimersInv, Idle, FlightType
      <3>2. tries'[s] * (MaxRto + 1) \in Nat
        BY <3>1, TimersAssumption
      <3>3. s < next'
        BY <1>1, <1>3, <2>3 DEF TimersInv, FlightType
      <3> QED
        BY <2>1, <3>1, <3>2, <3>3, TimersAssumption
    <2> QED
      BY <2>1, <2>2, <2>3
  <1>7. Ages' /\ QuietTime'
    BY <1>4, <1>6, TimersAssumption DEF Ages, QuietTime, FlightType
  <1>8. Idle'
    BY <1>2, <1>3 DEF TimersInv, Idle, Sent
  <1> QED
    BY <1>4, <1>5, <1>7, <1>8 DEF TimersInv

\* The steps that only move on in the loop, and in the scan of the window.
LEMMA MovingOn_Inv ==
    ASSUME TimersInv, LoseConnection \/ OtherSegment \/ EndOfScan \/ NoProbe
    PROVE  TimersInv'
  <1>1. UNCHANGED <<flight, estimate, persist, since_ack>>
    BY DEF LoseConnection, OtherSegment, EndOfScan, NoProbe
  <1>2. EstimateType' /\ PersistType' /\ RtoCoversSample' /\ Idle' /\ QuietTime'
    BY <1>1 DEF TimersInv, EstimateType, PersistType, RtoCoversSample, Idle, QuietTime,
                Sent, estimate, persist, flight
  <1>3. FlightType'
    <2>1. scan' \in 1 .. LastSegment + 1
      BY TimersAssumption
         DEF TimersInv, FlightType, LoseConnection, OtherSegment, EndOfScan, NoProbe
    <2>2. step' \in {"timers", "probe", "send", "lost"}
      BY DEF LoseConnection, OtherSegment, EndOfScan, NoProbe
    <2> QED
      BY <1>1, <2>1, <2>2 DEF TimersInv, FlightType, flight
  <1>4. Ages'
    <2>1. ASSUME NEW s \in Sent
          PROVE  /\ s < next /\ age[s] <= MaxRto + 1 /\ s \in AllSegments
                 /\ step' # "timers" \/ s < scan' => age[s] <= MaxRto
      <3>1. /\ s \in AllSegments /\ s < next /\ age[s] \in Nat /\ age[s] <= MaxRto + 1
            /\ step # "timers" \/ s < scan => age[s] <= MaxRto
        BY DEF TimersInv, Ages, FlightType, Sent
      <3>2. CASE OtherSegment /\ s = scan
        <4>1. age[s] <= rto /\ rto <= MaxRto
          BY <3>1, <3>2, TimersAssumption
             DEF OtherSegment, Expires, TimersInv, EstimateType, Sent
        <4> QED
          BY <3>1, <4>1, TimersAssumption DEF TimersInv, EstimateType
      <3>3. CASE OtherSegment /\ s # scan
        BY <3>1, <3>3 DEF OtherSegment, TimersInv, FlightType, AllSegments
      <3>4. CASE EndOfScan
        BY <3>1, <3>4 DEF EndOfScan, TimersInv, FlightType, AllSegments
      <3>5. CASE LoseConnection \/ NoProbe
        BY <3>1, <3>5 DEF LoseConnection, NoProbe
      <3> QED
        BY <3>2, <3>3, <3>4, <3>5
    <2> QED
      BY <1>1, <2>1 DEF Ages, Sent, flight
  <1>5. ProbeTime'
    BY <1>1, TimersAssumption
       DEF TimersInv, ProbeTime, PersistType, LoseConnection, OtherSegment, EndOfScan,
           NoProbe, persist
  <1> QED
    BY <1>2, <1>3, <1>4, <1>5 DEF TimersInv

\* process_network without an ACK
LEMMA NoAck_Inv ==
    ASSUME TimersInv, NoAck
    PROVE  TimersInv'
  <1>1. /\ step = "network" /\ step' = "timers" /\ scan' = 1 /\ UNCHANGED estimate
        /\ TimePasses \/ UNCHANGED <<flight, persist, since_ack>>
    BY DEF NoAck
  <1>2. EstimateType' /\ RtoCoversSample'
    BY <1>1 DEF TimersInv, EstimateType, RtoCoversSample, estimate
  <1>3. UNCHANGED <<next, segment, tries>> /\ Sent' = Sent
    BY <1>1 DEF TimePasses, flight, Sent
  <1>4. FlightType'
    <2>1. age' \in [AllSegments -> Nat] /\ quiet' \in [AllSegments -> Nat]
      BY <1>1 DEF TimersInv, FlightType, TimePasses, flight
    <2> QED
      BY <1>1, <1>3, <2>1, TimersAssumption DEF TimersInv, FlightType
  <1>5. PersistType'
    <2>1. CASE TimePasses
      <3>1. /\ persist_left' = AtLeast(persist_left - 1, 0) /\ since_ack' = since_ack + 1
            /\ UNCHANGED <<zero_window, backoff, probes>>
        BY <2>1 DEF TimePasses
      <3>2. persist_left' \in 0 .. MaxProbe
        BY <3>1, TimersAssumption DEF TimersInv, PersistType, AtLeast
      <3> QED
        BY <3>1, <3>2 DEF TimersInv, PersistType
    <2>2. CASE UNCHANGED <<persist, since_ack>>
      BY <2>2 DEF TimersInv, PersistType, persist
    <2> QED
      BY <1>1, <2>1, <2>2
  <1>6. ASSUME NEW s \in AllSegments
        PROVE  \/ age'[s] = age[s] /\ quiet'[s] = quiet[s]
               \/ s \in Sent /\ age'[s] = age[s] + 1 /\ quiet'[s] = quiet[s] + 1
    <2>1. CASE TimePasses
      BY <2>1 DEF TimePasses
    <2>2. CASE UNCHANGED flight
      BY <2>2 DEF flight
    <2> QED
      BY <1>1, <2>1, <2>2
  <1>7. Ages'
    <2>1. ASSUME NEW s \in Sent
          PROVE  s \in AllSegments /\ s < next /\ age'[s] <= MaxRto + 1
      <3>1. /\ s \in AllSegments /\ s < next
            /\ age[s] \in Nat /\ age[s] <= MaxRto
        BY <1>1 DEF TimersInv, FlightType, Ages, Sent
      <3> QED
        BY <1>6, <3>1, TimersAssumption
    <2> QED
      BY <1>1, <1>3, <2>1 DEF Ages, AllSegments
  <1>8. QuietTime'
    <2>1. ASSUME NEW s \in Sent
          PROVE  quiet'[s] <= tries[s] * (MaxRto + 1) + age'[s]
      <3>1. /\ s \in AllSegments /\ age[s] \in Nat /\ quiet[s] \in Nat
            /\ tries[s] * (MaxRto + 1) \in Nat
        BY TimersAssumption DEF TimersInv, FlightType, Sent
      <3>2. quiet[s] <= tries[s] * (MaxRto + 1) + age[s]
        BY DEF TimersInv, QuietTime
      <3> QED
        BY <1>6, <3>1, <3>2
    <2> QED
      BY <1>3, <2>1 DEF QuietTime
  <1>9. Idle'
    BY <1>3, <1>6 DEF TimersInv, Idle
  <1>10. ProbeTime'
    <2>1. /\ zero_window' = zero_window /\ probes' = probes
          /\ \/ since_ack' = since_ack /\ persist_left' = persist_left
             \/ since_ack' = since_ack + 1 /\ persist_left' = AtLeast(persist_left - 1, 0)
      BY <1>1 DEF TimePasses, persist
    <2>2. (probes + 1) * MaxProbe \in Nat
      BY TimersAssumption DEF TimersInv, PersistType
    <2>3. since_ack \in Nat /\ persist_left \in Nat
      BY DEF TimersInv, PersistType
    <2> QED
      BY <1>1, <2>1, <2>2, <2>3 DEF TimersInv, ProbeTime, AtLeast
  <1> QED
    BY <1>2, <1>4, <1>5, <1>7, <1>8, <1>9, <1>10 DEF TimersInv

\* handle_ack
LEMMA ReceiveAck_Inv ==
    ASSUME TimersInv, ReceiveAck
    PROVE  TimersInv'
  <1>1. PICK ack \in 0 .. next - 1, sacked \in SUBSET Sent :
            LET covered == {s \in Sent : s <= ack}
                left    == Sent \ (covered \cup sacked)
            IN  /\ \A s \in 1 .. ack : segment[s] # "unsent"
                /\ Measure(covered)
                /\ \E gaps \in SUBSET left :
                       /\ segment' = [s \in AllSegments |->
                                         IF s \in covered \cup sacked THEN "acked"
                                         ELSE segment[s]]
                       /\ age' = [s \in AllSegments |->
                                     IF s \in left \ gaps THEN age[s] ELSE 0]
                       /\ resent' = [s \in AllSegments |->
                                        s \in gaps \/ (s \in left /\ resent[s])]
                       /\ tries' = [s \in AllSegments |-> IF s \in gaps THEN 1 ELSE 0]
    BY Zenon DEF ReceiveAck
  <1> DEFINE covered == {s \in Sent : s <= ack}
             left    == Sent \ (covered \cup sacked)
  <1>2. PICK gaps \in SUBSET left :
            /\ segment' = [s \in AllSegments |->
                              IF s \in covered \cup sacked THEN "acked" ELSE segment[s]]
            /\ age' = [s \in AllSegments |-> IF s \in left \ gaps THEN age[s] ELSE 0]
            /\ resent' = [s \in AllSegments |-> s \in gaps \/ (s \in left /\ resent[s])]
            /\ tries' = [s \in AllSegments |-> IF s \in gaps THEN 1 ELSE 0]
    BY <1>1
  <1>3. /\ Measure(covered)
        /\ quiet' = [s \in AllSegments |-> 0]
        /\ since_ack' = 0 /\ probes' = 0 /\ next' = next
        /\ step = "network" /\ step' = "timers" /\ scan' = 1
    BY <1>1 DEF ReceiveAck
  <1>4. PICK closed \in BOOLEAN : NotePeerWindow(closed)
    BY DEF ReceiveAck
  <1>5. covered \subseteq Sent /\ sacked \subseteq Sent /\ Sent \subseteq AllSegments
    BY <1>1 DEF Sent
  <1>6. EstimateType' /\ RtoCoversSample'
    <2>1. CASE UNCHANGED estimate
      BY <2>1 DEF TimersInv, EstimateType, RtoCoversSample, estimate
    <2>2. CASE \E first \in covered : UpdateRto(age[first])
      <3>1. PICK first \in covered : UpdateRto(age[first])
        BY <2>2
      <3>2. age[first] \in Nat
        BY <1>5, <3>1 DEF TimersInv, FlightType
      <3> QED
        BY <3>1, <3>2, UpdateRtoCovers DEF TimersInv
    <2> QED
      BY <1>3, <2>1, <2>2 DEF Measure
  <1>7. Sent' = left
    BY <1>2, <1>5 DEF Sent
  <1>8. FlightType'
    <2>1. segment' \in [AllSegments -> {"unsent", "sent", "acked"}]
      BY <1>2 DEF TimersInv, FlightType
    <2>2. age' \in [AllSegments -> Nat]
      BY <1>2 DEF TimersInv, FlightType
    <2>3. tries' \in [AllSegments -> Nat] /\ quiet' \in [AllSegments -> Nat]
      BY <1>2, <1>3
    <2> QED
      BY <1>3, <2>1, <2>2, <2>3, TimersAssumption DEF TimersInv, FlightType
  <1>9. PersistType'
    <2>1. zero_window' \in BOOLEAN
      BY <1>4 DEF NotePeerWindow
    <2>2. persist_left' \in 0 .. MaxProbe
      BY <1>4, TimersAssumption DEF NotePeerWindow, TimersInv, PersistType
    <2>3. backoff' \in 0 .. MaxBackoff
      BY <1>4, TimersAssumption DEF NotePeerWindow, TimersInv, PersistType
    <2> QED
      BY <1>3, <2>1, <2>2, <2>3 DEF PersistType
  <1>10. ASSUME NEW s \in left
         PROVE  /\ s \in AllSegments /\ s < next /\ age'[s] \in {0, age[s]}
                /\ age[s] \in Nat /\ age[s] <= MaxRto
                /\ quiet'[s] = 0 /\ tries'[s] \in {0, 1}
    BY <1>2, <1>3, <1>5 DEF TimersInv, FlightType, Ages
  <1>11. Ages'
    BY <1>3, <1>7, <1>10, TimersAssumption DEF Ages
  <1>12. QuietTime'
    <2>1. ASSUME NEW s \in left
          PROVE  0 <= tries'[s] * (MaxRto + 1) + age'[s]
      BY <1>10, TimersAssumption
    <2> QED
      BY <1>7, <1>10, <2>1 DEF QuietTime
  <1>13. Idle'
    BY <1>2, <1>3, <1>7 DEF Idle
  <1>14. ProbeTime'
    <2>1. zero_window' => persist_left' <= MaxProbe
      BY <1>9 DEF PersistType
    <2>2. persist_left' \in Nat
      BY <1>9 DEF PersistType
    <2>3. 0 + persist_left' = persist_left' /\ (0 + 1) * MaxProbe = MaxProbe
      BY <2>2, TimersAssumption, FirstInterval
    <2> QED
      BY <1>3, <2>1, <2>3 DEF ProbeTime
  <1> QED
    BY <1>6, <1>8, <1>9, <1>11, <1>12, <1>13, <1>14 DEF TimersInv

\* handle_timeouts, a segment that has expired
LEMMA ExpiredSegment_Inv ==
    ASSUME TimersInv, ExpiredSegment
    PROVE  TimersInv'
  <1>1. /\ step = "timers" /\ scan < next /\ segment[scan] = "sent" /\ age[scan] > rto
        /\ rto' = Doubled(rto)
        /\ age' = [age EXCEPT ![scan] = 0]
        /\ tries' = [tries EXCEPT ![scan] = tries[scan] + 1]
        /\ scan' = scan + 1
        /\ UNCHANGED <<next, segment, quiet, srtt, rttvar, rtt_initialized, sample,
                       persist, since_ack, step>>
    BY DEF ExpiredSegment, Expires
  <1>2. Sent' = Sent /\ scan \in Sent /\ scan \in AllSegments
    BY <1>1, TimersAssumption DEF TimersInv, FlightType, Sent, AllSegments
  <1>3. FlightType'
    <2>1. age' \in [AllSegments -> Nat] /\ tries' \in [AllSegments -> Nat]
      BY <1>1, <1>2 DEF TimersInv, FlightType
    <2>2. scan' \in 1 .. LastSegment + 1
      BY <1>1, TimersAssumption DEF TimersInv, FlightType
    <2> QED
      BY <1>1, <2>1, <2>2 DEF TimersInv, FlightType
  <1>4. rto' \in MinRto .. MaxRto /\ rto' >= rto
    BY <1>1, TimersAssumption DEF TimersInv, EstimateType, Doubled, AtMost
  <1>5. EstimateType'
    BY <1>1, <1>4 DEF TimersInv, EstimateType
  <1>6. RtoCoversSample'
    BY <1>1, <1>4, TimersAssumption DEF TimersInv, EstimateType, RtoCoversSample, AtMost
  <1>7. PersistType' /\ ProbeTime'
    BY <1>1 DEF TimersInv, PersistType, ProbeTime, persist
  <1>8. ASSUME NEW s \in Sent, s # scan
        PROVE  age'[s] = age[s] /\ tries'[s] = tries[s]
    BY <1>1, <1>8 DEF TimersInv, FlightType, Sent
  <1>9. age'[scan] = 0 /\ tries'[scan] = tries[scan] + 1
    BY <1>1, <1>2 DEF TimersInv, FlightType
  <1>10. Ages'
    <2>1. ASSUME NEW s \in Sent
          PROVE  /\ s < next /\ age'[s] <= MaxRto + 1
                 /\ s < scan + 1 => age'[s] <= MaxRto
      <3>1. CASE s = scan
        BY <1>1, <1>9, <3>1, TimersAssumption
      <3>2. CASE s # scan
        BY <1>1, <1>8, <3>2 DEF TimersInv, FlightType, Ages, Sent, AllSegments
      <3> QED
        BY <3>1, <3>2
    <2> QED
      BY <1>1, <1>2, <2>1 DEF Ages
  <1>11. QuietTime'
    <2>1. ASSUME NEW s \in Sent
          PROVE  quiet[s] <= tries'[s] * (MaxRto + 1) + age'[s]
      <3>1. quiet[s] <= tries[s] * (MaxRto + 1) + age[s]
        BY DEF TimersInv, QuietTime
      <3>2. CASE s # scan
        BY <1>8, <3>1, <3>2
      <3>3. CASE s = scan
        <4> DEFINE t == tries[s]
                   q == quiet[s]
                   a == age[s]
                   m == MaxRto + 1
        <4>1. t \in Nat /\ q \in Nat /\ a \in Nat /\ m \in Nat
          BY <1>2, <3>3, TimersAssumption DEF TimersInv, FlightType
        <4>2. q <= t * m + a /\ a <= m
          BY <3>1 DEF TimersInv, Ages
        <4>3. tries'[s] = t + 1 /\ age'[s] = 0
          BY <1>9, <3>3
        <4> HIDE DEF t, q, a, m
        <4>4. (t + 1) * m = t * m + m /\ t * m \in Nat
          BY <4>1, OneMoreTry
        <4>5. q <= (t + 1) * m + 0
          BY <4>1, <4>2, <4>4
        <4> QED
          BY <4>3, <4>5 DEF q, m
      <3> QED
        BY <3>2, <3>3
    <2> QED
      BY <1>1, <1>2, <2>1 DEF QuietTime
  <1>12. Idle'
    BY <1>1, <1>2 DEF TimersInv, Idle, FlightType
  <1> QED
    BY <1>3, <1>5, <1>6, <1>7, <1>10, <1>11, <1>12 DEF TimersInv

\* handle_window_probe
LEMMA SendProbe_Inv ==
    ASSUME TimersInv, SendProbe
    PROVE  TimersInv'
  <1>1. /\ step = "probe" /\ step' = "send" /\ zero_window /\ persist_left = 0
        /\ backoff' = AtMost(backoff + 1, MaxBackoff)
        /\ persist_left' = ProbeInterval(backoff')
        /\ probes' = probes + 1
        /\ UNCHANGED <<flight, estimate, zero_window, since_ack, scan>>
    BY DEF SendProbe
  <1>2. EstimateType' /\ RtoCoversSample' /\ Idle' /\ QuietTime'
    BY <1>1 DEF TimersInv, EstimateType, RtoCoversSample, Idle, QuietTime, Sent,
                estimate, flight
  <1>3. FlightType' /\ Ages'
    BY <1>1 DEF TimersInv, FlightType, Ages, Sent, flight
  <1>4. backoff' \in 0 .. MaxBackoff
    BY <1>1, TimersAssumption DEF TimersInv, PersistType, AtMost
  <1>5. persist_left' \in 1 .. MaxProbe
    BY <1>1, <1>4, ProbeIntervalType
  <1>6. PersistType'
    BY <1>1, <1>4, <1>5 DEF TimersInv, PersistType
  <1>7. ProbeTime'
    <2>1. since_ack <= (probes + 1) * MaxProbe /\ since_ack \in Nat /\ probes \in Nat
      BY <1>1 DEF TimersInv, ProbeTime, PersistType
    <2>2. /\ (probes + 1 + 1) * MaxProbe = (probes + 1) * MaxProbe + MaxProbe
          /\ (probes + 1) * MaxProbe \in Nat
      BY <2>1, OneMoreTry, TimersAssumption
    <2>3. since_ack + persist_left' <= (probes + 1 + 1) * MaxProbe
      <3> DEFINE paid == (probes + 1) * MaxProbe
      <3>1. paid \in Nat /\ since_ack <= paid /\ since_ack \in Nat
        BY <2>1, <2>2
      <3>2. (probes + 1 + 1) * MaxProbe = paid + MaxProbe
        BY <2>2
      <3> HIDE DEF paid
      <3>3. since_ack + persist_left' <= paid + MaxProbe
        <4>1. persist_left' \in Nat /\ persist_left' <= MaxProbe /\ MaxProbe \in Nat
          BY <1>5, TimersAssumption
        <4> QED
          BY <3>1, <4>1, WithinSum
      <3> QED
        BY <3>2, <3>3
    <2> QED
      BY <1>1, <1>5, <2>3 DEF ProbeTime
  <1> QED
    BY <1>2, <1>3, <1>6, <1>7 DEF TimersInv

-----------------------------------------------------------------------------
(***************************************************************************)
(* The theorems.                                                           *)
(***************************************************************************)
LEMMA TimersInv_Next ==
    ASSUME TimersInv, [TimersNext]_timer_vars
    PROVE  TimersInv'
  <1>1. CASE LoseConnection \/ OtherSegment \/ EndOfScan \/ NoProbe
    BY <1>1, MovingOn_Inv
  <1>2. CASE SendNew
    BY <1>2, SendNew_Inv
  <1>3. CASE NoAck
    BY <1>3, NoAck_Inv
  <1>4. CASE ReceiveAck
    BY <1>4, ReceiveAck_Inv
  <1>5. CASE ExpiredSegment
    BY <1>5, ExpiredSegment_Inv
  <1>6. CASE SendProbe
    BY <1>6, SendProbe_Inv
  <1>7. CASE UNCHANGED timer_vars
    BY <1>7 DEF TimersInv, FlightType, EstimateType, PersistType, Ages, Idle, QuietTime,
                ProbeTime, RtoCoversSample, Sent, timer_vars, flight, estimate, persist
  <1> QED
    BY <1>1, <1>2, <1>3, <1>4, <1>5, <1>6, <1>7 DEF TimersNext, Returned

\* The invariant holds of run() and its timers.
THEOREM TimersInvariant == TimersSpec => []TimersInv
  <1> QED
    BY TimersInv_Init, TimersInv_Next, PTL DEF TimersSpec

LEMMA KeepsTrying_Holds ==
    ASSUME TimersInv
    PROVE  KeepsTrying
  <1> SUFFICES ASSUME NEW s \in Sent
               PROVE  quiet[s] <= (tries[s] + 1) * (MaxRto + 1)
    BY DEF KeepsTrying
  <1> DEFINE t == tries[s]
             m == MaxRto + 1
  <1>1. t \in Nat /\ m \in Nat /\ quiet[s] \in Nat /\ age[s] \in Nat /\ age[s] <= m
    BY TimersAssumption DEF TimersInv, FlightType, Ages, Sent
  <1>2. quiet[s] <= t * m + age[s]
    BY DEF TimersInv, QuietTime
  <1> HIDE DEF t, m
  <1>3. (t + 1) * m = t * m + m /\ t * m \in Nat
    BY <1>1, OneMoreTry
  <1>4. quiet[s] <= (t + 1) * m
    BY <1>1, <1>2, <1>3
  <1> QED
    BY <1>4 DEF t, m

LEMMA KeepsProbing_Holds ==
    ASSUME TimersInv
    PROVE  KeepsProbing
  <1>1. (probes + 1) * MaxProbe \in Nat /\ since_ack \in Nat /\ persist_left \in Nat
    BY TimersAssumption DEF TimersInv, PersistType
  <1> QED
    BY <1>1 DEF TimersInv, ProbeTime, KeepsProbing

\* While no ACK comes, no segment in flight is left alone for longer than the limit
\* of rto_ and a unit: handle_timeouts sends it again.
THEOREM NeverSilent == TimersSpec => []KeepsTrying
  <1> QED
    BY TimersInvariant, KeepsTrying_Holds, PTL

\* While the window is closed and no ACK comes, two probes of handle_window_probe
\* are never further apart than the limit of the persist timer.
THEOREM ProbesGoOn == TimersSpec => []KeepsProbing
  <1> QED
    BY TimersInvariant, KeepsProbing_Holds, PTL

\* Whatever the samples, and however often the timer was doubled between them,
\* update_rto never sets rto_ below the last sample, but for its upper limit.
THEOREM TimerCoversSample == TimersSpec => []RtoCoversSample
  <1>1. TimersInv => RtoCoversSample
    BY DEF TimersInv
  <1> QED
    BY <1>1, TimersInvariant, PTL

=============================================================================
