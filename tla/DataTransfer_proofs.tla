------------------------- MODULE DataTransfer_proofs -------------------------
(***************************************************************************)
(* Proofs about DataTransfer, for every file, window, limit, bound and     *)
(* initial sequence number: the numbers of the transfer may wrap anywhere. *)
(* First, what they need of its congestion control, and the properties of  *)
(* that part.                                                              *)
(***************************************************************************)
EXTENDS DataTransfer, FiniteSetTheorems, SequenceTheorems, WellFoundedInduction, TLAPS

-----------------------------------------------------------------------------
(***************************************************************************)
(* Congestion control: for every unit, and every bound on the window and   *)
(* on the count of duplicate ACKs.                                         *)
(***************************************************************************)
\* max() of the code returns one of its arguments, and neither is above it.
LEMMA LargerIsMax ==
    ASSUME NEW a \in Int, NEW b \in Int
    PROVE  /\ Larger(a, b) \in {a, b}
           /\ Larger(a, b) >= a /\ Larger(a, b) >= b
  BY DEF Larger

\* A saturating counter stays within its bound, and at or above any value that
\* was not above either.
LEMMA SaturateBounds ==
    ASSUME NEW n \in Nat, NEW bound \in Nat
    PROVE  /\ Saturate(n, bound) \in 0 .. bound
           /\ n <= bound => Saturate(n, bound) = n
           /\ n > bound => Saturate(n, bound) = bound
  BY DEF Saturate

\* Half a window is at least four segments and at most the bound less four.
LEMMA HalfWindowType ==
    ASSUME NEW c \in CongestionState
    PROVE  HalfWindow(c) \in 4 * Unit .. MaxCwnd - 3 * Unit
  <1>1. Unit \in Nat \ {0} /\ MaxCwnd \in Nat /\ MaxCwnd >= 8 * Unit
    BY CongestionAssumption
  <1>2. c.cwnd \in Nat /\ c.cwnd <= MaxCwnd
    BY <1>1 DEF CongestionState
  <1>3. c.cwnd \div 2 \in Nat /\ 2 * (c.cwnd \div 2) <= MaxCwnd
    BY <1>1, <1>2
  <1>4. c.cwnd \div 2 <= MaxCwnd - 3 * Unit
    BY <1>1, <1>3
  <1> QED
    BY <1>1, <1>3, <1>4 DEF HalfWindow, Larger

-----------------------------------------------------------------------------
(***************************************************************************)
(* The methods keep the type of the object.                                *)
(***************************************************************************)

\* on_new_ack keeps the type: the increase is a fraction of a segment or one
\* segment, and the window that follows fast recovery is ssthresh.
LEMMA OnNewAckType ==
    ASSUME NEW c \in CongestionState
    PROVE  OnNewAck(c) \in CongestionState
  <1> USE CongestionAssumption
  <1>1. c.cwnd \in Nat \ {0} /\ Unit * Unit \in Nat
    BY DEF CongestionState
  <1>2. (Unit * Unit) \div c.cwnd \in Nat
    BY <1>1
  <1>3. Increase(c) \in Nat
    BY <1>2 DEF Increase
  <1>4. Saturate(c.cwnd + Increase(c), MaxCwnd) \in Unit .. MaxCwnd
    BY <1>3 DEF Saturate, CongestionState
  <1>5. c.ssthresh \in Unit .. MaxCwnd /\ 0 \in 0 .. MaxDupAcks
    BY DEF CongestionState
  <1> HIDE CongestionAssumption
  <1>6. CASE c.in_fast_recovery
    BY <1>5, <1>6 DEF OnNewAck, CongestionState
  <1>7. CASE ~c.in_fast_recovery
    BY <1>4, <1>5, <1>7 DEF OnNewAck, CongestionState
  <1> QED
    BY <1>6, <1>7

\* on_duplicate_ack keeps the type.
LEMMA OnDuplicateAckType ==
    ASSUME NEW c \in CongestionState
    PROVE  OnDuplicateAck(c) \in CongestionState
  <1> USE CongestionAssumption
  <1>1. Saturate(c.dup_ack_count + 1, MaxDupAcks) \in 0 .. MaxDupAcks
    BY DEF Saturate, CongestionState
  <1>2. Saturate(c.cwnd + Unit, MaxCwnd) \in Unit .. MaxCwnd
    BY DEF Saturate, CongestionState
  <1> QED
    BY <1>1, <1>2 DEF OnDuplicateAck, CongestionState

\* handle_duplicate_ack, with the fast retransmit or without it, keeps the type.
LEMMA AfterDuplicateAckType ==
    ASSUME NEW c \in CongestionState
    PROVE  AfterDuplicateAck(c) \in CongestionState
  <1> DEFINE d == OnDuplicateAck(c)
  <1>1. d \in CongestionState
    BY OnDuplicateAckType
  <1> HIDE DEF d
  <1>2. /\ HalfWindow(d) \in 2 * Unit .. MaxCwnd
        /\ HalfWindow(d) + 3 * Unit \in Unit .. MaxCwnd
    BY <1>1, HalfWindowType, CongestionAssumption
  <1>3. OnFastRetransmit(d) \in CongestionState
    BY <1>1, <1>2 DEF OnFastRetransmit, CongestionState
  <1> QED
    BY <1>1, <1>3 DEF AfterDuplicateAck, d

\* on_timeout keeps the type.
LEMMA OnTimeoutType ==
    ASSUME NEW c \in CongestionState
    PROVE  OnTimeout(c) \in CongestionState
  <1>1. /\ HalfWindow(c) \in 2 * Unit .. MaxCwnd
        /\ Unit \in Unit .. MaxCwnd /\ 0 \in 0 .. MaxDupAcks
    BY HalfWindowType, CongestionAssumption
  <1> QED
    BY <1>1 DEF OnTimeout, CongestionState

\* A new object is of the type.
LEMMA NewCongestionControlType ==
    ASSUME NEW initial_ssthresh \in (2 * Unit) .. MaxCwnd
    PROVE  NewCongestionControl(initial_ssthresh) \in CongestionState
  BY CongestionAssumption DEF NewCongestionControl, CongestionState

\* Whatever the order of calls, the window is never below one segment and
\* ssthresh never below two: the congestion window alone never stops the sender.
THEOREM CongestionTypeCorrect == CongestionSpec => []CongestionTypeOK
  <1>1. CongestionInit => CongestionTypeOK
    BY NewCongestionControlType DEF CongestionInit, CongestionTypeOK
  <1>2. CongestionTypeOK /\ [CongestionNext]_congestion => CongestionTypeOK'
    <2> SUFFICES ASSUME CongestionTypeOK, [CongestionNext]_congestion
                 PROVE  CongestionTypeOK'
      OBVIOUS
    <2> USE DEF CongestionTypeOK
    <2>1. CASE NewAck
      BY <2>1, OnNewAckType DEF NewAck
    <2>2. CASE DuplicateAck
      BY <2>2, AfterDuplicateAckType DEF DuplicateAck
    <2>3. CASE Timeout
      BY <2>3, OnTimeoutType DEF Timeout
    <2>4. CASE UNCHANGED congestion
      BY <2>4
    <2> QED
      BY <2>1, <2>2, <2>3, <2>4 DEF CongestionNext
  <1> QED
    BY <1>1, <1>2, PTL DEF CongestionSpec

-----------------------------------------------------------------------------
(***************************************************************************)
(* The count of duplicate ACKs and the inflation of the window.            *)
(***************************************************************************)

\* A new ACK and a timeout leave recovery with the count at zero.
LEMMA ResetsLeaveRecovery ==
    ASSUME NEW c \in CongestionState
    PROVE  /\ ~OnNewAck(c).in_fast_recovery /\ OnNewAck(c).dup_ack_count = 0
           /\ ~OnTimeout(c).in_fast_recovery /\ OnTimeout(c).dup_ack_count = 0
  BY DEF CongestionState, OnNewAck, OnTimeout

\* should_fast_retransmit tests dup_ack_count == 3: the count never passes 3
\* outside fast recovery, so the test never misses, and no call order leaves the
\* object in recovery with fewer than three duplicates.
THEOREM RecoveryCountsCorrect == CongestionSpec => []RecoveryCounts
  <1> USE DEF CongestionTypeOK, RecoveryCounts
  <1>1. CongestionInit => RecoveryCounts
    <2> SUFFICES ASSUME NEW i \in (2 * Unit) .. MaxCwnd,
                        congestion = NewCongestionControl(i)
                 PROVE  RecoveryCounts
      BY DEF CongestionInit
    <2>1. congestion.dup_ack_count = 0 /\ congestion.in_fast_recovery = FALSE
      BY DEF NewCongestionControl
    <2> QED
      BY <2>1
  <1>2. CongestionTypeOK /\ RecoveryCounts /\ [CongestionNext]_congestion
            => RecoveryCounts'
    <2> SUFFICES ASSUME CongestionTypeOK, RecoveryCounts,
                        [CongestionNext]_congestion
                 PROVE  RecoveryCounts'
      OBVIOUS
    <2>1. CASE NewAck \/ Timeout
      BY <2>1, ResetsLeaveRecovery DEF NewAck, Timeout
    <2>2. CASE DuplicateAck
      BY <2>2, CongestionAssumption
         DEF DuplicateAck, AfterDuplicateAck, OnDuplicateAck, OnFastRetransmit,
             ShouldFastRetransmit, Saturate, CongestionState
    <2>3. CASE UNCHANGED congestion
      BY <2>3
    <2> QED
      BY <2>1, <2>2, <2>3 DEF CongestionNext
  <1> QED
    BY <1>1, <1>2, CongestionTypeCorrect, PTL DEF CongestionSpec

\* In fast recovery the window exceeds ssthresh by one segment for each
\* duplicate ACK of the episode, as long as neither bound is reached.
THEOREM InflationCorrect == CongestionSpec => []InflationMatchesDupAcks
  <1> USE DEF CongestionTypeOK, RecoveryCounts, InflationMatchesDupAcks
  <1>1. CongestionInit => InflationMatchesDupAcks
    BY DEF CongestionInit, NewCongestionControl
  <1>2. CongestionTypeOK /\ RecoveryCounts /\ InflationMatchesDupAcks
            /\ [CongestionNext]_congestion => InflationMatchesDupAcks'
    <2> SUFFICES ASSUME CongestionTypeOK, RecoveryCounts,
                        InflationMatchesDupAcks, [CongestionNext]_congestion
                 PROVE  InflationMatchesDupAcks'
      OBVIOUS
    <2>1. CASE NewAck \/ Timeout
      BY <2>1, ResetsLeaveRecovery DEF NewAck, Timeout
    <2>2. CASE DuplicateAck
      <3> DEFINE d == OnDuplicateAck(congestion)
      <3>1. d \in CongestionState
        BY OnDuplicateAckType
      <3>2. CASE ShouldFastRetransmit(d)
        <4>1. congestion' = OnFastRetransmit(d) /\ d.dup_ack_count = 3
          BY <2>2, <3>2 DEF DuplicateAck, AfterDuplicateAck, ShouldFastRetransmit
        <4> HIDE DEF d
        <4>2. /\ congestion'.cwnd = HalfWindow(d) + 3 * Unit
              /\ congestion'.ssthresh = HalfWindow(d)
              /\ congestion'.dup_ack_count = 3
          BY <3>1, <4>1 DEF OnFastRetransmit, CongestionState
        <4> QED
          BY <4>2
      <3>3. CASE ~ShouldFastRetransmit(d)
        <4>1. congestion' = OnDuplicateAck(congestion)
          BY <2>2, <3>3 DEF DuplicateAck, AfterDuplicateAck
        <4>2. CASE congestion.in_fast_recovery
          BY <4>1, <4>2, CongestionAssumption
             DEF OnDuplicateAck, Saturate, CongestionState
        <4>3. CASE ~congestion.in_fast_recovery
          BY <4>1, <4>3 DEF OnDuplicateAck, CongestionState
        <4> QED
          BY <4>2, <4>3
      <3> QED
        BY <3>2, <3>3
    <2>3. CASE UNCHANGED congestion
      BY <2>3
    <2> QED
      BY <2>1, <2>2, <2>3 DEF CongestionNext
  <1> QED
    BY <1>1, <1>2, CongestionTypeCorrect, RecoveryCountsCorrect, PTL
       DEF CongestionSpec

-----------------------------------------------------------------------------
(***************************************************************************)
(* The transfer.                                                           *)
(***************************************************************************)

-----------------------------------------------------------------------------
(***************************************************************************)
(* Arithmetic.                                                             *)
(***************************************************************************)

\* Neighbouring multiples of b are b apart.
LEMMA Multiples ==
    ASSUME NEW b \in Nat \ {0}, NEW p \in Nat, NEW q \in Nat, p < q
    PROVE  p * b \in Nat /\ q * b \in Nat /\ p * b + b <= q * b
  <1>1. q - p - 1 \in Nat
    OBVIOUS
  <1>2. (q - p - 1) * b \in Nat
    BY <1>1
  <1>3. (q - p - 1) * b = q * b - p * b - b
    OBVIOUS
  <1>4. p * b \in Nat /\ q * b \in Nat
    OBVIOUS
  <1> QED
    BY <1>2, <1>3, <1>4

\* A sum in uint32_t wraps once at most.
LEMMA WrapOnce ==
    ASSUME NEW n \in 0 .. 2 * SeqMod - 1
    PROVE  Wrap(n) = IF n < SeqMod THEN n ELSE n - SeqMod
  <1> DEFINE p == n \div SeqMod
             r == n % SeqMod
  <1>1. SeqMod \in Nat \ {0} /\ n \in Nat
    BY ReceiveBufferAssumption
  <1>2. p \in Nat /\ r \in 0 .. SeqMod - 1 /\ p * SeqMod + r = n
    BY <1>1
  <1> HIDE DEF p, r
  <1>3. CASE p = 0
    <2>1. r = n /\ n < SeqMod
      BY <1>1, <1>2, <1>3
    <2> QED
      BY <2>1 DEF Wrap, r
  <1>4. CASE p = 1
    <2>1. r = n - SeqMod /\ ~(n < SeqMod)
      BY <1>1, <1>2, <1>4
    <2> QED
      BY <2>1 DEF Wrap, r
  <1>5. CASE p > 1
    <2>1. 1 * SeqMod + SeqMod <= p * SeqMod /\ p * SeqMod \in Nat
      BY <1>1, <1>2, <1>5, Multiples
    <2> QED
      BY <1>1, <1>2, <2>1
  <1> QED
    BY <1>2, <1>3, <1>4, <1>5

\* A set of naturals has a least element: of the initial segments below its
\* elements, one includes no other.
LEMMA LeastElement ==
    ASSUME NEW S \in SUBSET Nat, S # {}
    PROVE  \E m \in S : \A y \in S : m <= y
  <1> DEFINE Below(m) == 0 .. m - 1
             T == {Below(m) : m \in S}
             Ord == StrictSubsetOrdering(Nat)
  <1>1. T \subseteq FiniteSubsetsOf(Nat) /\ T # {}
    <2>1. \A m \in S : Below(m) \in SUBSET Nat /\ IsFiniteSet(Below(m))
      BY FS_Interval
    <2> QED
      BY <2>1 DEF FiniteSubsetsOf
  <1>2. IsWellFoundedOn(Ord, FiniteSubsetsOf(Nat))
    BY FS_StrictSubsetOrderingWellFounded
  <1> HIDE DEF T, Ord
  <1>3. PICK B \in T : \A C \in T : ~(<<C, B>> \in Ord)
    BY <1>1, <1>2, WFMin
  <1>4. PICK m \in S : B = Below(m)
    BY <1>3 DEF T
  <1>5. ASSUME NEW y \in S, y < m
        PROVE  FALSE
    <2>1. Below(y) \in T /\ Below(m) \in T
      BY DEF T
    <2>2. Below(y) \in SUBSET Nat /\ Below(m) \in SUBSET Nat
      OBVIOUS
    <2>3. Below(y) \subseteq Below(m)
      BY <1>5
    <2>4. y \in Below(m) /\ y \notin Below(y)
      BY <1>5
    <2>5. Below(y) # Below(m)
      BY <2>4
    <2>6. <<Below(y), Below(m)>> \in Ord
      BY <2>2, <2>3, <2>5 DEF StrictSubsetOrdering, Ord
    <2> QED
      BY <1>3, <1>4, <2>1, <2>6
  <1> QED
    BY <1>5

\* The constants are numbers.
LEMMA ConstantTypes ==
    /\ Total \in Nat /\ Isn \in Nat /\ SeqMod \in Nat
    /\ RcvWindow \in Nat /\ SackBits \in Nat \ {0} /\ SndWindow \in Nat \ {0}
    /\ MaxRetransmits \in Nat
    /\ \A s \in Segments : File[s] \in Payload
  <1>1. File \in Seq(Payload)
    BY SendWindowAssumption
  <1>2. Total \in Nat /\ \A s \in Segments : File[s] \in Payload
    BY <1>1 DEF Total, Segments
  <1> QED
    BY <1>2, SendWindowAssumption, ReceiveBufferAssumption,
       DataTransferAssumption DEF SeqNumbers

\* The relative numbers that the two programs handle: those of the segments, the
\* one behind them, and what a mask can add to it.
Relative == 0 .. Total + 1 + SackBits

\* On the wire such a number is the ISN plus the number, less the modulus when
\* the sum has wrapped.
LEMMA AbsCases ==
    ASSUME NEW s \in Relative
    PROVE  /\ s \in Nat /\ s < SeqMod
           /\ Abs(s) = IF Isn + s < SeqMod THEN Isn + s ELSE Isn + s - SeqMod
           /\ Abs(s) \in SeqNumbers
  <1>1. /\ Isn \in 0 .. SeqMod - 1 /\ s \in Nat /\ s < SeqMod
        /\ SeqMod \in Nat /\ Isn \in Nat
    BY ConstantTypes, DataTransferAssumption DEF SeqNumbers, Relative
  <1>2. Isn + s \in 0 .. 2 * SeqMod - 1
    BY <1>1
  <1> QED
    BY <1>1, <1>2, WrapOnce DEF Abs, SeqNumbers

LEMMA SegmentsAreRelative == Segments \subseteq Relative
  BY ConstantTypes DEF Segments, Relative

\* So no two of them are the same on the wire, ...
LEMMA AbsInjective ==
    ASSUME NEW s \in Relative, NEW t \in Relative, Abs(s) = Abs(t)
    PROVE  s = t
  BY AbsCases, ConstantTypes

\* ... steps from one to the next are steps on the wire, ...
LEMMA AbsPlus ==
    ASSUME NEW s \in Relative, NEW i \in Nat, s + i \in Relative
    PROVE  Wrap(Abs(s) + i) = Abs(s + i)
  <1>1. /\ s \in Nat /\ s + i \in Nat /\ s + i < SeqMod /\ i < SeqMod
        /\ Abs(s) \in 0 .. SeqMod - 1 /\ SeqMod \in Nat /\ Isn \in Nat
    BY AbsCases, ConstantTypes DEF SeqNumbers
  <1> DEFINE m == Abs(s) + i
             p == Abs(s)
             q == Abs(s + i)
  <1>2. m \in 0 .. 2 * SeqMod - 1 /\ m = p + i
    BY <1>1
  <1>3. /\ p = IF Isn + s < SeqMod THEN Isn + s ELSE Isn + s - SeqMod
        /\ q = IF Isn + (s + i) < SeqMod
                 THEN Isn + (s + i) ELSE Isn + (s + i) - SeqMod
    BY AbsCases
  <1> HIDE DEF m, p, q
  <1>4. Wrap(m) = IF m < SeqMod THEN m ELSE m - SeqMod
    BY <1>2, WrapOnce
  <1>5. Wrap(m) = q
    <2>1. CASE Isn + s < SeqMod
      BY <1>1, <1>2, <1>3, <1>4, <2>1
    <2>2. CASE ~(Isn + s < SeqMod)
      BY <1>1, <1>2, <1>3, <1>4, <2>2, ConstantTypes, DataTransferAssumption
         DEF SeqNumbers
    <2> QED
      BY <2>1, <2>2
  <1> QED
    BY <1>5 DEF m, q

\* ... and one above the ISN has not wrapped: handle_ack finds it by subtracting.
LEMMA AbsAboveIsn ==
    ASSUME NEW s \in Relative, Abs(s) > Isn
    PROVE  Abs(s) - Isn = s
  BY AbsCases, ConstantTypes

\* The segments a mask stands for, without the wrapping.
LEMMA SackedByIsSum ==
    ASSUME NEW ack \in 0 .. Total + 1, NEW mask \in SUBSET (0 .. SackBits - 1)
    PROVE  SackedBy(ack, mask) = {ack + 1 + i : i \in mask}
  <1>1. ASSUME NEW i \in mask
        PROVE  Wrap(ack + 1 + i) = ack + 1 + i
    <2>1. ack + 1 + i \in 0 .. SeqMod - 1 /\ SeqMod \in Nat
      BY ConstantTypes, DataTransferAssumption
    <2> QED
      BY <2>1, WrapOnce
  <1> QED
    BY <1>1 DEF SackedBy

\* A number that the receiver finds in its window, with n segments delivered, is
\* that of one of the next segments.
LEMMA InWindowMeans ==
    ASSUME NEW n \in 0 .. Total, NEW b, b.expected_seq = Abs(n + 1),
           NEW s \in Segments, Abs(s) >= b.expected_seq, IsInWindow(b, Abs(s))
    PROVE  s >= n + 1 /\ s <= n + RcvWindow
  <1>1. /\ s \in Relative /\ n + 1 \in Relative
        /\ n \in Nat /\ s \in Nat /\ s <= Total /\ Total \in Nat /\ RcvWindow \in Nat
        /\ Total + 1 + RcvWindow < SeqMod /\ SeqMod \in Nat /\ Isn \in Nat
    BY ConstantTypes, DataTransferAssumption DEF Relative, Segments
  <1> DEFINE e == Abs(n + 1)
             q == Abs(s)
  <1>2. /\ e \in 0 .. SeqMod - 1 /\ q \in 0 .. SeqMod - 1
        /\ e = IF Isn + (n + 1) < SeqMod THEN Isn + (n + 1) ELSE Isn + (n + 1) - SeqMod
        /\ q = IF Isn + s < SeqMod THEN Isn + s ELSE Isn + s - SeqMod
    BY <1>1, AbsCases DEF SeqNumbers
  <1>3. q >= e /\ q < Wrap(e + RcvWindow)
    BY DEF IsInWindow
  <1> HIDE DEF e, q
  <1> DEFINE m == e + RcvWindow
  <1>4. m \in 0 .. 2 * SeqMod - 1 /\ m = e + RcvWindow /\ q < Wrap(m)
    BY <1>1, <1>2, <1>3
  <1> HIDE DEF m
  <1>5. Wrap(m) = IF m < SeqMod THEN m ELSE m - SeqMod
    BY <1>4, WrapOnce
  <1>6. q < e + RcvWindow
    BY <1>1, <1>2, <1>4, <1>5
  <1> QED
    BY <1>1, <1>2, <1>3, <1>6

\* A window of at least one segment, in units, is at least one segment.
LEMMA WholeSegments ==
    ASSUME NEW c \in CongestionState
    PROVE  c.cwnd \div Unit \in Nat \ {0}
  BY CongestionAssumption DEF CongestionState

\* With a window open at the peer and in congestion control, the sender may have
\* at least one segment in flight, and no more than either window.
LEMMA WindowSizeBounds ==
    ASSUME NEW p \in Nat \ {0}, NEW n \in Nat \ {0}
    PROVE  /\ CalculateWindowSize(p, n) \in Nat \ {0}
           /\ CalculateWindowSize(p, n) <= p
           /\ CalculateWindowSize(p, n) <= SndWindow
  BY ConstantTypes DEF CalculateWindowSize, Smaller

-----------------------------------------------------------------------------
(***************************************************************************)
(* The window of the sender, against what the receiver has: it has written *)
(* n segments and has R, those in its buffer included.                     *)
(***************************************************************************)
Has(n, R) ==
    /\ n \in 0 .. Total
    /\ R \subseteq Segments
    /\ 1 .. n \subseteq R
    /\ n + 1 \notin R

WindowInv(w, n, R) ==
    /\ w \in WindowState
    /\ w.base_seq <= n + 1
    /\ w.base_seq <= w.next_seq
    /\ w.acked \subseteq R
    /\ \A s \in R : s < w.next_seq
    /\ \A s \in w.sent : s < w.next_seq

\* The segments of S are behind next_seq.
Reached(w, S) == S \in SUBSET Segments /\ \A s \in S : s < w.next_seq

\* Sending segments below next_seq keeps the invariant of the window.
LEMMA MarkSentInv ==
    ASSUME NEW n, NEW R, NEW w, WindowInv(w, n, R),
           NEW S, Reached(w, S)
    PROVE  /\ WindowInv(MarkSent(w, S), n, R)
           /\ MarkSent(w, S).base_seq = w.base_seq
           /\ MarkSent(w, S).next_seq = w.next_seq
           /\ MarkSent(w, S).acked = w.acked
           /\ MarkSent(w, S).sent = w.sent \cup S
  <1> DEFINE f == [s \in Segments |->
                      IF s \in S \cap w.sent /\ w.retx[s] <= MaxRetransmits
                      THEN w.retx[s] + 1 ELSE w.retx[s]]
  <1>1. f \in [Segments -> 0 .. MaxRetransmits + 1]
    BY ConstantTypes DEF WindowInv, WindowState
  <1>2. MarkSent(w, S) = [[w EXCEPT !.sent = w.sent \cup S] EXCEPT !.retx = f]
    BY DEF MarkSent
  <1> HIDE DEF f
  <1>3. MarkSent(w, S) \in WindowState
    BY <1>1, <1>2 DEF Reached, WindowInv, WindowState
  <1> QED
    BY <1>2, <1>3 DEF Reached, WindowInv, WindowState

\* Marking segments the receiver has keeps it.
LEMMA MarkAckedInv ==
    ASSUME NEW n, NEW R, NEW w, WindowInv(w, n, R),
           NEW S, S \cap Segments \subseteq R
    PROVE  /\ WindowInv(MarkAcked(w, S), n, R)
           /\ MarkAcked(w, S).base_seq = w.base_seq
           /\ MarkAcked(w, S).next_seq = w.next_seq
           /\ MarkAcked(w, S).sent = w.sent
  BY DEF MarkAcked, WindowInv, WindowState

\* Moving the edge to a cumulative number the receiver has reached keeps it.
LEMMA SetBaseSeqInv ==
    ASSUME NEW n, NEW R, Has(n, R), NEW w, WindowInv(w, n, R),
           NEW seq \in 1 .. n + 1
    PROVE  /\ WindowInv(SetBaseSeq(w, seq), n, R)
           /\ SetBaseSeq(w, seq).base_seq = seq
           /\ SetBaseSeq(w, seq).next_seq = w.next_seq
  <1> DEFINE f == [s \in Segments |-> IF s < seq THEN 0 ELSE w.retx[s]]
             sent == {s \in w.sent : s >= seq}
             acked == {s \in w.acked : s >= seq}
  <1>1. f \in [Segments -> 0 .. MaxRetransmits + 1]
    BY ConstantTypes DEF WindowInv, WindowState
  <1>2. /\ SetBaseSeq(w, seq).base_seq = seq
        /\ SetBaseSeq(w, seq).next_seq = w.next_seq
        /\ SetBaseSeq(w, seq).sent = sent
        /\ SetBaseSeq(w, seq).acked = acked
    BY DEF SetBaseSeq, WindowInv, WindowState
  <1>3. SetBaseSeq(w, seq) \in WindowState
    <2>1. seq \in 1 .. Total + 1
      BY ConstantTypes DEF Has
    <2>2. sent \in SUBSET Segments /\ acked \in SUBSET Segments
      BY DEF WindowInv, WindowState
    <2>3. SetBaseSeq(w, seq) =
              [[[[w EXCEPT !.base_seq = seq] EXCEPT !.sent = sent]
                   EXCEPT !.acked = acked] EXCEPT !.retx = f]
      BY DEF SetBaseSeq, WindowInv, WindowState
    <2> HIDE DEF f, sent, acked
    <2> QED
      BY <1>1, <2>1, <2>2, <2>3 DEF WindowInv, WindowState
  <1>4. seq <= w.next_seq
    <2>1. CASE n = 0
      BY <2>1, ConstantTypes DEF Has, WindowInv, WindowState
    <2>2. CASE n > 0
      <3>1. n \in R
        BY <2>2 DEF Has
      <3> QED
        BY <3>1, ConstantTypes DEF Has, WindowInv, WindowState
    <2> QED
      BY <2>1, <2>2 DEF Has
  <1> QED
    BY <1>2, <1>3, <1>4, ConstantTypes DEF WindowInv, WindowState, Has

\* Where advance_base_seq stops when it starts on an acked segment.
LEMMA FirstUnackedIs ==
    ASSUME NEW n, NEW R, Has(n, R), NEW w, WindowInv(w, n, R),
           NEW b, b = FirstUnacked(w)
    PROVE  /\ b \in w.base_seq .. Total + 1 /\ b \notin w.acked
           /\ \A s \in w.base_seq .. b - 1 : s \in w.acked
  <1> DEFINE Free == {m \in Nat : m >= w.base_seq /\ m \notin w.acked}
  <1>1. /\ w.base_seq \in 1 .. Total + 1 /\ w.base_seq <= n + 1
        /\ n + 1 \notin w.acked /\ n \in 0 .. Total /\ Total \in Nat
    BY ConstantTypes DEF WindowInv, WindowState, Has
  <1>2. n + 1 \in Free
    BY <1>1
  <1>3. PICK m \in Free : \A y \in Free : m <= y
    BY <1>2, LeastElement
  <1>4. \A s \in w.base_seq .. m - 1 : s \notin Free
    BY <1>1, <1>3
  <1>5. \E p \in w.base_seq .. n + 1 :
            p \notin w.acked /\ \A s \in w.base_seq .. p - 1 : s \in w.acked
    BY <1>1, <1>2, <1>3, <1>4
  <1> QED
    BY <1>1, <1>5 DEF FirstUnacked

\* advance_base_seq keeps it: it stops before the segment the receiver lacks.
LEMMA AdvanceBaseSeqInv ==
    ASSUME NEW n, NEW R, Has(n, R), NEW w, WindowInv(w, n, R)
    PROVE  /\ WindowInv(AdvanceBaseSeq(w), n, R)
           /\ AdvanceBaseSeq(w).next_seq = w.next_seq
           /\ AdvanceBaseSeq(w).base_seq >= w.base_seq
  <1> USE ConstantTypes
  <1>1. CASE w.base_seq > Total \/ w.base_seq \notin w.acked
    <2>1. AdvanceBaseSeq(w) = w
      BY <1>1 DEF AdvanceBaseSeq
    <2> QED
      BY <2>1 DEF WindowInv, WindowState
  <1>2. CASE w.base_seq <= Total /\ w.base_seq \in w.acked
    <2> DEFINE b == FirstUnacked(w)
               passed == w.base_seq .. b - 1
    <2>1. /\ w.base_seq \in 1 .. Total + 1 /\ w.next_seq \in 1 .. Total + 1
          /\ w.acked \subseteq Segments /\ w.base_seq <= n + 1
          /\ n + 1 \notin w.acked /\ n \in 0 .. Total
      BY DEF WindowInv, WindowState, Has
    <2>2. /\ b \in w.base_seq .. Total + 1 /\ b \notin w.acked
          /\ \A s \in w.base_seq .. b - 1 : s \in w.acked
      BY FirstUnackedIs
    <2>3. b <= n + 1
      BY <2>1, <2>2
    <2>4. b <= w.next_seq
      <3>1. b > w.base_seq
        BY <1>2, <2>1, <2>2
      <3>2. b - 1 \in w.acked
        BY <3>1, <2>1, <2>2
      <3> QED
        BY <3>2, <2>1, <2>2 DEF WindowInv
    <2> DEFINE f == [s \in Segments |-> IF s \in passed THEN 0 ELSE w.retx[s]]
               a == AdvanceBaseSeq(w)
    <2>5. f \in [Segments -> 0 .. MaxRetransmits + 1]
      BY DEF WindowInv, WindowState
    <2>6. a = [[[[w EXCEPT !.base_seq = b] EXCEPT !.sent = w.sent \ passed]
                   EXCEPT !.acked = w.acked \ passed] EXCEPT !.retx = f]
      BY <1>2, <2>1 DEF AdvanceBaseSeq
    <2> HIDE DEF f, a, b, passed
    <2>7. a \in WindowState
      <3>1. w \in WindowState
        BY DEF WindowInv
      <3>2. /\ w.sent \ passed \in SUBSET Segments
            /\ w.acked \ passed \in SUBSET Segments
        BY <3>1 DEF WindowState
      <3>3. b \in 1 .. Total + 1
        BY <2>1, <2>2
      <3> QED
        BY <3>1, <3>2, <3>3, <2>5, <2>6 DEF WindowState
    <2>8. /\ a.base_seq = b /\ a.next_seq = w.next_seq
          /\ a.sent \subseteq w.sent /\ a.acked \subseteq w.acked
      BY <2>6 DEF WindowInv, WindowState
    <2>9. b >= w.base_seq
      BY <2>1, <2>2
    <2> QED
      BY <2>3, <2>4, <2>7, <2>8, <2>9 DEF WindowInv, a
  <1> QED
    BY <1>1, <1>2 DEF WindowInv, WindowState

-----------------------------------------------------------------------------
(***************************************************************************)
(* The packets on the network, against what the receiver has and against   *)
(* the segments the sender has reached.                                    *)
(***************************************************************************)
DataInv(N, next) ==
    \A m \in N : m.type = "DATA" =>
        \E s \in Segments : s < next /\ m = DataPacket(s)

\* The number and the mask of an ACK claim no more than the receiver has.
Truthful(ack, mask, n, R) ==
    /\ ack \in 1 .. n + 1
    /\ mask \in SUBSET (0 .. SackBits - 1)
    /\ \A i \in mask : ack + 1 + i \in R

\* So does the packet m; on the wire its number is absolute.
Acknowledges(m, n, R) ==
    \E a \in 1 .. n + 1 : m.ack = Abs(a) /\ Truthful(a, m.sack, n, R)

AckInv(N, n, R) ==
    \A m \in N : m.type = "ACK" => Acknowledges(m, n, R)

FinInv(N, n) ==
    /\ FinPacket \in N => n = Total
    /\ FinAckPacket \in N => FinPacket \in N

NetInv(N, n, R, next) ==
    /\ N \subseteq Packets
    /\ DataInv(N, next)
    /\ AckInv(N, n, R)
    /\ FinInv(N, n)

\* The packets the sender adds are on the network from then on, and it adds no
\* packet of the closing handshake.
Extends(M, N) ==
    /\ N \subseteq M
    /\ FinPacket \in M => FinPacket \in N
    /\ FinAckPacket \in M => FinAckPacket \in N

\* What handle_ack makes of an ACK whose number it takes for valid.
LEMMA ValidAck ==
    ASSUME NEW n \in 0 .. Total, NEW R, NEW m, Acknowledges(m, n, R), ~(m.ack <= Isn)
    PROVE  Truthful(m.ack - Isn, m.sack, n, R)
  <1>1. PICK a \in 1 .. n + 1 : m.ack = Abs(a) /\ Truthful(a, m.sack, n, R)
    BY DEF Acknowledges
  <1>2. a \in Relative
    BY ConstantTypes DEF Relative
  <1>3. m.ack > Isn
    <2>1. /\ Abs(a) \in Nat /\ Isn \in Nat
          /\ ~(Abs(a) <= Isn) /\ m.ack = Abs(a)
      BY <1>1, <1>2, AbsCases, ConstantTypes, DataTransferAssumption DEF SeqNumbers
    <2> QED
      BY <2>1
  <1> QED
    BY <1>1, <1>2, <1>3, AbsAboveIsn

\* A data packet is a packet.
LEMMA DataPacketType ==
    ASSUME NEW s \in Segments
    PROVE  DataPacket(s) \in Packets /\ DataPacket(s).type = "DATA"
  <1>1. Abs(s) \in SeqNumbers
    BY SegmentsAreRelative, AbsCases
  <1>2. File[s] \in Payload
    BY ConstantTypes
  <1> QED
    BY <1>1, <1>2 DEF DataPacket, Packets

\* What transmit_segment does to the window, for segments below next_seq ...
LEMMA TransmitWindow ==
    ASSUME NEW n, NEW R, NEW w, WindowInv(w, n, R),
           NEW S, Reached(w, S), NEW failed
    PROVE  /\ WindowInv(Transmit(w, S, failed), n, R)
           /\ Transmit(w, S, failed).base_seq = w.base_seq
           /\ Transmit(w, S, failed).next_seq = w.next_seq
  <1>1. Reached(w, S \ failed)
    BY DEF Reached
  <1> QED
    BY <1>1, MarkSentInv DEF Transmit

\* ... and to the network.
LEMMA TransmitInv ==
    ASSUME NEW n, NEW R, NEW w, WindowInv(w, n, R),
           NEW S, Reached(w, S),
           NEW failed, NEW N, NetInv(N, n, R, w.next_seq)
    PROVE  /\ WindowInv(Transmit(w, S, failed), n, R)
           /\ Transmit(w, S, failed).base_seq = w.base_seq
           /\ Transmit(w, S, failed).next_seq = w.next_seq
           /\ NetInv(N \cup Transmitted(w, S, failed), n, R, w.next_seq)
           /\ Extends(N \cup Transmitted(w, S, failed), N)
  <1>1. /\ WindowInv(Transmit(w, S, failed), n, R)
        /\ Transmit(w, S, failed).base_seq = w.base_seq
        /\ Transmit(w, S, failed).next_seq = w.next_seq
    BY TransmitWindow
  <1> DEFINE T == Transmitted(w, S, failed)
  <1>2. \A m \in T : m = RstPacket \/ \E s \in S : m = DataPacket(s)
    BY DEF Transmitted
  <1> HIDE DEF T
  <1>3. RstPacket \in Packets /\ RstPacket.type = "RST"
    BY DEF RstPacket, Packets
  <1>4. \A s \in S : DataPacket(s) \in Packets /\ DataPacket(s).type = "DATA"
    BY DataPacketType DEF Reached
  <1>5. \A m \in T : /\ m \in Packets
                     /\ m.type # "ACK" /\ m.type # "FIN" /\ m.type # "FINACK"
                     /\ m.type = "DATA" => \E s \in S : m = DataPacket(s)
    BY <1>2, <1>3, <1>4
  <1>6. FinPacket \notin T /\ FinAckPacket \notin T
    BY <1>5 DEF FinPacket, FinAckPacket
  <1>7. Extends(N \cup T, N)
    BY <1>6 DEF Extends
  <1>8. NetInv(N \cup T, n, R, w.next_seq)
    BY <1>5, <1>6 DEF Reached, NetInv, DataInv, AckInv, FinInv
  <1> QED
    BY <1>1, <1>7, <1>8 DEF T

\* The gaps of a mask are segments that were sent.
LEMMA GapsWereSent ==
    ASSUME NEW n, NEW R, NEW w, WindowInv(w, n, R), NEW ack, NEW mask
    PROVE  \A S \in SUBSET GapSegments(w, ack, mask) : Reached(w, S)
  BY DEF GapSegments, Reached, WindowInv, WindowState

\* The end of handle_ack, for an ACK the receiver sent.
LEMMA HandleSackInv ==
    ASSUME NEW n, NEW R, Has(n, R), NEW w, WindowInv(w, n, R),
           NEW ack, NEW mask, Truthful(ack, mask, n, R),
           NEW bytes, NEW sofar, NetInv(net \cup sofar, n, R, w.next_seq),
           HandleSack(w, ack, mask, bytes, sofar)
    PROVE  /\ WindowInv(window', n, R)
           /\ window'.base_seq >= w.base_seq
           /\ window'.next_seq = w.next_seq
           /\ NetInv(net', n, R, w.next_seq)
           /\ Extends(net', net \cup sofar)
  <1> DEFINE marked == MarkAcked(w, SackedBy(ack, mask))
             gaps == GapSegments(marked, ack, mask)
  <1>1. PICK resent \in SUBSET gaps :
            /\ window' = AdvanceBaseSeq(Transmit(marked, resent, {}))
            /\ net' = net \cup sofar \cup Transmitted(marked, resent, {})
    BY DEF HandleSack
  <1>2. SackedBy(ack, mask) \subseteq R
    <2>1. ack \in 0 .. Total + 1
      BY ConstantTypes DEF Has, Truthful
    <2> QED
      BY <2>1, SackedByIsSum DEF Truthful
  <1>3. /\ WindowInv(marked, n, R)
        /\ marked.base_seq = w.base_seq /\ marked.next_seq = w.next_seq
    BY <1>2, MarkAckedInv
  <1> HIDE DEF marked
  <1>4. Reached(marked, resent)
    BY <1>3, GapsWereSent
  <1> DEFINE t == Transmit(marked, resent, {})
  <1>5. /\ WindowInv(t, n, R)
        /\ t.base_seq = w.base_seq /\ t.next_seq = w.next_seq
        /\ NetInv(net', n, R, w.next_seq)
        /\ Extends(net', net \cup sofar)
    BY <1>1, <1>3, <1>4, TransmitInv
  <1> HIDE DEF t
  <1>6. /\ WindowInv(AdvanceBaseSeq(t), n, R)
        /\ AdvanceBaseSeq(t).next_seq = t.next_seq
        /\ AdvanceBaseSeq(t).base_seq >= t.base_seq
    BY <1>5, AdvanceBaseSeqInv
  <1> QED
    BY <1>1, <1>5, <1>6 DEF t

-----------------------------------------------------------------------------
(***************************************************************************)
(* The inductive invariant.                                                *)
(***************************************************************************)

\* A buffer holds segments of the file, those from lo to hi at most.
Holds(b, lo, hi) ==
    \A q \in DOMAIN b.held :
        \E s \in Segments : /\ q = Abs(s) /\ b.held[q] = File[s]
                            /\ s >= lo /\ s <= hi

\* The receiver's file and buffer.
ReceiverInv ==
    /\ buffer.expected_seq = Abs(Len(written) + 1)
    /\ PrefixWritten
    /\ Holds(buffer, Len(written) + 2, Len(written) + RcvWindow)
    /\ RcvWindow = 0 => Len(written) = 0
    /\ rcv_pc = "recv" => timeouts < MaxConsecutiveTimeouts

\* The sender has a segment in flight, or nothing left to send.
InFlightOrDone == window.base_seq < window.next_seq \/ window.base_seq > Total

\* The closing handshake, the peer's window, and why a duplicate ACK never finds
\* the sender with nothing in flight: try_send_data comes first, and a peer that
\* closes its window never had it open.
ControlInv ==
    /\ fin_sent => FinPacket \in net
    /\ fin_complete => FinAckPacket \in net
    /\ rcv_pc = "closing" => FinPacket \in net
    /\ peer_wnd = 0 => RcvWindow = 0
    /\ snd_pc = "network" => InFlightOrDone
    /\ peer_wnd = 0 => InFlightOrDone

Inv ==
    /\ TypeOK
    /\ ReceiverInv
    /\ WindowInv(window, Len(written), Received)
    /\ NetInv(net, Len(written), Received, window.next_seq)
    /\ ControlInv
    /\ WindowRespected

-----------------------------------------------------------------------------
\* What the receiver has, when its buffer is as the invariant says.
LEMMA ReceiverHas ==
    ASSUME ReceiverInv, written \in Seq(Payload)
    PROVE  Has(Len(written), Received)
  <1>1. Len(written) \in 0 .. Total /\ Total \in Nat
    BY ConstantTypes DEF ReceiverInv, PrefixWritten
  <1>2. Received \subseteq Segments /\ 1 .. Len(written) \subseteq Received
    BY <1>1 DEF Received, Segments
  <1>3. Len(written) + 1 \notin Received
    <2>1. SUFFICES ASSUME Len(written) + 1 \in Segments,
                          Abs(Len(written) + 1) \in DOMAIN buffer.held
                   PROVE  FALSE
      BY <1>1 DEF Received
    <2>2. PICK s \in Segments : /\ Abs(Len(written) + 1) = Abs(s)
                                /\ s >= Len(written) + 2
      BY <2>1 DEF ReceiverInv, Holds
    <2>3. s = Len(written) + 1
      BY <2>1, <2>2, SegmentsAreRelative, AbsInjective
    <2> QED
      BY <1>1, <2>2, <2>3
  <1> QED
    BY <1>1, <1>2, <1>3 DEF Has

\* The window the sender assumes before the first ACK is open, and in its type.
LEMMA InitialPeerWndType ==
    /\ InitialPeerWnd \in Nat \ {0}
    /\ InitialPeerWnd * Unit <= MaxCwnd
    /\ Smaller(RcvWindow, SackBits) = RcvWindow
    /\ RcvWindow # 0 => InitialPeerWnd = RcvWindow
  BY ConstantTypes, DataTransferAssumption DEF InitialPeerWnd, Smaller

\* The state after the handshake satisfies the invariant.
LEMMA InvInit ==
    ASSUME Init
    PROVE  Inv
  <1> USE DEF Init
  <1>1. Abs(1) \in SeqNumbers
    BY AbsCases, ConstantTypes DEF Relative
  <1>2. congestion \in CongestionState
    <2> DEFINE i == Larger(2, InitialPeerWnd) * Unit
    <2>1. i \in 2 * Unit .. MaxCwnd
      <3>1. CASE InitialPeerWnd <= 2
        <4>1. i = 2 * Unit
          BY <3>1, InitialPeerWndType DEF Larger
        <4> QED
          BY <4>1, CongestionAssumption
      <3>2. CASE InitialPeerWnd > 2
        <4>1. i = InitialPeerWnd * Unit
          BY <3>2, InitialPeerWndType DEF Larger
        <4>2. InitialPeerWnd * Unit >= 2 * Unit
          BY <3>2, InitialPeerWndType, CongestionAssumption
        <4> QED
          BY <4>1, <4>2, InitialPeerWndType, CongestionAssumption
      <3> QED
        BY <3>1, <3>2, InitialPeerWndType
    <2> HIDE DEF i
    <2> QED
      BY <2>1, NewCongestionControlType DEF i
  <1>3. window \in WindowState
    BY ConstantTypes DEF NewWindow, WindowState
  <1>4. net \subseteq Packets
    BY <1>1 DEF Packets, AckPacket, PureAck
  <1>5. IsBuffer(buffer, Payload)
    BY <1>1 DEF IsBuffer, NewBuffer
  <1>6. TypeOK
    <2>1. {zero_window, fin_sent, fin_complete} \subseteq BOOLEAN
      OBVIOUS
    <2>2. written \in Seq(Payload)
      OBVIOUS
    <2>3. /\ bytes_acked \in 0 .. MaxBytesAcked /\ fin_retry \in 0 .. MaxFinRetries
          /\ timeouts \in 0 .. MaxConsecutiveTimeouts
          /\ burst \in 0 .. FinAckBurst
      BY DataTransferAssumption
    <2> QED
      BY <1>2, <1>3, <1>4, <1>5, <2>1, <2>2, <2>3
         DEF TypeOK, SenderTypeOK, ReceiverTypeOK
  <1>7. ReceiverInv
    BY <1>1, ConstantTypes, DataTransferAssumption
       DEF ReceiverInv, Holds, PrefixWritten, NewBuffer
  <1>8. Received = {}
    BY DEF Received, NewBuffer
  <1>9. WindowInv(window, Len(written), Received)
    BY <1>3, <1>8 DEF WindowInv, NewWindow
  <1>10. NetInv(net, Len(written), Received, window.next_seq)
    <2>1. FinPacket \notin net /\ FinAckPacket \notin net
      BY DEF FinPacket, FinAckPacket, AckPacket, PureAck
    <2>2. DataInv(net, window.next_seq)
      BY DEF DataInv, AckPacket, PureAck
    <2>3. AckInv(net, Len(written), Received)
      BY DEF AckInv, Acknowledges, Truthful, AckPacket, PureAck
    <2> QED
      BY <1>4, <2>1, <2>2, <2>3 DEF NetInv, FinInv
  <1>11. ControlInv
    BY InitialPeerWndType DEF ControlInv
  <1>12. WindowRespected
    BY InitialPeerWndType, ConstantTypes DEF WindowRespected, NewWindow, Smaller
  <1> QED
    BY <1>6, <1>7, <1>9, <1>10, <1>11, <1>12 DEF Inv

-----------------------------------------------------------------------------
(***************************************************************************)
(* The steps of the sender.                                                *)
(***************************************************************************)

\* The packets of the closing handshake are none of the others.
LEMMA PacketsDistinct ==
    /\ {RstPacket, PureAck, Probe} \cap {FinPacket, FinAckPacket} = {}
    /\ FinPacket # FinAckPacket
  BY DEF RstPacket, PureAck, Probe, FinPacket, FinAckPacket

\* A packet other than DATA and ACK, on the network.
LEMMA AddControlPacket ==
    ASSUME NEW n, NEW R, NEW next, NEW N, NetInv(N, n, R, next),
           NEW p \in {RstPacket, PureAck, Probe, FinPacket, FinAckPacket},
           p = FinPacket => n = Total, p = FinAckPacket => FinPacket \in N
    PROVE  NetInv(N \cup {p}, n, R, next)
  <1>1. p \in Packets /\ p.type # "DATA" /\ p.type # "ACK"
    BY DEF Packets, RstPacket, PureAck, Probe, FinPacket, FinAckPacket
  <1> QED
    BY <1>1 DEF NetInv, DataInv, AckInv, FinInv, FinPacket, FinAckPacket

\* The credit for acknowledged segments stays within the bound.
LEMMA CreditType ==
    ASSUME NEW w, NEW S, NEW bytes \in 0 .. MaxBytesAcked
    PROVE  Credit(w, S, bytes) \in 0 .. MaxBytesAcked
  <1> DEFINE T == (S \cap Segments) \ w.acked
  <1>1. IsFiniteSet(Segments)
    BY FS_Interval, ConstantTypes DEF Segments
  <1>2. Cardinality(T) \in Nat
    BY <1>1, FS_Subset, FS_CardinalityType
  <1> HIDE DEF T
  <1>3. MaxBytesAcked \in Nat
    BY DataTransferAssumption
  <1> QED
    BY <1>2, <1>3 DEF Credit, Saturate, T

\* ... and so does the credit of a SACK mask.
LEMMA HandleSackCredit ==
    ASSUME NEW w, NEW ack, NEW mask, NEW bytes \in 0 .. MaxBytesAcked, NEW sofar,
           HandleSack(w, ack, mask, bytes, sofar)
    PROVE  bytes_acked' \in 0 .. MaxBytesAcked
  <1>1. bytes_acked' = Credit(w, SackedBy(ack, mask), bytes)
    BY DEF HandleSack
  <1> HIDE DEF HandleSack
  <1> QED
    BY <1>1, CreditType

\* What a step of the sender has to show: it changes nothing of the receiver's.
LEMMA SenderStep_Inv ==
    ASSUME Inv, UNCHANGED rcv, SenderTypeOK',
           WindowInv(window', Len(written), Received),
           NetInv(net', Len(written), Received, window'.next_seq),
           ControlInv', WindowRespected'
    PROVE  Inv'
  <1> USE DEF rcv
  <1>1. Received' = Received
    BY DEF Received
  <1>2. ReceiverInv'
    BY DEF Inv, ReceiverInv, Holds, PrefixWritten
  <1>3. TypeOK'
    BY DEF Inv, TypeOK, ReceiverTypeOK, NetInv
  <1> QED
    BY <1>1, <1>2, <1>3 DEF Inv

\* A step of the sender that leaves its window and the peer's alone and adds at
\* most one packet, none of them DATA or an ACK of the receiver.
LEMMA QuietStep_Inv ==
    ASSUME Inv, UNCHANGED rcv, UNCHANGED <<window, peer_wnd>>, SenderTypeOK',
           NEW p \in {RstPacket, PureAck, Probe, FinPacket, FinAckPacket},
           net' = net \/ net' = net \cup {p},
           p = FinPacket => Len(written) = Total,
           p = FinAckPacket => FinPacket \in net,
           fin_sent' => FinPacket \in net',
           fin_complete' => FinAckPacket \in net', snd_pc' # "network"
    PROVE  Inv'
  <1>1. NetInv(net', Len(written), Received, window'.next_seq)
    <2>1. NetInv(net, Len(written), Received, window.next_seq)
      BY DEF Inv
    <2>2. NetInv(net \cup {p}, Len(written), Received, window.next_seq)
      BY <2>1, AddControlPacket
    <2> QED
      BY <2>1, <2>2
  <1>2. ControlInv'
    BY DEF Inv, ControlInv, InFlightOrDone, rcv
  <1>3. WindowRespected'
    BY DEF Inv, WindowRespected
  <1> QED
    BY <1>1, <1>2, <1>3, SenderStep_Inv DEF Inv

\* The give-up timer.
LEMMA GiveUp_Inv ==
    ASSUME Inv, GiveUp
    PROVE  Inv'
  <1>1. SenderTypeOK'
    BY DEF GiveUp, snd, Inv, TypeOK, SenderTypeOK
  <1> QED
    BY <1>1, PacketsDistinct, QuietStep_Inv DEF GiveUp, snd, Inv, ControlInv

\* process_network without a packet to handle.
LEMMA NoPacket_Inv ==
    ASSUME Inv, NoPacket
    PROVE  Inv'
  <1>1. SenderTypeOK'
    BY DEF NoPacket, snd, Inv, TypeOK, SenderTypeOK
  <1> QED
    BY <1>1, PacketsDistinct, QuietStep_Inv DEF NoPacket, snd, Inv, ControlInv

\* handle_fin_ack
LEMMA HandleFinAck_Inv ==
    ASSUME Inv, HandleFinAck
    PROVE  Inv'
  <1>1. SenderTypeOK'
    BY DEF HandleFinAck, Inv, TypeOK, SenderTypeOK
  <1> QED
    BY <1>1, PacketsDistinct, QuietStep_Inv DEF HandleFinAck, Inv, ControlInv

\* handle_window_probe
LEMMA HandleWindowProbe_Inv ==
    ASSUME Inv, HandleWindowProbe
    PROVE  Inv'
  <1>1. SenderTypeOK'
    BY DEF HandleWindowProbe, snd, Inv, TypeOK, SenderTypeOK
  <1> QED
    BY <1>1, PacketsDistinct, QuietStep_Inv DEF HandleWindowProbe, snd, Inv, ControlInv

\* try_send_fin: a first FIN, which needs every segment acknowledged.
LEMMA SendFin_Inv ==
    ASSUME Inv, SendFin
    PROVE  Inv'
  <1>1. SenderTypeOK'
    BY DataTransferAssumption DEF SendFin, Inv, TypeOK, SenderTypeOK
  <1>2. Len(written) = Total
    <2>1. Has(Len(written), Received)
      BY ReceiverHas DEF Inv, TypeOK, ReceiverTypeOK
    <2>2. window.base_seq > Total /\ window.base_seq <= Len(written) + 1
      BY DEF SendFin, AllAcked, Inv, WindowInv
    <2>3. window.base_seq \in Nat
      BY DEF Inv, WindowInv, WindowState
    <2> QED
      BY <2>1, <2>2, <2>3, ConstantTypes DEF Has
  <1> QED
    BY <1>1, <1>2, PacketsDistinct, QuietStep_Inv DEF SendFin, Inv, ControlInv

\* try_send_fin: the FIN again.
LEMMA ResendFin_Inv ==
    ASSUME Inv, ResendFin
    PROVE  Inv'
  <1>1. SenderTypeOK'
    <2>1. fin_retry' \in 0 .. MaxFinRetries
      BY DataTransferAssumption DEF ResendFin, Inv, TypeOK, SenderTypeOK
    <2> QED
      BY <2>1 DEF ResendFin, Inv, TypeOK, SenderTypeOK
  <1>2. Len(written) = Total
    BY DEF ResendFin, Inv, ControlInv, NetInv, FinInv
  <1> QED
    BY <1>1, <1>2, PacketsDistinct, QuietStep_Inv DEF ResendFin, Inv, ControlInv

\* try_send_fin without a FIN.
LEMMA NoFin_Inv ==
    ASSUME Inv, NoFin
    PROVE  Inv'
  <1>1. SenderTypeOK'
    BY DEF NoFin, snd, Inv, TypeOK, SenderTypeOK
  <1> QED
    BY <1>1, PacketsDistinct, QuietStep_Inv DEF NoFin, snd, Inv, ControlInv

\* The window that is still open for new segments: at least one segment when the
\* peer's window is open, and no more than either window.
LEMMA SendLimitBounds ==
    ASSUME Inv
    PROVE  /\ SendLimit \in window.next_seq .. Total + 1
           /\ peer_wnd # 0 /\ window.base_seq <= Total => SendLimit > window.base_seq
           /\ peer_wnd = 0 => SendLimit = window.next_seq
           /\ SendLimit <= window.base_seq + Smaller(SndWindow, InitialPeerWnd)
  <1>1. /\ window.next_seq \in 1 .. Total + 1 /\ window.base_seq \in 1 .. Total + 1
        /\ window.next_seq <= window.base_seq + Smaller(SndWindow, InitialPeerWnd)
    BY DEF Inv, WindowRespected, WindowInv, WindowState
  <1>2. /\ peer_wnd \in Nat /\ SndWindow \in Nat /\ InitialPeerWnd \in Nat
        /\ peer_wnd # 0 => peer_wnd = InitialPeerWnd
    BY InitialPeerWndType, ConstantTypes DEF Inv, TypeOK, SenderTypeOK
  <1>3. CASE peer_wnd = 0
    BY <1>1, <1>3, ConstantTypes DEF SendLimit, InFlightOrDone, Inv, ControlInv
  <1>4. CASE peer_wnd # 0
    <2> DEFINE cap == CalculateWindowSize(peer_wnd, congestion.cwnd \div Unit)
    <2>1. congestion.cwnd \div Unit \in Nat \ {0}
      BY WholeSegments DEF Inv, TypeOK, SenderTypeOK
    <2>2. cap \in Nat \ {0} /\ cap <= peer_wnd /\ cap <= SndWindow
      BY <1>2, <1>4, <2>1, WindowSizeBounds
    <2>3. SendLimit = Larger(window.next_seq,
                             Smaller(Total + 1, window.base_seq + cap))
      BY <1>4 DEF SendLimit
    <2> HIDE DEF cap
    <2> QED
      BY <1>1, <1>2, <1>4, <2>2, <2>3, ConstantTypes DEF Larger, Smaller
  <1> QED
    BY <1>3, <1>4

\* try_send_data
LEMMA TrySendData_Inv ==
    ASSUME Inv, TrySendData
    PROVE  Inv'
  <1> DEFINE n == Len(written)
             R == Received
  <1>1. PICK stop \in window.next_seq .. SendLimit :
            /\ stop = SendLimit \/ stop \in window.sent
            /\ \E failed \in MayFail(window, window.next_seq .. stop - 1) :
                 /\ window' = [Transmit(window, window.next_seq .. stop - 1, failed)
                                  EXCEPT !.next_seq = stop]
                 /\ net' = net \cup Transmitted(window, window.next_seq .. stop - 1,
                                                failed)
    BY DEF TrySendData
  <1> DEFINE new == window.next_seq .. stop - 1
             w == [window EXCEPT !.next_seq = stop]
  <1>2. PICK failed \in MayFail(window, new) :
            /\ window' = [Transmit(window, new, failed) EXCEPT !.next_seq = stop]
            /\ net' = net \cup Transmitted(window, new, failed)
    BY <1>1
  <1>3. /\ window \in WindowState /\ WindowInv(window, n, R)
        /\ NetInv(net, n, R, window.next_seq)
        /\ window.base_seq \in 1 .. Total + 1
        /\ window.next_seq \in 1 .. Total + 1 /\ window.base_seq <= window.next_seq
    BY DEF Inv, WindowInv, WindowState
  <1>4. stop = SendLimit /\ stop \in window.next_seq .. Total + 1
    BY <1>1, <1>3, SendLimitBounds DEF WindowInv
  <1>5. WindowInv(w, n, R) /\ w.next_seq = stop /\ w.base_seq = window.base_seq
    <2>1. /\ w \in WindowState /\ w.next_seq = stop /\ w.base_seq = window.base_seq
          /\ w.sent = window.sent /\ w.acked = window.acked
      <3>1. stop \in 1 .. Total + 1
        BY <1>3, <1>4, ConstantTypes
      <3> QED
        BY <1>3, <3>1 DEF WindowState
    <2>2. \A s \in R \cup window.sent : s \in Nat
      BY <1>3 DEF Inv, WindowState, Received, Segments
    <2>3. \A s \in R \cup window.sent : s < stop
      BY <1>3, <1>4, <2>2 DEF WindowInv
    <2>4. w.base_seq <= w.next_seq
      BY <1>3, <1>4, <2>1
    <2> HIDE DEF w
    <2> QED
      BY <1>3, <2>1, <2>3, <2>4 DEF WindowInv
  <1>6. NetInv(net, n, R, stop)
    BY <1>3, <1>4 DEF NetInv, DataInv, Segments
  <1>7. window' = Transmit(w, new, failed)
    BY <1>2, <1>3 DEF Transmit, MarkSent, WindowState
  <1>8. net' = net \cup Transmitted(w, new, failed)
    BY <1>2, <1>3 DEF Transmitted, WindowState
  <1>9. Reached(w, new)
    BY <1>3, <1>4, <1>5, ConstantTypes DEF Segments, Reached
  <1> HIDE DEF w, new, n, R
  <1>10. /\ WindowInv(window', n, R) /\ window'.base_seq = window.base_seq
         /\ window'.next_seq = stop /\ NetInv(net', n, R, stop)
         /\ Extends(net', net)
    BY <1>5, <1>6, <1>7, <1>8, <1>9, TransmitInv
  <1>11. SenderTypeOK'
    <2>1. window' \in WindowState
      BY <1>10 DEF WindowInv
    <2> QED
      BY <2>1 DEF TrySendData, Inv, TypeOK, SenderTypeOK
  <1>12. InFlightOrDone'
    BY <1>3, <1>4, <1>10, SendLimitBounds, ConstantTypes
       DEF InFlightOrDone, Inv, ControlInv
  <1>13. ControlInv'
    BY <1>10, <1>12 DEF TrySendData, rcv, Inv, ControlInv, Extends
  <1>14. WindowRespected'
    BY <1>3, <1>4, <1>10, SendLimitBounds DEF WindowRespected
  <1> QED
    BY <1>10, <1>11, <1>13, <1>14, SenderStep_Inv DEF TrySendData, n, R

\* handle_timeouts
LEMMA HandleTimeouts_Inv ==
    ASSUME Inv, NEW expired \in SUBSET InFlight, HandleTimeouts(expired)
    PROVE  Inv'
  <1> DEFINE n == Len(written)
             R == Received
  <1>1. WindowInv(window, n, R) /\ NetInv(net, n, R, window.next_seq)
    BY DEF Inv
  <1>2. Reached(window, expired)
    BY <1>1 DEF InFlight, Reached, WindowInv, WindowState
  <1>3. /\ window' = Transmit(window, expired, {})
        /\ net' = net \cup Transmitted(window, expired, {})
    BY DEF HandleTimeouts
  <1> HIDE DEF n, R
  <1>4. /\ WindowInv(window', n, R) /\ window'.base_seq = window.base_seq
        /\ window'.next_seq = window.next_seq
        /\ NetInv(net', n, R, window'.next_seq) /\ Extends(net', net)
    BY <1>1, <1>2, <1>3, TransmitInv
  <1>5. SenderTypeOK'
    <2>1. congestion' \in CongestionState
      BY OnTimeoutType
         DEF HandleTimeouts, AfterTimeouts, Inv, TypeOK, SenderTypeOK
    <2>2. window' \in WindowState
      BY <1>4 DEF WindowInv
    <2> QED
      BY <2>1, <2>2 DEF HandleTimeouts, Inv, TypeOK, SenderTypeOK
  <1>6. ControlInv'
    BY <1>4 DEF HandleTimeouts, rcv, Inv, ControlInv, InFlightOrDone, Extends
  <1>7. WindowRespected'
    BY <1>4 DEF Inv, WindowRespected
  <1> QED
    BY <1>4, <1>5, <1>6, <1>7, SenderStep_Inv DEF HandleTimeouts, n, R

\* handle_ack up to its early return, and when it goes on.
HandleInvalidAck ==
    /\ snd_pc = "network"
    /\ UpdatePeerWindow
    /\ snd_pc' = "timers"
    /\ UNCHANGED <<congestion, window, bytes_acked, fin_sent, fin_retry,
                   fin_complete, rcv, net>>

HandleValidAck ==
    /\ snd_pc = "network"
    /\ \E m \in net :
           /\ m.type = "ACK" /\ ~(m.ack <= Isn)
           /\ \/ HandleNewAck(m.ack - Isn, m.sack)
              \/ HandleDuplicateAck(m.ack - Isn, m.sack)
              \/ HandleOldAck(m.ack - Isn, m.sack)
    /\ UpdatePeerWindow
    /\ snd_pc' = "timers"
    /\ UNCHANGED <<fin_sent, fin_retry, fin_complete, rcv>>

\* One of the two.
LEMMA AckValidity ==
    ASSUME HandleAck
    PROVE  HandleInvalidAck \/ HandleValidAck
  BY DEF HandleAck, HandleInvalidAck, HandleValidAck

\* handle_ack, up to its early return.
LEMMA HandleInvalidAck_Inv ==
    ASSUME Inv, HandleInvalidAck
    PROVE  Inv'
  <1>1. SenderTypeOK'
    BY DEF HandleInvalidAck, UpdatePeerWindow, Inv, TypeOK, SenderTypeOK
  <1>2. ControlInv'
    BY InitialPeerWndType
       DEF HandleInvalidAck, UpdatePeerWindow, rcv, Inv, ControlInv, InFlightOrDone
  <1>3. WindowRespected' /\ UNCHANGED <<window, net, rcv>>
    BY DEF HandleInvalidAck, Inv, WindowRespected
  <1> QED
    BY <1>1, <1>2, <1>3, SenderStep_Inv DEF Inv

\* handle_ack with a valid number: what the three cases have in common.
LEMMA AckCases_Inv ==
    ASSUME Inv, snd_pc = "network",
           NEW ack, NEW mask, Truthful(ack, mask, Len(written), Received),
           \/ HandleNewAck(ack, mask)
           \/ HandleDuplicateAck(ack, mask)
           \/ HandleOldAck(ack, mask)
    PROVE  /\ WindowInv(window', Len(written), Received)
           /\ window'.base_seq >= window.base_seq
           /\ window'.next_seq = window.next_seq
           /\ NetInv(net', Len(written), Received, window.next_seq)
           /\ Extends(net', net)
           /\ congestion' \in CongestionState
           /\ bytes_acked' \in 0 .. MaxBytesAcked
  <1> DEFINE n == Len(written)
             R == Received
             Goal == /\ WindowInv(window', n, R)
                     /\ window'.base_seq >= window.base_seq
                     /\ window'.next_seq = window.next_seq
                     /\ NetInv(net', n, R, window.next_seq)
                     /\ Extends(net', net)
                     /\ congestion' \in CongestionState
                     /\ bytes_acked' \in 0 .. MaxBytesAcked
  <1> SUFFICES Goal
    OBVIOUS
  <1>1. /\ WindowInv(window, n, R) /\ NetInv(net, n, R, window.next_seq)
        /\ Has(n, R) /\ congestion \in CongestionState
        /\ bytes_acked \in 0 .. MaxBytesAcked
    BY ReceiverHas DEF Inv, TypeOK, SenderTypeOK, ReceiverTypeOK
  <1>2. window.base_seq \in 1 .. Total + 1 /\ n \in 0 .. Total /\ Total \in Nat
    BY <1>1, ConstantTypes DEF WindowInv, WindowState, Has
  <1> HIDE DEF n, R
  <1>3. Truthful(ack, mask, n, R)
    BY DEF n, R
  <1>4. CASE HandleNewAck(ack, mask)
    <2> DEFINE covered == window.base_seq .. ack - 1
               marked == MarkAcked(window, covered)
               w == SetBaseSeq(marked, ack)
               bytes == Credit(window, covered, bytes_acked)
    <2>1. /\ ack > window.base_seq /\ congestion' = OnNewAck(congestion)
          /\ HandleSack(w, ack, mask, bytes, {})
      BY <1>4 DEF HandleNewAck
    <2>2. covered \cap Segments \subseteq R
      BY <1>1, <1>2, <1>3 DEF Has, Truthful
    <2> HIDE DEF covered
    <2>3. WindowInv(marked, n, R) /\ marked.next_seq = window.next_seq
      BY <1>1, <2>2, MarkAckedInv
    <2> HIDE DEF marked
    <2>4. /\ WindowInv(w, n, R) /\ w.base_seq = ack
          /\ w.next_seq = window.next_seq
      BY <1>1, <1>3, <2>3, SetBaseSeqInv DEF Truthful
    <2>5. bytes \in 0 .. MaxBytesAcked
      BY <1>1, CreditType
    <2> HIDE DEF w, bytes
    <2>6. NetInv(net \cup {}, n, R, w.next_seq)
      BY <1>1, <2>4
    <2>7. /\ WindowInv(window', n, R) /\ window'.base_seq >= w.base_seq
          /\ window'.next_seq = w.next_seq /\ NetInv(net', n, R, w.next_seq)
          /\ Extends(net', net \cup {})
      BY <1>1, <1>3, <2>1, <2>4, <2>6, HandleSackInv
    <2>8. bytes_acked' \in 0 .. MaxBytesAcked
      BY <2>1, <2>5, HandleSackCredit
    <2>9. window'.base_seq >= window.base_seq
      BY <1>2, <2>1, <2>4, <2>7 DEF WindowInv, WindowState
    <2>10. Extends(net', net)
      BY <2>7
    <2> QED
      BY <1>1, <2>1, <2>4, <2>7, <2>8, <2>9, <2>10, OnNewAckType
  <1>5. CASE HandleDuplicateAck(ack, mask)
    <2> DEFINE base == {window.base_seq}
    <2>1. /\ congestion' \in CongestionState /\ ack = window.base_seq
          /\ window.base_seq <= Total
      BY <1>1, <1>5, AfterDuplicateAckType DEF HandleDuplicateAck
    <2>2. CASE HandleSack(window, ack, mask, bytes_acked, {})
      <3> DEFINE w == window
                 sofar == {}
      <3>1. /\ HandleSack(w, ack, mask, bytes_acked, sofar) /\ WindowInv(w, n, R)
            /\ NetInv(net \cup sofar, n, R, w.next_seq)
        BY <1>1, <2>2
      <3> HIDE DEF w, sofar
      <3>2. /\ WindowInv(window', n, R) /\ window'.base_seq >= w.base_seq
            /\ window'.next_seq = w.next_seq
            /\ NetInv(net', n, R, w.next_seq) /\ Extends(net', net \cup sofar)
        BY <1>1, <1>3, <3>1, HandleSackInv
      <3>3. bytes_acked' \in 0 .. MaxBytesAcked
        BY <1>1, <3>1, HandleSackCredit
      <3> QED
        BY <2>1, <3>2, <3>3 DEF w, sofar
    <2>3. CASE \E failed \in MayFail(window, base) :
                  HandleSack(Transmit(window, base, failed), ack, mask,
                             bytes_acked, Transmitted(window, base, failed))
      <3>1. PICK failed \in MayFail(window, base) :
                  HandleSack(Transmit(window, base, failed), ack, mask,
                             bytes_acked, Transmitted(window, base, failed))
        BY <2>3
      <3> DEFINE w == Transmit(window, base, failed)
                 sofar == Transmitted(window, base, failed)
      <3>2. Reached(window, base)
        BY <1>2, <2>1, ConstantTypes
           DEF Reached, Inv, ControlInv, InFlightOrDone, Segments
      <3> HIDE DEF base
      <3>3. /\ WindowInv(w, n, R)
            /\ w.base_seq = window.base_seq /\ w.next_seq = window.next_seq
            /\ NetInv(net \cup sofar, n, R, window.next_seq)
            /\ Extends(net \cup sofar, net)
        <4>1. /\ WindowInv(w, n, R)
              /\ w.base_seq = window.base_seq /\ w.next_seq = window.next_seq
          BY <1>1, <3>2, TransmitWindow
        <4>2. /\ NetInv(net \cup sofar, n, R, window.next_seq)
              /\ Extends(net \cup sofar, net)
          BY <1>1, <3>2, TransmitInv
        <4> QED
          BY <4>1, <4>2
      <3> HIDE DEF w, sofar
      <3>4. /\ WindowInv(window', n, R) /\ window'.base_seq >= w.base_seq
            /\ window'.next_seq = w.next_seq
            /\ NetInv(net', n, R, w.next_seq) /\ Extends(net', net \cup sofar)
        BY <1>1, <1>3, <3>1, <3>3, HandleSackInv DEF w, sofar
      <3>5. Extends(net', net)
        BY <3>3, <3>4 DEF Extends
      <3>6. bytes_acked' \in 0 .. MaxBytesAcked
        BY <1>1, <3>1, HandleSackCredit DEF w, sofar
      <3> QED
        BY <2>1, <3>3, <3>4, <3>5, <3>6
    <2> QED
      BY <1>5, <2>2, <2>3 DEF HandleDuplicateAck
  <1>6. CASE HandleOldAck(ack, mask)
    <2> DEFINE w == window
               sofar == {}
    <2>1. HandleSack(w, ack, mask, bytes_acked, sofar) /\ UNCHANGED congestion
      BY <1>6 DEF HandleOldAck
    <2>2. WindowInv(w, n, R) /\ NetInv(net \cup sofar, n, R, w.next_seq)
      BY <1>1
    <2> HIDE DEF w, sofar
    <2>3. /\ WindowInv(window', n, R) /\ window'.base_seq >= w.base_seq
          /\ window'.next_seq = w.next_seq
          /\ NetInv(net', n, R, w.next_seq) /\ Extends(net', net \cup sofar)
      BY <1>1, <1>3, <2>1, <2>2, HandleSackInv
    <2>4. bytes_acked' \in 0 .. MaxBytesAcked
      BY <1>1, <2>1, HandleSackCredit
    <2> QED
      BY <1>1, <2>1, <2>3, <2>4 DEF w, sofar
  <1> QED
    BY <1>4, <1>5, <1>6

\* The ACK that handle_ack handles claims no more than the receiver has.
LEMMA HandledAck ==
    ASSUME Inv, HandleValidAck
    PROVE  \E m \in net :
              /\ Truthful(m.ack - Isn, m.sack, Len(written), Received)
              /\ \/ HandleNewAck(m.ack - Isn, m.sack)
                 \/ HandleDuplicateAck(m.ack - Isn, m.sack)
                 \/ HandleOldAck(m.ack - Isn, m.sack)
  <1> DEFINE n == Len(written)
             R == Received
  <1>1. PICK m \in net :
            /\ m.type = "ACK" /\ ~(m.ack <= Isn)
            /\ \/ HandleNewAck(m.ack - Isn, m.sack)
               \/ HandleDuplicateAck(m.ack - Isn, m.sack)
               \/ HandleOldAck(m.ack - Isn, m.sack)
    BY DEF HandleValidAck
  <1>2. Acknowledges(m, n, R)
    BY <1>1 DEF Inv, NetInv, AckInv
  <1>3. n \in 0 .. Total
    BY ReceiverHas DEF Has, Inv, TypeOK, ReceiverTypeOK
  <1>4. Truthful(m.ack - Isn, m.sack, n, R)
    <2> HIDE DEF n, R
    <2> QED
      BY <1>1, <1>2, <1>3, ValidAck
  <1> QED
    BY <1>1, <1>4

\* handle_ack
LEMMA HandleAck_Inv ==
    ASSUME Inv, HandleValidAck
    PROVE  Inv'
  <1> DEFINE n == Len(written)
             R == Received
  <1>1. PICK m \in net :
            /\ Truthful(m.ack - Isn, m.sack, n, R)
            /\ \/ HandleNewAck(m.ack - Isn, m.sack)
               \/ HandleDuplicateAck(m.ack - Isn, m.sack)
               \/ HandleOldAck(m.ack - Isn, m.sack)
    BY HandledAck
  <1>2. /\ WindowInv(window', n, R) /\ window'.base_seq >= window.base_seq
        /\ window'.next_seq = window.next_seq
        /\ NetInv(net', n, R, window'.next_seq) /\ Extends(net', net)
        /\ congestion' \in CongestionState /\ bytes_acked' \in 0 .. MaxBytesAcked
    BY <1>1, AckCases_Inv DEF HandleValidAck
  <1> HIDE DEF R
  <1>3. SenderTypeOK'
    <2>1. window' \in WindowState
      BY <1>2 DEF WindowInv
    <2> QED
      BY <1>2, <2>1
         DEF HandleValidAck, UpdatePeerWindow, Inv, TypeOK, SenderTypeOK
  <1>4. RcvWindow = 0 => InFlightOrDone'
    <2> SUFFICES ASSUME RcvWindow = 0
                 PROVE  InFlightOrDone'
      OBVIOUS
    <2>1. InFlightOrDone /\ n = 0
      BY DEF HandleValidAck, Inv, ControlInv, ReceiverInv
    <2>2. window'.base_seq \in Nat /\ window'.base_seq <= 1
      BY <1>2, <2>1 DEF WindowInv, WindowState
    <2>3. window.base_seq \in Nat \ {0} /\ window.next_seq \in Nat
      BY DEF Inv, WindowInv, WindowState
    <2> QED
      BY <1>2, <2>1, <2>2, <2>3, ConstantTypes DEF InFlightOrDone
  <1>5. ControlInv'
    BY <1>2, <1>4, InitialPeerWndType
       DEF HandleValidAck, UpdatePeerWindow, rcv, Inv, ControlInv, Extends
  <1>6. WindowRespected'
    <2>1. /\ window.base_seq \in Nat /\ window'.base_seq \in Nat
          /\ window'.base_seq <= window'.next_seq
      BY <1>2 DEF Inv, WindowInv, WindowState
    <2>2. Smaller(SndWindow, InitialPeerWnd) \in Nat
      BY InitialPeerWndType, ConstantTypes DEF Smaller
    <2> QED
      BY <1>2, <2>1, <2>2 DEF Inv, WindowRespected, WindowInv, WindowState
  <1> QED
    BY <1>2, <1>3, <1>5, <1>6, SenderStep_Inv DEF HandleValidAck, R

\* Every step of the sender.
LEMMA SenderNext_Inv ==
    ASSUME Inv, SenderNext
    PROVE  Inv'
  <1>1. CASE \E expired \in SUBSET InFlight : HandleTimeouts(expired)
    BY <1>1, HandleTimeouts_Inv
  <1> QED
    BY <1>1, GiveUp_Inv, TrySendData_Inv, NoPacket_Inv, HandleFinAck_Inv,
       AckValidity, HandleInvalidAck_Inv, HandleAck_Inv,
       HandleWindowProbe_Inv, SendFin_Inv, ResendFin_Inv, NoFin_Inv DEF SenderNext

-----------------------------------------------------------------------------
(***************************************************************************)
(* The steps of the receiver.                                              *)
(***************************************************************************)

\* A step of the receiver that leaves its file and its buffer alone and adds at
\* most one packet, a FIN+ACK.
LEMMA QuietReceive_Inv ==
    ASSUME Inv, UNCHANGED <<snd, snd_pc, buffer, written>>, ReceiverTypeOK',
           \/ net' = net
           \/ net' = net \cup {FinAckPacket} /\ FinPacket \in net,
           rcv_pc' = "closing" => FinPacket \in net,
           rcv_pc' = "recv" => timeouts' < MaxConsecutiveTimeouts
    PROVE  Inv'
  <1> USE DEF snd
  <1>1. Received' = Received
    BY DEF Received
  <1>2. ReceiverInv'
    BY DEF Inv, ReceiverInv, Holds, PrefixWritten
  <1>3. NetInv(net', Len(written), Received, window.next_seq)
    <2>1. NetInv(net, Len(written), Received, window.next_seq)
      BY DEF Inv
    <2>2. CASE net' = net \cup {FinAckPacket} /\ FinPacket \in net
      BY <2>1, <2>2, AddControlPacket, PacketsDistinct
    <2> QED
      BY <2>1, <2>2
  <1>4. TypeOK'
    BY <1>3 DEF Inv, TypeOK, SenderTypeOK, NetInv
  <1>5. ControlInv'
    BY DEF Inv, ControlInv, InFlightOrDone
  <1>6. WindowRespected'
    BY DEF Inv, WindowRespected
  <1> QED
    BY <1>1, <1>2, <1>3, <1>4, <1>5, <1>6 DEF Inv

\* The receive timeout.
LEMMA ReceiveTimeout_Inv ==
    ASSUME Inv, ReceiveTimeout
    PROVE  Inv'
  <1>1. timeouts \in Nat /\ timeouts < MaxConsecutiveTimeouts
    BY DEF ReceiveTimeout, Inv, TypeOK, ReceiverTypeOK, ReceiverInv
  <1>2. timeouts' \in 0 .. MaxConsecutiveTimeouts
    BY <1>1, DataTransferAssumption DEF ReceiveTimeout
  <1>3. ReceiverTypeOK'
    BY <1>2 DEF ReceiveTimeout, Inv, TypeOK, ReceiverTypeOK
  <1>4. rcv_pc' = "recv" => timeouts' < MaxConsecutiveTimeouts
    BY <1>1, <1>2, DataTransferAssumption DEF ReceiveTimeout
  <1>5. rcv_pc' # "closing"
    BY DEF ReceiveTimeout
  <1> QED
    BY <1>3, <1>4, <1>5, QuietReceive_Inv DEF ReceiveTimeout

\* A RST.
LEMMA ReceiveRst_Inv ==
    ASSUME Inv, ReceiveRst
    PROVE  Inv'
  <1>1. ReceiverTypeOK'
    BY DataTransferAssumption DEF ReceiveRst, Inv, TypeOK, ReceiverTypeOK
  <1> QED
    BY <1>1, QuietReceive_Inv DEF ReceiveRst

\* A packet the receive loop ignores.
LEMMA ReceiveOther_Inv ==
    ASSUME Inv, ReceiveOther
    PROVE  Inv'
  <1>1. ReceiverTypeOK'
    BY DataTransferAssumption DEF ReceiveOther, Inv, TypeOK, ReceiverTypeOK
  <1>2. timeouts' < MaxConsecutiveTimeouts /\ rcv_pc' # "closing"
    BY DataTransferAssumption DEF ReceiveOther
  <1> QED
    BY <1>1, <1>2, QuietReceive_Inv DEF ReceiveOther

\* handle_fin: the first FIN+ACK.
LEMMA ReceiveFin_Inv ==
    ASSUME Inv, ReceiveFin
    PROVE  Inv'
  <1>1. ReceiverTypeOK'
    <2>1. burst' \in 0 .. FinAckBurst /\ timeouts' \in 0 .. MaxConsecutiveTimeouts
      BY DataTransferAssumption DEF ReceiveFin
    <2> QED
      BY <2>1 DEF ReceiveFin, Inv, TypeOK, ReceiverTypeOK
  <1> QED
    BY <1>1, QuietReceive_Inv DEF ReceiveFin

\* handle_fin: an ACK ends it.
LEMMA ReceiveFinalAck_Inv ==
    ASSUME Inv, ReceiveFinalAck
    PROVE  Inv'
  <1>1. ReceiverTypeOK'
    BY DEF ReceiveFinalAck, Inv, TypeOK, ReceiverTypeOK
  <1> QED
    BY <1>1, QuietReceive_Inv DEF ReceiveFinalAck

\* handle_fin: another FIN+ACK, or the last one was sent.
LEMMA NextBurst_Inv ==
    ASSUME Inv, NextBurst
    PROVE  Inv'
  <1>1. FinPacket \in net
    BY DEF NextBurst, Inv, ControlInv
  <1>2. ReceiverTypeOK'
    <2>1. burst' \in 0 .. FinAckBurst
      BY DataTransferAssumption DEF NextBurst, Inv, TypeOK, ReceiverTypeOK
    <2>2. rcv_pc' \in {"closing", "closed"}
      BY DEF NextBurst
    <2> QED
      BY <2>1, <2>2 DEF NextBurst, Inv, TypeOK, ReceiverTypeOK
  <1>3. rcv_pc' # "recv"
    BY DEF NextBurst
  <1> QED
    BY <1>1, <1>2, <1>3, QuietReceive_Inv DEF NextBurst

-----------------------------------------------------------------------------
(***************************************************************************)
(* process_data_packet.                                                    *)
(***************************************************************************)

\* The numbers a buffer with n segments delivered looks at.
LEMMA NthExpectedIsAbs ==
    ASSUME NEW n \in 0 .. Total, NEW b, b.expected_seq = Abs(n + 1),
           NEW i \in 0 .. SackBits
    PROVE  n + 1 + i \in Relative /\ NthExpected(b, i) = Abs(n + 1 + i)
  <1>1. n + 1 \in Relative /\ i \in Nat /\ (n + 1) + i \in Relative
    BY ConstantTypes DEF Relative
  <1> QED
    BY <1>1, AbsPlus DEF NthExpected

\* What a buffer holds at the number of a segment is that segment.
LEMMA HeldSegment ==
    ASSUME NEW b, NEW lo, NEW hi, Holds(b, lo, hi), NEW t \in Relative,
           Abs(t) \in DOMAIN b.held
    PROVE  t \in Segments /\ b.held[Abs(t)] = File[t] /\ t >= lo /\ t <= hi
  <1>1. PICK s \in Segments : /\ Abs(t) = Abs(s) /\ b.held[Abs(t)] = File[s]
                             /\ s >= lo /\ s <= hi
    BY DEF Holds
  <1>2. s = t
    BY <1>1, SegmentsAreRelative, AbsInjective
  <1> QED
    BY <1>1, <1>2

\* send_ack tells the truth.
LEMMA AckOfIsTruthful ==
    ASSUME NEW n \in 0 .. Total, NEW b, b.expected_seq = Abs(n + 1),
           NEW lo, NEW hi, Holds(b, lo, hi),
           NEW R, \A s \in Segments : Abs(s) \in DOMAIN b.held => s \in R
    PROVE  /\ AckOf(b) \in Packets /\ AckOf(b).type = "ACK"
           /\ Acknowledges(AckOf(b), n, R)
  <1> DEFINE mask == BuildSackMask(b, SackBits)
  <1>1. mask \in SUBSET (0 .. SackBits - 1)
    BY DEF BuildSackMask
  <1>2. ASSUME NEW i \in mask
        PROVE  (n + 1) + 1 + i \in R
    <2>1. i \in 0 .. SackBits - 1 /\ NthExpected(b, 1 + i) \in DOMAIN b.held
      BY DEF BuildSackMask
    <2>2. 1 + i \in 0 .. SackBits /\ (n + 1) + 1 + i = n + 1 + (1 + i)
      BY <2>1, ConstantTypes
    <2> DEFINE t == n + 1 + (1 + i)
    <2>3. t \in Relative /\ Abs(t) \in DOMAIN b.held
      BY <2>1, <2>2, NthExpectedIsAbs
    <2> HIDE DEF t
    <2>4. t \in Segments
      BY <2>3, HeldSegment
    <2> QED
      BY <2>2, <2>3, <2>4 DEF t
  <1>3. b.expected_seq \in SeqNumbers
    BY AbsCases, ConstantTypes DEF Relative
  <1>4. AckOf(b) = [type |-> "ACK", ack |-> b.expected_seq, sack |-> mask]
    BY DEF AckOf, AckPacket
  <1> HIDE DEF mask
  <1>5. AckOf(b) \in Packets
    BY <1>1, <1>3, <1>4 DEF Packets
  <1>6. Acknowledges(AckOf(b), n, R)
    <2>1. n + 1 \in 1 .. n + 1
      OBVIOUS
    <2>2. Truthful(n + 1, mask, n, R)
      BY <1>1, <1>2, <2>1 DEF Truthful
    <2> QED
      BY <1>4, <2>1, <2>2 DEF Acknowledges
  <1> QED
    BY <1>4, <1>5, <1>6

\* add_segment keeps what the buffer holds.
LEMMA AddSegmentHolds ==
    ASSUME NEW b, IsBuffer(b, Payload), NEW lo, NEW hi, Holds(b, lo, hi),
           NEW s \in Segments, s >= lo, s <= hi
    PROVE  /\ IsBuffer(AddSegment(b, Abs(s), File[s]), Payload)
           /\ AddSegment(b, Abs(s), File[s]).expected_seq = b.expected_seq
           /\ DOMAIN AddSegment(b, Abs(s), File[s]).held
                  = DOMAIN b.held \cup {Abs(s)}
           /\ Holds(AddSegment(b, Abs(s), File[s]), lo, hi)
  <1> DEFINE D == DOMAIN b.held \cup {Abs(s)}
             f == [q \in D |-> IF q \in DOMAIN b.held THEN b.held[q] ELSE File[s]]
             c == AddSegment(b, Abs(s), File[s])
  <1>1. b = [expected_seq |-> b.expected_seq, held |-> b.held]
    BY DEF IsBuffer
  <1>2. c = [expected_seq |-> b.expected_seq, held |-> f]
    BY <1>1 DEF AddSegment
  <1>3. File[s] \in Payload /\ Abs(s) \in SeqNumbers
    BY ConstantTypes, SegmentsAreRelative, AbsCases
  <1>4. f \in [D -> Payload] /\ DOMAIN f = D /\ D \subseteq SeqNumbers
    BY <1>3 DEF IsBuffer
  <1>5. \A q \in D : \E t \in Segments : /\ q = Abs(t) /\ f[q] = File[t]
                                         /\ t >= lo /\ t <= hi
    BY DEF Holds
  <1> HIDE DEF D, f, c
  <1>6. c.expected_seq = b.expected_seq /\ c.held = f
    BY <1>2
  <1>7. IsBuffer(c, Payload)
    BY <1>2, <1>4, <1>6 DEF IsBuffer
  <1>8. Holds(c, lo, hi)
    BY <1>4, <1>5, <1>6 DEF Holds
  <1> QED
    BY <1>4, <1>6, <1>7, <1>8 DEF D, c

\* A buffer that has delivered n segments.
Delivered(b, n) == n \in 0 .. Total /\ b.expected_seq = Abs(n + 1)

\* extract delivers the next k segments of the file, in order, and leaves what is
\* above them.
LEMMA ExtractRun ==
    ASSUME NEW n, NEW b, Delivered(b, n), IsBuffer(b, Payload),
           NEW lo, lo = n + 1, NEW hi, Holds(b, lo, hi),
           NEW k \in 0 .. RcvWindow, RunLength(b, k)
    PROVE  /\ n + k <= Total
           /\ \A i \in 1 .. k : Extracted(b, k)[i] = File[n + i]
           /\ Extracted(b, k) \in Seq(Payload) /\ Len(Extracted(b, k)) = k
           /\ AfterExtract(b, k).expected_seq = Abs((n + k) + 1)
           /\ IsBuffer(AfterExtract(b, k), Payload)
           /\ Holds(AfterExtract(b, k), n + k + 2, hi)
           /\ \A t \in Segments :
                  t > n + k /\ Abs(t) \in DOMAIN b.held
                      => Abs(t) \in DOMAIN AfterExtract(b, k).held
           /\ DOMAIN AfterExtract(b, k).held \subseteq DOMAIN b.held
           /\ \A i \in 1 .. k : Abs(n + i) \in DOMAIN b.held
  <1> USE DEF Delivered
  <1>0. /\ n \in Nat /\ k \in Nat /\ Total \in Nat /\ n <= Total
        /\ \A i \in 0 .. k : i \in 0 .. SackBits
    BY ConstantTypes, DataTransferAssumption
  <1>1. \A i \in 0 .. k : /\ n + 1 + i \in Relative
                         /\ NthExpected(b, i) = Abs(n + 1 + i)
    BY <1>0, NthExpectedIsAbs
  <1>2. \A i \in 1 .. k : n + i \in Relative /\ NthExpected(b, i - 1) = Abs(n + i)
    <2> SUFFICES ASSUME NEW i \in 1 .. k
                 PROVE  n + i \in Relative /\ NthExpected(b, i - 1) = Abs(n + i)
      OBVIOUS
    <2>1. i - 1 \in 0 .. k /\ n + 1 + (i - 1) = n + i
      BY <1>0
    <2> QED
      BY <1>1, <2>1
  <1>3. \A i \in 1 .. k : Abs(n + i) \in DOMAIN b.held
    <2> SUFFICES ASSUME NEW i \in 1 .. k
                 PROVE  Abs(n + i) \in DOMAIN b.held
      OBVIOUS
    <2>1. i - 1 \in 0 .. k - 1
      BY <1>0
    <2> QED
      BY <1>2, <2>1 DEF RunLength
  <1>4. \A i \in 1 .. k : n + i \in Segments /\ b.held[Abs(n + i)] = File[n + i]
    BY <1>2, <1>3, HeldSegment
  <1>5. n + k <= Total
    BY <1>0, <1>4, ConstantTypes DEF Segments
  <1> DEFINE e == Extracted(b, k)
  <1>6. /\ \A i \in 1 .. k : e[i] = File[n + i]
        /\ e \in Seq(Payload) /\ Len(e) = k
    <2>1. e = [i \in 1 .. k |-> b.held[NthExpected(b, i - 1)]]
      BY DEF Extracted
    <2> HIDE DEF e
    <2>2. \A i \in 1 .. k : e[i] = File[n + i] /\ e[i] \in Payload
      BY <1>2, <1>4, <2>1, ConstantTypes
    <2>3. e \in [1 .. k -> Payload]
      BY <2>1, <2>2
    <2> QED
      BY <2>2, <2>3
  <1> DEFINE gone == {NthExpected(b, i) : i \in 0 .. k - 1}
             D == DOMAIN b.held \ gone
             f == [q \in D |-> b.held[q]]
             c == AfterExtract(b, k)
  <1>7. c.expected_seq = Abs((n + k) + 1) /\ c.held = f
    <2>1. k \in 0 .. k /\ n + 1 + k = (n + k) + 1
      BY <1>0
    <2>2. c.expected_seq = NthExpected(b, k) /\ c.held = f
      BY DEF AfterExtract
    <2> QED
      BY <1>1, <2>1, <2>2
  <1>8. c = [expected_seq |-> c.expected_seq, held |-> f]
    BY DEF AfterExtract
  <1>9. gone = {Abs(n + 1 + i) : i \in 0 .. k - 1}
    <2>1. \A i \in 0 .. k - 1 : i \in 0 .. k
      BY <1>0
    <2> QED
      BY <1>1, <2>1
  <1> HIDE DEF gone, c
  <1>10. D \subseteq DOMAIN b.held /\ \A q \in DOMAIN b.held : q \in D \/ q \in gone
    OBVIOUS
  <1>11. IsBuffer(c, Payload)
    <2>1. c.expected_seq \in SeqNumbers
      BY <1>0, <1>5, <1>7, AbsCases, ConstantTypes DEF Relative
    <2>2. f \in [D -> Payload] /\ DOMAIN f = D
      BY DEF IsBuffer
    <2>3. D \subseteq SeqNumbers
      BY <1>10 DEF IsBuffer
    <2> QED
      BY <1>7, <1>8, <2>1, <2>2, <2>3 DEF IsBuffer
  <1>12. ASSUME NEW t \in Segments, t > n + k, Abs(t) \in DOMAIN b.held
         PROVE  Abs(t) \in D
    <2>1. ASSUME NEW i \in 0 .. k - 1, Abs(t) = Abs(n + 1 + i)
          PROVE  FALSE
      <3>0. i \in 0 .. k
        BY <1>0
      <3>1. n + 1 + i \in Relative /\ t \in Relative
        BY <1>1, <3>0, SegmentsAreRelative
      <3>2. t = n + 1 + i
        BY <2>1, <3>1, AbsInjective
      <3> QED
        BY <1>0, <1>12, <3>2
    <2> QED
      BY <1>9, <1>12, <2>1
  <1>13. Holds(c, n + k + 2, hi)
    <2>1. SUFFICES ASSUME NEW q \in D
                   PROVE  \E t \in Segments : /\ q = Abs(t) /\ f[q] = File[t]
                                              /\ t >= n + k + 2 /\ t <= hi
      BY <1>7 DEF Holds
    <2>2. PICK t \in Segments : /\ q = Abs(t) /\ b.held[q] = File[t]
                               /\ t >= n + 1 /\ t <= hi
      BY DEF Holds
    <2>3. t \in Nat
      BY ConstantTypes DEF Segments
    <2>4. t # n + k + 1
      <3>1. k \in 0 .. k /\ n + 1 + k = n + k + 1
        BY <1>0
      <3>2. Abs(n + k + 1) \notin DOMAIN b.held
        BY <1>1, <3>1 DEF RunLength
      <3> QED
        BY <2>2, <3>2
    <2>5. ~(t <= n + k)
      <3>1. SUFFICES ASSUME t <= n + k
                     PROVE  FALSE
        OBVIOUS
      <3>2. t - n - 1 \in 0 .. k - 1 /\ n + 1 + (t - n - 1) = t
        BY <1>0, <2>2, <2>3, <3>1
      <3> QED
        BY <1>9, <2>2, <3>2
    <2>6. t >= n + k + 2
      <3>1. n \in Nat /\ k \in Nat /\ t \in Nat
        BY <2>3, ConstantTypes
      <3> QED
        BY <3>1, <2>4, <2>5
    <2>7. f[q] = File[t]
      BY <2>2
    <2> QED
      BY <2>2, <2>6, <2>7
  <1> HIDE DEF D, e
  <1> QED
    BY <1>3, <1>5, <1>6, <1>7, <1>10, <1>11, <1>12, <1>13 DEF e, c

\* The data packet that is received, in the terms of the file.
LEMMA DataOnTheNetwork ==
    ASSUME Inv, NEW m \in net, m.type = "DATA"
    PROVE  \E s \in Segments : /\ s < window.next_seq
                               /\ m.seq = Abs(s) /\ m.data = File[s]
  <1>1. PICK s \in Segments : s < window.next_seq /\ m = DataPacket(s)
    BY DEF Inv, NetInv, DataInv
  <1> QED
    BY <1>1 DEF DataPacket

\* An ACK on the network.
LEMMA AddAck ==
    ASSUME NEW n, NEW R, NEW next, NEW N, NetInv(N, n, R, next),
           NEW p \in Packets, p.type = "ACK", Acknowledges(p, n, R)
    PROVE  NetInv(N \cup {p}, n, R, next)
  BY DEF NetInv, DataInv, AckInv, FinInv, FinPacket, FinAckPacket

\* An ACK that was truthful once is truthful from then on.
LEMMA NetInvGrows ==
    ASSUME NEW n \in 0 .. Total, NEW R, NEW next, NEW N, NetInv(N, n, R, next),
           NEW n2 \in n .. Total, NEW R2, R \subseteq R2
    PROVE  NetInv(N, n2, R2, next)
  <1>1. \A m \in N : m.type = "ACK" => Acknowledges(m, n2, R2)
    <2> SUFFICES ASSUME NEW m \in N, m.type = "ACK"
                 PROVE  Acknowledges(m, n2, R2)
      OBVIOUS
    <2>1. PICK a \in 1 .. n + 1 : m.ack = Abs(a) /\ Truthful(a, m.sack, n, R)
      BY DEF NetInv, AckInv, Acknowledges
    <2>2. a \in 1 .. n2 + 1
      BY ConstantTypes
    <2>3. Truthful(a, m.sack, n2, R2)
      BY <2>1, <2>2 DEF Truthful
    <2> QED
      BY <2>1, <2>2, <2>3 DEF Acknowledges
  <1>2. FinPacket \in N => n2 = Total
    BY ConstantTypes DEF NetInv, FinInv
  <1> QED
    BY <1>1, <1>2 DEF NetInv, AckInv, FinInv

\* process_data_packet, a duplicate or a segment out of the window.
LEMMA RefuseData_Inv ==
    ASSUME Inv, NEW seq, RefuseData(seq), rcv_pc = "recv", timeouts' = 0,
           UNCHANGED <<snd, snd_pc, burst, rcv_pc>>
    PROVE  Inv'
  <1> USE DEF RefuseData, snd
  <1> DEFINE n == Len(written)
             R == Received
             a == AckOf(buffer)
  <1>1. Received' = Received
    BY DEF Received
  <1>2. n \in 0 .. Total
    BY ReceiverHas DEF Has, Inv, TypeOK, ReceiverTypeOK
  <1>3. a \in Packets /\ a.type = "ACK" /\ Acknowledges(a, n, R)
    <2>1. \A s \in Segments : Abs(s) \in DOMAIN buffer.held => s \in R
      BY DEF Received
    <2>2. /\ buffer.expected_seq = Abs(n + 1)
          /\ Holds(buffer, n + 2, n + RcvWindow)
      BY DEF Inv, ReceiverInv
    <2> HIDE DEF n, R
    <2> QED
      BY <1>2, <2>1, <2>2, AckOfIsTruthful
  <1>4. NetInv(net', n, R, window.next_seq)
    <2>1. NetInv(net, n, R, window.next_seq) /\ net' = net \cup {a}
      BY DEF Inv
    <2> HIDE DEF n, R, a
    <2> QED
      BY <1>3, <2>1, AddAck
  <1>5. ReceiverInv'
    BY DataTransferAssumption DEF Inv, ReceiverInv, Holds, PrefixWritten
  <1>6. TypeOK'
    <2>1. net' \subseteq Packets
      BY <1>4 DEF NetInv
    <2>2. timeouts' \in 0 .. MaxConsecutiveTimeouts
      BY DataTransferAssumption
    <2> QED
      BY <2>1, <2>2 DEF Inv, TypeOK, SenderTypeOK, ReceiverTypeOK
  <1>7. ControlInv' /\ WindowRespected'
    BY DEF Inv, ControlInv, InFlightOrDone, WindowRespected
  <1> QED
    BY <1>1, <1>4, <1>5, <1>6, <1>7 DEF Inv

\* process_data_packet, a segment of the window: the state of the receiver.
LEMMA AcceptData_Receiver ==
    ASSUME Inv, NEW s \in Segments,
           AcceptData(Abs(s), File[s]), rcv_pc' = "recv", timeouts' = 0
    PROVE  /\ ReceiverInv' /\ written' \in Seq(Payload) /\ IsBuffer(buffer', Payload)
           /\ Len(written') \in Len(written) .. Total
           /\ Received \subseteq Received' /\ Received' \subseteq Received \cup {s}
           /\ net' = net \cup {AckOf(buffer')}
  <1> DEFINE n == Len(written)
             hi == n + RcvWindow
             b == AddSegment(buffer, Abs(s), File[s])
  <1>1. PICK k \in 0 .. RcvWindow :
            /\ RunLength(b, k) /\ buffer' = AfterExtract(b, k)
            /\ written' = written \o Extracted(b, k)
            /\ net' = net \cup {AckOf(AfterExtract(b, k))}
    BY DEF AcceptData
  <1>2. /\ Has(n, Received) /\ n \in 0 .. Total /\ written \in Seq(Payload)
        /\ IsBuffer(buffer, Payload) /\ PrefixWritten
        /\ buffer.expected_seq = Abs(n + 1) /\ Holds(buffer, n + 2, hi)
    BY ReceiverHas DEF Has, Inv, TypeOK, ReceiverTypeOK, ReceiverInv
  <1>3. s >= n + 1 /\ s <= hi
    <2>1. Abs(s) >= buffer.expected_seq /\ IsInWindow(buffer, Abs(s))
      BY DEF AcceptData
    <2> HIDE DEF n
    <2> QED
      BY <1>2, <2>1, InWindowMeans
  <1>4. Holds(buffer, n + 1, hi)
    BY <1>2, ConstantTypes DEF Holds, Segments
  <1> HIDE DEF n, hi, b
  <1>5. /\ IsBuffer(b, Payload) /\ b.expected_seq = Abs(n + 1)
        /\ DOMAIN b.held = DOMAIN buffer.held \cup {Abs(s)} /\ Holds(b, n + 1, hi)
    BY <1>2, <1>3, <1>4, AddSegmentHolds DEF b
  <1> DEFINE c == AfterExtract(b, k)
             e == Extracted(b, k)
  <1>6. /\ n + k <= Total /\ \A i \in 1 .. k : e[i] = File[n + i]
        /\ e \in Seq(Payload) /\ Len(e) = k
        /\ c.expected_seq = Abs((n + k) + 1)
        /\ IsBuffer(c, Payload) /\ Holds(c, n + k + 2, hi)
        /\ \A t \in Segments : t > n + k /\ Abs(t) \in DOMAIN b.held
                                   => Abs(t) \in DOMAIN c.held
        /\ DOMAIN c.held \subseteq DOMAIN b.held
        /\ \A i \in 1 .. k : Abs(n + i) \in DOMAIN b.held
    <2> DEFINE lo == n + 1
    <2>1. Delivered(b, n)
      BY <1>2, <1>5 DEF Delivered
    <2>2. lo = n + 1 /\ Holds(b, lo, hi)
      BY <1>5
    <2> HIDE DEF lo
    <2> QED
      BY <1>1, <1>5, <2>1, <2>2, ExtractRun
  <1>7. buffer' = c /\ written' = written \o e /\ net' = net \cup {AckOf(c)}
    BY <1>1
  <1> HIDE DEF c, e
  <1>8. /\ written' \in Seq(Payload) /\ Len(written') = n + k
        /\ \A i \in 1 .. n + k :
               written'[i] = IF i <= n THEN written[i] ELSE e[i - n]
    BY <1>2, <1>6, <1>7, ConcatProperties DEF n
  <1>9. n + k \in n .. Total
    BY <1>2, <1>6, ConstantTypes
  <1>10. PrefixWritten'
    <2>1. \A i \in 1 .. n : written[i] = File[i]
      BY <1>2 DEF PrefixWritten, n
    <2>2. ASSUME NEW i \in 1 .. n + k
          PROVE  written'[i] = File[i]
      <3>1. CASE i <= n
        BY <1>2, <1>8, <2>1, <3>1, ConstantTypes
      <3>2. CASE i > n
        <4>1. i - n \in 1 .. k /\ n + (i - n) = i
          BY <1>2, <3>2, ConstantTypes
        <4>2. written'[i] = e[i - n]
          BY <1>2, <1>8, <3>2, ConstantTypes
        <4> QED
          BY <1>6, <4>1, <4>2
      <3> QED
        BY <1>2, <3>1, <3>2, ConstantTypes
    <2> QED
      BY <1>8, <1>9, <2>2, <1>2, ConstantTypes DEF PrefixWritten
  <1>11. Holds(buffer', n + k + 2, n + k + RcvWindow)
    BY <1>2, <1>6, <1>7, ConstantTypes DEF Holds, Segments, hi
  <1>12. ReceiverInv'
    <2>1. RcvWindow # 0
      BY <1>2, <1>3, ConstantTypes DEF hi, Segments
    <2>2. 0 < MaxConsecutiveTimeouts
      BY DataTransferAssumption
    <2> QED
      BY <1>6, <1>7, <1>8, <1>10, <1>11, <2>1, <2>2, ConstantTypes DEF ReceiverInv
  <1>13. ASSUME NEW t \in Received
         PROVE  t \in Received'
    <2>1. t \in Segments /\ t \in Nat
      BY <1>2, ConstantTypes DEF Has, Segments
    <2>2. CASE t <= n + k
      BY <1>8, <2>1, <2>2 DEF Received, Segments
    <2>3. CASE t > n + k
      <3>1. Abs(t) \in DOMAIN buffer.held
        BY <1>2, <2>1, <2>3 DEF Received, n
      <3>2. Abs(t) \in DOMAIN b.held
        BY <1>5, <3>1
      <3>3. Abs(t) \in DOMAIN c.held
        BY <1>6, <2>1, <2>3, <3>2
      <3> QED
        BY <1>7, <2>1, <3>3 DEF Received
    <2> QED
      BY <1>2, <2>1, <2>2, <2>3, ConstantTypes
  <1>14. ASSUME NEW t \in Received'
         PROVE  t \in Received \cup {s}
    <2>1. t \in 1 .. n + k \/ (t \in Segments /\ Abs(t) \in DOMAIN c.held)
      BY <1>7, <1>8 DEF Received
    <2>2. t \in Segments /\ t \in Nat
      BY <1>2, <1>9, <2>1, ConstantTypes DEF Segments
    <2>3. CASE t <= n
      BY <2>2, <2>3 DEF Received, Segments, n
    <2>4. CASE t > n
      <3>1. Abs(t) \in DOMAIN b.held
        <4>1. CASE t <= n + k
          <5>1. t - n \in 1 .. k /\ n + (t - n) = t
            BY <1>2, <2>2, <2>4, <4>1, ConstantTypes
          <5> QED
            BY <1>6, <2>2, <5>1
        <4>2. CASE t > n + k
          BY <1>2, <1>6, <2>1, <4>2, ConstantTypes
        <4> QED
          BY <1>2, <2>2, <4>1, <4>2, ConstantTypes
      <3>2. CASE Abs(t) \in DOMAIN buffer.held
        BY <2>2, <3>2 DEF Received
      <3>3. CASE Abs(t) = Abs(s)
        BY <2>2, <3>3, SegmentsAreRelative, AbsInjective
      <3> QED
        BY <1>5, <3>1, <3>2, <3>3
    <2> QED
      BY <1>2, <2>2, <2>3, <2>4, ConstantTypes
  <1> QED
    BY <1>6, <1>7, <1>8, <1>9, <1>12, <1>13, <1>14 DEF n

\* The receive loop with a data packet.
LEMMA ReceiveData_Inv ==
    ASSUME Inv, ReceiveData
    PROVE  Inv'
  <1>1. PICK m \in net : m.type = "DATA" /\ (RefuseData(m.seq) \/ AcceptData(m.seq, m.data))
    BY DEF ReceiveData
  <1>2. /\ rcv_pc = "recv" /\ rcv_pc' = "recv" /\ timeouts' = 0
        /\ UNCHANGED <<snd, snd_pc, burst, rcv_pc>>
    BY DEF ReceiveData
  <1>3. CASE RefuseData(m.seq)
    BY <1>2, <1>3, RefuseData_Inv
  <1>4. CASE AcceptData(m.seq, m.data)
    <2>1. PICK s \in Segments : /\ s < window.next_seq
                               /\ m.seq = Abs(s) /\ m.data = File[s]
      BY <1>1, DataOnTheNetwork
    <2>2. /\ ReceiverInv' /\ written' \in Seq(Payload) /\ IsBuffer(buffer', Payload)
          /\ Len(written') \in Len(written) .. Total
          /\ Received \subseteq Received' /\ Received' \subseteq Received \cup {s}
          /\ net' = net \cup {AckOf(buffer')}
      BY <1>2, <1>4, <2>1, AcceptData_Receiver
    <2> DEFINE n == Len(written)
               R == Received
               n2 == Len(written')
               R2 == Received'
               b == buffer'
               a == AckOf(b)
    <2>3. n \in 0 .. Total /\ Total \in Nat
      BY ReceiverHas, ConstantTypes DEF Has, Inv, TypeOK, ReceiverTypeOK
    <2>4. NetInv(net, n2, R2, window.next_seq)
      <3>1. NetInv(net, n, R, window.next_seq)
        BY DEF Inv
      <3> HIDE DEF n, R, n2, R2
      <3> QED
        BY <2>2, <2>3, <3>1, NetInvGrows DEF n, R, n2, R2
    <2>5. a \in Packets /\ a.type = "ACK" /\ Acknowledges(a, n2, R2)
      <3>1. /\ b.expected_seq = Abs(n2 + 1)
            /\ Holds(b, n2 + 2, n2 + RcvWindow)
        BY <2>2 DEF ReceiverInv, Holds
      <3>2. \A t \in Segments : Abs(t) \in DOMAIN b.held => t \in R2
        BY DEF Received
      <3>3. n2 \in 0 .. Total
        BY <2>2, <2>3
      <3> HIDE DEF n2, R2, b
      <3> QED
        BY <3>1, <3>2, <3>3, AckOfIsTruthful
    <2>6. NetInv(net', n2, R2, window.next_seq)
      <3>1. net' = net \cup {a}
        BY <2>2
      <3> HIDE DEF n2, R2, a
      <3> QED
        BY <2>4, <2>5, <3>1, AddAck
    <2>7. UNCHANGED <<congestion, window, peer_wnd, zero_window, bytes_acked,
                      fin_sent, fin_retry, fin_complete, snd_pc>>
      BY <1>2 DEF snd
    <2>8. WindowInv(window, n2, R2)
      <3>1. WindowInv(window, n, R)
        BY DEF Inv
      <3>2. \A t \in R2 : t < window.next_seq
        BY <2>1, <2>2, <3>1 DEF WindowInv
      <3>3. window.base_seq <= n2 + 1
        BY <2>2, <2>3, <3>1 DEF WindowInv, WindowState
      <3>4. window.acked \subseteq R2
        BY <2>2, <3>1 DEF WindowInv
      <3> HIDE DEF n, R, n2, R2
      <3> QED
        BY <3>1, <3>2, <3>3, <3>4 DEF WindowInv
    <2>9. TypeOK'
      <3>1. net' \subseteq Packets
        BY <2>6 DEF NetInv
      <3>2. timeouts' \in 0 .. MaxConsecutiveTimeouts
        BY <1>2, DataTransferAssumption
      <3>3. ReceiverTypeOK'
        BY <1>2, <2>2, <3>2 DEF Inv, TypeOK, ReceiverTypeOK
      <3> QED
        BY <2>7, <3>1, <3>3 DEF Inv, TypeOK, SenderTypeOK
    <2>10. ControlInv' /\ WindowRespected'
      BY <1>2, <2>2, <2>7 DEF Inv, ControlInv, InFlightOrDone, WindowRespected
    <2> QED
      BY <2>2, <2>6, <2>7, <2>8, <2>9, <2>10 DEF Inv
  <1> QED
    BY <1>1, <1>3, <1>4

\* Every step of the receiver.
LEMMA ReceiverNext_Inv ==
    ASSUME Inv, ReceiverNext
    PROVE  Inv'
  BY ReceiveTimeout_Inv, ReceiveRst_Inv, ReceiveOther_Inv, ReceiveData_Inv,
     ReceiveFin_Inv, ReceiveFinalAck_Inv, NextBurst_Inv DEF ReceiverNext

\* A stuttering step.
LEMMA Stutter_Inv ==
    ASSUME Inv, UNCHANGED vars
    PROVE  Inv'
  BY DEF vars, snd, rcv, Inv, TypeOK, SenderTypeOK, ReceiverTypeOK, ReceiverInv,
         Holds, PrefixWritten, Received, ControlInv, InFlightOrDone, WindowRespected

-----------------------------------------------------------------------------
(***************************************************************************)
(* The theorems.                                                           *)
(***************************************************************************)

\* The invariant holds in every reachable state.
THEOREM InvAlways == Spec => []Inv
  <1>1. Init => Inv
    BY InvInit
  <1>2. Inv /\ [Next]_vars => Inv'
    BY SenderNext_Inv, ReceiverNext_Inv, Stutter_Inv DEF Next, Finished
  <1> QED
    BY <1>1, <1>2, PTL DEF Spec

\* Type correctness: the state after any number of steps, losses, duplicates and
\* timeouts is a state of the types the declarations give.
THEOREM TypeCorrect == Spec => []TypeOK
  <1>1. Inv => TypeOK
    BY DEF Inv
  <1> QED
    BY <1>1, InvAlways, PTL

\* The output file is always a beginning of the input file: process_data_packet
\* never writes a segment twice, out of order or with a gap.
THEOREM WritesPrefix == Spec => []PrefixWritten
  <1>1. Inv => PrefixWritten
    BY DEF Inv, ReceiverInv
  <1> QED
    BY <1>1, InvAlways, PTL

\* When run() of the sender is about to return success, or the receiver has
\* entered handle_fin, the output file is the input file.
THEOREM SuccessIsDelivery == Spec => []SuccessMeansDelivered
  <1>1. ASSUME Inv
        PROVE  SuccessMeansDelivered
    <2>1. SUFFICES ASSUME fin_complete \/ rcv_pc = "closing"
                   PROVE  written = File
      BY DEF SuccessMeansDelivered
    <2>2. Len(written) = Total
      BY <1>1, <2>1 DEF Inv, ControlInv, NetInv, FinInv
    <2>3. \A i \in 1 .. Total : written[i] = File[i]
      BY <1>1, <2>2 DEF Inv, ReceiverInv, PrefixWritten
    <2>4. written \in Seq(Payload) /\ File \in Seq(Payload)
      BY <1>1, SendWindowAssumption DEF Inv, TypeOK, ReceiverTypeOK
    <2> QED
      BY <2>2, <2>3, <2>4, SeqEqual DEF Total
  <1> QED
    BY <1>1, InvAlways, PTL

\* What the sender takes for acknowledged, by a cumulative number or by a SACK
\* bit, the receiver has.
THEOREM AckedIsReceived == Spec => []AckedReceived
  <1>1. ASSUME Inv
        PROVE  AckedReceived
    <2>1. WindowInv(window, Len(written), Received) /\ Has(Len(written), Received)
      BY <1>1, ReceiverHas DEF Inv, TypeOK, ReceiverTypeOK
    <2> QED
      BY <2>1 DEF WindowInv, WindowState, Has, AckedReceived
  <1> QED
    BY <1>1, InvAlways, PTL

\* try_send_data never finds its next segment sent already, so it never stalls.
THEOREM NeverWedged == Spec => []NoWedge
  <1>1. Inv => NoWedge
    BY DEF Inv, WindowInv, WindowState, NoWedge
  <1> QED
    BY <1>1, InvAlways, PTL

\* The sender is never further ahead than either window allows.
THEOREM RespectsWindow == Spec => []WindowRespected
  <1>1. Inv => WindowRespected
    BY DEF Inv
  <1> QED
    BY <1>1, InvAlways, PTL

\* Whatever is on the network fits the open receive window: the receiver discards
\* no segment for lack of room.
THEOREM NeverOverflows ==
    ASSUME RcvWindow # 0
    PROVE  Spec => []NoOverflow
  <1>1. ASSUME Inv
        PROVE  NoOverflow
    <2>1. SUFFICES ASSUME NEW s \in Segments, DataPacket(s) \in net
                   PROVE  s <= Len(written) + RcvWindow
      BY DEF NoOverflow
    <2>2. PICK t \in Segments : t < window.next_seq /\ DataPacket(s) = DataPacket(t)
      BY <1>1, <2>1, DataPacketType DEF Inv, NetInv, DataInv
    <2>3. s = t
      <3>1. Abs(s) = Abs(t)
        BY <2>2 DEF DataPacket
      <3> QED
        BY <3>1, SegmentsAreRelative, AbsInjective
    <2>4. /\ window.base_seq \in Nat /\ window.next_seq \in Nat
          /\ window.base_seq <= Len(written) + 1
          /\ window.next_seq <= window.base_seq + Smaller(SndWindow, InitialPeerWnd)
      BY <1>1 DEF Inv, WindowInv, WindowState, WindowRespected
    <2>5. Smaller(SndWindow, InitialPeerWnd) <= RcvWindow
      BY ConstantTypes, InitialPeerWndType DEF Smaller
    <2>6. Smaller(SndWindow, InitialPeerWnd) \in Nat /\ Len(written) \in Nat
      BY <1>1, ConstantTypes, InitialPeerWndType
         DEF Smaller, Inv, TypeOK, ReceiverTypeOK
    <2> QED
      BY <2>2, <2>3, <2>4, <2>5, <2>6, ConstantTypes DEF Segments
  <1> QED
    BY <1>1, InvAlways, PTL

=============================================================================
