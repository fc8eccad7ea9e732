----------------------- MODULE ReliableDelivery_proofs -----------------------
(***************************************************************************)
(* That DataTransfer implements ReliableDelivery, and four more            *)
(* properties of the transfer that follow from its invariant: for every    *)
(* file, window, limit and initial number, as in DataTransfer_proofs.      *)
(***************************************************************************)
EXTENDS DataTransfer_proofs

-----------------------------------------------------------------------------
(***************************************************************************)
(* The refinement.                                                         *)
(***************************************************************************)

\* When the sender is about to return success, or the receiver is closing, the
\* file is complete.
LEMMA InvMeansDelivered ==
    ASSUME Inv
    PROVE  SuccessMeansDelivered
  <1>1. SUFFICES ASSUME fin_complete \/ rcv_pc = "closing"
                 PROVE  written = File
    BY DEF SuccessMeansDelivered
  <1>2. Len(written) = Total
    BY <1>1 DEF Inv, ControlInv, NetInv, FinInv
  <1>3. \A i \in 1 .. Total : written[i] = File[i]
    BY <1>2 DEF Inv, ReceiverInv, PrefixWritten
  <1>4. written \in Seq(Payload) /\ File \in Seq(Payload)
    BY SendWindowAssumption DEF Inv, TypeOK, ReceiverTypeOK
  <1> QED
    BY <1>2, <1>3, <1>4, SeqEqual DEF Total

\* What is written is the beginning of the file of that length.
WrittenIsSubSeq ==
    /\ Len(written) \in 0 .. Total
    /\ written = SubSeq(File, 1, Len(written))

LEMMA InvMeansSubSeq ==
    ASSUME Inv
    PROVE  WrittenIsSubSeq
  <1>1. /\ written \in Seq(Payload) /\ File \in Seq(Payload)
        /\ Len(written) \in 0 .. Total /\ Total \in Nat /\ Len(File) = Total
        /\ \A i \in 1 .. Len(written) : written[i] = File[i]
    BY ConstantTypes, SendWindowAssumption
       DEF Inv, TypeOK, ReceiverTypeOK, ReceiverInv, PrefixWritten, Total
  <1> DEFINE n == Len(written)
             t == SubSeq(File, 1, n)
  <1>2. /\ t \in Seq(Payload) /\ Len(t) = n
        /\ \A i \in 1 .. n : t[i] = File[i]
    BY <1>1
  <1> HIDE DEF t
  <1> QED
    BY <1>1, <1>2, SeqEqual DEF t, WrittenIsSubSeq

\* The receiver never takes back what it wrote.
LEMMA WrittenGrows ==
    ASSUME Inv, ReceiverNext
    PROVE  written' = written \/ Len(written') >= Len(written)
  <1>1. CASE ReceiveData
    <2>1. PICK m \in net :
              m.type = "DATA" /\ (RefuseData(m.seq) \/ AcceptData(m.seq, m.data))
      BY <1>1 DEF ReceiveData
    <2>2. CASE RefuseData(m.seq)
      BY <2>2 DEF RefuseData
    <2>3. CASE AcceptData(m.seq, m.data)
      <3>1. PICK s \in Segments : /\ s < window.next_seq
                                  /\ m.seq = Abs(s) /\ m.data = File[s]
        BY <2>1, DataOnTheNetwork
      <3>2. Len(written') \in Len(written) .. Total
        BY <1>1, <2>3, <3>1, AcceptData_Receiver DEF ReceiveData
      <3>3. Len(written) \in 0 .. Total /\ Total \in Nat
        BY InvMeansSubSeq, ConstantTypes DEF WrittenIsSubSeq
      <3> QED
        BY <3>2, <3>3
    <2> QED
      BY <2>1, <2>2, <2>3
  <1> QED
    BY <1>1 DEF ReceiverNext, ReceiveTimeout, ReceiveRst, ReceiveOther, ReceiveFin,
                ReceiveFinalAck, NextBurst

\* What the steps of the sender do to its outcome.
LEMMA SenderOutcome ==
    ASSUME SenderNext
    PROVE  /\ snd_pc # "done" /\ UNCHANGED written
           /\ fin_complete => fin_complete'
  BY AckValidity
     DEF SenderNext, GiveUp, TrySendData, NoPacket, HandleFinAck, HandleInvalidAck,
         HandleValidAck, HandleTimeouts, HandleWindowProbe, SendFin, ResendFin, NoFin,
         rcv, snd

\* A step of either program, or of neither, is one of the promise.
LEMMA StepDelivers ==
    ASSUME Inv, WrittenIsSubSeq, WrittenIsSubSeq',
           SuccessMeansDelivered', [Next]_vars
    PROVE  [Abstract!Next]_<<written, Outcome>>
  <1> USE DEF Abstract!Next
  <1>1. CASE SenderNext
    <2>1. /\ snd_pc # "done" /\ UNCHANGED written
          /\ fin_complete => fin_complete'
      BY <1>1, SenderOutcome
    <2>2. CASE fin_complete
      BY <2>1, <2>2 DEF Outcome
    <2>3. CASE ~fin_complete /\ fin_complete'
      <3>1. written' = File
        BY <2>3 DEF SuccessMeansDelivered
      <3> QED
        BY <2>1, <2>3, <3>1 DEF Outcome, Abstract!Succeed
    <2>4. CASE ~fin_complete /\ ~fin_complete'
      BY <2>1, <2>4 DEF Outcome, Abstract!Fail
    <2> QED
      BY <2>2, <2>3, <2>4
  <1>2. CASE ReceiverNext
    <2>1. UNCHANGED Outcome
      BY <1>2 DEF Outcome, snd, ReceiverNext, ReceiveTimeout, ReceiveRst,
                  ReceiveOther, ReceiveData, ReceiveFin, ReceiveFinalAck, NextBurst
    <2>2. /\ written = SubSeq(File, 1, Len(written))
          /\ written' = SubSeq(File, 1, Len(written'))
          /\ Len(written) \in 0 .. Total /\ Len(written') \in 0 .. Total
      BY DEF WrittenIsSubSeq
    <2>3. CASE written' = written
      BY <2>1, <2>3
    <2>4. CASE written' # written
      <3>1. Len(written') >= Len(written) /\ Len(written') # Len(written)
        BY <1>2, <2>2, <2>4, WrittenGrows
      <3>2. /\ Len(written') \in Nat /\ Len(written) \in Nat /\ Total \in Nat
            /\ Len(written') <= Total /\ Len(File) = Total
        BY <2>2, ConstantTypes DEF Total
      <3>3. Len(written') \in Len(written) + 1 .. Len(File)
        BY <3>1, <3>2
      <3> QED
        BY <2>1, <2>2, <3>3 DEF Abstract!Deliver
    <2> QED
      BY <2>3, <2>4
  <1>3. CASE UNCHANGED vars
    BY <1>3 DEF vars, snd, rcv, Outcome
  <1> QED
    BY <1>1, <1>2, <1>3 DEF Next, Finished

\* The two programs implement ReliableDelivery: the output file only grows, it is
\* always a beginning of the input file, and run() of the sender returns success
\* only when it is all of it; a failure that was reported is never taken back.
THEOREM ImplementsDelivery == Spec => DeliversReliably
  <1>1. Init => Abstract!Init
    BY DEF Init, Outcome, Abstract!Init
  <1>2. Inv => SuccessMeansDelivered /\ WrittenIsSubSeq
    BY InvMeansDelivered, InvMeansSubSeq
  <1>3. /\ Inv /\ WrittenIsSubSeq /\ WrittenIsSubSeq' /\ SuccessMeansDelivered'
        /\ [Next]_vars
        => [Abstract!Next]_<<written, Outcome>>
    BY StepDelivers
  <1> QED
    BY <1>1, <1>2, <1>3, InvAlways, PTL DEF Spec, DeliversReliably, Abstract!Spec

-----------------------------------------------------------------------------
(***************************************************************************)
(* The ACKs agree with each other.                                         *)
(***************************************************************************)
ReceiverLacksNext == Has(Len(written), Received)

\* What transmit_segment puts on the network is no ACK.
LEMMA TransmittedTypes ==
    ASSUME NEW w, NEW S, NEW failed, NEW m \in Transmitted(w, S, failed)
    PROVE  m.type # "ACK"
  BY DEF Transmitted, DataPacket, RstPacket

\* An ACK on the network is there already, or the receiver has just sent it.
LEMMA NewAcks ==
    ASSUME [Next]_vars
    PROVE  /\ net \subseteq net'
           /\ \A m \in net' \ net : m.type = "ACK" => m = AckOf(buffer')
  <1> USE DEF RstPacket, FinPacket, FinAckPacket, PureAck, Probe
  <1>1. CASE HandleValidAck
    <2>1. PICK w, ack, mask, bytes, sofar :
              /\ HandleSack(w, ack, mask, bytes, sofar)
              /\ \A m \in sofar : m.type # "ACK"
      <3>1. PICK ack, mask : \/ HandleNewAck(ack, mask)
                             \/ HandleDuplicateAck(ack, mask)
                             \/ HandleOldAck(ack, mask)
        BY <1>1 DEF HandleValidAck
      <3>2. CASE HandleNewAck(ack, mask)
        BY <3>2 DEF HandleNewAck
      <3>3. CASE HandleDuplicateAck(ack, mask)
        BY <3>3, TransmittedTypes DEF HandleDuplicateAck
      <3>4. CASE HandleOldAck(ack, mask)
        BY <3>4 DEF HandleOldAck
      <3> QED
        BY <3>1, <3>2, <3>3, <3>4
    <2>2. PICK v, resent : net' = net \cup sofar \cup Transmitted(v, resent, {})
      BY <2>1 DEF HandleSack
    <2> QED
      BY <2>1, <2>2, TransmittedTypes
  <1>2. CASE TrySendData
    BY <1>2, TransmittedTypes DEF TrySendData
  <1>3. CASE \E expired \in SUBSET InFlight : HandleTimeouts(expired)
    BY <1>3, TransmittedTypes DEF HandleTimeouts
  <1>4. CASE GiveUp \/ NoPacket \/ HandleFinAck \/ HandleInvalidAck
               \/ HandleWindowProbe \/ SendFin \/ ResendFin \/ NoFin
    BY <1>4 DEF GiveUp, NoPacket, HandleFinAck, HandleInvalidAck, HandleWindowProbe,
                SendFin, ResendFin, NoFin
  <1>5. CASE ReceiveData
    BY <1>5 DEF ReceiveData, RefuseData, AcceptData
  <1>6. CASE ReceiveTimeout \/ ReceiveRst \/ ReceiveOther \/ ReceiveFin
               \/ ReceiveFinalAck \/ NextBurst
    BY <1>6 DEF ReceiveTimeout, ReceiveRst, ReceiveOther, ReceiveFin,
                ReceiveFinalAck, NextBurst
  <1>7. CASE UNCHANGED vars
    BY <1>7 DEF vars
  <1> QED
    BY AckValidity, <1>1, <1>2, <1>3, <1>4, <1>5, <1>6, <1>7
       DEF Next, SenderNext, ReceiverNext, Finished

\* On the wire, what an ACK names is above its number.
LEMMA SackedByIsAbove ==
    ASSUME NEW n \in 0 .. Total, NEW a \in 1 .. n + 1,
           NEW mask \in SUBSET (0 .. SackBits - 1)
    PROVE  \A s \in Relative : Abs(s) \in SackedBy(Abs(a), mask)
                                  => \E i \in mask : s = a + 1 + i
  <1> SUFFICES ASSUME NEW s \in Relative, Abs(s) \in SackedBy(Abs(a), mask)
               PROVE  \E i \in mask : s = a + 1 + i
    OBVIOUS
  <1> DEFINE x == Abs(a)
  <1>1. PICK i \in mask : Abs(s) = Wrap(x + 1 + i)
    BY DEF SackedBy
  <1>2. /\ a \in Relative /\ 1 + i \in Nat /\ a + (1 + i) \in Relative
        /\ a \in Nat /\ i \in Nat
    BY ConstantTypes DEF Relative
  <1>3. Wrap(x + (1 + i)) = Abs(a + (1 + i)) /\ x \in Nat
    BY <1>2, AbsPlus, AbsCases DEF SeqNumbers
  <1> HIDE DEF x
  <1>4. x + 1 + i = x + (1 + i) /\ a + 1 + i = a + (1 + i)
    BY <1>2, <1>3
  <1>5. Abs(s) = Abs(a + (1 + i))
    BY <1>1, <1>3, <1>4
  <1>6. s = a + (1 + i)
    BY <1>2, <1>5, AbsInjective
  <1> QED
    BY <1>4, <1>6

\* Of two ACKs of which neither says more than the receiver has, the one it
\* sends now agrees with the earlier one.
LEMMA AgreesWithNewest ==
    ASSUME NEW n, NEW R, Has(n, R),
           NEW m, Acknowledges(m, n, R),
           NEW p, Acknowledges(p, n, R), p.ack = Abs(n + 1)
    PROVE  /\ p.ack \notin SackedBy(m.ack, m.sack)
           /\ m.ack \notin SackedBy(p.ack, p.sack)
  <1>1. n \in 0 .. Total /\ n \in Nat /\ Total \in Nat /\ n + 1 \in Relative
    BY ConstantTypes DEF Has, Relative
  <1>2. PICK a \in 1 .. n + 1 : m.ack = Abs(a) /\ Truthful(a, m.sack, n, R)
    BY DEF Acknowledges
  <1>3. PICK b \in 1 .. n + 1 : p.ack = Abs(b) /\ Truthful(b, p.sack, n, R)
    BY DEF Acknowledges
  <1>4. a \in Relative /\ b \in Relative
    BY <1>1, ConstantTypes DEF Relative
  <1>5. b = n + 1
    BY <1>1, <1>3, <1>4, AbsInjective
  <1>6. ASSUME p.ack \in SackedBy(m.ack, m.sack)
        PROVE  FALSE
    <2>1. PICK i \in m.sack : n + 1 = a + 1 + i
      BY <1>1, <1>2, <1>6, SackedByIsAbove DEF Truthful
    <2>2. n + 1 \in R
      BY <1>2, <2>1 DEF Truthful
    <2> QED
      BY <2>2 DEF Has
  <1>7. ASSUME m.ack \in SackedBy(p.ack, p.sack)
        PROVE  FALSE
    <2>1. PICK i \in p.sack : a = (n + 1) + 1 + i
      BY <1>1, <1>2, <1>3, <1>4, <1>5, <1>7, SackedByIsAbove DEF Truthful
    <2>2. i \in Nat
      BY <1>3, ConstantTypes DEF Truthful
    <2> QED
      BY <1>1, <2>1, <2>2
  <1> QED
    BY <1>6, <1>7

\* The inductive step.
LEMMA AcksConsistent_Step ==
    ASSUME AcksConsistent, Inv', ReceiverLacksNext', [Next]_vars
    PROVE  AcksConsistent'
  <1> SUFFICES ASSUME NEW m1 \in net', NEW m2 \in net',
                      m1.type = "ACK", m2.type = "ACK"
               PROVE  m1.ack \notin SackedBy(m2.ack, m2.sack)
    BY DEF AcksConsistent
  <1>1. /\ net \subseteq net'
        /\ \A m \in net' \ net : m.type = "ACK" => m = AckOf(buffer')
    BY NewAcks
  <1>2. /\ Acknowledges(m1, Len(written'), Received')
        /\ Acknowledges(m2, Len(written'), Received')
    BY DEF Inv, NetInv, AckInv
  <1>3. AckOf(buffer').ack = Abs(Len(written') + 1)
    BY DEF Inv, ReceiverInv, AckOf, AckPacket
  <1> DEFINE n == Len(written')
             R == Received'
  <1>4. Has(n, R)
    BY DEF ReceiverLacksNext
  <1> HIDE DEF n, R
  <1>5. CASE m1 \in net /\ m2 \in net
    BY <1>5 DEF AcksConsistent
  <1>6. CASE m1 \notin net
    <2>1. m1.ack = Abs(n + 1)
      BY <1>1, <1>3, <1>6 DEF n
    <2> QED
      BY <1>2, <1>4, <2>1, AgreesWithNewest DEF n, R
  <1>7. CASE m2 \notin net
    <2>1. m2.ack = Abs(n + 1)
      BY <1>1, <1>3, <1>7 DEF n
    <2> QED
      BY <1>2, <1>4, <2>1, AgreesWithNewest DEF n, R
  <1> QED
    BY <1>5, <1>6, <1>7

\* Whatever the order in which they arrive: no ACK of this connection names as
\* missing a segment that another one names as received.
THEOREM AcksAgree == Spec => []AcksConsistent
  <1>1. ASSUME Init
        PROVE  AcksConsistent
    <2>1. \A m \in net : m.type = "ACK" => m.sack = {}
      BY <1>1 DEF Init, PureAck, AckPacket
    <2> QED
      BY <2>1 DEF AcksConsistent, SackedBy
  <1>2. AcksConsistent /\ Inv' /\ ReceiverLacksNext' /\ [Next]_vars => AcksConsistent'
    BY AcksConsistent_Step
  <1>3. Inv => ReceiverLacksNext
    BY ReceiverHas DEF ReceiverLacksNext, Inv, TypeOK, ReceiverTypeOK
  <1> QED
    BY <1>1, <1>2, <1>3, InvAlways, PTL DEF Spec

-----------------------------------------------------------------------------
(***************************************************************************)
(* What was passed over is never forgotten silently.                       *)
(***************************************************************************)

\* What the new window w2 keeps of the entries of w: all from its edge on.
KeepsSent(w, w2) == \A s \in w.sent : s >= w2.base_seq => s \in w2.sent

\* advance_base_seq erases only the entries it passes.
LEMMA AdvanceKeepsSent ==
    ASSUME NEW n, NEW R, Has(n, R), NEW w, WindowInv(w, n, R)
    PROVE  KeepsSent(w, AdvanceBaseSeq(w))
  <1>1. CASE w.base_seq > Total \/ w.base_seq \notin w.acked
    BY <1>1 DEF AdvanceBaseSeq, KeepsSent
  <1>2. CASE ~(w.base_seq > Total \/ w.base_seq \notin w.acked)
    <2> DEFINE b == FirstUnacked(w)
               passed == w.base_seq .. b - 1
               a == AdvanceBaseSeq(w)
    <2>1. a.base_seq = b /\ a.sent = w.sent \ passed
      BY <1>2 DEF AdvanceBaseSeq, WindowInv, WindowState
    <2>2. a.base_seq \in Nat
      BY AdvanceBaseSeqInv DEF WindowInv, WindowState
    <2> HIDE DEF a, b
    <2>3. ASSUME NEW s \in w.sent, s >= b
          PROVE  s \notin passed
      <3>1. s \in Nat /\ b \in Nat
        BY <2>1, <2>2 DEF WindowInv, WindowState, Segments
      <3> QED
        BY <2>3, <3>1
    <2> QED
      BY <2>1, <2>3 DEF KeepsSent, a
  <1> QED
    BY <1>1, <1>2

\* The end of handle_ack forgets nothing else.
LEMMA HandleSackKeepsSent ==
    ASSUME NEW n, NEW R, Has(n, R), NEW w, WindowInv(w, n, R),
           NEW ack, NEW mask, Truthful(ack, mask, n, R),
           NEW bytes, NEW sofar, HandleSack(w, ack, mask, bytes, sofar)
    PROVE  KeepsSent(w, window')
  <1> DEFINE marked == MarkAcked(w, SackedBy(ack, mask))
             gaps == GapSegments(marked, ack, mask)
  <1>1. PICK resent \in SUBSET gaps :
            window' = AdvanceBaseSeq(Transmit(marked, resent, {}))
    BY DEF HandleSack
  <1>2. SackedBy(ack, mask) \subseteq R
    <2>1. ack \in 0 .. Total + 1
      BY ConstantTypes DEF Has, Truthful
    <2> QED
      BY <2>1, SackedByIsSum DEF Truthful
  <1>3. WindowInv(marked, n, R) /\ marked.sent = w.sent
    BY <1>2, MarkAckedInv
  <1> HIDE DEF marked
  <1>4. Reached(marked, resent)
    BY <1>3, GapsWereSent
  <1> DEFINE t == Transmit(marked, resent, {})
  <1>5. WindowInv(t, n, R)
    BY <1>3, <1>4, TransmitWindow
  <1>6. w.sent \subseteq t.sent
    <2>1. t = MarkSent(marked, resent)
      BY DEF Transmit
    <2> QED
      BY <1>3, <1>4, <2>1, MarkSentInv
  <1> HIDE DEF t
  <1>7. KeepsSent(t, AdvanceBaseSeq(t))
    BY <1>5, AdvanceKeepsSent
  <1> QED
    BY <1>1, <1>6, <1>7 DEF KeepsSent, t

\* Nor does any of the three cases of handle_ack.
LEMMA AckCasesKeepSent ==
    ASSUME Inv, snd_pc = "network",
           NEW ack, NEW mask, Truthful(ack, mask, Len(written), Received),
           \/ HandleNewAck(ack, mask)
           \/ HandleDuplicateAck(ack, mask)
           \/ HandleOldAck(ack, mask)
    PROVE  KeepsSent(window, window')
  <1> DEFINE n == Len(written)
             R == Received
  <1>1. /\ WindowInv(window, n, R) /\ Has(n, R) /\ Truthful(ack, mask, n, R)
        /\ window \in WindowState /\ window.base_seq \in 1 .. Total + 1
        /\ window.next_seq \in 1 .. Total + 1
    BY ReceiverHas DEF Inv, TypeOK, ReceiverTypeOK, WindowInv, WindowState
  <1>2. window'.base_seq \in Nat
    BY AckCases_Inv DEF WindowInv, WindowState
  <1> HIDE DEF n, R
  <1>3. CASE HandleNewAck(ack, mask)
    <2> DEFINE covered == window.base_seq .. ack - 1
               marked == MarkAcked(window, covered)
               w == SetBaseSeq(marked, ack)
    <2>1. HandleSack(w, ack, mask, Credit(window, covered, bytes_acked), {})
      BY <1>3 DEF HandleNewAck
    <2>2. covered \cap Segments \subseteq R
      BY <1>1, ConstantTypes DEF Has, Truthful
    <2> HIDE DEF covered
    <2>3. WindowInv(marked, n, R) /\ marked.sent = window.sent
      BY <1>1, <2>2, MarkAckedInv
    <2>4. w.sent = {s \in window.sent : s >= ack}
      BY <2>3 DEF SetBaseSeq, WindowInv, WindowState
    <2> HIDE DEF marked
    <2>5. WindowInv(w, n, R) /\ w.base_seq = ack
      BY <1>1, <2>3, SetBaseSeqInv DEF Truthful
    <2> HIDE DEF w
    <2>6. KeepsSent(w, window')
      BY <1>1, <2>1, <2>5, HandleSackKeepsSent
    <2>7. window'.base_seq >= ack
      <3>1. NetInv(net, n, R, window.next_seq)
        BY DEF Inv, n, R
      <3>2. w.next_seq = window.next_seq
        BY <1>1, <2>2, <2>3, MarkAckedInv, SetBaseSeqInv DEF Truthful, w, marked
      <3>3. NetInv(net \cup {}, n, R, w.next_seq)
        BY <3>1, <3>2
      <3> QED
        BY <1>1, <2>1, <2>5, <3>3, HandleSackInv
    <2>8. ASSUME NEW s \in window.sent, s >= window'.base_seq
          PROVE  s \in window'.sent
      <3>1. s \in Nat /\ ack \in Nat
        BY <1>1 DEF WindowState, Segments, Truthful, Has
      <3>2. s \in w.sent
        BY <1>2, <2>4, <2>7, <2>8, <3>1
      <3> QED
        BY <2>6, <2>8, <3>2 DEF KeepsSent
    <2> QED
      BY <2>8 DEF KeepsSent
  <1>4. CASE HandleDuplicateAck(ack, mask)
    <2> DEFINE base == {window.base_seq}
    <2>1. CASE HandleSack(window, ack, mask, bytes_acked, {})
      BY <1>1, <2>1, HandleSackKeepsSent
    <2>2. CASE \E failed \in MayFail(window, base) :
                  HandleSack(Transmit(window, base, failed), ack, mask,
                             bytes_acked, Transmitted(window, base, failed))
      <3>1. PICK failed \in MayFail(window, base) :
                  HandleSack(Transmit(window, base, failed), ack, mask,
                             bytes_acked, Transmitted(window, base, failed))
        BY <2>2
      <3> DEFINE w == Transmit(window, base, failed)
      <3>2. Reached(window, base)
        BY <1>1, <1>4, ConstantTypes
           DEF HandleDuplicateAck, Reached, Inv, ControlInv, InFlightOrDone, Segments
      <3> HIDE DEF base
      <3>3. WindowInv(w, n, R)
        BY <1>1, <3>2, TransmitWindow
      <3>4. window.sent \subseteq w.sent
        <4>1. Reached(window, base \ failed)
          BY <3>2 DEF Reached
        <4> QED
          BY <1>1, <4>1, MarkSentInv DEF Transmit
      <3> HIDE DEF w
      <3>5. KeepsSent(w, window')
        BY <1>1, <3>1, <3>3, HandleSackKeepsSent DEF w
      <3> QED
        BY <3>4, <3>5 DEF KeepsSent
    <2> QED
      BY <1>4, <2>1, <2>2 DEF HandleDuplicateAck
  <1>5. CASE HandleOldAck(ack, mask)
    BY <1>1, <1>5, HandleSackKeepsSent DEF HandleOldAck
  <1> QED
    BY <1>3, <1>4, <1>5

\* The inductive step.
LEMMA SkippedMeansReset_Step ==
    ASSUME Inv, Inv', SkippedMeansReset, [Next]_vars
    PROVE  SkippedMeansReset'
  <1>1. net \subseteq net'
    BY NewAcks
  <1>2. /\ window.base_seq \in Nat /\ window.next_seq \in Nat
        /\ window'.base_seq \in Nat /\ window'.next_seq \in Nat
        /\ window \in WindowState
        /\ WindowInv(window, Len(written), Received)
    BY DEF Inv, WindowInv, WindowState
  <1>3. CASE RstPacket \in net
    BY <1>1, <1>3 DEF SkippedMeansReset
  <1>4. ASSUME RstPacket \notin net, KeepsSent(window, window'),
               window'.base_seq >= window.base_seq,
               window'.next_seq = window.next_seq
        PROVE  SkippedMeansReset'
    BY <1>2, <1>4 DEF SkippedMeansReset, KeepsSent
  <1>5. CASE RstPacket \notin net /\ HandleValidAck
    <2>1. PICK m \in net :
              /\ Truthful(m.ack - Isn, m.sack, Len(written), Received)
              /\ \/ HandleNewAck(m.ack - Isn, m.sack)
                 \/ HandleDuplicateAck(m.ack - Isn, m.sack)
                 \/ HandleOldAck(m.ack - Isn, m.sack)
      BY <1>5, HandledAck
    <2>2. snd_pc = "network"
      BY <1>5 DEF HandleValidAck
    <2> QED
      BY <1>4, <1>5, <2>1, <2>2, AckCases_Inv, AckCasesKeepSent
  <1>6. CASE RstPacket \notin net /\ TrySendData
    <2>1. PICK stop \in window.next_seq .. SendLimit :
              \E failed \in MayFail(window, window.next_seq .. stop - 1) :
                 /\ window' = [Transmit(window, window.next_seq .. stop - 1, failed)
                                  EXCEPT !.next_seq = stop]
                 /\ net' = net \cup Transmitted(window, window.next_seq .. stop - 1,
                                                failed)
      BY <1>6 DEF TrySendData
    <2> DEFINE new == window.next_seq .. stop - 1
    <2>2. PICK failed \in MayFail(window, new) :
              /\ window' = [Transmit(window, new, failed) EXCEPT !.next_seq = stop]
              /\ net' = net \cup Transmitted(window, new, failed)
      BY <2>1
    <2>3. CASE failed # {}
      <3>1. RstPacket \in Transmitted(window, new, failed)
        BY <2>3 DEF Transmitted
      <3> QED
        BY <2>2, <3>1 DEF SkippedMeansReset
    <2>4. CASE failed = {}
      <3>1. /\ window'.sent = window.sent \cup new
            /\ window'.base_seq = window.base_seq /\ window'.next_seq = stop
        BY <1>2, <2>2, <2>4 DEF Transmit, MarkSent, WindowState
      <3>2. window.base_seq .. window.next_seq - 1 \subseteq window.sent
        BY <1>6 DEF SkippedMeansReset
      <3>3. stop \in Nat /\ stop >= window.next_seq
        BY <1>2
      <3>4. window.base_seq .. stop - 1 \subseteq window.sent \cup new
        BY <1>2, <3>2, <3>3
      <3> QED
        BY <3>1, <3>4 DEF SkippedMeansReset
    <2> QED
      BY <2>3, <2>4
  <1>7. CASE RstPacket \notin net
             /\ \E expired \in SUBSET InFlight : HandleTimeouts(expired)
    <2>1. PICK expired : window' = Transmit(window, expired, {})
      BY <1>7 DEF HandleTimeouts
    <2>2. /\ window'.sent = window.sent \cup expired
          /\ window'.base_seq = window.base_seq
          /\ window'.next_seq = window.next_seq
      BY <1>2, <2>1 DEF Transmit, MarkSent, WindowState
    <2> QED
      BY <1>2, <1>4, <1>7, <2>2 DEF KeepsSent
  <1>8. CASE RstPacket \notin net /\ UNCHANGED window
    BY <1>2, <1>4, <1>8 DEF KeepsSent
  <1>9. UNCHANGED window \/ HandleValidAck \/ TrySendData
          \/ \E expired \in SUBSET InFlight : HandleTimeouts(expired)
    BY AckValidity
       DEF Next, SenderNext, ReceiverNext, Finished, GiveUp, NoPacket, HandleFinAck,
           HandleInvalidAck, HandleWindowProbe, SendFin, ResendFin, NoFin,
           ReceiveTimeout, ReceiveRst, ReceiveOther, ReceiveData, ReceiveFin,
           ReceiveFinalAck, NextBurst, vars, snd
  <1> QED
    BY <1>3, <1>5, <1>6, <1>7, <1>8, <1>9

\* A segment that load_segment_payload could not read is passed over by next_seq;
\* the receiver has been sent a RST ever since.
THEOREM SkippingResets == Spec => []SkippedMeansReset
  <1>1. Init => SkippedMeansReset
    BY DEF Init, NewWindow, SkippedMeansReset
  <1>2. Inv /\ Inv' /\ SkippedMeansReset /\ [Next]_vars => SkippedMeansReset'
    BY SkippedMeansReset_Step
  <1> QED
    BY <1>1, <1>2, InvAlways, PTL DEF Spec

-----------------------------------------------------------------------------
(***************************************************************************)
(* The progress output.                                                    *)
(***************************************************************************)

\* What the window w says is acknowledged: what is marked, and all that is left
\* of its edge.
Acknowledged(w) == w.acked \cup (1 .. w.base_seq - 1)

\* c counts it, as far as the counter reaches.
Counts(c, w) == Smaller(MaxBytesAcked, Cardinality(Acknowledged(w))) <= c

LEMMA AcknowledgedType ==
    ASSUME NEW w \in WindowState
    PROVE  Acknowledged(w) \subseteq Segments /\ IsFiniteSet(Acknowledged(w))
  <1>1. IsFiniteSet(Segments)
    BY ConstantTypes, FS_Interval DEF Segments
  <1>2. Acknowledged(w) \subseteq Segments
    BY ConstantTypes DEF WindowState, Acknowledged, Segments
  <1> QED
    BY <1>1, <1>2, FS_Subset

\* Fewer segments are counted all the more.
LEMMA CountsLess ==
    ASSUME NEW w \in WindowState, NEW v \in WindowState,
           Acknowledged(v) \subseteq Acknowledged(w),
           NEW c \in Nat, Counts(c, w)
    PROVE  Counts(c, v)
  <1> DEFINE p == Cardinality(Acknowledged(w))
             q == Cardinality(Acknowledged(v))
  <1>1. p \in Nat /\ q \in Nat /\ q <= p
    BY AcknowledgedType, FS_CardinalityType, FS_Subset
  <1>2. MaxBytesAcked \in Nat /\ Smaller(MaxBytesAcked, p) <= c
    BY DataTransferAssumption DEF Counts
  <1> HIDE DEF p, q
  <1>3. Smaller(MaxBytesAcked, q) <= c
    BY <1>1, <1>2 DEF Smaller
  <1> QED
    BY <1>3 DEF Counts, q

\* Credit counts each segment of S that the window did not have as acked.
LEMMA CreditCounts ==
    ASSUME NEW w \in WindowState, NEW v \in WindowState, NEW S,
           Acknowledged(v) \subseteq Acknowledged(w) \cup (S \cap Segments),
           NEW c \in 0 .. MaxBytesAcked, Counts(c, w)
    PROVE  Counts(Credit(w, S, c), v)
  <1> DEFINE A == Acknowledged(w)
             B == Acknowledged(v)
             N == (S \cap Segments) \ w.acked
             a == Cardinality(A)
             b == Cardinality(B)
             k == Cardinality(N)
  <1>1. IsFiniteSet(A) /\ IsFiniteSet(B) /\ IsFiniteSet(N)
    <2>1. IsFiniteSet(Segments) /\ N \in SUBSET Segments
      BY ConstantTypes, FS_Interval DEF Segments
    <2> QED
      BY <2>1, AcknowledgedType, FS_Subset
  <1>2. B \subseteq A \cup N
    BY DEF Acknowledged
  <1> HIDE DEF A, B, N
  <1>3. /\ a \in Nat /\ b \in Nat /\ k \in Nat
        /\ Cardinality(A \cap N) \in Nat
        /\ IsFiniteSet(A \cup N) /\ Cardinality(A \cup N) = a + k - Cardinality(A \cap N)
    BY <1>1, FS_Union, FS_Intersection, FS_CardinalityType
  <1>4. b <= Cardinality(A \cup N)
    BY <1>2, <1>3, FS_Subset
  <1>5. b <= a + k
    BY <1>3, <1>4
  <1>6. MaxBytesAcked \in Nat /\ c \in Nat /\ Smaller(MaxBytesAcked, a) <= c
    BY DataTransferAssumption DEF Counts, A
  <1>7. Credit(w, S, c) = Saturate(c + k, MaxBytesAcked)
    BY DEF Credit, N
  <1> HIDE DEF a, b, k
  <1>8. Smaller(MaxBytesAcked, b) <= Saturate(c + k, MaxBytesAcked)
    BY <1>3, <1>5, <1>6 DEF Smaller, Saturate
  <1> QED
    BY <1>7, <1>8 DEF Counts, b, B

\* Moving the edge over segments that are acked acknowledges nothing new.
LEMMA AdvanceAcknowledges ==
    ASSUME NEW n, NEW R, Has(n, R), NEW w, WindowInv(w, n, R)
    PROVE  Acknowledged(AdvanceBaseSeq(w)) \subseteq Acknowledged(w)
  <1>1. CASE w.base_seq > Total \/ w.base_seq \notin w.acked
    BY <1>1 DEF AdvanceBaseSeq
  <1>2. CASE ~(w.base_seq > Total \/ w.base_seq \notin w.acked)
    <2> DEFINE b == FirstUnacked(w)
               passed == w.base_seq .. b - 1
               a == AdvanceBaseSeq(w)
    <2>1. a.base_seq = b /\ a.acked = w.acked \ passed
      BY <1>2 DEF AdvanceBaseSeq, WindowInv, WindowState
    <2>2. b \in w.base_seq .. Total + 1 /\ \A s \in passed : s \in w.acked
      BY FirstUnackedIs
    <2> HIDE DEF a, b
    <2>3. w.base_seq \in Nat /\ b \in Nat
      BY <2>2, ConstantTypes DEF WindowInv, WindowState
    <2>4. ASSUME NEW s \in 1 .. b - 1
          PROVE  s \in Acknowledged(w)
      BY <2>2, <2>3 DEF Acknowledged
    <2> QED
      BY <2>1, <2>4 DEF Acknowledged, a
  <1> QED
    BY <1>1, <1>2

\* The end of handle_ack counts what the mask says.
LEMMA HandleSackCounts ==
    ASSUME NEW n, NEW R, Has(n, R), NEW w, WindowInv(w, n, R),
           NEW ack, NEW mask, Truthful(ack, mask, n, R),
           NEW bytes \in 0 .. MaxBytesAcked, Counts(bytes, w), NEW sofar,
           HandleSack(w, ack, mask, bytes, sofar)
    PROVE  Counts(bytes_acked', window')
  <1> DEFINE S == SackedBy(ack, mask)
             marked == MarkAcked(w, S)
             gaps == GapSegments(marked, ack, mask)
  <1>1. PICK resent \in SUBSET gaps :
            window' = AdvanceBaseSeq(Transmit(marked, resent, {}))
    BY DEF HandleSack
  <1>2. bytes_acked' = Credit(w, S, bytes)
    BY DEF HandleSack
  <1>3. SackedBy(ack, mask) \subseteq R
    <2>1. ack \in 0 .. Total + 1
      BY ConstantTypes DEF Has, Truthful
    <2> QED
      BY <2>1, SackedByIsSum DEF Truthful
  <1>4. WindowInv(marked, n, R)
    BY <1>3, MarkAckedInv
  <1>5. Acknowledged(marked) = Acknowledged(w) \cup (S \cap Segments)
    BY DEF MarkAcked, Acknowledged, WindowInv, WindowState
  <1> HIDE DEF marked, S
  <1>6. Reached(marked, resent)
    BY <1>4, GapsWereSent
  <1> DEFINE t == Transmit(marked, resent, {})
             v == AdvanceBaseSeq(t)
  <1>7. WindowInv(t, n, R)
    BY <1>4, <1>6, TransmitWindow
  <1>8. Acknowledged(t) = Acknowledged(marked)
    BY <1>4 DEF Transmit, MarkSent, Acknowledged, WindowInv, WindowState
  <1> HIDE DEF t
  <1>9. WindowInv(v, n, R) /\ Acknowledged(v) \subseteq Acknowledged(t)
    BY <1>7, AdvanceBaseSeqInv, AdvanceAcknowledges
  <1> HIDE DEF v
  <1>10. Counts(Credit(w, S, bytes), v)
    BY <1>5, <1>8, <1>9, CreditCounts DEF WindowInv
  <1> QED
    BY <1>1, <1>2, <1>10 DEF t, v

\* So do its three cases; one of them counts first what a new number covers.
LEMMA AckCasesCount ==
    ASSUME Inv, Counts(bytes_acked, window),
           snd_pc = "network",
           NEW ack, NEW mask, Truthful(ack, mask, Len(written), Received),
           \/ HandleNewAck(ack, mask)
           \/ HandleDuplicateAck(ack, mask)
           \/ HandleOldAck(ack, mask)
    PROVE  Counts(bytes_acked', window')
  <1> DEFINE n == Len(written)
             R == Received
  <1>1. /\ WindowInv(window, n, R) /\ Has(n, R) /\ Truthful(ack, mask, n, R)
        /\ window \in WindowState /\ window.base_seq \in 1 .. Total + 1
        /\ bytes_acked \in 0 .. MaxBytesAcked
    BY ReceiverHas DEF Inv, TypeOK, SenderTypeOK, ReceiverTypeOK, WindowInv, WindowState
  <1> HIDE DEF n, R
  <1>2. CASE HandleNewAck(ack, mask)
    <2> DEFINE covered == window.base_seq .. ack - 1
               marked == MarkAcked(window, covered)
               w == SetBaseSeq(marked, ack)
               bytes == Credit(window, covered, bytes_acked)
    <2>1. ack > window.base_seq /\ HandleSack(w, ack, mask, bytes, {})
      BY <1>2 DEF HandleNewAck
    <2>2. /\ ack \in Nat /\ ack <= Total + 1 /\ Total \in Nat
          /\ ack \in 1 .. n + 1 /\ window.base_seq \in Nat
      BY <1>1, ConstantTypes DEF Has, Truthful
    <2>3. covered \cap Segments \subseteq R
      BY <1>1, ConstantTypes DEF Has, Truthful
    <2>4. WindowInv(marked, n, R)
      <3> HIDE DEF covered
      <3> QED
        BY <1>1, <2>3, MarkAckedInv
    <2>5. WindowInv(w, n, R)
      <3> HIDE DEF marked
      <3> QED
        BY <1>1, <2>2, <2>4, SetBaseSeqInv
    <2>6. /\ w.base_seq = ack
          /\ w.acked \subseteq window.acked \cup (covered \cap Segments)
      BY <1>1 DEF SetBaseSeq, MarkAcked, WindowState
    <2>7. 1 .. ack - 1 \subseteq (1 .. window.base_seq - 1) \cup (covered \cap Segments)
      BY <2>2 DEF Segments
    <2>8. bytes \in 0 .. MaxBytesAcked
      BY <1>1, CreditType
    <2> HIDE DEF w, covered
    <2>9. Counts(bytes, w)
      <3>1. Acknowledged(w) \subseteq Acknowledged(window) \cup (covered \cap Segments)
        BY <2>6, <2>7 DEF Acknowledged
      <3> QED
        BY <1>1, <2>5, <3>1, CreditCounts DEF WindowInv
    <2> HIDE DEF bytes
    <2> QED
      BY <1>1, <2>1, <2>5, <2>8, <2>9, HandleSackCounts
  <1>3. CASE HandleDuplicateAck(ack, mask)
    <2> DEFINE base == {window.base_seq}
    <2>1. CASE HandleSack(window, ack, mask, bytes_acked, {})
      BY <1>1, <2>1, HandleSackCounts
    <2>2. CASE \E failed \in MayFail(window, base) :
                  HandleSack(Transmit(window, base, failed), ack, mask,
                             bytes_acked, Transmitted(window, base, failed))
      <3>1. PICK failed \in MayFail(window, base) :
                  HandleSack(Transmit(window, base, failed), ack, mask,
                             bytes_acked, Transmitted(window, base, failed))
        BY <2>2
      <3> DEFINE w == Transmit(window, base, failed)
      <3>2. Reached(window, base)
        BY <1>1, <1>3, ConstantTypes
           DEF HandleDuplicateAck, Reached, Inv, ControlInv,
               InFlightOrDone, Segments
      <3> HIDE DEF base
      <3>3. WindowInv(w, n, R) /\ Acknowledged(w) = Acknowledged(window)
        <4>1. WindowInv(w, n, R)
          BY <1>1, <3>2, TransmitWindow
        <4>2. w.acked = window.acked /\ w.base_seq = window.base_seq
          BY <1>1 DEF Transmit, MarkSent, WindowState
        <4> QED
          BY <4>1, <4>2 DEF Acknowledged
      <3>4. Counts(bytes_acked, w)
        BY <3>3 DEF Counts
      <3> HIDE DEF w
      <3> QED
        BY <1>1, <3>1, <3>3, <3>4, HandleSackCounts DEF w
    <2> QED
      BY <1>3, <2>1, <2>2 DEF HandleDuplicateAck
  <1>4. CASE HandleOldAck(ack, mask)
    BY <1>1, <1>4, HandleSackCounts DEF HandleOldAck
  <1> QED
    BY <1>2, <1>3, <1>4

\* The inductive step: nothing but an ACK touches either side.
LEMMA ProgressNotBehind_Step ==
    ASSUME Inv, ProgressNotBehind, [Next]_vars
    PROVE  ProgressNotBehind'
  <1>1. window \in WindowState
    BY DEF Inv, WindowInv
  <1>2. CASE HandleValidAck
    <2>1. PICK m \in net :
              /\ Truthful(m.ack - Isn, m.sack, Len(written), Received)
              /\ \/ HandleNewAck(m.ack - Isn, m.sack)
                 \/ HandleDuplicateAck(m.ack - Isn, m.sack)
                 \/ HandleOldAck(m.ack - Isn, m.sack)
      BY <1>2, HandledAck
    <2>2. Counts(bytes_acked, window) /\ snd_pc = "network"
      BY <1>2 DEF ProgressNotBehind, Counts, Acknowledged, HandleValidAck
    <2>3. Counts(bytes_acked', window')
      BY <2>1, <2>2, AckCasesCount
    <2> QED
      BY <2>3 DEF ProgressNotBehind, Counts, Acknowledged
  <1>3. ASSUME window'.acked = window.acked, window'.base_seq = window.base_seq,
               bytes_acked' = bytes_acked
        PROVE  ProgressNotBehind'
    BY <1>3 DEF ProgressNotBehind
  <1>4. CASE TrySendData
    BY <1>1, <1>3, <1>4 DEF TrySendData, Transmit, MarkSent, WindowState
  <1>5. CASE \E expired \in SUBSET InFlight : HandleTimeouts(expired)
    BY <1>1, <1>3, <1>5 DEF HandleTimeouts, Transmit, MarkSent, WindowState
  <1>6. CASE UNCHANGED <<window, bytes_acked>>
    BY <1>3, <1>6
  <1>7. UNCHANGED <<window, bytes_acked>> \/ HandleValidAck \/ TrySendData
          \/ \E expired \in SUBSET InFlight : HandleTimeouts(expired)
    BY AckValidity
       DEF Next, SenderNext, ReceiverNext, Finished, GiveUp, NoPacket, HandleFinAck,
           HandleInvalidAck, HandleWindowProbe, SendFin, ResendFin, NoFin,
           ReceiveTimeout, ReceiveRst, ReceiveOther, ReceiveData, ReceiveFin,
           ReceiveFinalAck, NextBurst, vars, snd
  <1> QED
    BY <1>2, <1>4, <1>5, <1>6, <1>7

\* Whatever the order in which the ACKs arrive, and whether the number or a mask
\* names a segment first: the progress output counts every segment acknowledged.
THEOREM ProgressKeepsUp == Spec => []ProgressNotBehind
  <1>1. Init => ProgressNotBehind
    <2> SUFFICES ASSUME Init
                 PROVE  ProgressNotBehind
      OBVIOUS
    <2>1. window.acked \cup (1 .. window.base_seq - 1) = {} /\ bytes_acked = 0
      BY DEF Init, NewWindow
    <2>2. Cardinality(window.acked \cup (1 .. window.base_seq - 1)) = 0
      BY <2>1, FS_EmptySet
    <2>3. Smaller(MaxBytesAcked, 0) = 0
      BY DataTransferAssumption DEF Smaller
    <2> QED
      BY <2>1, <2>2, <2>3 DEF ProgressNotBehind
  <1>2. Inv /\ ProgressNotBehind /\ [Next]_vars => ProgressNotBehind'
    BY ProgressNotBehind_Step
  <1> QED
    BY <1>1, <1>2, InvAlways, PTL DEF Spec

\* What handle_ack takes for acknowledged the receiver has, and bytes_acked_ counts,
\* for every file, loss and initial sequence number.
THEOREM AcksTakenRight == Spec => []AckedAndCounted
  <1>1. AckedReceived /\ ProgressNotBehind => AckedAndCounted
    BY DEF AckedAndCounted
  <1> QED
    BY <1>1, AckedIsReceived, ProgressKeepsUp, PTL

-----------------------------------------------------------------------------
(***************************************************************************)
(* The sender goes forward.  What is acknowledged stays so, only what is   *)
(* missing is sent again, and as long as the edge of the window stays the  *)
(* retransmissions are counted towards the limit that ends the connection. *)
(***************************************************************************)

\* Nothing left of the edge is in the window.
SentAhead(w) == \A s \in w.sent : s >= w.base_seq

\* The edge is the first segment that is not acknowledged.
AtEdge(w) == SentAhead(w) /\ w.base_seq \notin w.acked

\* What the step from w to w2 keeps: the acknowledgements and the counts.
GoesOn(w, w2) ==
    /\ w.base_seq <= w2.base_seq
    /\ Acknowledged(w) \subseteq Acknowledged(w2)
    /\ \A s \in Segments : s >= w2.base_seq => w2.retx[s] >= w.retx[s]

\* Of the segments sent again in the step none is acknowledged after it.
OnlyMissing(w, w2) ==
    \A s \in Segments : w2.retx[s] > w.retx[s] => s \notin Acknowledged(w2)

\* transmit_segment, for segments below next_seq.
LEMMA TransmitCounts ==
    ASSUME NEW n, NEW R, NEW w, WindowInv(w, n, R),
           NEW S, Reached(w, S), NEW failed, NEW t, t = Transmit(w, S, failed)
    PROVE  /\ t.base_seq = w.base_seq /\ t.acked = w.acked
           /\ t.sent = w.sent \cup (S \ failed)
           /\ \A s \in Segments : /\ t.retx[s] \in Nat /\ w.retx[s] \in Nat
                                  /\ t.retx[s] >= w.retx[s]
                                  /\ t.retx[s] > w.retx[s] => s \in S
  <1> DEFINE T == S \ failed
  <1>1. Reached(w, T)
    BY DEF Reached
  <1>2. t = MarkSent(w, T)
    BY DEF Transmit
  <1> HIDE DEF T
  <1>3. t.base_seq = w.base_seq /\ t.acked = w.acked /\ t.sent = w.sent \cup T
    BY <1>1, <1>2, MarkSentInv
  <1>4. w.retx \in [Segments -> 0 .. MaxRetransmits + 1] /\ MaxRetransmits \in Nat
    BY ConstantTypes DEF WindowInv, WindowState
  <1>5. t.retx = [s \in Segments |-> IF s \in T \cap w.sent /\ w.retx[s] <= MaxRetransmits
                                     THEN w.retx[s] + 1 ELSE w.retx[s]]
    BY <1>2 DEF MarkSent, WindowInv, WindowState
  <1>6. ASSUME NEW s \in Segments
        PROVE  /\ t.retx[s] \in Nat /\ w.retx[s] \in Nat
               /\ t.retx[s] >= w.retx[s]
               /\ t.retx[s] > w.retx[s] => s \in T
    <2>1. w.retx[s] \in Nat
      BY <1>4
    <2>2. \/ s \in T /\ t.retx[s] = w.retx[s] + 1
          \/ t.retx[s] = w.retx[s]
      BY <1>5
    <2> QED
      BY <2>1, <2>2
  <1> QED
    BY <1>3, <1>6 DEF T

\* advance_base_seq puts the edge where it belongs, and forgets only counts of
\* what it passes.
LEMMA AdvanceGoesOn ==
    ASSUME NEW n, NEW R, Has(n, R), NEW w, WindowInv(w, n, R), SentAhead(w),
           NEW v, v = AdvanceBaseSeq(w)
    PROVE  /\ AtEdge(v) /\ w.base_seq <= v.base_seq
           /\ Acknowledged(v) = Acknowledged(w)
           /\ \A s \in Segments : /\ v.retx[s] \in Nat
                                  /\ s >= v.base_seq => v.retx[s] = w.retx[s]
                                  /\ v.retx[s] <= w.retx[s]
           /\ w.base_seq \notin w.acked => v = w
  <1>1. /\ w.retx \in [Segments -> 0 .. MaxRetransmits + 1] /\ MaxRetransmits \in Nat
        /\ w.base_seq \in Nat /\ Total \in Nat
        /\ w.acked \subseteq Segments /\ w.sent \subseteq Segments
    BY ConstantTypes DEF WindowInv, WindowState
  <1>2. \A s \in Segments : w.retx[s] \in Nat
    BY <1>1
  <1>3. CASE w.base_seq > Total \/ w.base_seq \notin w.acked
    <2>1. v = w
      BY <1>3 DEF AdvanceBaseSeq
    <2>2. w.base_seq \notin w.acked
      BY <1>1, <1>3 DEF Segments
    <2> QED
      BY <1>1, <1>2, <2>1, <2>2 DEF AtEdge
  <1>4. CASE ~(w.base_seq > Total \/ w.base_seq \notin w.acked)
    <2> DEFINE b == FirstUnacked(w)
               passed == w.base_seq .. b - 1
    <2>1. /\ v.base_seq = b /\ v.sent = w.sent \ passed /\ v.acked = w.acked \ passed
          /\ v.retx = [s \in Segments |-> IF s \in passed THEN 0 ELSE w.retx[s]]
      BY <1>4 DEF AdvanceBaseSeq, WindowInv, WindowState
    <2>2. /\ b \in w.base_seq .. Total + 1 /\ b \notin w.acked
          /\ \A s \in passed : s \in w.acked
      BY FirstUnackedIs
    <2> HIDE DEF b
    <2>3. b \in Nat /\ b >= w.base_seq
      BY <1>1, <2>2
    <2>4. AtEdge(v)
      <3>1. ASSUME NEW s \in v.sent
            PROVE  s >= b
        <4>1. s \in w.sent /\ s \in Nat /\ s >= w.base_seq /\ s \notin w.base_seq .. b - 1
          BY <1>1, <2>1, <3>1 DEF SentAhead, Segments
        <4> QED
          BY <1>1, <2>3, <4>1
      <3> QED
        BY <2>1, <2>2, <3>1 DEF AtEdge, SentAhead
    <2>5. Acknowledged(v) = Acknowledged(w)
      <3>1. 1 .. b - 1 = (1 .. w.base_seq - 1) \cup passed
        <4>1. w.base_seq >= 1
          BY DEF WindowInv, WindowState
        <4> QED
          BY <1>1, <2>3, <4>1
      <3> QED
        BY <2>1, <2>2, <3>1 DEF Acknowledged
    <2>6. ASSUME NEW s \in Segments
          PROVE  /\ v.retx[s] \in Nat
                 /\ s >= v.base_seq => v.retx[s] = w.retx[s]
                 /\ v.retx[s] <= w.retx[s]
      <3>1. /\ w.retx[s] \in Nat /\ s \in Nat
            /\ v.retx[s] = IF s \in passed THEN 0 ELSE w.retx[s]
        BY <1>1, <1>2, <2>1 DEF Segments
      <3>2. s >= b => s \notin passed
        BY <1>1, <2>3, <3>1
      <3> HIDE DEF passed
      <3> QED
        BY <2>1, <3>1, <3>2
    <2> QED
      BY <1>4, <2>1, <2>3, <2>4, <2>5, <2>6
  <1> QED
    BY <1>3, <1>4

\* The end of handle_ack: the gaps that are resent are acknowledged by no number
\* and no mask.
LEMMA HandleSackGoesOn ==
    ASSUME NEW n, NEW R, Has(n, R), NEW w, WindowInv(w, n, R), SentAhead(w),
           NEW ack, NEW mask, Truthful(ack, mask, n, R),
           NEW bytes, NEW sofar, HandleSack(w, ack, mask, bytes, sofar)
    PROVE  /\ AtEdge(window') /\ GoesOn(w, window') /\ OnlyMissing(w, window')
           /\ w.base_seq \notin w.acked /\ w.base_seq \notin SackedBy(ack, mask)
                  => w.base_seq \notin Acknowledged(window')
  <1> DEFINE S == SackedBy(ack, mask)
             marked == MarkAcked(w, S)
             gaps == GapSegments(marked, ack, mask)
  <1>1. PICK resent \in SUBSET gaps :
            window' = AdvanceBaseSeq(Transmit(marked, resent, {}))
    BY DEF HandleSack
  <1>2. S \subseteq R
    <2>1. ack \in 0 .. Total + 1
      BY ConstantTypes DEF Has, Truthful
    <2> QED
      BY <2>1, SackedByIsSum DEF Truthful
  <1> HIDE DEF S
  <1>3. /\ WindowInv(marked, n, R) /\ marked.base_seq = w.base_seq
        /\ marked.sent = w.sent /\ marked.retx = w.retx
        /\ marked.acked = w.acked \cup (S \cap Segments)
    BY <1>2, MarkAckedInv DEF MarkAcked, WindowInv, WindowState
  <1>4. \A s \in gaps : s \in w.sent /\ s \notin marked.acked
    BY <1>3 DEF GapSegments
  <1> HIDE DEF marked
  <1>5. Reached(marked, resent)
    BY <1>3, GapsWereSent
  <1> HIDE DEF gaps
  <1> DEFINE t == Transmit(marked, resent, {})
             v == window'
  <1>6. WindowInv(t, n, R)
    BY <1>3, <1>5, TransmitWindow
  <1>7. /\ t.base_seq = w.base_seq /\ t.acked = marked.acked
        /\ t.sent = w.sent \cup resent
        /\ \A s \in Segments : /\ t.retx[s] \in Nat /\ w.retx[s] \in Nat
                               /\ t.retx[s] >= w.retx[s]
                               /\ t.retx[s] > w.retx[s] => s \in resent
    BY <1>3, <1>5, TransmitCounts
  <1> HIDE DEF t
  <1>8. SentAhead(t)
    BY <1>4, <1>7 DEF SentAhead
  <1>9. v = AdvanceBaseSeq(t)
    BY <1>1 DEF t
  <1> HIDE DEF v
  <1>10. /\ AtEdge(v) /\ t.base_seq <= v.base_seq
         /\ Acknowledged(v) = Acknowledged(t)
         /\ \A s \in Segments : /\ v.retx[s] \in Nat
                                /\ s >= v.base_seq => v.retx[s] = t.retx[s]
                                /\ v.retx[s] <= t.retx[s]
         /\ t.base_seq \notin t.acked => v = t
    BY <1>6, <1>8, <1>9, AdvanceGoesOn
  <1>11. w.base_seq \in Nat
    BY ConstantTypes DEF WindowInv, WindowState
  <1>12. Acknowledged(v) = w.acked \cup (S \cap Segments) \cup (1 .. w.base_seq - 1)
    BY <1>3, <1>7, <1>10 DEF Acknowledged
  <1>13. GoesOn(w, v)
    <2>1. Acknowledged(w) \subseteq Acknowledged(v)
      BY <1>12 DEF Acknowledged
    <2>2. \A s \in Segments : s >= v.base_seq => v.retx[s] >= w.retx[s]
      BY <1>7, <1>10
    <2> QED
      BY <1>7, <1>10, <2>1, <2>2 DEF GoesOn
  <1>14. OnlyMissing(w, v)
    <2> SUFFICES ASSUME NEW s \in Segments, v.retx[s] > w.retx[s]
                 PROVE  s \notin Acknowledged(v)
      BY DEF OnlyMissing
    <2>1. t.retx[s] > w.retx[s]
      BY <1>7, <1>10
    <2>2. s \in w.sent /\ s \notin marked.acked
      BY <1>4, <1>7, <2>1
    <2>3. s >= w.base_seq /\ s \in Nat
      BY <2>2 DEF SentAhead, Segments
    <2> QED
      BY <1>3, <1>11, <1>12, <2>2, <2>3
  <1>15. w.base_seq \notin w.acked /\ w.base_seq \notin S
             => w.base_seq \notin Acknowledged(v)
    BY <1>11, <1>12
  <1> QED
    BY <1>10, <1>13, <1>14, <1>15 DEF v, S

\* So do its three cases; one retransmits the edge, which no mask names.
LEMMA AckCasesGoOn ==
    ASSUME Inv, AtEdge(window), snd_pc = "network",
           NEW ack, NEW mask, Truthful(ack, mask, Len(written), Received),
           \/ HandleNewAck(ack, mask)
           \/ HandleDuplicateAck(ack, mask)
           \/ HandleOldAck(ack, mask)
    PROVE  AtEdge(window') /\ GoesOn(window, window') /\ OnlyMissing(window, window')
  <1> DEFINE n == Len(written)
             R == Received
             v == window'
  <1>1. /\ WindowInv(window, n, R) /\ Has(n, R) /\ Truthful(ack, mask, n, R)
        /\ window \in WindowState /\ window.base_seq \in 1 .. Total + 1
    BY ReceiverHas DEF Inv, TypeOK, SenderTypeOK, ReceiverTypeOK, WindowInv, WindowState
  <1>2. WindowInv(v, n, R)
    BY AckCases_Inv
  <1> HIDE DEF n, R, v
  <1>3. \A s \in Segments : v.retx[s] \in Nat /\ window.retx[s] \in Nat
    <2>1. /\ v.retx \in [Segments -> 0 .. MaxRetransmits + 1] /\ MaxRetransmits \in Nat
          /\ window.retx \in [Segments -> 0 .. MaxRetransmits + 1]
      BY <1>1, <1>2, ConstantTypes DEF WindowInv, WindowState
    <2> QED
      BY <2>1
  <1>4. v.base_seq \in Nat /\ window.base_seq \in Nat /\ Total \in Nat
    BY <1>1, <1>2, ConstantTypes DEF WindowInv, WindowState
  <1>5. CASE HandleNewAck(ack, mask)
    <2> DEFINE covered == window.base_seq .. ack - 1
               marked == MarkAcked(window, covered)
               w == SetBaseSeq(marked, ack)
    <2>1. /\ ack > window.base_seq
          /\ HandleSack(w, ack, mask, Credit(window, covered, bytes_acked), {})
      BY <1>5 DEF HandleNewAck
    <2>2. /\ ack \in Nat /\ ack <= Total + 1 /\ ack \in 1 .. n + 1
      BY <1>1, ConstantTypes DEF Has, Truthful
    <2>3. covered \cap Segments \subseteq R
      BY <1>1, ConstantTypes DEF Has, Truthful
    <2>4. WindowInv(marked, n, R) /\ marked.retx = window.retx
          /\ window.acked \subseteq marked.acked
      <3> HIDE DEF covered
      <3> QED
        BY <1>1, <2>3, MarkAckedInv DEF MarkAcked, WindowState
    <2> HIDE DEF marked
    <2>5. WindowInv(w, n, R) /\ w.base_seq = ack
      BY <1>1, <2>2, <2>4, SetBaseSeqInv
    <2>6. /\ w.sent = {s \in marked.sent : s >= ack}
          /\ w.acked = {s \in marked.acked : s >= ack}
          /\ w.retx = [s \in Segments |-> IF s < ack THEN 0 ELSE marked.retx[s]]
      BY <2>4 DEF SetBaseSeq, WindowInv, WindowState
    <2> HIDE DEF w, covered
    <2>7. SentAhead(w)
      BY <2>5, <2>6 DEF SentAhead
    <2>8. AtEdge(v) /\ GoesOn(w, v) /\ OnlyMissing(w, v)
      BY <1>1, <2>1, <2>5, <2>7, HandleSackGoesOn DEF v
    <2>9. Acknowledged(window) \subseteq Acknowledged(w)
      <3>1. ASSUME NEW s \in window.acked
            PROVE  s \in Acknowledged(w)
        <4>1. s \in Nat /\ s >= 1
          BY <1>1 DEF WindowState, Segments
        <4> QED
          BY <2>2, <2>4, <2>5, <2>6, <4>1 DEF Acknowledged
      <3>2. 1 .. window.base_seq - 1 \subseteq 1 .. ack - 1
        BY <1>4, <2>1, <2>2
      <3> QED
        BY <2>5, <3>1, <3>2 DEF Acknowledged
    <2>10. ASSUME NEW s \in Segments
           PROVE  /\ w.retx[s] \in Nat /\ w.retx[s] <= window.retx[s]
                  /\ s >= ack => w.retx[s] = window.retx[s]
      <3>1. /\ w.retx[s] = IF s < ack THEN 0 ELSE window.retx[s]
            /\ window.retx[s] \in Nat /\ s \in Nat
        BY <1>3, <2>4, <2>6 DEF Segments
      <3> QED
        BY <2>2, <3>1
    <2>11. GoesOn(window, v)
      <3>1. ack <= v.base_seq /\ Acknowledged(window) \subseteq Acknowledged(v)
        BY <2>5, <2>8, <2>9 DEF GoesOn
      <3>2. ASSUME NEW s \in Segments, s >= v.base_seq
            PROVE  v.retx[s] >= window.retx[s]
        <4>1. s >= ack
          BY <1>4, <2>2, <3>1, <3>2 DEF Segments
        <4>2. v.retx[s] >= w.retx[s]
          BY <2>8, <3>2 DEF GoesOn
        <4> QED
          BY <2>10, <4>1, <4>2
      <3>3. window.base_seq <= v.base_seq
        BY <1>4, <2>1, <2>2, <3>1
      <3> QED
        BY <3>1, <3>2, <3>3 DEF GoesOn
    <2>12. OnlyMissing(window, v)
      BY <1>3, <2>8, <2>10 DEF OnlyMissing
    <2> QED
      BY <2>8, <2>11, <2>12 DEF v
  <1>6. CASE HandleDuplicateAck(ack, mask)
    <2> DEFINE base == {window.base_seq}
    <2>1. CASE HandleSack(window, ack, mask, bytes_acked, {})
      BY <1>1, <2>1, HandleSackGoesOn DEF AtEdge
    <2>2. CASE \E failed \in MayFail(window, base) :
                  HandleSack(Transmit(window, base, failed), ack, mask,
                             bytes_acked, Transmitted(window, base, failed))
      <3>1. PICK failed \in MayFail(window, base) :
                  HandleSack(Transmit(window, base, failed), ack, mask,
                             bytes_acked, Transmitted(window, base, failed))
        BY <2>2
      <3> DEFINE w == Transmit(window, base, failed)
      <3>2. Reached(window, base)
        BY <1>1, <1>6, ConstantTypes
           DEF HandleDuplicateAck, Reached, Inv, ControlInv,
               InFlightOrDone, Segments
      <3>3. WindowInv(w, n, R)
        <4> HIDE DEF base
        <4> QED
          BY <1>1, <3>2, TransmitWindow
      <3>4. /\ w.base_seq = window.base_seq /\ w.acked = window.acked
            /\ w.sent \subseteq window.sent \cup base
            /\ \A s \in Segments : /\ w.retx[s] \in Nat
                                   /\ w.retx[s] >= window.retx[s]
                                   /\ w.retx[s] > window.retx[s] => s \in base
        <4> HIDE DEF base
        <4> QED
          BY <1>1, <3>2, TransmitCounts
      <3> HIDE DEF w
      <3>5. SentAhead(w)
        BY <1>4, <3>4 DEF AtEdge, SentAhead
      <3>6. /\ AtEdge(v) /\ GoesOn(w, v) /\ OnlyMissing(w, v)
            /\ w.base_seq \notin w.acked /\ w.base_seq \notin SackedBy(ack, mask)
                   => w.base_seq \notin Acknowledged(v)
        BY <1>1, <3>1, <3>3, <3>5, HandleSackGoesOn DEF v, w
      <3>7. window.base_seq \notin SackedBy(ack, mask)
        <4>1. ack = window.base_seq /\ mask \in SUBSET (0 .. SackBits - 1)
          BY <1>1, <1>6 DEF HandleDuplicateAck, Truthful
        <4>2. SackedBy(ack, mask) = {ack + 1 + i : i \in mask}
          BY <1>1, <4>1, SackedByIsSum
        <4> QED
          BY <1>4, <4>1, <4>2
      <3>8. window.base_seq \notin Acknowledged(v)
        BY <3>4, <3>6, <3>7 DEF AtEdge
      <3>9. GoesOn(window, v)
        <4>1. Acknowledged(w) = Acknowledged(window)
          BY <3>4 DEF Acknowledged
        <4>2. \A s \in Segments : s >= v.base_seq => v.retx[s] >= window.retx[s]
          BY <1>3, <3>4, <3>6 DEF GoesOn
        <4> QED
          BY <3>4, <3>6, <4>1, <4>2 DEF GoesOn
      <3>10. OnlyMissing(window, v)
        <4> SUFFICES ASSUME NEW s \in Segments, v.retx[s] > window.retx[s]
                     PROVE  s \notin Acknowledged(v)
          BY DEF OnlyMissing
        <4>1. CASE s = window.base_seq
          BY <3>8, <4>1
        <4>2. CASE s # window.base_seq
          <5>1. w.retx[s] = window.retx[s]
            BY <1>3, <3>4, <4>2
          <5> QED
            BY <3>6, <5>1 DEF OnlyMissing
        <4> QED
          BY <4>1, <4>2
      <3> QED
        BY <3>6, <3>9, <3>10 DEF v
    <2> QED
      BY <1>6, <2>1, <2>2 DEF HandleDuplicateAck
  <1>7. CASE HandleOldAck(ack, mask)
    BY <1>1, <1>7, HandleSackGoesOn DEF HandleOldAck, AtEdge
  <1> QED
    BY <1>5, <1>6, <1>7

\* A step that sends the segments of S (again), all of the window, and touches no
\* acknowledgement.
LEMMA TransmitGoesOn ==
    ASSUME Inv, Inv', AtEdge(window),
           window'.base_seq = window.base_seq, window'.acked = window.acked,
           \A s \in window'.sent : s >= window.base_seq,
           \A s \in Segments :
               /\ window'.retx[s] >= window.retx[s]
               /\ window'.retx[s] > window.retx[s] => s \in InFlight
    PROVE  AtEdge(window') /\ GoesOn(window, window') /\ OnlyMissing(window, window')
  <1>1. window.base_seq \in Nat
    BY DEF Inv, WindowInv, WindowState
  <1>2. Acknowledged(window') = Acknowledged(window)
    BY DEF Acknowledged
  <1>3. ASSUME NEW s \in InFlight
        PROVE  s \notin Acknowledged(window)
    <2>1. s >= window.base_seq /\ s \notin window.acked
      BY DEF InFlight
    <2> QED
      BY <1>1, <2>1 DEF Acknowledged
  <1> QED
    BY <1>1, <1>2, <1>3 DEF AtEdge, SentAhead, GoesOn, OnlyMissing

LEMMA GoesOn_Step ==
    ASSUME Inv, Inv', AtEdge(window), [Next]_vars
    PROVE  /\ AtEdge(window') /\ GoesOn(window, window') /\ OnlyMissing(window, window')
           /\ window.next_seq <= window'.next_seq
  <1> DEFINE Goal == /\ AtEdge(window') /\ GoesOn(window, window')
                     /\ OnlyMissing(window, window')
                     /\ window.next_seq <= window'.next_seq
  <1>1. /\ window \in WindowState /\ window' \in WindowState
        /\ WindowInv(window, Len(written), Received)
        /\ window.base_seq \in Nat /\ window.next_seq \in Nat
        /\ window.base_seq <= window.next_seq
        /\ window.sent \subseteq Nat
    <2>1. WindowInv(window, Len(written), Received) /\ window' \in WindowState
      BY DEF Inv, TypeOK, SenderTypeOK
    <2>2. window \in WindowState /\ window.base_seq <= window.next_seq
      BY <2>1 DEF WindowInv
    <2> QED
      BY <2>1, <2>2 DEF WindowState, Segments
  <1>2. \A s \in Segments : window.retx[s] \in Nat
    <2>1. window.retx \in [Segments -> 0 .. MaxRetransmits + 1] /\ MaxRetransmits \in Nat
      BY <1>1, ConstantTypes DEF WindowState
    <2> QED
      BY <2>1
  <1>3. CASE HandleValidAck
    <2>1. PICK m \in net :
              /\ Truthful(m.ack - Isn, m.sack, Len(written), Received)
              /\ \/ HandleNewAck(m.ack - Isn, m.sack)
                 \/ HandleDuplicateAck(m.ack - Isn, m.sack)
                 \/ HandleOldAck(m.ack - Isn, m.sack)
      BY <1>3, HandledAck
    <2>2. snd_pc = "network"
      BY <1>3 DEF HandleValidAck
    <2>3. window'.next_seq = window.next_seq
      BY <2>1, <2>2, AckCases_Inv
    <2> QED
      BY <1>1, <2>1, <2>2, <2>3, AckCasesGoOn
  <1>4. CASE TrySendData
    <2>1. PICK stop \in window.next_seq .. SendLimit :
              /\ (window.next_seq .. stop - 1) \cap window.sent = {}
              /\ \E failed \in MayFail(window, window.next_seq .. stop - 1) :
                     window' = [Transmit(window, window.next_seq .. stop - 1, failed)
                                  EXCEPT !.next_seq = stop]
      BY <1>4 DEF TrySendData
    <2> DEFINE new == window.next_seq .. stop - 1
    <2>2. PICK failed \in MayFail(window, new) :
              window' = [Transmit(window, new, failed) EXCEPT !.next_seq = stop]
      BY <2>1
    <2>3. new \cap window.sent = {} /\ \A s \in new : s >= window.base_seq
      BY <1>1, <2>1
    <2>4. stop >= window.next_seq
      BY <1>1, <2>1, SendLimitBounds, ConstantTypes
    <2> HIDE DEF new
    <2>5. /\ window'.base_seq = window.base_seq /\ window'.acked = window.acked
          /\ window'.next_seq = stop
          /\ window'.sent \subseteq window.sent \cup new
          /\ window'.retx = [s \in Segments |->
                                IF /\ s \in (new \ failed) \cap window.sent
                                   /\ window.retx[s] <= MaxRetransmits
                                THEN window.retx[s] + 1 ELSE window.retx[s]]
      BY <1>1, <2>2 DEF Transmit, MarkSent, WindowState
    <2>6. \A s \in Segments : window'.retx[s] = window.retx[s]
      BY <2>3, <2>5
    <2>7. /\ \A s \in Segments : /\ window'.retx[s] >= window.retx[s]
                                 /\ ~ (window'.retx[s] > window.retx[s])
          /\ \A s \in window'.sent : s >= window.base_seq
      BY <1>2, <2>3, <2>5, <2>6 DEF AtEdge, SentAhead
    <2> QED
      BY <1>1, <2>4, <2>5, <2>7, TransmitGoesOn
  <1>5. CASE \E expired \in SUBSET InFlight : HandleTimeouts(expired)
    <2>1. PICK expired \in SUBSET InFlight : window' = Transmit(window, expired, {})
      BY <1>5 DEF HandleTimeouts
    <2>2. Reached(window, expired)
      BY <1>1 DEF InFlight, Reached, WindowState
    <2>3. /\ window'.base_seq = window.base_seq /\ window'.acked = window.acked
          /\ window'.next_seq = window.next_seq
          /\ window'.sent = window.sent \cup (expired \ {})
          /\ \A s \in Segments :
                 /\ window'.retx[s] >= window.retx[s]
                 /\ window'.retx[s] > window.retx[s] => s \in InFlight
      BY <1>1, <2>1, <2>2, TransmitCounts, TransmitWindow
    <2>4. \A s \in window'.sent : s >= window.base_seq
      BY <2>1, <2>3 DEF InFlight, AtEdge, SentAhead
    <2> QED
      BY <1>1, <2>3, <2>4, TransmitGoesOn
  <1>6. CASE UNCHANGED window
    <2>1. \A s \in Segments : /\ window'.retx[s] >= window.retx[s]
                              /\ ~ (window'.retx[s] > window.retx[s])
      BY <1>2, <1>6
    <2> QED
      BY <1>1, <1>6, <2>1 DEF AtEdge, SentAhead, GoesOn, OnlyMissing, Acknowledged
  <1>7. UNCHANGED window \/ HandleValidAck \/ TrySendData
          \/ \E expired \in SUBSET InFlight : HandleTimeouts(expired)
    BY AckValidity
       DEF Next, SenderNext, ReceiverNext, Finished, GiveUp, NoPacket, HandleFinAck,
           HandleInvalidAck, HandleWindowProbe, SendFin, ResendFin, NoFin,
           ReceiveTimeout, ReceiveRst, ReceiveOther, ReceiveData, ReceiveFin,
           ReceiveFinalAck, NextBurst, vars, snd
  <1> QED
    BY <1>3, <1>4, <1>5, <1>6, <1>7

\* The edge of the sender's window is always the first segment it does not know to
\* be received, and it remembers none that lies before it (advance_base_seq, at the
\* end of every handle_ack).
THEOREM WindowAtEdge == Spec => []AtEdge(window)
  <1>1. Init => AtEdge(window)
    BY DEF Init, NewWindow, AtEdge, SentAhead
  <1>2. Inv /\ Inv' /\ AtEdge(window) /\ [Next]_vars => AtEdge(window)'
    BY GoesOn_Step DEF AtEdge, SentAhead
  <1> QED
    BY <1>1, <1>2, InvAlways, PTL DEF Spec

\* Every data segment the receiver has, it keeps: written, or in its buffer.
LEMMA ReceivedGrows ==
    ASSUME Inv, [Next]_vars
    PROVE  Received \subseteq Received'
  <1>1. CASE ReceiveData
    <2>1. PICK m \in net : m.type = "DATA" /\ (RefuseData(m.seq) \/ AcceptData(m.seq, m.data))
      BY <1>1 DEF ReceiveData
    <2>2. CASE RefuseData(m.seq)
      BY <2>2 DEF RefuseData, Received
    <2>3. CASE AcceptData(m.seq, m.data)
      <3>1. PICK s \in Segments : m.seq = Abs(s) /\ m.data = File[s]
        BY <2>1, DataOnTheNetwork
      <3>2. rcv_pc' = "recv" /\ timeouts' = 0
        BY <1>1 DEF ReceiveData
      <3> QED
        BY <2>3, <3>1, <3>2, AcceptData_Receiver
    <2> QED
      BY <2>1, <2>2, <2>3
  <1>2. CASE UNCHANGED <<written, buffer>>
    BY <1>2 DEF Received
  <1>3. ReceiveData \/ UNCHANGED <<written, buffer>>
    BY AckValidity
       DEF Next, SenderNext, ReceiverNext, Finished, GiveUp, TrySendData, NoPacket,
           HandleFinAck, HandleInvalidAck, HandleValidAck, HandleTimeouts,
           HandleWindowProbe, SendFin, ResendFin, NoFin,
           HandleNewAck, HandleDuplicateAck, HandleOldAck, HandleSack,
           ReceiveTimeout, ReceiveRst, ReceiveOther, ReceiveFin,
           ReceiveFinalAck, NextBurst, vars, snd, rcv
  <1> QED
    BY <1>1, <1>2, <1>3

\* Neither side goes back: no ACK, however old, takes back what an earlier one said
\* or moves an edge of the window to the left (handle_ack, set_base_seq,
\* advance_base_seq), and the receiver keeps what it has acknowledged (the SACK bits
\* are promises, process_data_packet).
NothingForgotten ==
    [][/\ Acknowledged(window) \subseteq Acknowledged(window)'
       /\ window.base_seq <= window'.base_seq /\ window.next_seq <= window'.next_seq
       /\ Received \subseteq Received']_vars

\* Neither side goes back, for every file and in whatever order ACKs arrive.
THEOREM NeverForgets == Spec => NothingForgotten
  <1>1. Inv /\ Inv' /\ AtEdge(window) /\ [Next]_vars
        => [/\ Acknowledged(window) \subseteq Acknowledged(window)'
            /\ window.base_seq <= window'.base_seq /\ window.next_seq <= window'.next_seq
            /\ Received \subseteq Received']_vars
    BY GoesOn_Step, ReceivedGrows DEF GoesOn, Acknowledged
  <1> QED
    BY <1>1, InvAlways, WindowAtEdge, PTL DEF Spec, NothingForgotten

\* A segment is sent again only when neither a number nor a mask has acknowledged it,
\* not even the ACK that makes the sender send it (the gaps of handle_sack, the fast
\* retransmit of handle_duplicate_ack, handle_timeouts).
RetransmitsOnlyMissing ==
    [][\A s \in Segments :
           window'.retx[s] > window.retx[s] => s \notin Acknowledged(window)']_vars

\* Only what is missing is sent again, for every loss and order of the ACKs.
THEOREM ResendsOnlyMissing == Spec => RetransmitsOnlyMissing
  <1>1. Inv /\ Inv' /\ AtEdge(window) /\ [Next]_vars
        => [\A s \in Segments :
                window'.retx[s] > window.retx[s] => s \notin Acknowledged(window)']_vars
    BY GoesOn_Step DEF OnlyMissing, Acknowledged
  <1> QED
    BY <1>1, InvAlways, WindowAtEdge, PTL DEF Spec, RetransmitsOnlyMissing

\* When the timer of the edge runs out its count grows, or the limit is reached and
\* the receiver is told.
LEMMA BaseCounts ==
    ASSUME Inv, BaseExpires
    PROVE  \/ RstPacket \in net'
           \/ /\ window'.base_seq = window.base_seq
              /\ window'.retx[window.base_seq] > window.retx[window.base_seq]
  <1>1. PICK expired \in SUBSET InFlight :
            window.base_seq \in expired /\ HandleTimeouts(expired)
    BY DEF BaseExpires
  <1> DEFINE b == window.base_seq
  <1>2. /\ b \in expired /\ b \in window.sent /\ b \in Segments
        /\ window.retx[b] \in Nat /\ MaxRetransmits \in Nat
        /\ window' = Transmit(window, expired, {})
        /\ net' = net \cup Transmitted(window, expired, {})
    <2>1. /\ window.retx \in [Segments -> 0 .. MaxRetransmits + 1]
          /\ window.sent \subseteq Segments /\ MaxRetransmits \in Nat
      BY ConstantTypes DEF Inv, WindowInv, WindowState
    <2>2. b \in window.sent
      BY <1>1 DEF InFlight
    <2> QED
      BY <1>1, <2>1, <2>2 DEF HandleTimeouts
  <1>3. CASE window.retx[b] >= MaxRetransmits
    BY <1>2, <1>3 DEF Transmitted
  <1>4. CASE ~ (window.retx[b] >= MaxRetransmits)
    <2>1. /\ window'.base_seq = window.base_seq
          /\ window'.retx = [s \in Segments |->
                                IF /\ s \in (expired \ {}) \cap window.sent
                                   /\ window.retx[s] <= MaxRetransmits
                                THEN window.retx[s] + 1 ELSE window.retx[s]]
      BY <1>2 DEF Transmit, MarkSent, Inv, WindowInv, WindowState
    <2>2. window'.retx[b] = window.retx[b] + 1
      BY <1>2, <1>4, <2>1
    <2> QED
      BY <1>2, <2>1, <2>2
  <1> QED
    BY <1>3, <1>4

\* Why the sender does not hang (EndsOrResets): the pair of the edge of the window
\* and the number of times the segment there was sent again never goes back, and a
\* timeout of that segment takes it forward, until the limit of retransmissions
\* sends a RST.  What an ACK erases are counts of segments the edge has passed.
EdgeKeepsCounting ==
    [][/\ window.base_seq <= window'.base_seq
       /\ \A s \in Segments :
              s >= window'.base_seq => window'.retx[s] >= window.retx[s]
       /\ BaseExpires =>
              \/ RstPacket \in net'
              \/ /\ window'.base_seq = window.base_seq
                 /\ window'.retx[window.base_seq] > window.retx[window.base_seq]]_vars

\* The retransmissions of the segment at the edge are counted up to the limit.
THEOREM TimeoutsAddUp == Spec => EdgeKeepsCounting
  <1>1. Inv /\ Inv' /\ AtEdge(window) /\ [Next]_vars
        => [/\ window.base_seq <= window'.base_seq
            /\ \A s \in Segments :
                   s >= window'.base_seq => window'.retx[s] >= window.retx[s]
            /\ BaseExpires =>
                   \/ RstPacket \in net'
                   \/ /\ window'.base_seq = window.base_seq
                      /\ window'.retx[window.base_seq]
                             > window.retx[window.base_seq]]_vars
    BY GoesOn_Step, BaseCounts DEF GoesOn
  <1> QED
    BY <1>1, InvAlways, WindowAtEdge, PTL DEF Spec, EdgeKeepsCounting

=============================================================================
