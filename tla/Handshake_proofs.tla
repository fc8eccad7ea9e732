--------------------------- MODULE Handshake_proofs ---------------------------
(***************************************************************************)
(* Proofs about Handshake, for any number of runs of the sender, of        *)
(* endpoints, ISNs and attempts.                                           *)
(***************************************************************************)
EXTENDS Handshake, TLAPS

(***************************************************************************)
(* The inductive invariant: what each packet proves about its sender.      *)
(***************************************************************************)

\* The ISNs the receiver has given to one client are different.
RoundsDiffer ==
    \A r1, r2 \in rounds :
        r1.client = r2.client /\ r1.isn = r2.isn => r1 = r2

\* A SYN+ACK belongs to a round.
SynAckInv ==
    \A m \in net : m.type = "SYNACK" =>
        \E r \in rounds :
            r.client = m.to /\ r.isn = m.seq /\ Plus(r.peer_isn, 1) = m.ack

\* What a sender has completed is a round.
SenderInv ==
    \A s \in Senders : conn[s].peer_isn # None =>
        Round(Endpoint[s], SndIsn[s], conn[s].peer_isn) \in rounds

\* The number of an ACK is that of a probe or a final ACK, or the successor of an ISN with
\* which a sender has completed its round.
Acknowledges(s, m) ==
    \/ m.ack = Plus(conn[s].peer_isn, 1)
    \/ m.ack \in OtherNumbers(m.from)

AckInv ==
    \A m \in net : m.type = "ACK" =>
        \E s \in Senders :
            Endpoint[s] = m.from /\ conn[s].peer_isn # None /\ Acknowledges(s, m)

\* DATA is that of a sender which has completed some round.
DataInv ==
    \A m \in net : m.type = "DATA" =>
        \E s \in Senders : Endpoint[s] = m.from /\ conn[s].peer_isn # None

\* A sender that is established has completed a round, one in the handshake has not.
EstablishedInv ==
    \A s \in Senders :
        /\ conn[s].pc = "established" => conn[s].peer_isn # None
        /\ conn[s].pc \in {"idle", "handshake"} => conn[s].peer_isn = None

\* The receiver's round, and what completed it.
ListenerInv ==
    /\ listener.pc \in {"syn_received", "established"} \/ listener.by # "none" =>
           Round(listener.client, listener.peer_isn, listener.isn) \in rounds
    /\ listener.by # "none" => listener.pc \in {"established", "returned"}
    /\ listener.by = "ACK" =>
           \/ Plus(listener.isn, 1) \in OtherNumbers(listener.client)
           \/ \E s \in Senders : /\ Endpoint[s] = listener.client
                                 /\ conn[s].peer_isn = listener.isn
    /\ listener.pc = "established" =>
           \E s \in Senders : /\ Endpoint[s] = listener.client
                              /\ conn[s].peer_isn # None

HInv ==
    /\ TypeOK /\ RoundsDiffer /\ SynAckInv /\ SenderInv /\ AckInv /\ DataInv
    /\ EstablishedInv /\ ListenerInv

-----------------------------------------------------------------------------
(***************************************************************************)
(* Numbers, and the types of the packets.                                  *)
(***************************************************************************)
LEMMA PlusNumber == \A n, k \in Nat : Plus(n, k) \in Numbers
  BY HandshakeAssumption DEF Plus, Numbers

\* Different ISNs have different successors.
LEMMA SuccessorsDiffer ==
    ASSUME NEW a \in Isns, NEW b \in Isns, Plus(a, 1) = Plus(b, 1)
    PROVE  a = b
<1>1. a \in 0 .. SeqMod - 1 /\ b \in 0 .. SeqMod - 1 /\ SeqMod \in Nat \ {0}
  BY HandshakeAssumption
<1>2. \A n \in 0 .. SeqMod - 1 :
          Plus(n, 1) = IF n = SeqMod - 1 THEN 0 ELSE n + 1
  BY <1>1 DEF Plus
<1> QED
  BY <1>1, <1>2

LEMMA FinalNumbers ==
    \A s \in Senders : /\ FinalNumber(s) \in Numbers
                       /\ FinalNumber(s) \in OtherNumbers(Endpoint[s])
<1> SUFFICES ASSUME NEW s \in Senders
             PROVE  /\ FinalNumber(s) \in Numbers
                    /\ FinalNumber(s) \in OtherNumbers(Endpoint[s])
  OBVIOUS
<1>1. SndIsn[s] \in Nat /\ Total[s] + 2 \in Nat
  <2>1. SndIsn[s] \in Isns /\ Total[s] \in Nat
    BY HandshakeAssumption
  <2>2. Isns \subseteq Nat
    BY HandshakeAssumption
  <2>3. SndIsn[s] \in Nat
    BY <2>1, <2>2
  <2>4. \A n \in Nat : n + 2 \in Nat
    OBVIOUS
  <2> QED
    BY <2>1, <2>3, <2>4
<1>2. FinalNumber(s) \in Numbers
  BY <1>1, PlusNumber DEF FinalNumber
<1>3. FinalNumber(s) \in OtherNumbers(Endpoint[s])
  BY DEF OtherNumbers
<1> QED
  BY <1>2, <1>3

LEMMA IsnNumbers ==
    \A a \in Isns : Plus(a, 1) \in Numbers
  BY HandshakeAssumption, PlusNumber

LEMMA PacketTypes ==
    /\ \A s \in Senders : /\ Syn(s) \in Packets /\ Syn(s).type = "SYN"
                          /\ Data(s) \in Packets /\ Data(s).type = "DATA"
                          /\ Data(s).from = Endpoint[s]
                          /\ Fin(s) \in Packets /\ Fin(s).type = "FIN"
                          /\ Rst(s) \in Packets /\ Rst(s).type = "RST"
    /\ \A s \in Senders, a \in Numbers :
           /\ Ack(s, a) \in Packets /\ Ack(s, a).type = "ACK"
           /\ Ack(s, a).from = Endpoint[s] /\ Ack(s, a).ack = a
    /\ \A c \in Endpoints, q \in Isns, a \in Numbers :
           /\ SynAck(c, q, a) \in Packets /\ SynAck(c, q, a).type = "SYNACK"
           /\ SynAck(c, q, a).to = c /\ SynAck(c, q, a).seq = q
           /\ SynAck(c, q, a).ack = a
    /\ \A c \in Endpoints : /\ Reset(c) \in Packets /\ Reset(c).type = "RESET"
                            /\ FinAck(c) \in Packets /\ FinAck(c).type = "FINACK"
  BY HandshakeAssumption
  DEF Packets, Endpoints, Syn, Data, Fin, Rst, Ack, SynAck, Reset, FinAck

\* The fields of a packet, by its type.
LEMMA PacketFields ==
    ASSUME NEW m \in Packets
    PROVE  /\ m.type = "SYN" => m.from \in Endpoints /\ m.seq \in Isns
           /\ m.type = "SYNACK" =>
                  m.to \in Endpoints /\ m.seq \in Isns /\ m.ack \in Numbers
           /\ m.type = "ACK" => m.from \in Endpoints /\ m.ack \in Numbers
  BY DEF Packets

-----------------------------------------------------------------------------
(***************************************************************************)
(* The steps.  A step of a sender that completes nothing leaves peer_isn   *)
(* and the rounds alone, and adds only packets that claim nothing, or, of  *)
(* an established sender, DATA, probes and the final ACK.                  *)
(***************************************************************************)
\* A packet of the transfer of s, or of its end.
Later(s, m) ==
    /\ conn[s].pc = "established"
    /\ \/ m = Data(s)
       \/ \E a \in Numbers \cap OtherNumbers(Endpoint[s]) : m = Ack(s, a)

LEMMA QuietSender ==
    ASSUME HInv, TypeOK', UNCHANGED <<listener, rounds>>,
           \A s \in Senders : conn'[s].peer_isn = conn[s].peer_isn,
           EstablishedInv',
           \A m \in net' : \/ m \in net
                           \/ m.type \notin {"SYNACK", "ACK", "DATA"}
                           \/ \E s \in Senders : Later(s, m)
    PROVE  HInv'
<1>1. RoundsDiffer'
  BY DEF HInv, RoundsDiffer
<1>2. SynAckInv'
  BY PacketTypes DEF HInv, SynAckInv, Later
<1>3. SenderInv'
  BY DEF HInv, SenderInv
<1>4. AckInv'
  <2> SUFFICES ASSUME NEW m \in net', m.type = "ACK"
               PROVE  \E s \in Senders : /\ Endpoint[s] = m.from /\ conn[s].peer_isn # None
                                         /\ Acknowledges(s, m)
    BY DEF AckInv, Acknowledges
  <2>1. CASE m \in net
    BY <2>1 DEF HInv, AckInv
  <2>2. CASE \E s \in Senders : Later(s, m)
    <3>1. PICK s \in Senders : Later(s, m)
      BY <2>2
    <3>2. PICK a \in Numbers \cap OtherNumbers(Endpoint[s]) : m = Ack(s, a)
      BY <3>1, PacketTypes DEF Later
    <3>3. m.from = Endpoint[s] /\ m.ack \in OtherNumbers(m.from)
      BY <3>2, PacketTypes
    <3>4. conn[s].peer_isn # None
      BY <3>1 DEF Later, HInv, EstablishedInv
    <3> QED
      BY <3>3, <3>4 DEF Acknowledges
  <2> QED
    BY <2>1, <2>2
<1>5. DataInv'
  <2> SUFFICES ASSUME NEW m \in net', m.type = "DATA"
               PROVE  \E s \in Senders : Endpoint[s] = m.from /\ conn[s].peer_isn # None
    BY DEF DataInv
  <2>1. CASE m \in net
    BY <2>1 DEF HInv, DataInv
  <2>2. CASE \E s \in Senders : Later(s, m)
    BY <2>2, PacketTypes DEF HInv, EstablishedInv, Later
  <2> QED
    BY <2>1, <2>2
<1>6. ListenerInv'
  BY DEF HInv, ListenerInv
<1> QED
  BY <1>1, <1>2, <1>3, <1>4, <1>5, <1>6 DEF HInv

LEMMA QuietSenderStep ==
    ASSUME HInv, NEW s \in Senders,
           \/ Start(s) \/ Retry(s) \/ ReceiveReset(s) \/ SendData(s) \/ SendProbe(s)
           \/ SendFin(s) \/ ReceiveFinAck(s) \/ SendRst(s) \/ Leave(s)
    PROVE  HInv'
<1> USE HandshakeAssumption
<1> Endpoint[s] \in Endpoints
  BY DEF Endpoints
<1>1. conn' \in [Senders -> [pc : {"idle", "handshake", "established", "returned"},
                             attempt : 0 .. MaxHandshakeRetries,
                             peer_isn : Isns \cup {None}]]
  BY DEF HInv, TypeOK, Start, Retry, ReceiveReset, SendData, SendProbe, SendFin,
     ReceiveFinAck, SendRst, Leave
<1>2. UNCHANGED <<listener, rounds>>
  BY DEF Start, Retry, ReceiveReset, SendData, SendProbe, SendFin, ReceiveFinAck,
     SendRst, Leave
<1>3. \/ net' = net \/ net' = net \cup {Syn(s)} \/ net' = net \cup {Rst(s)}
      \/ net' = net \cup {Fin(s)}
      \/ /\ conn[s].pc = "established"
         /\ \/ net' = net \cup {Data(s)}
            \/ net' = net \cup {Ack(s, 0)} /\ RcvWindow = 0
            \/ net' = net \cup {Ack(s, FinalNumber(s))}
  BY DEF Start, Retry, ReceiveReset, SendData, SendProbe, SendFin, ReceiveFinAck,
     SendRst, Leave
<1>9. /\ RcvWindow = 0 => 0 \in Numbers \cap OtherNumbers(Endpoint[s])
      /\ FinalNumber(s) \in Numbers \cap OtherNumbers(Endpoint[s])
      /\ 0 \in Numbers
  BY FinalNumbers DEF OtherNumbers, Numbers
<1>4. TypeOK'
  <2>1. net' \subseteq Packets
    BY <1>3, <1>9, PacketTypes DEF HInv, TypeOK
  <2> QED
    BY <1>1, <1>2, <2>1 DEF HInv, TypeOK
<1>5. \A t \in Senders : conn'[t].peer_isn = conn[t].peer_isn
  BY DEF HInv, TypeOK, Start, Retry, ReceiveReset, SendData, SendProbe, SendFin,
     ReceiveFinAck, SendRst, Leave
<1>6. \A t \in Senders :
         \/ conn'[t].pc = conn[t].pc
         \/ conn'[t].pc = "handshake" /\ conn[t].pc = "idle"
         \/ conn'[t].pc = "returned"
  BY DEF HInv, TypeOK, Start, Retry, ReceiveReset, SendData, SendProbe, SendFin,
     ReceiveFinAck, SendRst, Leave
<1>7. EstablishedInv'
  BY <1>5, <1>6 DEF HInv, EstablishedInv
<1>8. \A m \in net' : \/ m \in net
                      \/ m.type \notin {"SYNACK", "ACK", "DATA"}
                      \/ \E t \in Senders : Later(t, m)
  BY <1>3, <1>9, PacketTypes DEF Later
<1> QED
  BY <1>2, <1>4, <1>5, <1>7, <1>8, QuietSender

\* The sender completes the round whose SYN+ACK it takes, and its ACK says so.
LEMMA ReceiveSynAckStep ==
    ASSUME HInv, NEW s \in Senders, ReceiveSynAck(s)
    PROVE  HInv'
<1> USE HandshakeAssumption
<1> Endpoint[s] \in Endpoints
  BY DEF Endpoints
<1>0. PICK m \in net :
        /\ m.type = "SYNACK" /\ m.to = Endpoint[s] /\ m.ack = Plus(SndIsn[s], 1)
        /\ conn' = [conn EXCEPT ![s].pc = "established", ![s].attempt = 0,
                                ![s].peer_isn = m.seq]
        /\ net' = net \cup {Ack(s, Plus(m.seq, 1))}
  BY DEF ReceiveSynAck
<1>1. conn[s].pc = "handshake" /\ UNCHANGED <<listener, rounds>>
  BY DEF ReceiveSynAck
<1>2. conn[s].peer_isn = None
  BY <1>1 DEF HInv, EstablishedInv
<1>3. m \in Packets /\ m.seq \in Isns /\ m.seq # None /\ Plus(m.seq, 1) \in Numbers
  BY <1>0, PacketFields, IsnNumbers DEF HInv, TypeOK
<1>4. /\ conn'[s].peer_isn = m.seq /\ conn'[s].pc = "established"
      /\ \A t \in Senders \ {s} : conn'[t] = conn[t]
  BY <1>0 DEF HInv, TypeOK
<1>5. \A t \in Senders : conn[t].peer_isn # None => conn'[t].peer_isn = conn[t].peer_isn
  BY <1>2, <1>4
<1>6. TypeOK'
  <2>1. net' \subseteq Packets
    BY <1>0, <1>3, PacketTypes DEF HInv, TypeOK
  <2>2. conn' \in [Senders -> [pc : {"idle", "handshake", "established", "returned"},
                               attempt : 0 .. MaxHandshakeRetries,
                               peer_isn : Isns \cup {None}]]
    <3> DEFINE Conn == [pc : {"idle", "handshake", "established", "returned"},
                        attempt : 0 .. MaxHandshakeRetries,
                        peer_isn : Isns \cup {None}]
               c == [conn[s] EXCEPT !.pc = "established", !.attempt = 0,
                                    !.peer_isn = m.seq]
    <3> 0 \in 0 .. MaxHandshakeRetries
      OBVIOUS
    <3>1. conn \in [Senders -> Conn]
      BY DEF HInv, TypeOK
    <3>2. conn' = [conn EXCEPT ![s] = c]
      BY <1>0, <3>1
    <3>3. c \in Conn
      BY <1>3, <3>1
    <3> QED
      BY <3>1, <3>2, <3>3
  <2> QED
    BY <1>1, <2>1, <2>2 DEF HInv, TypeOK
<1>7. RoundsDiffer'
  BY <1>1 DEF HInv, RoundsDiffer
<1>8. SynAckInv'
  BY <1>0, <1>1, <1>3, PacketTypes DEF HInv, SynAckInv
<1>9. SenderInv'
  <2>1. PICK r \in rounds :
          r.client = m.to /\ r.isn = m.seq /\ Plus(r.peer_isn, 1) = m.ack
    BY <1>0 DEF HInv, SynAckInv
  <2>2. r \in [client : Endpoints, peer_isn : Isns, isn : Isns]
    BY DEF HInv, TypeOK
  <2>3. r.peer_isn = SndIsn[s]
    BY <1>0, <2>1, <2>2, SuccessorsDiffer
  <2>4. Round(Endpoint[s], SndIsn[s], m.seq) \in rounds
    BY <1>0, <2>1, <2>2, <2>3 DEF Round
  <2> QED
    BY <1>1, <1>4, <2>4 DEF HInv, SenderInv
<1>10. AckInv'
  <2> SUFFICES ASSUME NEW n \in net', n.type = "ACK"
               PROVE  \E t \in Senders :
                          /\ Endpoint[t] = n.from /\ conn'[t].peer_isn # None
                          /\ \/ n.ack = Plus(conn'[t].peer_isn, 1)
                             \/ n.ack \in OtherNumbers(n.from)
    BY DEF AckInv, Acknowledges
  <2>1. CASE n \in net
    BY <2>1, <1>5 DEF HInv, AckInv, Acknowledges
  <2>2. CASE n = Ack(s, Plus(m.seq, 1))
    BY <2>2, <1>3, <1>4, PacketTypes
  <2> QED
    BY <1>0, <2>1, <2>2
<1>11. DataInv'
  <2> SUFFICES ASSUME NEW n \in net', n.type = "DATA"
               PROVE  \E t \in Senders : Endpoint[t] = n.from /\ conn'[t].peer_isn # None
    BY DEF DataInv
  <2>1. n \in net
    BY <1>0, <1>3, PacketTypes
  <2> QED
    BY <2>1, <1>5 DEF HInv, DataInv
<1>12. EstablishedInv'
  BY <1>3, <1>4 DEF HInv, EstablishedInv
<1>13. ListenerInv'
  <2>1. listener.by = "ACK" => listener.isn \in Isns
    BY DEF HInv, ListenerInv, TypeOK, Round
  <2> QED
    BY <1>1, <1>5, <2>1 DEF HInv, ListenerInv
<1> QED
  BY <1>6, <1>7, <1>8, <1>9, <1>10, <1>11, <1>12, <1>13 DEF HInv

\* A SYN opens a round whose ISN the client has not had before.
LEMMA ReceiveSynStep ==
    ASSUME HInv, ReceiveSyn
    PROVE  HInv'
<1>0. PICK m \in net, isn \in Isns :
        /\ m.type = "SYN"
        /\ \A r \in rounds : ~(r.client = m.from /\ r.isn = isn)
        /\ listener' = [listener EXCEPT !.pc = "syn_received",
                            !.client = m.from, !.peer_isn = m.seq,
                            !.isn = isn, !.attempt = 1]
        /\ rounds' = rounds \cup {Round(m.from, m.seq, isn)}
        /\ net' = net \cup {SynAck(m.from, isn, Plus(m.seq, 1))}
  BY DEF ReceiveSyn
<1>1. conn' = conn /\ listener.pc = "listen"
  BY DEF ReceiveSyn
<1>2. m.from \in Endpoints /\ m.seq \in Isns /\ Plus(m.seq, 1) \in Numbers
  BY <1>0, PacketFields, IsnNumbers DEF HInv, TypeOK
<1>3. /\ listener'.pc = "syn_received" /\ listener'.client = m.from
      /\ listener'.peer_isn = m.seq /\ listener'.isn = isn /\ listener'.by = "none"
  BY <1>0, <1>1 DEF HInv, TypeOK, ListenerInv
<1>4. TypeOK'
  <2>1. net' \subseteq Packets
    BY <1>0, <1>2, PacketTypes DEF HInv, TypeOK
  <2>2. rounds' \subseteq [client : Endpoints, peer_isn : Isns, isn : Isns]
    BY <1>0, <1>2 DEF HInv, TypeOK, Round
  <2>3. listener' \in [run : 1 .. MaxReceiverRuns,
                       pc : {"listen", "syn_received", "established", "returned"},
                       client : Endpoints \cup {None}, peer_isn : Isns \cup {None},
                       isn : Isns \cup {None}, attempt : 0 .. MaxHandshakeRetries,
                       by : {"none", "ACK", "DATA"}]
    <3>1. 1 \in 0 .. MaxHandshakeRetries
      BY HandshakeAssumption
    <3> QED
      BY <1>0, <1>2, <3>1 DEF HInv, TypeOK
  <2> QED
    BY <1>1, <2>1, <2>2, <2>3 DEF HInv, TypeOK
<1>5. RoundsDiffer'
  BY <1>0 DEF HInv, RoundsDiffer, Round
<1>6. SynAckInv'
  <2> SUFFICES ASSUME NEW n \in net', n.type = "SYNACK"
               PROVE  \E r \in rounds' :
                          r.client = n.to /\ r.isn = n.seq /\ Plus(r.peer_isn, 1) = n.ack
    BY DEF SynAckInv
  <2>1. CASE n \in net
    BY <1>0, <2>1 DEF HInv, SynAckInv
  <2>2. CASE n = SynAck(m.from, isn, Plus(m.seq, 1))
    <3>1. Round(m.from, m.seq, isn) \in rounds'
      BY <1>0
    <3> QED
      BY <1>2, <2>2, <3>1, PacketTypes DEF Round
  <2> QED
    BY <1>0, <2>1, <2>2
<1>7. SenderInv'
  BY <1>0, <1>1 DEF HInv, SenderInv
<1>8. AckInv'
  BY <1>0, <1>1, <1>2, PacketTypes DEF HInv, AckInv, Acknowledges
<1>9. DataInv'
  BY <1>0, <1>1, <1>2, PacketTypes DEF HInv, DataInv
<1>10. EstablishedInv'
  BY <1>1 DEF HInv, EstablishedInv
<1>11. ListenerInv'
  BY <1>0, <1>3 DEF ListenerInv
<1> QED
  BY <1>4, <1>5, <1>6, <1>7, <1>8, <1>9, <1>10, <1>11 DEF HInv

\* The other steps of the receiver change only its own place, and send only RSTs
\* and FIN+ACKs.
LEMMA QuietReceiver ==
    ASSUME HInv, TypeOK', ListenerInv', UNCHANGED <<conn, rounds>>,
           \A m \in net' : m \in net \/ m.type \in {"RESET", "FINACK"}
    PROVE  HInv'
<1>1. RoundsDiffer' /\ SenderInv' /\ EstablishedInv'
  BY DEF HInv, RoundsDiffer, SenderInv, EstablishedInv
<1>2. SynAckInv'
  BY DEF HInv, SynAckInv
<1>3. AckInv'
  BY DEF HInv, AckInv, Acknowledges
<1>4. DataInv'
  BY DEF HInv, DataInv
<1> QED
  BY <1>1, <1>2, <1>3, <1>4 DEF HInv

LEMMA QuietReceiverStep ==
    ASSUME HInv,
           \/ RepeatSynAck \/ ReceiveRst \/ ReceiveAck \/ ReceiveImplicitAck
           \/ ReceiveFin
    PROVE  HInv'
<1> USE HandshakeAssumption
<1>1. /\ listener.pc \in {"syn_received", "established"}
      /\ Round(listener.client, listener.peer_isn, listener.isn) \in rounds
  BY DEF HInv, ListenerInv, RepeatSynAck, ReceiveRst, ReceiveAck, ReceiveImplicitAck,
     ReceiveFin
<1>2. listener.client \in Endpoints /\ listener.isn \in Isns
  BY <1>1 DEF HInv, TypeOK, Round
<1>3. UNCHANGED <<conn, rounds>>
  BY DEF RepeatSynAck, ReceiveRst, ReceiveAck, ReceiveImplicitAck, ReceiveFin
<1>4. \A m \in net' : \/ m \in net \/ m = Reset(listener.client)
                      \/ m = FinAck(listener.client)
  BY DEF RepeatSynAck, ReceiveRst, ReceiveAck, ReceiveImplicitAck, ReceiveFin
<1>5. TypeOK'
  <2>1. net' \subseteq Packets
    BY <1>2, <1>4, PacketTypes DEF HInv, TypeOK
  <2>2. listener' \in [run : 1 .. MaxReceiverRuns,
                       pc : {"listen", "syn_received", "established", "returned"},
                       client : Endpoints \cup {None}, peer_isn : Isns \cup {None},
                       isn : Isns \cup {None}, attempt : 0 .. MaxHandshakeRetries,
                       by : {"none", "ACK", "DATA"}]
    <3> 0 \in 0 .. MaxHandshakeRetries
      OBVIOUS
    <3>1. CASE RepeatSynAck
      <4>1. listener.attempt < MaxHandshakeRetries
                => listener.attempt + 1 \in 0 .. MaxHandshakeRetries
        BY DEF HInv, TypeOK
      <4> QED
        BY <3>1, <4>1 DEF HInv, TypeOK, RepeatSynAck
    <3>2. CASE ReceiveRst
      BY <3>2 DEF HInv, TypeOK, ReceiveRst
    <3>3. CASE ReceiveAck
      BY <3>3 DEF HInv, TypeOK, ReceiveAck
    <3>4. CASE ReceiveImplicitAck
      BY <3>4 DEF HInv, TypeOK, ReceiveImplicitAck
    <3>5. CASE ReceiveFin
      BY <3>5 DEF HInv, TypeOK, ReceiveFin
    <3> QED
      BY <3>1, <3>2, <3>3, <3>4, <3>5
  <2> QED
    BY <1>3, <2>1, <2>2 DEF HInv, TypeOK
<1>6. ListenerInv'
  <2>1. CASE RepeatSynAck \/ ReceiveRst \/ ReceiveFin
    <3>1. /\ listener'.by = listener.by /\ listener'.client = listener.client
          /\ listener'.peer_isn = listener.peer_isn /\ listener'.isn = listener.isn
          /\ listener'.pc # "established"
      BY <2>1, <1>1 DEF HInv, TypeOK, RepeatSynAck, ReceiveRst, ReceiveFin
    <3>2. listener.by # "none" => listener'.pc = "returned"
      BY <2>1 DEF HInv, TypeOK, ListenerInv, RepeatSynAck, ReceiveRst, ReceiveFin
    <3> QED
      BY <1>1, <1>3, <3>1, <3>2 DEF HInv, ListenerInv
  <2>2. CASE ReceiveAck
    <3>1. /\ listener'.client = listener.client /\ listener'.pc = "established"
          /\ listener'.peer_isn = listener.peer_isn /\ listener'.isn = listener.isn
      BY <2>2, <1>1 DEF HInv, TypeOK, ReceiveAck
    <3>2. PICK m \in net : /\ m.type = "ACK" /\ m.from = listener.client
                           /\ m.ack = Plus(listener.isn, 1)
      BY <2>2 DEF ReceiveAck
    <3>3. PICK s \in Senders :
            Endpoint[s] = m.from /\ conn[s].peer_isn # None /\ Acknowledges(s, m)
      BY <3>2 DEF HInv, AckInv
    <3>4. \/ Plus(listener.isn, 1) \in OtherNumbers(listener.client)
          \/ conn[s].peer_isn = listener.isn
      <4>1. conn[s].peer_isn \in Isns
        BY <3>3 DEF HInv, TypeOK
      <4> QED
        BY <1>2, <3>2, <3>3, <4>1, SuccessorsDiffer DEF Acknowledges
    <3> QED
      BY <1>1, <1>3, <3>1, <3>2, <3>3, <3>4 DEF ListenerInv
  <2>3. CASE ReceiveImplicitAck
    <3>1. /\ listener'.client = listener.client /\ listener'.pc = "established"
          /\ listener'.peer_isn = listener.peer_isn /\ listener'.isn = listener.isn
          /\ listener'.by = "DATA"
      BY <2>3, <1>1 DEF HInv, TypeOK, ReceiveImplicitAck
    <3>2. \E s \in Senders : /\ Endpoint[s] = listener.client
                             /\ conn[s].peer_isn # None
      BY <2>3 DEF HInv, DataInv, ReceiveImplicitAck
    <3> QED
      BY <1>1, <1>3, <3>1, <3>2 DEF ListenerInv
  <2> QED
    BY <2>1, <2>2, <2>3
<1> QED
  BY <1>2, <1>3, <1>4, <1>5, <1>6, PacketTypes, QuietReceiver

\* The next run of the receiver has forgotten the round; the senders have not.
LEMMA RestartStep ==
    ASSUME HInv, Restart
    PROVE  HInv'
<1>1. listener' = Listening(listener.run + 1) /\ UNCHANGED <<conn, rounds, net>>
  BY DEF Restart
<1>2. TypeOK'
  <2>1. listener.run + 1 \in 1 .. MaxReceiverRuns
    BY HandshakeAssumption DEF HInv, TypeOK, Restart
  <2>2. 0 \in 0 .. MaxHandshakeRetries
    BY HandshakeAssumption
  <2> QED
    BY <1>1, <2>1, <2>2 DEF HInv, TypeOK, Listening
<1>3. ListenerInv'
  BY <1>1 DEF ListenerInv, Listening
<1> QED
  BY <1>1, <1>2, <1>3, QuietReceiver

-----------------------------------------------------------------------------
(***************************************************************************)
(* The theorems.                                                           *)
(***************************************************************************)
LEMMA HInvInit == Init => HInv
<1> SUFFICES ASSUME Init PROVE HInv
  OBVIOUS
<1>1. TypeOK
  BY HandshakeAssumption DEF Init, TypeOK, Listening
<1>2. RoundsDiffer /\ SynAckInv /\ SenderInv /\ AckInv /\ DataInv /\ EstablishedInv
  BY DEF Init, RoundsDiffer, SynAckInv, SenderInv, AckInv, DataInv, EstablishedInv
<1>3. ListenerInv
  BY DEF Init, ListenerInv, Listening
<1> QED
  BY <1>1, <1>2, <1>3 DEF HInv

LEMMA HInvStep == HInv /\ [Next]_vars => HInv'
<1> SUFFICES ASSUME HInv, [Next]_vars PROVE HInv'
  OBVIOUS
<1>1. CASE UNCHANGED vars
  BY <1>1 DEF vars, HInv, TypeOK, RoundsDiffer, SynAckInv, SenderInv, AckInv, DataInv,
     EstablishedInv, ListenerInv, Acknowledges
<1>2. CASE ReceiverNext
  BY <1>2, ReceiveSynStep, QuietReceiverStep, RestartStep DEF ReceiverNext
<1>3. ASSUME NEW s \in Senders, SenderNext(s) PROVE HInv'
  BY <1>3, QuietSenderStep, ReceiveSynAckStep DEF SenderNext
<1> QED
  BY <1>1, <1>2, <1>3 DEF Next

LEMMA HInvAlways == Spec => []HInv
  BY HInvInit, HInvStep, PTL DEF Spec

\* The variables keep their types, in handshakes of any number of runs
\* (ReliableSender::handshake, ReliableReceiver::do_handshake).
THEOREM HandshakeTypeCorrect == Spec => []TypeOK
<1>1. HInv => TypeOK
  BY DEF HInv
<1> QED
  BY <1>1, HInvAlways, PTL

\* A sender never takes an answer to an earlier run at its address for its own
\* (the ack test of ReliableSender::handshake).
THEOREM SenderAgreement == Spec => []SenderAgrees
<1>1. HInv => SenderAgrees
  BY DEF HInv, SenderInv, SenderAgrees, Completed, Round
<1> QED
  BY <1>1, HInvAlways, PTL

\* A handshake completed by an ACK is one both sides agree on, whatever packets of the
\* handshakes, transfers and closings of any number of runs the network still delivers:
\* unless the successor of its ISN is a number that the probes or final ACKs of this
\* client carry (the ack test of do_handshake, with ISNs that generate_isn does not
\* repeat for one client).
THEOREM AckAgreement == Spec => []AckAgrees
<1>1. ASSUME HInv, listener.by = "ACK",
             Plus(listener.isn, 1) \notin OtherNumbers(listener.client)
      PROVE  \E s \in Senders : Completed(s, listener)
  <2>1. Round(listener.client, listener.peer_isn, listener.isn) \in rounds
    BY <1>1 DEF HInv, ListenerInv
  <2>2. PICK s \in Senders : /\ Endpoint[s] = listener.client
                             /\ conn[s].peer_isn = listener.isn
    BY <1>1 DEF HInv, ListenerInv
  <2>3. listener.isn # None
    BY <1>1, <2>1, HandshakeAssumption DEF HInv, TypeOK, Round
  <2>4. Round(Endpoint[s], SndIsn[s], conn[s].peer_isn) \in rounds
    BY <1>1, <2>2, <2>3 DEF HInv, SenderInv
  <2>5. Round(Endpoint[s], SndIsn[s], conn[s].peer_isn)
            = Round(listener.client, listener.peer_isn, listener.isn)
    BY <1>1, <2>1, <2>2, <2>4 DEF HInv, RoundsDiffer, Round
  <2>6. SndIsn[s] = listener.peer_isn
    BY <2>5 DEF Round
  <2> QED
    BY <2>2, <2>6 DEF Completed
<1>2. HInv => AckAgrees
  BY <1>1 DEF AckAgrees
<1> QED
  BY <1>2, HInvAlways, PTL

\* The receiver opens a connection only to an endpoint that has completed a
\* handshake with it (the address test of do_handshake).
THEOREM ConnectedClients == Spec => []ClientHasConnected
<1>1. ASSUME HInv, listener.pc = "established"
      PROVE  \E s \in Senders, r \in rounds :
                 Completed(s, r) /\ r.client = listener.client
  <2>1. PICK s \in Senders : /\ Endpoint[s] = listener.client
                             /\ conn[s].peer_isn # None
    BY <1>1 DEF HInv, ListenerInv
  <2>2. Round(Endpoint[s], SndIsn[s], conn[s].peer_isn) \in rounds
    BY <1>1, <2>1 DEF HInv, SenderInv
  <2> QED
    BY <2>1, <2>2 DEF Completed, Round
<1>2. HInv => ClientHasConnected
  BY <1>1 DEF ClientHasConnected
<1> QED
  BY <1>2, HInvAlways, PTL

=============================================================================
