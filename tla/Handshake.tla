------------------------------ MODULE Handshake ------------------------------
(***************************************************************************)
(* The three-way handshake: ReliableSender::handshake and                  *)
(* ReliableReceiver::do_handshake.                                         *)
(*                                                                         *)
(* The receiving program serves one transfer and may be started again at   *)
(* the same port.  Senders are runs of the sending program.  They may come *)
(* from several endpoints, and from one endpoint one after the other: the  *)
(* local port has a fixed default, so a run that is started again is not   *)
(* told from the one before by its address.                                *)
(*                                                                         *)
(* Of the data and closing phases, which DataTransfer models, there is     *)
(* here what do_handshake tells apart: every packet they send, with the    *)
(* number it acknowledges.  The network keeps all packets, as there.       *)
(***************************************************************************)
EXTENDS Integers, FiniteSets

CONSTANTS
    Senders,               \* runs of the sender
    Endpoint,              \* the address and port of each run
    SeqMod,                \* sequence numbers are modulo this: 2^32
    Isns,                  \* initial sequence numbers
    SndIsn,                \* the ISN of each run
    Total,                 \* the number of segments of the file of each run
    RcvWindow,             \* the window the receiver advertises
    MaxHandshakeRetries,   \* MAX_HANDSHAKE_RETRIES of either side: 5
    MaxReceiverRuns,       \* bound: how often the receiver is started
    MaxRounds,             \* bound: how many SYNs it answers
    None                   \* no ISN, no endpoint

ASSUME HandshakeAssumption ==
    /\ SeqMod \in Nat \ {0} /\ Isns \subseteq 0 .. SeqMod - 1
    /\ SndIsn \in [Senders -> Isns]
    /\ DOMAIN Endpoint = Senders
    /\ Total \in [Senders -> Nat] /\ RcvWindow \in Nat
    /\ MaxHandshakeRetries \in Nat \ {0} /\ MaxReceiverRuns \in Nat \ {0} /\ MaxRounds \in Nat
    /\ None \notin Isns /\ \A s \in Senders : Endpoint[s] # None

Endpoints == {Endpoint[s] : s \in Senders}

VARIABLES
    conn,       \* of each sender: its place, the attempt (0 outside of the loop), peer_isn_
    listener,   \* of the receiver the same, and client_, isn_, what completed the handshake
    rounds,     \* every SYN the receiver has answered, with its answer
    net         \* every packet sent so far

vars == <<conn, listener, rounds, net>>

\* k beyond the sequence number n.
Plus(n, k) == (n + k) % SeqMod

Numbers == 0 .. SeqMod - 1

Round(c, p, i) == [client |-> c, peer_isn |-> p, isn |-> i]

-----------------------------------------------------------------------------
Syn(s) == [type |-> "SYN", from |-> Endpoint[s], seq |-> SndIsn[s]]

SynAck(c, seq, ack) == [type |-> "SYNACK", to |-> c, seq |-> seq, ack |-> ack]

Ack(s, ack) == [type |-> "ACK", from |-> Endpoint[s], ack |-> ack]

\* The number of handle_fin_ack's final ACK: the FIN's and one more.
FinalNumber(s) == Plus(SndIsn[s], Total[s] + 2)

Data(s) == [type |-> "DATA", from |-> Endpoint[s]]

Fin(s) == [type |-> "FIN", from |-> Endpoint[s]]

FinAck(c) == [type |-> "FINACK", to |-> c]

Rst(s) == [type |-> "RST", from |-> Endpoint[s]]

\* The RST of the receiver.
Reset(c) == [type |-> "RESET", to |-> c]

Packets ==
    [type : {"SYN"}, from : Endpoints, seq : Isns]
        \cup [type : {"SYNACK"}, to : Endpoints, seq : Isns, ack : Numbers]
        \cup [type : {"ACK"}, from : Endpoints, ack : Numbers]
        \cup [type : {"DATA", "FIN", "RST"}, from : Endpoints]
        \cup [type : {"FINACK", "RESET"}, to : Endpoints]

\* A run of the receiver begins.
Listening(n) == [run |-> n, pc |-> "listen", client |-> None, peer_isn |-> None,
                 isn |-> None, attempt |-> 0, by |-> "none"]

Init ==
    /\ conn = [s \in Senders |-> [pc |-> "idle", attempt |-> 0, peer_isn |-> None]]
    /\ listener = Listening(1)
    /\ rounds = {}
    /\ net = {}

-----------------------------------------------------------------------------
(***************************************************************************)
(* The sender.                                                             *)
(***************************************************************************)

\* The port is free, or bind fails and the run is over before it began.
Start(s) ==
    /\ conn[s].pc = "idle"
    /\ \A t \in Senders : Endpoint[t] = Endpoint[s]
                              => conn[t].pc \notin {"handshake", "established"}
    /\ conn' = [conn EXCEPT ![s].pc = "handshake", ![s].attempt = 1]
    /\ net' = net \cup {Syn(s)}
    /\ UNCHANGED <<listener, rounds>>

\* A timeout, a damaged packet, or any packet but those below: an attempt is used
\* up.  After the last one the sender gives up.
Retry(s) ==
    /\ conn[s].pc = "handshake"
    /\ \/ /\ conn[s].attempt < MaxHandshakeRetries
          /\ conn' = [conn EXCEPT ![s].attempt = @ + 1]
          /\ net' = net \cup {Syn(s)}
       \/ /\ conn[s].attempt = MaxHandshakeRetries
          /\ conn' = [conn EXCEPT ![s].pc = "returned", ![s].attempt = 0]
          /\ net' = net \cup {Rst(s)}
    /\ UNCHANGED <<listener, rounds>>

\* Any RST of the receiver to this endpoint, also one that was meant for the run
\* before.
ReceiveReset(s) ==
    /\ conn[s].pc = "handshake"
    /\ Reset(Endpoint[s]) \in net
    /\ conn' = [conn EXCEPT ![s].pc = "returned", ![s].attempt = 0]
    /\ UNCHANGED <<listener, rounds, net>>

\* Mutant of ReceiveSynAck: what is acknowledged is not looked at.
ReceiveAnySynAck(s) ==
    /\ conn[s].pc = "handshake"
    /\ \E m \in net :
           /\ m.type = "SYNACK" /\ m.to = Endpoint[s]
           /\ conn' = [conn EXCEPT ![s].pc = "established", ![s].attempt = 0,
                                   ![s].peer_isn = m.seq]
           /\ net' = net \cup {Ack(s, Plus(m.seq, 1))}
    /\ UNCHANGED <<listener, rounds>>

ReceiveSynAck(s) ==
    /\ conn[s].pc = "handshake"
    /\ \E m \in net :
           /\ m.type = "SYNACK" /\ m.to = Endpoint[s] /\ m.ack = Plus(SndIsn[s], 1)
           /\ conn' = [conn EXCEPT ![s].pc = "established", ![s].attempt = 0,
                                   ![s].peer_isn = m.seq]
           /\ net' = net \cup {Ack(s, Plus(m.seq, 1))}
    /\ UNCHANGED <<listener, rounds>>

\* The rest of run(), once established.  When all_acked() holds depends on what
\* DataTransfer models, and on ACKs that an earlier run may have left behind; here a
\* FIN may come at any time.
SendData(s) ==
    /\ conn[s].pc = "established" /\ Total[s] > 0
    /\ net' = net \cup {Data(s)}
    /\ UNCHANGED <<conn, listener, rounds>>

\* A window probe acknowledges the number 0.  What starts the persist timer is an ACK
\* that advertises a window of zero, which a SYN+ACK that comes again is too.
SendProbe(s) ==
    /\ conn[s].pc = "established" /\ RcvWindow = 0
    /\ net' = net \cup {Ack(s, 0)}
    /\ UNCHANGED <<conn, listener, rounds>>

SendFin(s) ==
    /\ conn[s].pc = "established"
    /\ net' = net \cup {Fin(s)}
    /\ UNCHANGED <<conn, listener, rounds>>

\* Any FIN+ACK to this endpoint ends the run.
ReceiveFinAck(s) ==
    /\ conn[s].pc = "established"
    /\ FinAck(Endpoint[s]) \in net
    /\ conn' = [conn EXCEPT ![s].pc = "returned"]
    /\ net' = net \cup {Ack(s, FinalNumber(s))}
    /\ UNCHANGED <<listener, rounds>>

\* The RST of the limits that end, or only announce the end of, a transfer.
SendRst(s) ==
    /\ conn[s].pc = "established"
    /\ net' = net \cup {Rst(s)}
    /\ UNCHANGED <<conn, listener, rounds>>

\* The run is over, by itself or from outside.
Leave(s) ==
    /\ conn[s].pc \in {"handshake", "established"}
    /\ conn' = [conn EXCEPT ![s].pc = "returned", ![s].attempt = 0]
    /\ UNCHANGED <<listener, rounds, net>>

SenderNext(s) ==
    \/ Start(s) \/ Retry(s) \/ ReceiveReset(s) \/ ReceiveSynAck(s)
    \/ SendData(s) \/ SendProbe(s) \/ SendFin(s) \/ ReceiveFinAck(s)
    \/ SendRst(s) \/ Leave(s)

-----------------------------------------------------------------------------
(***************************************************************************)
(* The receiver.                                                           *)
(***************************************************************************)

\* A SYN opens a round, with an ISN that no earlier round of this client had: the
\* clock that is part of it has moved on.  (In another run of the receiver the salt is
\* another one; that the two make up for each other is left out.)
ReceiveSyn ==
    /\ listener.pc = "listen" /\ Cardinality(rounds) < MaxRounds
    /\ \E m \in net, isn \in Isns :
           /\ m.type = "SYN"
           /\ \A r \in rounds : ~(r.client = m.from /\ r.isn = isn)
           /\ listener' = [listener EXCEPT !.pc = "syn_received",
                               !.client = m.from, !.peer_isn = m.seq,
                               !.isn = isn, !.attempt = 1]
           /\ rounds' = rounds \cup {Round(m.from, m.seq, isn)}
           /\ net' = net \cup {SynAck(m.from, isn, Plus(m.seq, 1))}
    /\ UNCHANGED conn

\* Mutant of RepeatSynAck: the attempts are not counted.
RepeatSynAckUncounted ==
    /\ listener.pc = "syn_received"
    /\ listener' = [listener EXCEPT !.attempt = 1]
    /\ UNCHANGED <<conn, rounds, net>>

\* A timeout, a packet from elsewhere or of no use: an attempt is used up, the
\* same SYN+ACK sent again; after the last one a RST, and back to listening.
RepeatSynAck ==
    /\ listener.pc = "syn_received"
    /\ \/ /\ listener.attempt < MaxHandshakeRetries
          /\ listener' = [listener EXCEPT !.attempt = @ + 1]
          /\ UNCHANGED net
       \/ /\ listener.attempt = MaxHandshakeRetries
          /\ listener' = [listener EXCEPT !.pc = "listen", !.attempt = 0]
          /\ net' = net \cup {Reset(listener.client)}
    /\ UNCHANGED <<conn, rounds>>

\* A RST of the client ends the run, in the handshake and after it.
ReceiveRst ==
    /\ listener.pc \in {"syn_received", "established"}
    /\ \E m \in net : m.type = "RST" /\ m.from = listener.client
    /\ listener' = [listener EXCEPT !.pc = "returned", !.attempt = 0]
    /\ UNCHANGED <<conn, rounds, net>>

\* Mutant of ReceiveAck: what is acknowledged is not looked at.
ReceiveAnyAck ==
    /\ listener.pc = "syn_received"
    /\ \E m \in net : m.type = "ACK" /\ m.from = listener.client
    /\ listener' = [listener EXCEPT !.pc = "established", !.attempt = 0, !.by = "ACK"]
    /\ UNCHANGED <<conn, rounds, net>>

ReceiveAck ==
    /\ listener.pc = "syn_received"
    /\ \E m \in net : /\ m.type = "ACK" /\ m.from = listener.client
                      /\ m.ack = Plus(listener.isn, 1)
    /\ listener' = [listener EXCEPT !.pc = "established", !.attempt = 0, !.by = "ACK"]
    /\ UNCHANGED <<conn, rounds, net>>

\* Mutant of ReceiveImplicitAck: the sender's address is not looked at.
ReceiveImplicitAckFromAny ==
    /\ listener.pc = "syn_received"
    /\ \E m \in net : m.type = "DATA"
    /\ listener' = [listener EXCEPT !.pc = "established", !.attempt = 0, !.by = "DATA"]
    /\ UNCHANGED <<conn, rounds, net>>

\* DATA completes the handshake too, whatever its sequence number.
ReceiveImplicitAck ==
    /\ listener.pc = "syn_received"
    /\ \E m \in net : m.type = "DATA" /\ m.from = listener.client
    /\ listener' = [listener EXCEPT !.pc = "established", !.attempt = 0, !.by = "DATA"]
    /\ UNCHANGED <<conn, rounds, net>>

\* Any FIN of the client, whatever its number: handle_fin, and run() returns.
ReceiveFin ==
    /\ listener.pc = "established"
    /\ \E m \in net : m.type = "FIN" /\ m.from = listener.client
    /\ listener' = [listener EXCEPT !.pc = "returned"]
    /\ net' = net \cup {FinAck(listener.client)}
    /\ UNCHANGED <<conn, rounds>>

\* The run of the receiver is over, by itself (a FIN, a RST, the limit of silence) or
\* from outside, and the next one begins at the same port.
Restart ==
    /\ listener.run < MaxReceiverRuns
    /\ listener' = Listening(listener.run + 1)
    /\ UNCHANGED <<conn, rounds, net>>

ReceiverNext ==
    \/ ReceiveSyn \/ RepeatSynAck \/ ReceiveRst \/ ReceiveAck \/ ReceiveImplicitAck
    \/ ReceiveFin \/ Restart

-----------------------------------------------------------------------------
Next == ReceiverNext \/ \E s \in Senders : SenderNext(s)

Spec == Init /\ [][Next]_vars

\* Waiting for a packet is limited in time on both sides, except for a SYN.
FairSpec == Spec /\ WF_vars(RepeatSynAck) /\ \A s \in Senders : WF_vars(Retry(s))

-----------------------------------------------------------------------------
(***************************************************************************)
(* Properties.                                                             *)
(***************************************************************************)
TypeOK ==
    /\ conn \in [Senders -> [pc : {"idle", "handshake", "established", "returned"},
                             attempt : 0 .. MaxHandshakeRetries,
                             peer_isn : Isns \cup {None}]]
    /\ listener \in [run : 1 .. MaxReceiverRuns,
                     pc : {"listen", "syn_received", "established", "returned"},
                     client : Endpoints \cup {None}, peer_isn : Isns \cup {None},
                     isn : Isns \cup {None}, attempt : 0 .. MaxHandshakeRetries,
                     by : {"none", "ACK", "DATA"}]
    /\ rounds \subseteq [client : Endpoints, peer_isn : Isns, isn : Isns]
    /\ net \subseteq Packets

\* s has completed its handshake with the round (client, peer_isn, isn).
Completed(s, r) ==
    /\ Endpoint[s] = r.client /\ SndIsn[s] = r.peer_isn
    /\ conn[s].peer_isn = r.isn

\* A sender that takes its connection for established has the answer to its own
\* SYN, never one to a run before it at the same address.
SenderAgrees ==
    \A s \in Senders : conn[s].peer_isn # None => \E r \in rounds : Completed(s, r)

\* The numbers that ACKs of client c carry which do not complete a handshake: those of
\* window probes and the final ones.
OtherNumbers(c) ==
    (IF RcvWindow = 0 THEN {0} ELSE {})
        \cup {FinalNumber(s) : s \in {t \in Senders : Endpoint[t] = c}}

\* When an ACK completed the handshake, it was that of a sender which agrees with the
\* receiver on both ISNs: no ACK of an older round, of this run of the receiver or of
\* an earlier one, is taken for it.  do_handshake only compares the number, so the one
\* exception is an ISN whose successor is a number that probes or final ACKs carry.
AckAgrees ==
    listener.by = "ACK" /\ Plus(listener.isn, 1) \notin OtherNumbers(listener.client)
        => \E s \in Senders : Completed(s, listener)

\* However the handshake was completed, by an ACK of whatever kind or by DATA, the
\* client is one that has completed a handshake with the receiver: no third party
\* opens the connection.
ClientHasConnected ==
    listener.pc = "established" =>
        \E s \in Senders, r \in rounds : Completed(s, r) /\ r.client = listener.client

\* Neither side stays in a handshake for ever.
HandshakeEnds ==
    /\ \A s \in Senders : conn[s].pc = "handshake" ~> conn[s].pc # "handshake"
    /\ listener.pc = "syn_received" ~> listener.pc # "syn_received"

\* receiver.cpp: a DATA packet completes the handshake implicitly, and the receiver
\* then expects the number after the ISN of the SYN.  So a run that is established at
\* the client's address is the one that sent this SYN.
DataAgrees ==
    listener.by = "DATA" =>
        \A s \in Senders :
            conn[s].pc = "established" /\ Endpoint[s] = listener.client
                => SndIsn[s] = listener.peer_isn

=============================================================================
