-------------------------- MODULE ChatClient_proofs --------------------------
(***************************************************************************)
(* Proofs about ChatClient, for any number of connections: however the end *)
(* of one, seen by the receiver, overlaps with what the user does on the   *)
(* UI thread, there is one receiver, no socket is lost from sight, and the *)
(* window ends up showing the state of the connection.                     *)
(***************************************************************************)
EXTENDS ChatClient, SequenceTheorems, TLAPS

Idle == {"loop", "connect", "connecting", "show"}

Disconnecting == {"disconnect", "exchange", "shutdown", "join", "finish"}

\* A receiver that has not ended is the one that can be joined.
Receivers ==
    /\ receiver \in {"recv", "check", "store", "notify"} => joinable
    /\ ui \in {"connecting", "finish", "ended"} => ~joinable
    /\ ui = "disconnect" /\ op = "destructor" => ~joinable
    /\ ui \in Idle => op = "toggle"

\* sock_ is the socket that is open, and connected_ is true only while it is; when
\* the receiver is about to report a loss it is false.
Sockets ==
    /\ sock <=> connection \in {"up", "lost"}
    /\ connected => sock /\ joinable
    /\ connection = "up" => connected \/ ui = "shutdown"
    /\ receiver \in {"check", "store", "notify"} => connection # "up"
    /\ receiver = "notify" => ~connected
    /\ ui = "connecting" => ~sock
    /\ ui \in {"connect", "connecting", "shutdown", "join", "finish", "ended"} =>
           ~connected

\* What the window will show when the messages are handled.
WillShow == IF posted = << >> THEN shown ELSE posted[Len(posted)]

Messages ==
    /\ ui = "show" => posted # << >>
    /\ receiver # "notify" /\ ui \notin {"shutdown", "join", "finish"} =>
           (WillShow <=> connected)

\* The messages that can still be posted before the next connection is tried.
Due ==
    (IF receiver \in {"recv", "check", "store", "notify"} THEN 1 ELSE 0)
    + (IF connected \/ (op = "toggle" /\ ui \in Disconnecting) THEN 1 ELSE 0)
    + (IF ui \in {"connect", "connecting"} THEN 3 ELSE 0)
    + (IF op # "destructor" THEN 2 ELSE IF ui # "ended" THEN 1 ELSE 0)

Budget == Len(posted) + Due <= 3 * connects + 2

ClientInv == Types /\ Receivers /\ Sockets /\ Messages /\ Budget
-----------------------------------------------------------------------------
LEMMA AppendLast ==
    ASSUME NEW q \in Seq(BOOLEAN), NEW b \in BOOLEAN
    PROVE  /\ Append(q, b) \in Seq(BOOLEAN)
           /\ Len(Append(q, b)) = Len(q) + 1
           /\ Append(q, b) # << >>
           /\ Append(q, b)[Len(Append(q, b))] = b
OBVIOUS

LEMMA SameLast ==
    ASSUME NEW S, NEW q \in Seq(S), NEW r \in Seq(S), q # << >>,
           Len(r) = Len(q) - 1, \A i \in 1 .. Len(r) : r[i] = q[i + 1]
    PROVE  IF r = << >> THEN q[Len(q)] = q[1] ELSE r[Len(r)] = q[Len(q)]
<1>1. Len(q) \in Nat /\ Len(r) \in Nat
  BY LenProperties
<1>2. CASE r = << >>
  <2>1. Len(r) = 0
    BY <1>2, EmptySeq
  <2>2. Len(q) = 1
    BY <1>1, <2>1
  <2> QED
    BY <1>2, <2>2
<1>3. CASE r # << >>
  <2>1. Len(r) \in 1 .. Len(r)
    BY <1>1, <1>3, EmptySeq
  <2>2. Len(r) + 1 = Len(q)
    BY <1>1
  <2> QED
    BY <1>3, <2>1, <2>2
<1> QED
  BY <1>2, <1>3

LEMMA HeadTail ==
    ASSUME NEW S, NEW q \in Seq(S), q # << >>
    PROVE  /\ Head(q) \in S
           /\ Tail(q) \in Seq(S)
           /\ Len(Tail(q)) = Len(q) - 1
           /\ Tail(q) = << >> => q[Len(q)] = Head(q)
           /\ Tail(q) # << >> => Tail(q)[Len(Tail(q))] = q[Len(q)]
<1>1. /\ Head(q) \in S /\ Tail(q) \in Seq(S) /\ Len(Tail(q)) = Len(q) - 1
      /\ \A i \in 1 .. Len(Tail(q)) : Tail(q)[i] = q[i + 1]
  BY HeadTailProperties
<1>2. Head(q) = q[1]
  OBVIOUS
<1>3. IF Tail(q) = << >> THEN q[Len(q)] = q[1] ELSE Tail(q)[Len(Tail(q))] = q[Len(q)]
  BY <1>1, SameLast
<1> QED
  BY <1>1, <1>2, <1>3

\* Every step keeps the receivers in order.
LEMMA ReceiversStep ==
    ASSUME ClientInv, Next
    PROVE  Receivers'
<1> USE ChatClientAssumption DEF ClientInv, Types, Receivers, Sockets, Idle, UserMayAct
<1>1. ASSUME OnConnState PROVE Receivers'
  BY <1>1 DEF OnConnState
<1>2. ASSUME OnConnectToggle PROVE Receivers'
  BY <1>2 DEF OnConnectToggle
<1>3. ASSUME OnClose PROVE Receivers'
  BY <1>3 DEF OnClose
<1>4. ASSUME Recover PROVE Receivers'
  BY <1>4 DEF Recover
<1>5. ASSUME ConnectFails PROVE Receivers'
  BY <1>5 DEF ConnectFails
<1>6. ASSUME ConnectSucceeds PROVE Receivers'
  BY <1>6 DEF ConnectSucceeds
<1>7. ASSUME ShowConnected PROVE Receivers'
  BY <1>7 DEF ShowConnected
<1>8. ASSUME StartDisconnect PROVE Receivers'
  BY <1>8 DEF StartDisconnect
<1>9. ASSUME ExchangeConnected PROVE Receivers'
  BY <1>9 DEF ExchangeConnected
<1>10. ASSUME CloseSocket PROVE Receivers'
  BY <1>10 DEF CloseSocket
<1>11. ASSUME JoinReceiver PROVE Receivers'
  BY <1>11 DEF JoinReceiver
<1>12. ASSUME FinishDisconnect PROVE Receivers'
  BY <1>12 DEF FinishDisconnect
<1>13. ASSUME ReceiveFails PROVE Receivers'
  BY <1>13 DEF ReceiveFails
<1>14. ASSUME CheckDisconnecting PROVE Receivers'
  BY <1>14 DEF CheckDisconnecting
<1>15. ASSUME StoreConnected PROVE Receivers'
  BY <1>15 DEF StoreConnected
<1>16. ASSUME NotifyLost PROVE Receivers'
  BY <1>16 DEF NotifyLost
<1>17. ASSUME PeerCloses PROVE Receivers'
  BY <1>17 DEF PeerCloses
<1>18. ASSUME Ended PROVE Receivers'
  BY <1>18 DEF Ended, vars
<1> QED
  BY <1>1, <1>2, <1>3, <1>4, <1>5, <1>6, <1>7, <1>8, <1>9, <1>10, <1>11, <1>12, <1>13, <1>14, <1>15, <1>16, <1>17, <1>18
     DEF Next, UserActs, UiStep, ReceiverStep

\* Every step keeps sock_ and connected_ true to the connection.
LEMMA SocketsStep ==
    ASSUME ClientInv, Next
    PROVE  Sockets'
<1> USE ChatClientAssumption DEF ClientInv, Types, Receivers, Sockets, UserMayAct
<1>1. ASSUME OnConnState PROVE Sockets'
  BY <1>1 DEF OnConnState
<1>2. ASSUME OnConnectToggle PROVE Sockets'
  BY <1>2 DEF OnConnectToggle
<1>3. ASSUME OnClose PROVE Sockets'
  BY <1>3 DEF OnClose
<1>4. ASSUME Recover PROVE Sockets'
  BY <1>4 DEF Recover
<1>5. ASSUME ConnectFails PROVE Sockets'
  BY <1>5 DEF ConnectFails
<1>6. ASSUME ConnectSucceeds PROVE Sockets'
  BY <1>6 DEF ConnectSucceeds
<1>7. ASSUME ShowConnected PROVE Sockets'
  BY <1>7 DEF ShowConnected
<1>8. ASSUME StartDisconnect PROVE Sockets'
  BY <1>8 DEF StartDisconnect
<1>9. ASSUME ExchangeConnected PROVE Sockets'
  BY <1>9 DEF ExchangeConnected
<1>10. ASSUME CloseSocket PROVE Sockets'
  BY <1>10 DEF CloseSocket
<1>11. ASSUME JoinReceiver PROVE Sockets'
  BY <1>11 DEF JoinReceiver
<1>12. ASSUME FinishDisconnect PROVE Sockets'
  BY <1>12 DEF FinishDisconnect
<1>13. ASSUME ReceiveFails PROVE Sockets'
  BY <1>13 DEF ReceiveFails
<1>14. ASSUME CheckDisconnecting PROVE Sockets'
  BY <1>14 DEF CheckDisconnecting
<1>15. ASSUME StoreConnected PROVE Sockets'
  BY <1>15 DEF StoreConnected
<1>16. ASSUME NotifyLost PROVE Sockets'
  BY <1>16 DEF NotifyLost
<1>17. ASSUME PeerCloses PROVE Sockets'
  BY <1>17 DEF PeerCloses
<1>18. ASSUME Ended PROVE Sockets'
  BY <1>18 DEF Ended, vars
<1> QED
  BY <1>1, <1>2, <1>3, <1>4, <1>5, <1>6, <1>7, <1>8, <1>9, <1>10, <1>11, <1>12, <1>13, <1>14, <1>15, <1>16, <1>17, <1>18
     DEF Next, UserActs, UiStep, ReceiverStep

\* Every step keeps the messages leading to what is true.
LEMMA MessagesStep ==
    ASSUME ClientInv, Next
    PROVE  Messages'
<1> USE ChatClientAssumption DEF ClientInv, Types, Receivers, Sockets, Messages, WillShow, Idle, UserMayAct
<1>1. ASSUME OnConnState PROVE Messages'
  BY <1>1, HeadTail DEF OnConnState
<1>2. ASSUME OnConnectToggle PROVE Messages'
  BY <1>2 DEF OnConnectToggle
<1>3. ASSUME OnClose PROVE Messages'
  BY <1>3 DEF OnClose
<1>4. ASSUME Recover PROVE Messages'
  BY <1>4 DEF Recover
<1>5. ASSUME ConnectFails PROVE Messages'
  BY <1>5 DEF ConnectFails
<1>6. ASSUME ConnectSucceeds PROVE Messages'
  <2>1. /\ posted' = Append(posted, TRUE) /\ posted' # << >>
        /\ posted'[Len(posted')] = TRUE
    BY <1>6, AppendLast DEF ConnectSucceeds, NotifyState
  <2> QED
    BY <1>6, <2>1 DEF ConnectSucceeds
<1>7. ASSUME ShowConnected PROVE Messages'
  BY <1>7 DEF ShowConnected
<1>8. ASSUME StartDisconnect PROVE Messages'
  BY <1>8 DEF StartDisconnect
<1>9. ASSUME ExchangeConnected PROVE Messages'
  BY <1>9 DEF ExchangeConnected
<1>10. ASSUME CloseSocket PROVE Messages'
  BY <1>10 DEF CloseSocket
<1>11. ASSUME JoinReceiver PROVE Messages'
  BY <1>11 DEF JoinReceiver
<1>12. ASSUME FinishDisconnect PROVE Messages'
  <2>1. /\ posted' = Append(posted, FALSE) /\ posted' # << >>
        /\ posted'[Len(posted')] = FALSE
    BY <1>12, AppendLast DEF FinishDisconnect, NotifyState
  <2> QED
    BY <1>12, <2>1 DEF FinishDisconnect
<1>13. ASSUME ReceiveFails PROVE Messages'
  BY <1>13 DEF ReceiveFails
<1>14. ASSUME CheckDisconnecting PROVE Messages'
  BY <1>14 DEF CheckDisconnecting
<1>15. ASSUME StoreConnected PROVE Messages'
  BY <1>15 DEF StoreConnected
<1>16. ASSUME NotifyLost PROVE Messages'
  <2>1. /\ posted' = Append(posted, FALSE) /\ posted' # << >>
        /\ posted'[Len(posted')] = FALSE
    BY <1>16, AppendLast DEF NotifyLost, NotifyState
  <2> QED
    BY <1>16, <2>1 DEF NotifyLost
<1>17. ASSUME PeerCloses PROVE Messages'
  BY <1>17 DEF PeerCloses
<1>18. ASSUME Ended PROVE Messages'
  BY <1>18 DEF Ended, vars
<1> QED
  BY <1>1, <1>2, <1>3, <1>4, <1>5, <1>6, <1>7, <1>8, <1>9, <1>10, <1>11, <1>12, <1>13, <1>14, <1>15, <1>16, <1>17, <1>18
     DEF Next, UserActs, UiStep, ReceiverStep

\* Every message posted had been due.
LEMMA BudgetStep ==
    ASSUME ClientInv, Next
    PROVE  Budget'
<1> USE ChatClientAssumption DEF ClientInv, Types, Receivers, Sockets, Budget, Due, Disconnecting, Idle, UserMayAct
<1>1. ASSUME OnConnState PROVE Budget'
  BY <1>1, HeadTail DEF OnConnState
<1>2. ASSUME OnConnectToggle PROVE Budget'
  BY <1>2 DEF OnConnectToggle
<1>3. ASSUME OnClose PROVE Budget'
  BY <1>3 DEF OnClose
<1>4. ASSUME Recover PROVE Budget'
  BY <1>4 DEF Recover
<1>5. ASSUME ConnectFails PROVE Budget'
  BY <1>5 DEF ConnectFails
<1>6. ASSUME ConnectSucceeds PROVE Budget'
  <2>1. Len(posted') = Len(posted) + 1
    BY <1>6, AppendLast DEF ConnectSucceeds, NotifyState
  <2> QED
    BY <1>6, <2>1 DEF ConnectSucceeds
<1>7. ASSUME ShowConnected PROVE Budget'
  BY <1>7 DEF ShowConnected
<1>8. ASSUME StartDisconnect PROVE Budget'
  BY <1>8 DEF StartDisconnect
<1>9. ASSUME ExchangeConnected PROVE Budget'
  BY <1>9 DEF ExchangeConnected
<1>10. ASSUME CloseSocket PROVE Budget'
  BY <1>10 DEF CloseSocket
<1>11. ASSUME JoinReceiver PROVE Budget'
  BY <1>11 DEF JoinReceiver
<1>12. ASSUME FinishDisconnect PROVE Budget'
  <2>1. Len(posted') = Len(posted) + 1
    BY <1>12, AppendLast DEF FinishDisconnect, NotifyState
  <2> QED
    BY <1>12, <2>1 DEF FinishDisconnect
<1>13. ASSUME ReceiveFails PROVE Budget'
  BY <1>13 DEF ReceiveFails
<1>14. ASSUME CheckDisconnecting PROVE Budget'
  BY <1>14 DEF CheckDisconnecting
<1>15. ASSUME StoreConnected PROVE Budget'
  BY <1>15 DEF StoreConnected
<1>16. ASSUME NotifyLost PROVE Budget'
  <2>1. Len(posted') = Len(posted) + 1
    BY <1>16, AppendLast DEF NotifyLost, NotifyState
  <2> QED
    BY <1>16, <2>1 DEF NotifyLost
<1>17. ASSUME PeerCloses PROVE Budget'
  BY <1>17 DEF PeerCloses
<1>18. ASSUME Ended PROVE Budget'
  BY <1>18 DEF Ended, vars
<1> QED
  BY <1>1, <1>2, <1>3, <1>4, <1>5, <1>6, <1>7, <1>8, <1>9, <1>10, <1>11, <1>12, <1>13, <1>14, <1>15, <1>16, <1>17, <1>18
     DEF Next, UserActs, UiStep, ReceiverStep

\* Every step keeps the types; the queue is left to BudgetStep.
LEMMA TypesStep ==
    ASSUME ClientInv, Next
    PROVE  Types'
<1> USE ChatClientAssumption DEF ClientInv, Types, UserMayAct
<1>1. ASSUME OnConnState PROVE Types'
  BY <1>1, HeadTail DEF OnConnState
<1>2. ASSUME OnConnectToggle PROVE Types'
  BY <1>2 DEF OnConnectToggle
<1>3. ASSUME OnClose PROVE Types'
  BY <1>3 DEF OnClose
<1>4. ASSUME Recover PROVE Types'
  BY <1>4 DEF Recover
<1>5. ASSUME ConnectFails PROVE Types'
  BY <1>5 DEF ConnectFails
<1>6. ASSUME ConnectSucceeds PROVE Types'
  BY <1>6, AppendLast DEF ConnectSucceeds, NotifyState
<1>7. ASSUME ShowConnected PROVE Types'
  BY <1>7 DEF ShowConnected
<1>8. ASSUME StartDisconnect PROVE Types'
  BY <1>8 DEF StartDisconnect
<1>9. ASSUME ExchangeConnected PROVE Types'
  BY <1>9 DEF ExchangeConnected
<1>10. ASSUME CloseSocket PROVE Types'
  BY <1>10 DEF CloseSocket
<1>11. ASSUME JoinReceiver PROVE Types'
  BY <1>11 DEF JoinReceiver
<1>12. ASSUME FinishDisconnect PROVE Types'
  BY <1>12, AppendLast DEF FinishDisconnect, NotifyState
<1>13. ASSUME ReceiveFails PROVE Types'
  BY <1>13 DEF ReceiveFails
<1>14. ASSUME CheckDisconnecting PROVE Types'
  BY <1>14 DEF CheckDisconnecting
<1>15. ASSUME StoreConnected PROVE Types'
  BY <1>15 DEF StoreConnected
<1>16. ASSUME NotifyLost PROVE Types'
  BY <1>16, AppendLast DEF NotifyLost, NotifyState
<1>17. ASSUME PeerCloses PROVE Types'
  BY <1>17 DEF PeerCloses
<1>18. ASSUME Ended PROVE Types'
  BY <1>18 DEF Ended, vars
<1> QED
  BY <1>1, <1>2, <1>3, <1>4, <1>5, <1>6, <1>7, <1>8, <1>9, <1>10, <1>11, <1>12, <1>13, <1>14, <1>15, <1>16, <1>17, <1>18
     DEF Next, UserActs, UiStep, ReceiverStep

-----------------------------------------------------------------------------
LEMMA InvAlways == Spec => []ClientInv
<1>1. Init => ClientInv
  <2> SUFFICES ASSUME Init PROVE ClientInv
    OBVIOUS
  <2>1. Types
    <3>1. << >> \in Seq(BOOLEAN)
      BY EmptySeq
    <3>2. posted \in Seq(BOOLEAN)
      BY <3>1 DEF Init
    <3>3. connects \in 0 .. MaxConnects
      BY ChatClientAssumption DEF Init
    <3> QED
      BY <3>2, <3>3 DEF Init, Types
  <2>2. Receivers /\ Sockets
    BY DEF Init, Receivers, Sockets, Idle
  <2>3. Messages
    BY DEF Init, Messages, WillShow
  <2>4. Len(posted) = 0 /\ Due = 2
    BY DEF Init, Due, Disconnecting
  <2>5. Budget
    BY <2>4 DEF Init, Budget
  <2> QED
    BY <2>1, <2>2, <2>3, <2>5 DEF ClientInv
<1>2. ClientInv /\ [Next]_vars => ClientInv'
  <2> SUFFICES ASSUME ClientInv, [Next]_vars PROVE ClientInv'
    OBVIOUS
  <2>1. CASE Next
    <3>1. Types' /\ Receivers' /\ Sockets' /\ Messages' /\ Budget'
      BY <2>1, TypesStep, ReceiversStep, SocketsStep, MessagesStep, BudgetStep
    <3>2. Len(posted)' <= 3 * connects' + 2
      BY <3>1 DEF Types, Budget, Due
    <3> QED
      BY <3>1, <3>2 DEF ClientInv, Types, Types
  <2>2. CASE UNCHANGED vars
    BY <2>2 DEF vars, ClientInv, Types, Receivers, Sockets, Messages, WillShow,
                Budget, Due
  <2> QED
    BY <2>1, <2>2
<1> QED
  BY <1>1, <1>2, PTL DEF Spec

\* The types, and that the queue holds no more messages than connections and
\* ends of connections account for (chat_client.cpp:83, 115, 173).
THEOREM ClientTypeCorrect == Spec => []TypeOK
<1>1. ClientInv => TypeOK
  <2> SUFFICES ASSUME ClientInv PROVE TypeOK
    OBVIOUS
  <2>1. Due \in Nat /\ Len(posted) \in Nat /\ connects \in Nat
    BY ChatClientAssumption DEF ClientInv, Types, Due
  <2>2. Len(posted) <= 3 * connects + 2
    BY <2>1 DEF ClientInv, Budget
  <2> QED
    BY <2>2 DEF ClientInv, TypeOK
<1> QED
  BY <1>1, InvAlways, PTL

\* connectTo joins the old receiver before it starts another, and none is left
\* when the object is destroyed (chat_client.cpp:20-22, 110-112, chat_client.h:22).
THEOREM SingleReceiver == Spec => []OneReceiver
<1>1. ClientInv => OneReceiver
  BY DEF ClientInv, Types, Receivers, OneReceiver
<1> QED
  BY <1>1, InvAlways, PTL

\* No socket is lost from sight (chat_client.cpp:24-28, 101-107).
THEOREM NoSocketLost == Spec => []SocketClosed
<1>1. ClientInv => SocketClosed
  BY DEF ClientInv, Types, Sockets, SocketClosed
<1> QED
  BY <1>1, InvAlways, PTL

\* Once the messages are handled the window shows what connected_ says, however a
\* loss seen by the receiver overlaps with a disconnect and a new connection on
\* the UI thread (chat_client.cpp:83-89, 97-116, 170-174, chat_window.cpp:190-195,
\* 269-287).
THEOREM WindowIsRight == Spec => []WindowAgrees
<1>1. ClientInv => WindowAgrees
  BY DEF ClientInv, Messages, WillShow, WindowAgrees
<1> QED
  BY <1>1, InvAlways, PTL

-----------------------------------------------------------------------------
(***************************************************************************)
(* The UI thread comes back from connectTo and disconnect: where it waits  *)
(* the receiver goes on, and every step of either takes them nearer to the *)
(* end.  What is left of UiReturns is that the threads are scheduled.      *)
(***************************************************************************)

\* A thread that can be joined has been started.
ReceiverStarted == joinable => receiver # "none"

\* Where the UI thread waits for the receiver, recv fails or has failed.
JoinEnds ==
    ui \in {"connect", "join"} /\ joinable /\ receiver # "done" =>
        \/ receiver \in {"check", "store", "notify"}
        \/ receiver = "recv" /\ (~sock \/ connection # "up")

\* The steps of the UI thread to its message loop, or to the end of main.
UiToGo ==
    CASE ui \in {"loop", "ended"} -> 0
      [] ui = "connect" -> 3
      [] ui = "connecting" -> 2
      [] ui = "show" -> 1
      [] ui \in Disconnecting ->
             (CASE ui = "disconnect" -> 5
                [] ui = "exchange" -> 4
                [] ui = "shutdown" -> 3
                [] ui = "join" -> 2
                [] ui = "finish" -> 1)
             + (IF op = "close" THEN 5 ELSE 0)

\* The steps of the receiver to its end.
ReceiverToGo ==
    CASE receiver \in {"none", "done"} -> 0
      [] receiver = "notify" -> 1
      [] receiver = "store" -> 2
      [] receiver = "check" -> 3
      [] receiver = "recv" -> 4

\* connectTo starts a new receiver in one of its steps.
ToGo == 5 * UiToGo + ReceiverToGo

\* Away from the message loop no step of a thread is undone: the user is not
\* listened to, and nothing starts over.
CountsDown ==
    [][ui \notin {"loop", "ended"} =>
           ToGo' < ToGo \/ UNCHANGED <<ui, op, receiver>>]_vars

LEMMA ReceiverStartedStep ==
    ASSUME ClientInv, ReceiverStarted, Next
    PROVE  ReceiverStarted'
<1> USE DEF ClientInv, Types, ReceiverStarted, UserMayAct
<1>1. ASSUME OnConnState PROVE ReceiverStarted'
  BY <1>1 DEF OnConnState
<1>2. ASSUME OnConnectToggle PROVE ReceiverStarted'
  BY <1>2 DEF OnConnectToggle
<1>3. ASSUME OnClose PROVE ReceiverStarted'
  BY <1>3 DEF OnClose
<1>4. ASSUME Recover PROVE ReceiverStarted'
  BY <1>4 DEF Recover
<1>5. ASSUME ConnectFails PROVE ReceiverStarted'
  BY <1>5 DEF ConnectFails
<1>6. ASSUME ConnectSucceeds PROVE ReceiverStarted'
  BY <1>6 DEF ConnectSucceeds
<1>7. ASSUME ShowConnected PROVE ReceiverStarted'
  BY <1>7 DEF ShowConnected
<1>8. ASSUME StartDisconnect PROVE ReceiverStarted'
  BY <1>8 DEF StartDisconnect
<1>9. ASSUME ExchangeConnected PROVE ReceiverStarted'
  BY <1>9 DEF ExchangeConnected
<1>10. ASSUME CloseSocket PROVE ReceiverStarted'
  BY <1>10 DEF CloseSocket
<1>11. ASSUME JoinReceiver PROVE ReceiverStarted'
  BY <1>11 DEF JoinReceiver
<1>12. ASSUME FinishDisconnect PROVE ReceiverStarted'
  BY <1>12 DEF FinishDisconnect
<1>13. ASSUME ReceiveFails PROVE ReceiverStarted'
  BY <1>13 DEF ReceiveFails
<1>14. ASSUME CheckDisconnecting PROVE ReceiverStarted'
  BY <1>14 DEF CheckDisconnecting
<1>15. ASSUME StoreConnected PROVE ReceiverStarted'
  BY <1>15 DEF StoreConnected
<1>16. ASSUME NotifyLost PROVE ReceiverStarted'
  BY <1>16 DEF NotifyLost
<1>17. ASSUME PeerCloses PROVE ReceiverStarted'
  BY <1>17 DEF PeerCloses
<1>18. ASSUME Ended PROVE ReceiverStarted'
  BY <1>18 DEF Ended, vars
<1> QED
  BY <1>1, <1>2, <1>3, <1>4, <1>5, <1>6, <1>7, <1>8, <1>9, <1>10, <1>11, <1>12, <1>13, <1>14, <1>15, <1>16, <1>17, <1>18
     DEF Next, UserActs, UiStep, ReceiverStep

LEMMA AlwaysReceiverStarted == Spec => []ReceiverStarted
<1>1. Init => ReceiverStarted
  BY DEF Init, ReceiverStarted
<1>2. ClientInv /\ ReceiverStarted /\ [Next]_vars => ReceiverStarted'
  <2>1. ASSUME UNCHANGED vars PROVE ReceiverStarted' <=> ReceiverStarted
    BY <2>1 DEF vars, ReceiverStarted
  <2> QED
    BY <2>1, ReceiverStartedStep
<1> QED
  BY <1>1, <1>2, InvAlways, PTL DEF Spec

\* disconnect shuts the socket down before it joins the receiver, and connectTo
\* joins one whose connection was lost (chat_client.cpp:20-22, 101-112).
THEOREM JoinsEnd == Spec => []JoinEnds
<1>1. ClientInv /\ ReceiverStarted => JoinEnds
  BY DEF ClientInv, Types, Sockets, ReceiverStarted, JoinEnds
<1> QED
  BY <1>1, InvAlways, AlwaysReceiverStarted, PTL

LEMMA NearerStep ==
    ASSUME ClientInv, ui \notin {"loop", "ended"}, Next
    PROVE  ToGo' < ToGo \/ UNCHANGED <<ui, op, receiver>>
<1> USE DEF ClientInv, Types, UserMayAct, UiToGo, ReceiverToGo, ToGo, Disconnecting
<1>1. ASSUME OnConnState PROVE ToGo' < ToGo \/ UNCHANGED <<ui, op, receiver>>
  BY <1>1 DEF OnConnState
<1>2. ASSUME OnConnectToggle PROVE ToGo' < ToGo \/ UNCHANGED <<ui, op, receiver>>
  BY <1>2 DEF OnConnectToggle
<1>3. ASSUME OnClose PROVE ToGo' < ToGo \/ UNCHANGED <<ui, op, receiver>>
  BY <1>3 DEF OnClose
<1>4. ASSUME Recover PROVE ToGo' < ToGo \/ UNCHANGED <<ui, op, receiver>>
  BY <1>4 DEF Recover
<1>5. ASSUME ConnectFails PROVE ToGo' < ToGo \/ UNCHANGED <<ui, op, receiver>>
  BY <1>5 DEF ConnectFails
<1>6. ASSUME ConnectSucceeds PROVE ToGo' < ToGo \/ UNCHANGED <<ui, op, receiver>>
  BY <1>6 DEF ConnectSucceeds
<1>7. ASSUME ShowConnected PROVE ToGo' < ToGo \/ UNCHANGED <<ui, op, receiver>>
  BY <1>7 DEF ShowConnected
<1>8. ASSUME StartDisconnect PROVE ToGo' < ToGo \/ UNCHANGED <<ui, op, receiver>>
  BY <1>8 DEF StartDisconnect
<1>9. ASSUME ExchangeConnected PROVE ToGo' < ToGo \/ UNCHANGED <<ui, op, receiver>>
  BY <1>9 DEF ExchangeConnected
<1>10. ASSUME CloseSocket PROVE ToGo' < ToGo \/ UNCHANGED <<ui, op, receiver>>
  BY <1>10 DEF CloseSocket
<1>11. ASSUME JoinReceiver PROVE ToGo' < ToGo \/ UNCHANGED <<ui, op, receiver>>
  BY <1>11 DEF JoinReceiver
<1>12. ASSUME FinishDisconnect PROVE ToGo' < ToGo \/ UNCHANGED <<ui, op, receiver>>
  BY <1>12 DEF FinishDisconnect
<1>13. ASSUME ReceiveFails PROVE ToGo' < ToGo \/ UNCHANGED <<ui, op, receiver>>
  BY <1>13 DEF ReceiveFails
<1>14. ASSUME CheckDisconnecting PROVE ToGo' < ToGo \/ UNCHANGED <<ui, op, receiver>>
  BY <1>14 DEF CheckDisconnecting
<1>15. ASSUME StoreConnected PROVE ToGo' < ToGo \/ UNCHANGED <<ui, op, receiver>>
  BY <1>15 DEF StoreConnected
<1>16. ASSUME NotifyLost PROVE ToGo' < ToGo \/ UNCHANGED <<ui, op, receiver>>
  BY <1>16 DEF NotifyLost
<1>17. ASSUME PeerCloses PROVE ToGo' < ToGo \/ UNCHANGED <<ui, op, receiver>>
  BY <1>17 DEF PeerCloses
<1>18. ASSUME Ended PROVE ToGo' < ToGo \/ UNCHANGED <<ui, op, receiver>>
  BY <1>18 DEF Ended, vars
<1> QED
  BY <1>1, <1>2, <1>3, <1>4, <1>5, <1>6, <1>7, <1>8, <1>9, <1>10, <1>11, <1>12, <1>13, <1>14, <1>15, <1>16, <1>17, <1>18
     DEF Next, UserActs, UiStep, ReceiverStep

\* A click or the end of the program costs the two threads a bounded number of
\* steps, whatever the server does meanwhile (chat_client.cpp:14-116, 132-175).
THEOREM ReturnsInBoundedSteps == Spec => CountsDown
<1>1. ClientInv /\ [Next]_vars
      => [ui \notin {"loop", "ended"} =>
              ToGo' < ToGo \/ UNCHANGED <<ui, op, receiver>>]_vars
  BY NearerStep
<1> QED
  BY <1>1, InvAlways, PTL DEF Spec, CountsDown

-----------------------------------------------------------------------------
(***************************************************************************)
(* What the window shows in the end.                                       *)
(***************************************************************************)

\* The receiver ends with connected_ cleared, or disconnect is about to clear it.
EndedMeansOff ==
    /\ disconnecting => ui \in {"exchange", "shutdown", "join", "finish"}
    /\ receiver = "done" /\ connected => ui = "exchange"

\* The user is not doing anything, the messages are handled, and the receiver waits
\* for the server or is no longer there.
Settled ==
    /\ ui = "loop" /\ posted = << >>
    /\ \/ receiver \in {"none", "done"}
       \/ receiver = "recv" /\ sock /\ connection = "up"

\* Then the window shows whether there is a connection.
ShowsTheTruth == Settled => (shown <=> connection = "up")

LEMMA EndedMeansOffStep ==
    ASSUME ClientInv, EndedMeansOff, Next
    PROVE  EndedMeansOff'
<1> USE DEF ClientInv, Types, Sockets, EndedMeansOff, UserMayAct
<1>1. ASSUME OnConnState PROVE EndedMeansOff'
  BY <1>1 DEF OnConnState
<1>2. ASSUME OnConnectToggle PROVE EndedMeansOff'
  BY <1>2 DEF OnConnectToggle
<1>3. ASSUME OnClose PROVE EndedMeansOff'
  BY <1>3 DEF OnClose
<1>4. ASSUME Recover PROVE EndedMeansOff'
  BY <1>4 DEF Recover
<1>5. ASSUME ConnectFails PROVE EndedMeansOff'
  BY <1>5 DEF ConnectFails
<1>6. ASSUME ConnectSucceeds PROVE EndedMeansOff'
  BY <1>6 DEF ConnectSucceeds
<1>7. ASSUME ShowConnected PROVE EndedMeansOff'
  BY <1>7 DEF ShowConnected
<1>8. ASSUME StartDisconnect PROVE EndedMeansOff'
  BY <1>8 DEF StartDisconnect
<1>9. ASSUME ExchangeConnected PROVE EndedMeansOff'
  BY <1>9 DEF ExchangeConnected
<1>10. ASSUME CloseSocket PROVE EndedMeansOff'
  BY <1>10 DEF CloseSocket
<1>11. ASSUME JoinReceiver PROVE EndedMeansOff'
  BY <1>11 DEF JoinReceiver
<1>12. ASSUME FinishDisconnect PROVE EndedMeansOff'
  BY <1>12 DEF FinishDisconnect
<1>13. ASSUME ReceiveFails PROVE EndedMeansOff'
  BY <1>13 DEF ReceiveFails
<1>14. ASSUME CheckDisconnecting PROVE EndedMeansOff'
  BY <1>14 DEF CheckDisconnecting
<1>15. ASSUME StoreConnected PROVE EndedMeansOff'
  BY <1>15 DEF StoreConnected
<1>16. ASSUME NotifyLost PROVE EndedMeansOff'
  BY <1>16 DEF NotifyLost
<1>17. ASSUME PeerCloses PROVE EndedMeansOff'
  BY <1>17 DEF PeerCloses
<1>18. ASSUME Ended PROVE EndedMeansOff'
  BY <1>18 DEF Ended, vars
<1> QED
  BY <1>1, <1>2, <1>3, <1>4, <1>5, <1>6, <1>7, <1>8, <1>9, <1>10, <1>11, <1>12, <1>13, <1>14, <1>15, <1>16, <1>17, <1>18
     DEF Next, UserActs, UiStep, ReceiverStep

LEMMA AlwaysEndedMeansOff == Spec => []EndedMeansOff
<1>1. Init => EndedMeansOff
  BY DEF Init, EndedMeansOff
<1>2. ClientInv /\ EndedMeansOff /\ [Next]_vars => EndedMeansOff'
  <2>1. ASSUME UNCHANGED vars PROVE EndedMeansOff' <=> EndedMeansOff
    BY <2>1 DEF vars, EndedMeansOff
  <2> QED
    BY <2>1, EndedMeansOffStep
<1> QED
  BY <1>1, <1>2, InvAlways, PTL DEF Spec

\* However the threads overlapped: when they have come to rest the button shows the
\* connection as it is, not only as connected_ says it is (chat_client.cpp:83-88,
\* 97-116, 170-174, chat_window.cpp:190-195, 269-287).  What is left of LossIsShown is
\* that they come to rest.
THEOREM WindowTellsTheTruth == Spec => []ShowsTheTruth
<1>1. ClientInv /\ ReceiverStarted /\ EndedMeansOff => ShowsTheTruth
  <2> SUFFICES ASSUME ClientInv, ReceiverStarted, EndedMeansOff, Settled
               PROVE  shown <=> connection = "up"
    BY DEF ShowsTheTruth
  <2>1. shown <=> connected
    BY DEF ClientInv, Messages, WillShow, Settled
  <2>2. connected <=> connection = "up"
    BY DEF ClientInv, Types, Sockets, ReceiverStarted, EndedMeansOff, Settled
  <2> QED
    BY <2>1, <2>2
<1> QED
  BY <1>1, InvAlways, AlwaysReceiverStarted, AlwaysEndedMeansOff, PTL

=============================================================================
