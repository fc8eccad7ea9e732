----------------------------- MODULE ChatClient -----------------------------
(***************************************************************************)
(* The chat client of lab1: ChatClientNetwork with its receiver thread,    *)
(* and of ChatWindow the part that drives it, on the UI thread: the        *)
(* connect button, WM_CLOSE and WM_CONN_STATE.                             *)
(*                                                                         *)
(* The receiver tells the window about the connection with PostMessage;    *)
(* the UI thread waits for the receiver only in join.  sock_ is a plain    *)
(* variable that the UI thread writes while the receiver reads it: the     *)
(* receiver finds the old handle, closed, or INVALID_SOCKET, and recvFrame *)
(* fails with either.                                                      *)
(*                                                                         *)
(* Chat lines, which only pass through, are left out.                      *)
(***************************************************************************)
EXTENDS Naturals, Sequences

CONSTANT MaxConnects    \* bound: calls of connectTo

ASSUME ChatClientAssumption == MaxConnects \in Nat

VARIABLES
    ui,             \* where the UI thread is; "loop" is its message loop
    op,             \* what called disconnect: "toggle", "close" or "destructor"
    receiver,       \* where the receiver thread is
    connection,     \* the socket: "none", "up", "lost" (by the peer) or "closed"
    sock,           \* sock_ is a valid handle
    connected,      \* connected_
    disconnecting,  \* disconnecting_
    joinable,       \* recvThread_.joinable()
    posted,         \* the WM_CONN_STATE messages that are queued
    shown,          \* the window shows a connection: its button says disconnect
    connects        \* the number of calls of connectTo so far

vars == <<ui, op, receiver, connection, sock, connected, disconnecting, joinable,
          posted, shown, connects>>

Init ==
    /\ ui = "loop" /\ op = "toggle" /\ receiver = "none"
    /\ connection = "none" /\ sock = FALSE
    /\ connected = FALSE /\ disconnecting = FALSE /\ joinable = FALSE
    /\ posted = << >> /\ shown = FALSE
    /\ connects = 0

NotifyState(b) == posted' = Append(posted, b)

\* The user clicks while the thread is in the message loop; messages may be queued.
UserMayAct == ui = "loop"

-----------------------------------------------------------------------------
(***************************************************************************)
(* The message loop.                                                       *)
(***************************************************************************)

\* WM_CONN_STATE
OnConnState ==
    /\ ui = "loop" /\ posted # << >>
    /\ shown' = Head(posted)
    /\ posted' = Tail(posted)
    /\ UNCHANGED <<ui, op, receiver, connection, sock, connected, disconnecting,
                   joinable, connects>>

\* onConnectToggle tests connected_, not what the button says.
OnConnectToggle ==
    /\ UserMayAct
    /\ op' = "toggle"
    /\ \/ /\ ~connected /\ connects < MaxConnects
          /\ connects' = connects + 1
          /\ ui' = "connect"
       \/ /\ connected
          /\ ui' = "disconnect"
          /\ UNCHANGED connects
    /\ UNCHANGED <<receiver, connection, sock, connected, disconnecting, joinable,
                   posted, shown>>

\* WM_CLOSE
OnClose ==
    /\ UserMayAct
    /\ op' = "close"
    /\ ui' = "disconnect"
    /\ UNCHANGED <<receiver, connection, sock, connected, disconnecting, joinable,
                   posted, shown, connects>>

-----------------------------------------------------------------------------
(***************************************************************************)
(* connectTo.                                                              *)
(***************************************************************************)

\* The receiver of the last connection is joined, its socket closed.
Recover ==
    /\ ui = "connect"
    /\ joinable => receiver = "done"
    /\ joinable' = FALSE
    /\ sock' = FALSE
    /\ connection' = IF sock THEN "closed" ELSE connection
    /\ ui' = "connecting"
    /\ UNCHANGED <<op, receiver, connected, disconnecting, posted, shown, connects>>

\* The name is not resolved, nobody listens, or HELLO cannot be sent.
ConnectFails ==
    /\ ui = "connecting"
    /\ ui' = "loop"
    /\ UNCHANGED <<op, receiver, connection, sock, connected, disconnecting, joinable,
                   posted, shown, connects>>

\* Until the thread is started at the end there is no other.
ConnectSucceeds ==
    /\ ui = "connecting"
    /\ connection' = "up" /\ sock' = TRUE
    /\ connected' = TRUE /\ disconnecting' = FALSE
    /\ NotifyState(TRUE)
    /\ receiver' = "recv" /\ joinable' = TRUE
    /\ ui' = "show"
    /\ UNCHANGED <<op, shown, connects>>

\* updateUiForConnected(true)
ShowConnected ==
    /\ ui = "show"
    /\ shown' = TRUE
    /\ ui' = "loop"
    /\ UNCHANGED <<op, receiver, connection, sock, connected, disconnecting, joinable,
                   posted, connects>>

-----------------------------------------------------------------------------
(***************************************************************************)
(* disconnect.                                                             *)
(***************************************************************************)
StartDisconnect ==
    /\ ui = "disconnect"
    /\ disconnecting' = TRUE
    /\ ui' = "exchange"
    /\ UNCHANGED <<op, receiver, connection, sock, connected, joinable, posted, shown,
                   connects>>

\* Mutant of ExchangeConnected: the socket is never shut down.
ExchangeOnly ==
    /\ ui = "exchange"
    /\ connected' = FALSE
    /\ ui' = "join"
    /\ UNCHANGED <<op, receiver, connection, sock, disconnecting, joinable, posted,
                   shown, connects>>

\* connected_.exchange(false); BYE is sent only to a connection that was up.
ExchangeConnected ==
    /\ ui = "exchange"
    /\ connected' = FALSE
    /\ ui' = IF connected /\ sock THEN "shutdown" ELSE "join"
    /\ UNCHANGED <<op, receiver, connection, sock, disconnecting, joinable, posted,
                   shown, connects>>

\* Mutant of CloseSocket: the handle is forgotten, not closed.
ForgetSocket ==
    /\ ui = "shutdown"
    /\ sock' = FALSE
    /\ ui' = "join"
    /\ UNCHANGED <<op, receiver, connection, connected, disconnecting, joinable,
                   posted, shown, connects>>

CloseSocket ==
    /\ ui = "shutdown"
    /\ connection' = "closed"
    /\ sock' = FALSE
    /\ ui' = "join"
    /\ UNCHANGED <<op, receiver, connected, disconnecting, joinable, posted, shown,
                   connects>>

\* Mutant of JoinReceiver: the thread is not waited for.
SkipJoin ==
    /\ ui = "join"
    /\ joinable' = FALSE
    /\ ui' = "finish"
    /\ UNCHANGED <<op, receiver, connection, sock, connected, disconnecting, posted,
                   shown, connects>>

JoinReceiver ==
    /\ ui = "join"
    /\ joinable => receiver = "done"
    /\ joinable' = FALSE
    /\ ui' = "finish"
    /\ UNCHANGED <<op, receiver, connection, sock, connected, disconnecting, posted,
                   shown, connects>>

\* What follows in the caller: the window is updated, or destroyed and the
\* message loop left; at the end of main the destructor disconnects once more.
FinishDisconnect ==
    /\ ui = "finish"
    /\ disconnecting' = FALSE
    /\ NotifyState(FALSE)
    /\ ui' = CASE op = "toggle" -> "loop"
               [] op = "close" -> "disconnect"
               [] op = "destructor" -> "ended"
    /\ op' = IF op = "close" THEN "destructor" ELSE op
    /\ shown' = IF op = "toggle" THEN FALSE ELSE shown
    /\ UNCHANGED <<receiver, connection, sock, connected, joinable, connects>>

-----------------------------------------------------------------------------
(***************************************************************************)
(* receiverLoop.                                                           *)
(***************************************************************************)
ReceiveFails ==
    /\ receiver = "recv"
    /\ ~sock \/ connection # "up"
    /\ receiver' = "check"
    /\ UNCHANGED <<ui, op, connection, sock, connected, disconnecting, joinable,
                   posted, shown, connects>>

CheckDisconnecting ==
    /\ receiver = "check"
    /\ receiver' = IF disconnecting THEN "done" ELSE "store"
    /\ UNCHANGED <<ui, op, connection, sock, connected, disconnecting, joinable,
                   posted, shown, connects>>

StoreConnected ==
    /\ receiver = "store"
    /\ connected' = FALSE
    /\ receiver' = "notify"
    /\ UNCHANGED <<ui, op, connection, sock, disconnecting, joinable, posted, shown,
                   connects>>

\* Mutant of NotifyLost: the window is not told.
LoseQuietly ==
    /\ receiver = "notify"
    /\ receiver' = "done"
    /\ UNCHANGED <<ui, op, connection, sock, connected, disconnecting, joinable,
                   posted, shown, connects>>

NotifyLost ==
    /\ receiver = "notify"
    /\ NotifyState(FALSE)
    /\ receiver' = "done"
    /\ UNCHANGED <<ui, op, connection, sock, connected, disconnecting, joinable,
                   shown, connects>>

\* The server ends, or puts the client out.
PeerCloses ==
    /\ connection = "up"
    /\ connection' = "lost"
    /\ UNCHANGED <<ui, op, receiver, sock, connected, disconnecting, joinable, posted,
                   shown, connects>>

-----------------------------------------------------------------------------
UserActs == OnConnectToggle \/ OnClose

UiStep ==
    \/ OnConnState
    \/ Recover \/ ConnectFails \/ ConnectSucceeds \/ ShowConnected
    \/ StartDisconnect \/ ExchangeConnected \/ CloseSocket \/ JoinReceiver
    \/ FinishDisconnect

ReceiverStep == ReceiveFails \/ CheckDisconnecting \/ StoreConnected \/ NotifyLost

\* main has returned.
Ended == ui = "ended" /\ UNCHANGED vars

Next == UserActs \/ UiStep \/ ReceiverStep \/ PeerCloses \/ Ended

Spec == Init /\ [][Next]_vars

(***************************************************************************)
(* Fairness: both threads go on when they can; connect returns, with one   *)
(* result or the other.  The user and the server need not do anything.     *)
(***************************************************************************)
FairSpec == Spec /\ WF_vars(UiStep) /\ WF_vars(ReceiverStep)

-----------------------------------------------------------------------------
(***************************************************************************)
(* Properties.                                                             *)
(***************************************************************************)
Types ==
    /\ ui \in {"loop", "connect", "connecting", "show", "disconnect", "exchange",
               "shutdown", "join", "finish", "ended"}
    /\ op \in {"toggle", "close", "destructor"}
    /\ receiver \in {"none", "recv", "check", "store", "notify", "done"}
    /\ connection \in {"none", "up", "lost", "closed"}
    /\ sock \in BOOLEAN /\ connected \in BOOLEAN /\ disconnecting \in BOOLEAN
    /\ joinable \in BOOLEAN /\ shown \in BOOLEAN
    /\ posted \in Seq(BOOLEAN)
    /\ connects \in 0 .. MaxConnects

\* A connection and its end put a bounded number of messages in the queue.
TypeOK == Types /\ Len(posted) <= 3 * connects + 2

\* What the window shows is what connected_ says, once the messages are handled
\* and the receiver is not about to post one, however the end of the old
\* connection and the beginning of the new one overlap.
WindowAgrees ==
    ui = "loop" /\ posted = << >> /\ receiver # "notify" => (shown <=> connected)

\* A receiver that runs is the one recvThread_ holds: connectTo never starts a
\* second one beside it, and it is gone when the object is destroyed.
OneReceiver ==
    /\ receiver \notin {"none", "done"} => joinable
    /\ ui \in {"connecting", "ended"} => ~joinable

\* Every socket that was opened has been closed when the program ends or opens
\* the next one, unless the server closed the connection: then disconnect finds
\* connected_ false and leaves the handle open.
SocketClosed ==
    /\ ui = "connecting" => connection \in {"none", "closed"}
    /\ ui = "ended" => connection # "up"

\* A click never freezes the window: the UI thread comes back from join.
UiReturns == (ui # "loop") ~> (ui \in {"loop", "ended"})

\* When the server closes the connection the window shows it, or the user has
\* ended the program.
LossIsShown == (connection = "lost") ~> (~shown \/ op # "toggle")

=============================================================================
