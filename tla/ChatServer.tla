----------------------------- MODULE ChatServer -----------------------------
(***************************************************************************)
(* The chat server of lab1: ChatServer and ClientSession with their        *)
(* threads, the mutex that guards the list of clients, and the life of the *)
(* session objects.                                                        *)
(*                                                                         *)
(* The threads are the accept thread, the one that waits for "quit" and    *)
(* calls stop(), and one for each session.  A step is what a thread does   *)
(* between two operations that another thread can see: taking the mutex,   *)
(* one send, the join of another thread.                                   *)
(*                                                                         *)
(* A client sends what it likes, may go away at any time and, while it is  *)
(* there, reads what is sent to it: a client that never reads would block  *)
(* the send that holds the mutex.                                          *)
(*                                                                         *)
(* Left out: the order of clients_ (a broadcast visits its members in any  *)
(* order), the contents of the messages, and the reuse of a socket handle  *)
(* by the operating system.                                                *)
(***************************************************************************)
EXTENDS Naturals, FiniteSets

CONSTANTS
    Sessions,      \* the connections that clients make, numbered as accepted
    Accept,        \* acceptThread_
    Quit,          \* the thread of main that calls stop()
    None,
    MaxChats       \* bound: CHAT messages each client sends

ASSUME ChatServerAssumption ==
    /\ Sessions \subseteq Nat
    /\ Accept \notin Sessions /\ Quit \notin Sessions /\ Accept # Quit
    /\ None \notin Sessions \cup {Accept, Quit}
    /\ MaxChats \in Nat

VARIABLES
    running,       \* running_
    listening,     \* listenSock_ is open
    clients,       \* clients_
    mutex,         \* the thread that holds clientsMtx_, or None
    newcomer,      \* cli of acceptLoop
    peer,          \* the client at the other end: "absent", "up" or "gone"
    sock,          \* sock_ is a valid handle
    object,        \* the session object: "none", "live" or "freed"
    joinable,      \* thread_ has been assigned
    pc,            \* where each thread is
    kind,          \* the message a session broadcasts, or broadcast last
    fits,          \* it is not longer than MAX_PAYLOAD
    todo,          \* the clients the broadcast in progress has still to visit
    removed,       \* toRemove of broadcast, toClose of stop
    victim,        \* the element of removed that is being deleted
    chats,         \* the number of CHAT messages received
    crashed,       \* the process has been terminated
    published,     \* history: the number of broadcasts
    heard          \* history: the number of the last one sent to each of clients_

connections == <<peer, sock, chats>>

history == <<published, heard>>

vars == <<running, listening, clients, mutex, newcomer, object, joinable, pc, kind,
          fits, todo, removed, victim, crashed, connections, history>>

Threads == Sessions \cup {Accept, Quit}

\* The threads that delete sessions.
Deleters == Sessions \cup {Quit}

Init ==
    /\ running = TRUE /\ listening = TRUE
    /\ clients = {} /\ mutex = None /\ newcomer = None
    /\ peer = [s \in Sessions |-> "absent"]
    /\ sock = [s \in Sessions |-> FALSE]
    /\ object = [s \in Sessions |-> "none"]
    /\ joinable = [s \in Sessions |-> FALSE]
    /\ pc = [t \in Threads |-> IF t = Accept THEN "accept"
                               ELSE IF t = Quit THEN "idle" ELSE "none"]
    /\ kind = [s \in Sessions |-> "JOIN"]
    /\ fits = [s \in Sessions |-> TRUE]
    /\ todo = {}
    /\ removed = [t \in Deleters |-> {}]
    /\ victim = [t \in Deleters |-> None]
    /\ chats = [s \in Sessions |-> 0]
    /\ crashed = FALSE
    /\ published = 0
    /\ heard = [s \in Sessions |-> 0]

Goto(t, where) == pc' = [pc EXCEPT ![t] = where]

-----------------------------------------------------------------------------
(***************************************************************************)
(* acceptLoop.                                                             *)
(***************************************************************************)
AcceptConnection(s) ==
    /\ pc[Accept] = "accept"
    /\ listening /\ peer[s] = "absent"
    /\ \A r \in Sessions : r < s => peer[r] # "absent"
    /\ peer' = [peer EXCEPT ![s] = "up"]
    /\ sock' = [sock EXCEPT ![s] = TRUE]
    /\ object' = [object EXCEPT ![s] = "live"]
    /\ newcomer' = s
    /\ Goto(Accept, "push")
    /\ UNCHANGED <<running, listening, clients, mutex, joinable, kind, fits, todo,
                   removed, victim, chats, crashed, history>>

\* accept fails once the socket is closed; running_ is false by then.
AcceptFails ==
    /\ pc[Accept] = "accept"
    /\ ~listening
    /\ Goto(Accept, IF running THEN "accept" ELSE "done")
    /\ UNCHANGED <<running, listening, clients, mutex, newcomer, object, joinable,
                   kind, fits, todo, removed, victim, crashed, connections, history>>

PushBack ==
    /\ pc[Accept] = "push"
    /\ mutex = None
    /\ clients' = clients \cup {newcomer}
    /\ heard' = [heard EXCEPT ![newcomer] = published]
    /\ Goto(Accept, "start")
    /\ UNCHANGED <<running, listening, mutex, newcomer, object, joinable, kind, fits,
                   todo, removed, victim, crashed, connections, published>>

\* cli->start(): the thread runs before it is assigned to thread_.  If another
\* thread has deleted the session in the meantime, both steps use freed memory;
\* they may find it unchanged (these actions) or not (Crash).
StartThread ==
    /\ pc[Accept] = "start"
    /\ pc' = [pc EXCEPT ![Accept] = "assign", ![newcomer] = "hello"]
    /\ UNCHANGED <<running, listening, clients, mutex, newcomer, object, joinable,
                   kind, fits, todo, removed, victim, crashed, connections, history>>

\* Mutant of AssignThread: the thread is detached.
DetachThread ==
    /\ pc[Accept] = "assign"
    /\ newcomer' = None
    /\ Goto(Accept, IF running THEN "accept" ELSE "done")
    /\ UNCHANGED <<running, listening, clients, mutex, object, joinable, kind, fits,
                   todo, removed, victim, crashed, connections, history>>

AssignThread ==
    /\ pc[Accept] = "assign"
    /\ joinable' = [joinable EXCEPT ![newcomer] = TRUE]
    /\ newcomer' = None
    /\ Goto(Accept, IF running THEN "accept" ELSE "done")
    /\ UNCHANGED <<running, listening, clients, mutex, object, kind, fits, todo,
                   removed, victim, crashed, connections, history>>

-----------------------------------------------------------------------------
(***************************************************************************)
(* ClientSession::run.                                                     *)
(***************************************************************************)

\* broadcast is called with a message of kind k.
Broadcast(s, k, ok) ==
    /\ kind' = [kind EXCEPT ![s] = k]
    /\ fits' = [fits EXCEPT ![s] = ok]
    /\ Goto(s, "lock")

\* recvFrame fails when forceClose has closed the socket or the client has gone.
ReceiveFails(s) == ~sock[s] \/ peer[s] = "gone"

ReceiveHello(s) ==
    /\ pc[s] = "hello"
    /\ sock[s]
    /\ Broadcast(s, "JOIN", TRUE)
    /\ UNCHANGED <<running, listening, clients, mutex, newcomer, object, joinable,
                   todo, removed, victim, crashed, connections, history>>

\* No frame, or one that is not a HELLO: the session ends, and stays in clients_.
NoHello(s) ==
    /\ pc[s] = "hello"
    /\ sock' = [sock EXCEPT ![s] = FALSE]
    /\ Goto(s, "done")
    /\ UNCHANGED <<running, listening, clients, mutex, newcomer, peer, object,
                   joinable, kind, fits, todo, removed, victim, chats, crashed,
                   history>>

\* The nickname is put in front of the text, so the message may become too long.
ReceiveChat(s) ==
    /\ pc[s] = "recv"
    /\ sock[s] /\ chats[s] < MaxChats
    /\ chats' = [chats EXCEPT ![s] = chats[s] + 1]
    /\ \E ok \in BOOLEAN : Broadcast(s, "CHAT", ok)
    /\ UNCHANGED <<running, listening, clients, mutex, newcomer, peer, sock, object,
                   joinable, todo, removed, victim, crashed, history>>

\* A BYE, a frame that is too long, or no frame: the loop ends.
LeaveLoop(s) ==
    /\ pc[s] = "recv"
    /\ Broadcast(s, "LEAVE", TRUE)
    /\ UNCHANGED <<running, listening, clients, mutex, newcomer, object, joinable,
                   todo, removed, victim, crashed, connections, history>>

\* removeClient
RemoveClient(s) ==
    /\ pc[s] = "remove"
    /\ mutex = None
    /\ clients' = clients \ {s}
    /\ heard' = [heard EXCEPT ![s] = 0]
    /\ Goto(s, "end")
    /\ UNCHANGED <<running, listening, mutex, newcomer, object, joinable, kind, fits,
                   todo, removed, victim, crashed, connections, published>>

EndSession(s) ==
    /\ pc[s] = "end"
    /\ sock' = [sock EXCEPT ![s] = FALSE]
    /\ Goto(s, "done")
    /\ UNCHANGED <<running, listening, clients, mutex, newcomer, peer, object,
                   joinable, kind, fits, todo, removed, victim, chats, crashed,
                   history>>

-----------------------------------------------------------------------------
(***************************************************************************)
(* broadcast.                                                              *)
(***************************************************************************)
Exclude(s) == IF kind[s] = "LEAVE" THEN {s} ELSE {}

\* Mutant of LockForBroadcast: the mutex may be taken already.
BroadcastUnlocked(s) ==
    /\ pc[s] = "lock"
    /\ mutex' = s
    /\ todo' = clients \ Exclude(s)
    /\ published' = published + 1
    /\ heard' = [c \in Sessions |-> IF c \in clients \cap Exclude(s)
                                    THEN published + 1 ELSE heard[c]]
    /\ Goto(s, "send")
    /\ UNCHANGED <<running, listening, clients, newcomer, object, joinable, kind,
                   fits, removed, victim, crashed, connections>>

LockForBroadcast(s) ==
    /\ pc[s] = "lock"
    /\ mutex = None
    /\ mutex' = s
    /\ todo' = clients \ Exclude(s)
    /\ published' = published + 1
    /\ heard' = [c \in Sessions |-> IF c \in clients \cap Exclude(s)
                                    THEN published + 1 ELSE heard[c]]
    /\ Goto(s, "send")
    /\ UNCHANGED <<running, listening, clients, newcomer, object, joinable, kind,
                   fits, removed, victim, crashed, connections>>

\* sendFrame succeeds; it may even when the client has just gone.
SendFrame(s, c) ==
    /\ pc[s] = "send" /\ c \in todo
    /\ fits[s] /\ sock[c]
    /\ heard' = [heard EXCEPT ![c] = published]
    /\ todo' = todo \ {c}
    /\ UNCHANGED <<running, listening, clients, mutex, newcomer, object, joinable, pc,
                   kind, fits, removed, victim, crashed, connections, published>>

SendFails(s, c) == ~fits[s] \/ ~sock[c] \/ peer[c] = "gone"

\* Mutant of EraseClient: it is put on the list but not taken from the other.
KeepClient(s, c) ==
    /\ pc[s] = "send" /\ c \in todo
    /\ SendFails(s, c)
    /\ removed' = [removed EXCEPT ![s] = removed[s] \cup {c}]
    /\ todo' = todo \ {c}
    /\ UNCHANGED <<running, listening, clients, mutex, newcomer, object, joinable, pc,
                   kind, fits, victim, crashed, connections, history>>

EraseClient(s, c) ==
    /\ pc[s] = "send" /\ c \in todo
    /\ SendFails(s, c)
    /\ clients' = clients \ {c}
    /\ heard' = [heard EXCEPT ![c] = 0]
    /\ removed' = [removed EXCEPT ![s] = removed[s] \cup {c}]
    /\ todo' = todo \ {c}
    /\ UNCHANGED <<running, listening, mutex, newcomer, object, joinable, pc, kind,
                   fits, victim, crashed, connections, published>>

\* Where run() goes on after a broadcast.
AfterBroadcast(s) == IF kind[s] = "LEAVE" THEN "remove" ELSE "recv"

\* Mutant of Unlock: a broadcast that has removed somebody unlocks too late.
UnlockAfterDelete(s) ==
    /\ pc[s] = "send" /\ todo = {}
    /\ mutex' = IF removed[s] = {} THEN None ELSE mutex
    /\ Goto(s, IF removed[s] = {} THEN AfterBroadcast(s) ELSE "close")
    /\ UNCHANGED <<running, listening, clients, newcomer, object, joinable, kind,
                   fits, todo, removed, victim, crashed, connections, history>>

Unlock(s) ==
    /\ pc[s] = "send" /\ todo = {}
    /\ mutex' = None
    /\ Goto(s, IF removed[s] = {} THEN AfterBroadcast(s) ELSE "close")
    /\ UNCHANGED <<running, listening, clients, newcomer, object, joinable, kind,
                   fits, todo, removed, victim, crashed, connections, history>>

-----------------------------------------------------------------------------
(***************************************************************************)
(* What broadcast and stop do outside of the lock with the sessions they   *)
(* have taken from clients_: forceClose each, then delete each.  The       *)
(* destructor joins the session's thread.                                  *)
(***************************************************************************)
AfterDelete(t) == IF t = Quit THEN "returned" ELSE AfterBroadcast(t)

\* Mutant of ForceClose: only the first socket is closed.
ForceCloseOne(t) ==
    /\ pc[t] = "close"
    /\ \E v \in removed[t] :
           /\ victim' = [victim EXCEPT ![t] = v]
           /\ sock' = [sock EXCEPT ![v] = FALSE]
    /\ Goto(t, "delete")
    /\ UNCHANGED <<running, listening, clients, mutex, newcomer, peer, object,
                   joinable, kind, fits, todo, removed, chats, crashed, history>>

ForceClose(t) ==
    /\ pc[t] = "close"
    /\ sock' = [s \in Sessions |-> sock[s] /\ s \notin removed[t]]
    /\ \E v \in removed[t] : victim' = [victim EXCEPT ![t] = v]
    /\ Goto(t, "delete")
    /\ UNCHANGED <<running, listening, clients, mutex, newcomer, peer, object,
                   joinable, kind, fits, todo, removed, chats, crashed, history>>

\* join() returns when the thread has ended; a thread cannot join itself.
CanDelete(t) == ~joinable[victim[t]] \/ pc[victim[t]] = "done"

DeleteSession(t) ==
    /\ pc[t] = "delete"
    /\ CanDelete(t)
    /\ object' = [object EXCEPT ![victim[t]] = "freed"]
    /\ removed' = [removed EXCEPT ![t] = removed[t] \ {victim[t]}]
    /\ IF removed[t] = {victim[t]}
       THEN /\ victim' = [victim EXCEPT ![t] = None]
            /\ Goto(t, AfterDelete(t))
       ELSE /\ \E v \in removed[t] \ {victim[t]} : victim' = [victim EXCEPT ![t] = v]
            /\ UNCHANGED pc
    /\ UNCHANGED <<running, listening, clients, mutex, newcomer, joinable, kind, fits,
                   todo, crashed, connections, history>>

-----------------------------------------------------------------------------
(***************************************************************************)
(* stop.                                                                   *)
(***************************************************************************)
StopRunning ==
    /\ pc[Quit] = "idle"
    /\ running' = FALSE
    /\ Goto(Quit, "listen")
    /\ UNCHANGED <<listening, clients, mutex, newcomer, object, joinable, kind, fits,
                   todo, removed, victim, crashed, connections, history>>

CloseListenSock ==
    /\ pc[Quit] = "listen"
    /\ listening' = FALSE
    /\ Goto(Quit, "join")
    /\ UNCHANGED <<running, clients, mutex, newcomer, object, joinable, kind, fits,
                   todo, removed, victim, crashed, connections, history>>

\* Mutant of JoinAccept: the accept thread is not waited for.
SkipJoinAccept ==
    /\ pc[Quit] = "join"
    /\ Goto(Quit, "swap")
    /\ UNCHANGED <<running, listening, clients, mutex, newcomer, object, joinable,
                   kind, fits, todo, removed, victim, crashed, connections, history>>

JoinAccept ==
    /\ pc[Quit] = "join"
    /\ pc[Accept] = "done"
    /\ Goto(Quit, "swap")
    /\ UNCHANGED <<running, listening, clients, mutex, newcomer, object, joinable,
                   kind, fits, todo, removed, victim, crashed, connections, history>>

SwapClients ==
    /\ pc[Quit] = "swap"
    /\ mutex = None
    /\ clients' = {}
    /\ heard' = [s \in Sessions |-> 0]
    /\ removed' = [removed EXCEPT ![Quit] = clients]
    /\ Goto(Quit, IF clients = {} THEN "returned" ELSE "close")
    /\ UNCHANGED <<running, listening, mutex, newcomer, object, joinable, kind, fits,
                   todo, victim, crashed, connections, published>>

-----------------------------------------------------------------------------
(***************************************************************************)
(* The environment.                                                        *)
(***************************************************************************)
\* (After its socket was closed a client that goes makes no difference.)
PeerGoes(s) ==
    /\ peer[s] = "up" /\ sock[s]
    /\ peer' = [peer EXCEPT ![s] = "gone"]
    /\ UNCHANGED <<running, listening, clients, mutex, newcomer, sock, object,
                   joinable, pc, kind, fits, todo, removed, victim, chats, crashed,
                   history>>

\* A thread joins itself: std::system_error out of a destructor.
JoinsItself == \E s \in Sessions : pc[s] = "delete" /\ victim[s] = s /\ joinable[s]

\* A thread is about to use a session that was deleted.
UsesFreed ==
    \E s \in Sessions :
        /\ object[s] = "freed"
        /\ newcomer = s \/ pc[s] \notin {"none", "done"}

Crash ==
    /\ JoinsItself \/ UsesFreed
    /\ crashed' = TRUE
    /\ UNCHANGED <<running, listening, clients, mutex, newcomer, object, joinable, pc,
                   kind, fits, todo, removed, victim, connections, history>>

AcceptThread ==
    \/ \E s \in Sessions : AcceptConnection(s)
    \/ AcceptFails \/ PushBack \/ StartThread \/ AssignThread

SessionThread(s) ==
    \/ ReceiveHello(s) \/ NoHello(s) \/ ReceiveChat(s) \/ LeaveLoop(s)
    \/ LockForBroadcast(s)
    \/ \E c \in Sessions : SendFrame(s, c) \/ EraseClient(s, c)
    \/ Unlock(s)
    \/ ForceClose(s) \/ DeleteSession(s)
    \/ RemoveClient(s) \/ EndSession(s)

QuitThread ==
    \/ StopRunning \/ CloseListenSock \/ JoinAccept \/ SwapClients
    \/ ForceClose(Quit) \/ DeleteSession(Quit)

Next ==
    /\ ~crashed
    /\ \/ AcceptThread
       \/ QuitThread
       \/ \E s \in Sessions : SessionThread(s) \/ PeerGoes(s)
       \/ Crash

Spec == Init /\ [][Next]_vars

-----------------------------------------------------------------------------
(***************************************************************************)
(* Fairness: every thread goes on when it can, and recvFrame returns when  *)
(* the socket is closed or the client has gone.  Nobody has to connect, to *)
(* send anything, to leave or to type "quit".                              *)
(***************************************************************************)
AcceptStep == AcceptFails \/ PushBack \/ StartThread \/ AssignThread

SessionStep(s) ==
    \/ ReceiveFails(s) /\ (NoHello(s) \/ LeaveLoop(s))
    \/ LockForBroadcast(s)
    \/ \E c \in Sessions : SendFrame(s, c) \/ EraseClient(s, c)
    \/ Unlock(s)
    \/ ForceClose(s) \/ DeleteSession(s)
    \/ RemoveClient(s) \/ EndSession(s)

QuitStep ==
    \/ CloseListenSock \/ JoinAccept \/ SwapClients
    \/ ForceClose(Quit) \/ DeleteSession(Quit)

FairSpec ==
    /\ Spec
    /\ WF_vars(~crashed /\ AcceptStep)
    /\ WF_vars(~crashed /\ QuitStep)
    /\ \A s \in Sessions : WF_vars(~crashed /\ SessionStep(s))

-----------------------------------------------------------------------------
(***************************************************************************)
(* Properties.                                                             *)
(***************************************************************************)
SessionPlaces ==
    {"none", "hello", "recv", "lock", "send", "close", "delete", "remove", "end",
     "done"}

TypeOK ==
    /\ running \in BOOLEAN /\ listening \in BOOLEAN /\ crashed \in BOOLEAN
    /\ clients \subseteq Sessions /\ todo \subseteq Sessions
    /\ mutex \in {s \in Sessions : pc[s] = "send"} \cup {None}
    /\ newcomer \in Sessions \cup {None}
    /\ peer \in [Sessions -> {"absent", "up", "gone"}]
    /\ sock \in [Sessions -> BOOLEAN]
    /\ object \in [Sessions -> {"none", "live", "freed"}]
    /\ joinable \in [Sessions -> BOOLEAN]
    /\ pc \in [Threads -> SessionPlaces \cup
                         {"accept", "push", "start", "assign",
                          "idle", "listen", "join", "swap", "returned"}]
    /\ kind \in [Sessions -> {"JOIN", "CHAT", "LEAVE"}]
    /\ fits \in [Sessions -> BOOLEAN]
    /\ removed \in [Deleters -> SUBSET Sessions]
    /\ victim \in [Deleters -> Sessions \cup {None}]
    /\ chats \in [Sessions -> 0 .. MaxChats]
    /\ published \in Nat
    /\ heard \in [Sessions -> Nat]

\* A session in clients_ is alive and belongs to nobody; one that was taken out
\* by a broadcast or by stop() is alive and belongs to that thread alone.  So no
\* broadcast uses a deleted session and none is deleted twice, although the
\* threads delete outside of the lock.
ExclusiveOwner ==
    /\ \A c \in clients : object[c] = "live"
    /\ \A t \in Deleters : \A c \in removed[t] :
           /\ object[c] = "live" /\ c \notin clients
           /\ \A u \in Deleters \ {t} : c \notin removed[u]

\* The thread of a session ends before the session is deleted: its destructor joins
\* it.  Not so in one window, while acceptLoop has put the session in clients_ and not
\* yet assigned its thread_; and stop() never deletes in that window, nor does anybody
\* else once stop() has joined the accept thread.
JoinedBeforeFreed ==
    [][\A s \in Sessions :
           object[s] = "live" /\ object'[s] = "freed" =>
               \/ pc[s] = "done"
               \/ s = newcomer /\ pc[Quit] \in {"idle", "listen", "join"}]_vars

\* Threads that wait for one another in join(), or for themselves.
JoinCycle ==
    \E S \in (SUBSET Sessions) \ {{}} :
        \A s \in S : pc[s] = "delete" /\ victim[s] \in S /\ ~CanDelete(s)

\* Sessions that have removed one another: the threads of those will wait in
\* join() for ever.
ClaimCycle ==
    \E S \in (SUBSET Sessions) \ {{}} : \A s \in S : \E t \in S : s \in removed[t]

\* ~ClientSession "makes sure that the thread has ended": no thread runs whose
\* session has been deleted.
FreedHasEnded ==
    \A s \in Sessions : object[s] = "freed" => pc[s] \in {"none", "done"}

\* When stop() has returned nobody uses the server any more, and the connections
\* are closed; main destroys the server then.  The two defects aside: threads that
\* join each other, and one that runs on in a session that was deleted.
QuietAfterStop ==
    pc[Quit] = "returned" /\ ~ClaimCycle /\ FreedHasEnded =>
        /\ clients = {} /\ mutex = None /\ pc[Accept] = "done"
        /\ \A s \in Sessions :
               pc[s] \in {"none", "end"} \/ (pc[s] = "done" /\ ~sock[s])

\* t cannot go on before u does something: it waits for the mutex that u holds,
\* or in join() for the end of u.
WaitsFor(t, u) ==
    \/ pc[t] \in {"push", "lock", "remove", "swap"} /\ mutex = u
    \/ t = Quit /\ pc[t] = "join" /\ u = Accept /\ pc[u] # "done"
    \/ t \in Deleters /\ pc[t] = "delete" /\ victim[t] = u /\ ~CanDelete(t)

\* t is not running, or is in accept() or recv() with nothing that makes it return.
Rests(t) ==
    \/ pc[t] \in {"none", "done", "idle", "returned"}
    \/ pc[t] = "accept" /\ listening
    \/ pc[t] \in {"hello", "recv"} /\ ~ReceiveFails(t)

\* Who waits for the mutex or in join() waits in the end for a thread that goes
\* on: not in a circle (join cycles aside) and not for one whose accept() or recv()
\* may never return, although stop() and broadcast join the threads of others.
NobodyStuck ==
    ~JoinCycle =>
        \A S \in SUBSET Threads :
            (\A t \in S : Rests(t) \/ \E u \in S : WaitsFor(t, u))
                => \A t \in S : Rests(t)

\* "quit" ends the server, unless threads wait for one another in join().
StopReturns ==
    (pc[Quit] = "listen") ~> (pc[Quit] = "returned" \/ crashed \/ JoinCycle)

\* Those whose departure has been announced.
Departing ==
    {s \in Sessions : kind[s] = "LEAVE" /\ pc[s] # "lock"}

\* The departure of a client that goes away without a word is announced, after
\* whatever its session was doing.
LeaveAnnounced ==
    \A s \in Sessions :
        (pc[s] = "recv" /\ ReceiveFails(s))
            ~> (s \in Departing \/ crashed \/ JoinCycle)

\* Everybody in the list hears the same messages in the same order.
Room == INSTANCE TotalOrderBroadcast WITH
            Members <- Sessions, room <- clients, departing <- Departing

HearsInOrder == Room!Spec

-----------------------------------------------------------------------------
(***************************************************************************)
(* What the comments of chat_server.cpp say, and what does not hold.       *)
(***************************************************************************)

\* broadcast and stop delete outside of the lock "to avoid a deadlock": there is
\* none between the threads that delete each other's sessions.
NoJoinDeadlock == ~JoinCycle

=============================================================================
