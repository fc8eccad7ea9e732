------------------------- MODULE ChatServer_proofs -------------------------
(***************************************************************************)
(* The life of the sessions of the chat server, for any number of clients: *)
(* who owns a session object, who has ended when it is deleted, and that   *)
(* everybody hears the broadcasts in one order.                            *)
(*                                                                         *)
(* The heart of the matter is Ownership: a session is born in the hands of *)
(* acceptLoop, belongs to clients_, and then to at most one thread that    *)
(* deletes it; and whoever iterates over clients_ holds the mutex, so what *)
(* is left to visit is still in the list.                                  *)
(***************************************************************************)
EXTENDS ChatServer, TLAPS

\* The places of the accept thread and of the thread of stop(); a thread is
\* never at a place of another kind.
Places ==
    /\ pc[Accept] \in {"accept", "push", "start", "assign", "done"}
    /\ pc[Quit] \in {"idle", "listen", "join", "swap", "close", "delete", "returned"}
    /\ \A s \in Sessions : pc[s] \in SessionPlaces

\* The session in the hands of acceptLoop has no thread before it is started, and
\* is nobody else's before it is in clients_.
Newborn ==
    /\ \A s \in Sessions : peer[s] = "absent" => object[s] = "none" /\ pc[s] = "none"
    /\ pc[Accept] \in {"push", "start", "assign"} =>
           newcomer \in Sessions /\ peer[newcomer] # "absent"
    /\ pc[Accept] \in {"push", "start"} => pc[newcomer] = "none"
    /\ pc[Accept] = "push" =>
           /\ object[newcomer] = "live" /\ newcomer \notin clients
           /\ \A t \in Deleters : newcomer \notin removed[t]

\* Only the thread that holds the mutex has clients left to visit, and they are
\* in the list.
Iteration ==
    /\ \A s \in Sessions : pc[s] = "send" => mutex = s
    /\ mutex = None => todo = {}
    /\ todo \subseteq clients

\* What is being deleted was taken from clients_ by the thread that deletes it.
Victims == \A t \in Deleters : pc[t] = "delete" => victim[t] \in removed[t]

Ownership ==
    TypeOK /\ Places /\ Newborn /\ Iteration /\ Victims /\ ExclusiveOwner

-----------------------------------------------------------------------------
\* What the deletion of a session does: the thread goes on to the next one, or
\* returns from broadcast or stop.
Deletion(t) ==
    /\ victim[t] \in Sessions /\ victim[t] \in removed[t]
    /\ pc[t] = "delete" /\ CanDelete(t)
    /\ object' = [object EXCEPT ![victim[t]] = "freed"]
    /\ removed' = [removed EXCEPT ![t] = removed[t] \ {victim[t]}]
    /\ \E v \in removed[t] \cup {None} : victim' = [victim EXCEPT ![t] = v]
    /\ \E p \in {"delete", "returned", "recv", "remove"} :
           /\ pc' = [pc EXCEPT ![t] = p]
           /\ IF p = "delete" THEN victim'[t] \in removed'[t] ELSE removed'[t] = {}
           /\ IF t = Quit THEN p \in {"delete", "returned"}
                            ELSE p \in {"delete", "recv", "remove"}
           /\ p = "recv" => t \in Sessions /\ kind[t] # "LEAVE"
    /\ UNCHANGED <<running, listening, clients, mutex, newcomer, joinable,
                   kind, fits, todo, crashed, connections, history>>

LEMMA DeleteEffect ==
    ASSUME Ownership, NEW t \in Deleters, DeleteSession(t)
    PROVE  Deletion(t)
<1> USE ChatServerAssumption DEF Ownership, TypeOK, Deleters, Deletion
<1>1. victim[t] \in Sessions /\ victim[t] \in removed[t] /\ pc[t] = "delete"
  BY DEF DeleteSession, Victims
<1>2. CASE removed[t] = {victim[t]}
  <2>1. /\ victim' = [victim EXCEPT ![t] = None]
        /\ pc' = [pc EXCEPT ![t] = AfterDelete(t)]
    BY <1>2 DEF DeleteSession, Goto
  <2>2. IF t = Quit THEN AfterDelete(t) = "returned"
        ELSE /\ AfterDelete(t) \in {"recv", "remove"}
             /\ AfterDelete(t) = "recv" => t \in Sessions /\ kind[t] # "LEAVE"
    BY DEF AfterDelete, AfterBroadcast
  <2>3. removed'[t] = {}
    BY <1>1, <1>2 DEF DeleteSession
  <2>4. AfterDelete(t) # "delete"
    BY <2>2
  <2> QED
    BY <1>1, <2>1, <2>2, <2>3, <2>4 DEF DeleteSession
<1>3. CASE removed[t] # {victim[t]}
  <2>1. PICK v \in removed[t] \ {victim[t]} : victim' = [victim EXCEPT ![t] = v]
    BY <1>3 DEF DeleteSession
  <2>2. pc' = pc /\ pc' = [pc EXCEPT ![t] = "delete"]
    BY <1>1, <1>3 DEF DeleteSession, Threads
  <2>3. victim'[t] \in removed'[t]
    BY <1>1, <2>1 DEF DeleteSession
  <2> QED
    BY <1>1, <2>1, <2>2, <2>3 DEF DeleteSession
<1> QED
  BY <1>2, <1>3

\* Every step keeps the types.
LEMMA TypeStep ==
    ASSUME Ownership, Next
    PROVE  TypeOK'
<1> USE ChatServerAssumption DEF Ownership, TypeOK, Places, Threads, Deleters, SessionPlaces, connections, history, Goto, Broadcast, Iteration
<1>1. ASSUME NEW s \in Sessions, AcceptConnection(s) PROVE TypeOK'
  BY <1>1 DEF AcceptConnection
<1>2. ASSUME AcceptFails PROVE TypeOK'
  BY <1>2 DEF AcceptFails
<1>3. ASSUME PushBack PROVE TypeOK'
  BY <1>3 DEF PushBack, Newborn
<1>4. ASSUME StartThread PROVE TypeOK'
  BY <1>4 DEF StartThread, Newborn
<1>5. ASSUME AssignThread PROVE TypeOK'
  BY <1>5 DEF AssignThread, Newborn
<1>6. ASSUME StopRunning PROVE TypeOK'
  BY <1>6 DEF StopRunning
<1>7. ASSUME CloseListenSock PROVE TypeOK'
  BY <1>7 DEF CloseListenSock
<1>8. ASSUME JoinAccept PROVE TypeOK'
  BY <1>8 DEF JoinAccept
<1>9. ASSUME SwapClients PROVE TypeOK'
  BY <1>9 DEF SwapClients
<1>10. ASSUME NEW t \in Deleters, ForceClose(t) PROVE TypeOK'
  BY <1>10 DEF ForceClose
<1>11. ASSUME NEW t \in Deleters, DeleteSession(t) PROVE TypeOK'
  <2>1. Deletion(t)
    BY <1>11, DeleteEffect
  <2> QED
    BY <2>1 DEF Deletion, CanDelete
<1>12. ASSUME NEW s \in Sessions, ReceiveHello(s) PROVE TypeOK'
  BY <1>12 DEF ReceiveHello
<1>13. ASSUME NEW s \in Sessions, NoHello(s) PROVE TypeOK'
  BY <1>13 DEF NoHello
<1>14. ASSUME NEW s \in Sessions, ReceiveChat(s) PROVE TypeOK'
  BY <1>14 DEF ReceiveChat
<1>15. ASSUME NEW s \in Sessions, LeaveLoop(s) PROVE TypeOK'
  BY <1>15 DEF LeaveLoop
<1>16. ASSUME NEW s \in Sessions, LockForBroadcast(s) PROVE TypeOK'
  BY <1>16 DEF LockForBroadcast, Exclude
<1>17. ASSUME NEW s \in Sessions, NEW c \in Sessions, SendFrame(s, c) PROVE TypeOK'
  BY <1>17 DEF SendFrame
<1>18. ASSUME NEW s \in Sessions, NEW c \in Sessions, EraseClient(s, c) PROVE TypeOK'
  BY <1>18 DEF EraseClient, SendFails
<1>19. ASSUME NEW s \in Sessions, Unlock(s) PROVE TypeOK'
  BY <1>19 DEF Unlock, AfterBroadcast
<1>20. ASSUME NEW s \in Sessions, RemoveClient(s) PROVE TypeOK'
  BY <1>20 DEF RemoveClient
<1>21. ASSUME NEW s \in Sessions, EndSession(s) PROVE TypeOK'
  BY <1>21 DEF EndSession
<1>22. ASSUME NEW s \in Sessions, PeerGoes(s) PROVE TypeOK'
  BY <1>22 DEF PeerGoes
<1>23. ASSUME Crash PROVE TypeOK'
  BY <1>23 DEF Crash
<1> QED
  BY <1>1, <1>2, <1>3, <1>4, <1>5, <1>6, <1>7, <1>8, <1>9, <1>10, <1>11, <1>12, <1>13, <1>14, <1>15, <1>16, <1>17, <1>18, <1>19, <1>20, <1>21, <1>22, <1>23
     DEF Next, AcceptThread, QuitThread, SessionThread, Deleters

\* Every step keeps the threads at their places.
LEMMA PlacesStep ==
    ASSUME Ownership, Next
    PROVE  Places'
<1> USE ChatServerAssumption DEF Ownership, TypeOK, Places, Threads, Deleters, SessionPlaces, connections, history, Goto, Broadcast
<1>1. ASSUME NEW s \in Sessions, AcceptConnection(s) PROVE Places'
  BY <1>1 DEF AcceptConnection
<1>2. ASSUME AcceptFails PROVE Places'
  BY <1>2 DEF AcceptFails
<1>3. ASSUME PushBack PROVE Places'
  BY <1>3 DEF PushBack, Newborn
<1>4. ASSUME StartThread PROVE Places'
  BY <1>4 DEF StartThread, Newborn
<1>5. ASSUME AssignThread PROVE Places'
  BY <1>5 DEF AssignThread, Newborn
<1>6. ASSUME StopRunning PROVE Places'
  BY <1>6 DEF StopRunning
<1>7. ASSUME CloseListenSock PROVE Places'
  BY <1>7 DEF CloseListenSock
<1>8. ASSUME JoinAccept PROVE Places'
  BY <1>8 DEF JoinAccept
<1>9. ASSUME SwapClients PROVE Places'
  BY <1>9 DEF SwapClients
<1>10. ASSUME NEW t \in Deleters, ForceClose(t) PROVE Places'
  BY <1>10 DEF ForceClose
<1>11. ASSUME NEW t \in Deleters, DeleteSession(t) PROVE Places'
  <2>1. Deletion(t)
    BY <1>11, DeleteEffect
  <2> QED
    BY <2>1 DEF Deletion, CanDelete
<1>12. ASSUME NEW s \in Sessions, ReceiveHello(s) PROVE Places'
  BY <1>12 DEF ReceiveHello
<1>13. ASSUME NEW s \in Sessions, NoHello(s) PROVE Places'
  BY <1>13 DEF NoHello
<1>14. ASSUME NEW s \in Sessions, ReceiveChat(s) PROVE Places'
  BY <1>14 DEF ReceiveChat
<1>15. ASSUME NEW s \in Sessions, LeaveLoop(s) PROVE Places'
  BY <1>15 DEF LeaveLoop
<1>16. ASSUME NEW s \in Sessions, LockForBroadcast(s) PROVE Places'
  BY <1>16 DEF LockForBroadcast, Exclude
<1>17. ASSUME NEW s \in Sessions, NEW c \in Sessions, SendFrame(s, c) PROVE Places'
  BY <1>17 DEF SendFrame
<1>18. ASSUME NEW s \in Sessions, NEW c \in Sessions, EraseClient(s, c) PROVE Places'
  BY <1>18 DEF EraseClient, SendFails
<1>19. ASSUME NEW s \in Sessions, Unlock(s) PROVE Places'
  BY <1>19 DEF Unlock, AfterBroadcast
<1>20. ASSUME NEW s \in Sessions, RemoveClient(s) PROVE Places'
  BY <1>20 DEF RemoveClient
<1>21. ASSUME NEW s \in Sessions, EndSession(s) PROVE Places'
  BY <1>21 DEF EndSession
<1>22. ASSUME NEW s \in Sessions, PeerGoes(s) PROVE Places'
  BY <1>22 DEF PeerGoes
<1>23. ASSUME Crash PROVE Places'
  BY <1>23 DEF Crash
<1> QED
  BY <1>1, <1>2, <1>3, <1>4, <1>5, <1>6, <1>7, <1>8, <1>9, <1>10, <1>11, <1>12, <1>13, <1>14, <1>15, <1>16, <1>17, <1>18, <1>19, <1>20, <1>21, <1>22, <1>23
     DEF Next, AcceptThread, QuitThread, SessionThread, Deleters

\* A session stays in the hands of acceptLoop until it is in clients_.
LEMMA NewbornStep ==
    ASSUME Ownership, Next
    PROVE  Newborn'
<1> USE ChatServerAssumption DEF Ownership, TypeOK, Places, Threads, Deleters, SessionPlaces, connections, history, Goto, Broadcast, Newborn, Iteration, ExclusiveOwner
<1>1. ASSUME NEW s \in Sessions, AcceptConnection(s) PROVE Newborn'
  BY <1>1 DEF AcceptConnection
<1>2. ASSUME AcceptFails PROVE Newborn'
  BY <1>2 DEF AcceptFails
<1>3. ASSUME PushBack PROVE Newborn'
  BY <1>3 DEF PushBack
<1>4. ASSUME StartThread PROVE Newborn'
  BY <1>4 DEF StartThread
<1>5. ASSUME AssignThread PROVE Newborn'
  BY <1>5 DEF AssignThread
<1>6. ASSUME StopRunning PROVE Newborn'
  BY <1>6 DEF StopRunning
<1>7. ASSUME CloseListenSock PROVE Newborn'
  BY <1>7 DEF CloseListenSock
<1>8. ASSUME JoinAccept PROVE Newborn'
  BY <1>8 DEF JoinAccept
<1>9. ASSUME SwapClients PROVE Newborn'
  BY <1>9 DEF SwapClients
<1>10. ASSUME NEW t \in Deleters, ForceClose(t) PROVE Newborn'
  BY <1>10 DEF ForceClose
<1>11. ASSUME NEW t \in Deleters, DeleteSession(t) PROVE Newborn'
  <2>1. Deletion(t)
    BY <1>11, DeleteEffect
  <2> QED
    BY <2>1 DEF Deletion, CanDelete
<1>12. ASSUME NEW s \in Sessions, ReceiveHello(s) PROVE Newborn'
  BY <1>12 DEF ReceiveHello
<1>13. ASSUME NEW s \in Sessions, NoHello(s) PROVE Newborn'
  BY <1>13 DEF NoHello
<1>14. ASSUME NEW s \in Sessions, ReceiveChat(s) PROVE Newborn'
  BY <1>14 DEF ReceiveChat
<1>15. ASSUME NEW s \in Sessions, LeaveLoop(s) PROVE Newborn'
  BY <1>15 DEF LeaveLoop
<1>16. ASSUME NEW s \in Sessions, LockForBroadcast(s) PROVE Newborn'
  BY <1>16 DEF LockForBroadcast, Exclude
<1>17. ASSUME NEW s \in Sessions, NEW c \in Sessions, SendFrame(s, c) PROVE Newborn'
  BY <1>17 DEF SendFrame
<1>18. ASSUME NEW s \in Sessions, NEW c \in Sessions, EraseClient(s, c) PROVE Newborn'
  BY <1>18 DEF EraseClient, SendFails
<1>19. ASSUME NEW s \in Sessions, Unlock(s) PROVE Newborn'
  BY <1>19 DEF Unlock, AfterBroadcast
<1>20. ASSUME NEW s \in Sessions, RemoveClient(s) PROVE Newborn'
  BY <1>20 DEF RemoveClient
<1>21. ASSUME NEW s \in Sessions, EndSession(s) PROVE Newborn'
  BY <1>21 DEF EndSession
<1>22. ASSUME NEW s \in Sessions, PeerGoes(s) PROVE Newborn'
  BY <1>22 DEF PeerGoes
<1>23. ASSUME Crash PROVE Newborn'
  BY <1>23 DEF Crash
<1> QED
  BY <1>1, <1>2, <1>3, <1>4, <1>5, <1>6, <1>7, <1>8, <1>9, <1>10, <1>11, <1>12, <1>13, <1>14, <1>15, <1>16, <1>17, <1>18, <1>19, <1>20, <1>21, <1>22, <1>23
     DEF Next, AcceptThread, QuitThread, SessionThread, Deleters

\* The iteration over clients_ stays exclusive.
LEMMA IterationStep ==
    ASSUME Ownership, Next
    PROVE  Iteration'
<1> USE ChatServerAssumption DEF Ownership, TypeOK, Places, Threads, Deleters, SessionPlaces, connections, history, Goto, Broadcast, Iteration
<1>1. ASSUME NEW s \in Sessions, AcceptConnection(s) PROVE Iteration'
  BY <1>1 DEF AcceptConnection
<1>2. ASSUME AcceptFails PROVE Iteration'
  BY <1>2 DEF AcceptFails
<1>3. ASSUME PushBack PROVE Iteration'
  BY <1>3 DEF PushBack, Newborn
<1>4. ASSUME StartThread PROVE Iteration'
  BY <1>4 DEF StartThread, Newborn
<1>5. ASSUME AssignThread PROVE Iteration'
  BY <1>5 DEF AssignThread, Newborn
<1>6. ASSUME StopRunning PROVE Iteration'
  BY <1>6 DEF StopRunning
<1>7. ASSUME CloseListenSock PROVE Iteration'
  BY <1>7 DEF CloseListenSock
<1>8. ASSUME JoinAccept PROVE Iteration'
  BY <1>8 DEF JoinAccept
<1>9. ASSUME SwapClients PROVE Iteration'
  BY <1>9 DEF SwapClients
<1>10. ASSUME NEW t \in Deleters, ForceClose(t) PROVE Iteration'
  BY <1>10 DEF ForceClose
<1>11. ASSUME NEW t \in Deleters, DeleteSession(t) PROVE Iteration'
  <2>1. Deletion(t)
    BY <1>11, DeleteEffect
  <2> QED
    BY <2>1 DEF Deletion, CanDelete
<1>12. ASSUME NEW s \in Sessions, ReceiveHello(s) PROVE Iteration'
  BY <1>12 DEF ReceiveHello
<1>13. ASSUME NEW s \in Sessions, NoHello(s) PROVE Iteration'
  BY <1>13 DEF NoHello
<1>14. ASSUME NEW s \in Sessions, ReceiveChat(s) PROVE Iteration'
  BY <1>14 DEF ReceiveChat
<1>15. ASSUME NEW s \in Sessions, LeaveLoop(s) PROVE Iteration'
  BY <1>15 DEF LeaveLoop
<1>16. ASSUME NEW s \in Sessions, LockForBroadcast(s) PROVE Iteration'
  BY <1>16 DEF LockForBroadcast, Exclude
<1>17. ASSUME NEW s \in Sessions, NEW c \in Sessions, SendFrame(s, c) PROVE Iteration'
  BY <1>17 DEF SendFrame
<1>18. ASSUME NEW s \in Sessions, NEW c \in Sessions, EraseClient(s, c) PROVE Iteration'
  BY <1>18 DEF EraseClient, SendFails
<1>19. ASSUME NEW s \in Sessions, Unlock(s) PROVE Iteration'
  BY <1>19 DEF Unlock, AfterBroadcast
<1>20. ASSUME NEW s \in Sessions, RemoveClient(s) PROVE Iteration'
  BY <1>20 DEF RemoveClient
<1>21. ASSUME NEW s \in Sessions, EndSession(s) PROVE Iteration'
  BY <1>21 DEF EndSession
<1>22. ASSUME NEW s \in Sessions, PeerGoes(s) PROVE Iteration'
  BY <1>22 DEF PeerGoes
<1>23. ASSUME Crash PROVE Iteration'
  BY <1>23 DEF Crash
<1> QED
  BY <1>1, <1>2, <1>3, <1>4, <1>5, <1>6, <1>7, <1>8, <1>9, <1>10, <1>11, <1>12, <1>13, <1>14, <1>15, <1>16, <1>17, <1>18, <1>19, <1>20, <1>21, <1>22, <1>23
     DEF Next, AcceptThread, QuitThread, SessionThread, Deleters

\* A thread deletes nothing but what it has taken.
LEMMA VictimsStep ==
    ASSUME Ownership, Next
    PROVE  Victims'
<1> USE ChatServerAssumption DEF Ownership, TypeOK, Places, Threads, Deleters, SessionPlaces, connections, history, Goto, Broadcast, Victims, Iteration
<1>1. ASSUME NEW s \in Sessions, AcceptConnection(s) PROVE Victims'
  BY <1>1 DEF AcceptConnection
<1>2. ASSUME AcceptFails PROVE Victims'
  BY <1>2 DEF AcceptFails
<1>3. ASSUME PushBack PROVE Victims'
  BY <1>3 DEF PushBack, Newborn
<1>4. ASSUME StartThread PROVE Victims'
  BY <1>4 DEF StartThread, Newborn
<1>5. ASSUME AssignThread PROVE Victims'
  BY <1>5 DEF AssignThread, Newborn
<1>6. ASSUME StopRunning PROVE Victims'
  BY <1>6 DEF StopRunning
<1>7. ASSUME CloseListenSock PROVE Victims'
  BY <1>7 DEF CloseListenSock
<1>8. ASSUME JoinAccept PROVE Victims'
  BY <1>8 DEF JoinAccept
<1>9. ASSUME SwapClients PROVE Victims'
  BY <1>9 DEF SwapClients
<1>10. ASSUME NEW t \in Deleters, ForceClose(t) PROVE Victims'
  BY <1>10 DEF ForceClose
<1>11. ASSUME NEW t \in Deleters, DeleteSession(t) PROVE Victims'
  <2>1. Deletion(t)
    BY <1>11, DeleteEffect
  <2> QED
    BY <2>1 DEF Deletion, CanDelete
<1>12. ASSUME NEW s \in Sessions, ReceiveHello(s) PROVE Victims'
  BY <1>12 DEF ReceiveHello
<1>13. ASSUME NEW s \in Sessions, NoHello(s) PROVE Victims'
  BY <1>13 DEF NoHello
<1>14. ASSUME NEW s \in Sessions, ReceiveChat(s) PROVE Victims'
  BY <1>14 DEF ReceiveChat
<1>15. ASSUME NEW s \in Sessions, LeaveLoop(s) PROVE Victims'
  BY <1>15 DEF LeaveLoop
<1>16. ASSUME NEW s \in Sessions, LockForBroadcast(s) PROVE Victims'
  BY <1>16 DEF LockForBroadcast, Exclude
<1>17. ASSUME NEW s \in Sessions, NEW c \in Sessions, SendFrame(s, c) PROVE Victims'
  BY <1>17 DEF SendFrame
<1>18. ASSUME NEW s \in Sessions, NEW c \in Sessions, EraseClient(s, c) PROVE Victims'
  BY <1>18 DEF EraseClient, SendFails
<1>19. ASSUME NEW s \in Sessions, Unlock(s) PROVE Victims'
  BY <1>19 DEF Unlock, AfterBroadcast
<1>20. ASSUME NEW s \in Sessions, RemoveClient(s) PROVE Victims'
  BY <1>20 DEF RemoveClient
<1>21. ASSUME NEW s \in Sessions, EndSession(s) PROVE Victims'
  BY <1>21 DEF EndSession
<1>22. ASSUME NEW s \in Sessions, PeerGoes(s) PROVE Victims'
  BY <1>22 DEF PeerGoes
<1>23. ASSUME Crash PROVE Victims'
  BY <1>23 DEF Crash
<1> QED
  BY <1>1, <1>2, <1>3, <1>4, <1>5, <1>6, <1>7, <1>8, <1>9, <1>10, <1>11, <1>12, <1>13, <1>14, <1>15, <1>16, <1>17, <1>18, <1>19, <1>20, <1>21, <1>22, <1>23
     DEF Next, AcceptThread, QuitThread, SessionThread, Deleters

\* No session gets a second owner.
LEMMA OwnerStep ==
    ASSUME Ownership, Next
    PROVE  ExclusiveOwner'
<1> USE ChatServerAssumption DEF Ownership, TypeOK, Places, Threads, Deleters, SessionPlaces, connections, history, Goto, Broadcast, Newborn, Iteration, ExclusiveOwner, Victims
<1>1. ASSUME NEW s \in Sessions, AcceptConnection(s) PROVE ExclusiveOwner'
  BY <1>1 DEF AcceptConnection
<1>2. ASSUME AcceptFails PROVE ExclusiveOwner'
  BY <1>2 DEF AcceptFails
<1>3. ASSUME PushBack PROVE ExclusiveOwner'
  BY <1>3 DEF PushBack
<1>4. ASSUME StartThread PROVE ExclusiveOwner'
  BY <1>4 DEF StartThread
<1>5. ASSUME AssignThread PROVE ExclusiveOwner'
  BY <1>5 DEF AssignThread
<1>6. ASSUME StopRunning PROVE ExclusiveOwner'
  BY <1>6 DEF StopRunning
<1>7. ASSUME CloseListenSock PROVE ExclusiveOwner'
  BY <1>7 DEF CloseListenSock
<1>8. ASSUME JoinAccept PROVE ExclusiveOwner'
  BY <1>8 DEF JoinAccept
<1>9. ASSUME SwapClients PROVE ExclusiveOwner'
  BY <1>9 DEF SwapClients
<1>10. ASSUME NEW t \in Deleters, ForceClose(t) PROVE ExclusiveOwner'
  BY <1>10 DEF ForceClose
<1>11. ASSUME NEW t \in Deleters, DeleteSession(t) PROVE ExclusiveOwner'
  <2>1. Deletion(t)
    BY <1>11, DeleteEffect
  <2> QED
    BY <2>1 DEF Deletion, CanDelete
<1>12. ASSUME NEW s \in Sessions, ReceiveHello(s) PROVE ExclusiveOwner'
  BY <1>12 DEF ReceiveHello
<1>13. ASSUME NEW s \in Sessions, NoHello(s) PROVE ExclusiveOwner'
  BY <1>13 DEF NoHello
<1>14. ASSUME NEW s \in Sessions, ReceiveChat(s) PROVE ExclusiveOwner'
  BY <1>14 DEF ReceiveChat
<1>15. ASSUME NEW s \in Sessions, LeaveLoop(s) PROVE ExclusiveOwner'
  BY <1>15 DEF LeaveLoop
<1>16. ASSUME NEW s \in Sessions, LockForBroadcast(s) PROVE ExclusiveOwner'
  BY <1>16 DEF LockForBroadcast, Exclude
<1>17. ASSUME NEW s \in Sessions, NEW c \in Sessions, SendFrame(s, c) PROVE ExclusiveOwner'
  BY <1>17 DEF SendFrame
<1>18. ASSUME NEW s \in Sessions, NEW c \in Sessions, EraseClient(s, c) PROVE ExclusiveOwner'
  BY <1>18 DEF EraseClient, SendFails
<1>19. ASSUME NEW s \in Sessions, Unlock(s) PROVE ExclusiveOwner'
  BY <1>19 DEF Unlock, AfterBroadcast
<1>20. ASSUME NEW s \in Sessions, RemoveClient(s) PROVE ExclusiveOwner'
  BY <1>20 DEF RemoveClient
<1>21. ASSUME NEW s \in Sessions, EndSession(s) PROVE ExclusiveOwner'
  BY <1>21 DEF EndSession
<1>22. ASSUME NEW s \in Sessions, PeerGoes(s) PROVE ExclusiveOwner'
  BY <1>22 DEF PeerGoes
<1>23. ASSUME Crash PROVE ExclusiveOwner'
  BY <1>23 DEF Crash
<1> QED
  BY <1>1, <1>2, <1>3, <1>4, <1>5, <1>6, <1>7, <1>8, <1>9, <1>10, <1>11, <1>12, <1>13, <1>14, <1>15, <1>16, <1>17, <1>18, <1>19, <1>20, <1>21, <1>22, <1>23
     DEF Next, AcceptThread, QuitThread, SessionThread, Deleters

LEMMA OwnershipInit == Init => Ownership
<1> SUFFICES ASSUME Init PROVE Ownership
  OBVIOUS
<1> USE ChatServerAssumption DEF Init, Threads, Deleters, SessionPlaces
<1>1. /\ pc[Accept] = "accept" /\ pc[Quit] = "idle"
      /\ \A s \in Sessions : pc[s] = "none"
  OBVIOUS
<1>2. TypeOK
  <2>1. /\ pc \in [Threads -> SessionPlaces \cup
                     {"accept", "push", "start", "assign",
                      "idle", "listen", "join", "swap", "returned"}]
        /\ mutex \in {s \in Sessions : pc[s] = "send"} \cup {None}
    OBVIOUS
  <2>2. /\ removed \in [Deleters -> SUBSET Sessions]
        /\ victim \in [Deleters -> Sessions \cup {None}]
    OBVIOUS
  <2>3. /\ chats \in [Sessions -> 0 .. MaxChats]
        /\ published \in Nat /\ heard \in [Sessions -> Nat]
    OBVIOUS
  <2> QED
    BY <2>1, <2>2, <2>3 DEF TypeOK
<1>3. Places /\ Newborn /\ Iteration /\ Victims /\ ExclusiveOwner
  BY <1>1 DEF Places, Newborn, Iteration, Victims, ExclusiveOwner
<1> QED
  BY <1>2, <1>3 DEF Ownership

LEMMA OwnershipStep ==
    ASSUME Ownership, [Next]_vars
    PROVE  Ownership'
<1>1. CASE Next
  BY <1>1, TypeStep, PlacesStep, NewbornStep, IterationStep, VictimsStep, OwnerStep
     DEF Ownership
<1>2. CASE UNCHANGED vars
  BY <1>2
     DEF vars, connections, history, Ownership, TypeOK, Places, Newborn, Iteration,
         Victims, ExclusiveOwner
<1> QED
  BY <1>1, <1>2

LEMMA AlwaysOwnership == Spec => []Ownership
BY OwnershipInit, OwnershipStep, PTL DEF Spec

\* The types are kept, and with them the mutex: the thread that holds it is in
\* the loop of broadcast.
THEOREM TypeCorrect == Spec => []TypeOK
BY AlwaysOwnership, PTL DEF Ownership

\* A session object has one owner at a time, however many clients connect, fail
\* and leave while others broadcast and stop() runs (chat_server.cpp:54-126): none
\* is used by a broadcast after it was deleted, and none is deleted twice.
THEOREM OneOwner == Spec => []ExclusiveOwner
BY AlwaysOwnership, PTL DEF Ownership

-----------------------------------------------------------------------------
\* A session that is alive has its thread_ assigned, or is the one acceptLoop has in
\* its hands, and it has none when stop() goes on.
Assigned ==
    /\ \A s \in Sessions : object[s] = "live" => joinable[s] \/ s = newcomer
    /\ pc[Accept] \in {"accept", "done"} => newcomer = None
    /\ pc[Quit] \in {"swap", "close", "delete", "returned"} => pc[Accept] = "done"

\* It stays so.
LEMMA AssignedStep ==
    ASSUME Ownership, Assigned, Next
    PROVE  Assigned'
<1> USE ChatServerAssumption DEF Ownership, TypeOK, Places, Threads, Deleters, SessionPlaces, connections, history, Goto, Broadcast, Newborn, Assigned
<1>1. ASSUME NEW s \in Sessions, AcceptConnection(s) PROVE Assigned'
  BY <1>1 DEF AcceptConnection
<1>2. ASSUME AcceptFails PROVE Assigned'
  BY <1>2 DEF AcceptFails
<1>3. ASSUME PushBack PROVE Assigned'
  BY <1>3 DEF PushBack
<1>4. ASSUME StartThread PROVE Assigned'
  BY <1>4 DEF StartThread
<1>5. ASSUME AssignThread PROVE Assigned'
  BY <1>5 DEF AssignThread
<1>6. ASSUME StopRunning PROVE Assigned'
  BY <1>6 DEF StopRunning
<1>7. ASSUME CloseListenSock PROVE Assigned'
  BY <1>7 DEF CloseListenSock
<1>8. ASSUME JoinAccept PROVE Assigned'
  BY <1>8 DEF JoinAccept
<1>9. ASSUME SwapClients PROVE Assigned'
  BY <1>9 DEF SwapClients
<1>10. ASSUME NEW t \in Deleters, ForceClose(t) PROVE Assigned'
  BY <1>10 DEF ForceClose
<1>11. ASSUME NEW t \in Deleters, DeleteSession(t) PROVE Assigned'
  <2>1. Deletion(t)
    BY <1>11, DeleteEffect
  <2> QED
    BY <2>1 DEF Deletion, CanDelete
<1>12. ASSUME NEW s \in Sessions, ReceiveHello(s) PROVE Assigned'
  BY <1>12 DEF ReceiveHello
<1>13. ASSUME NEW s \in Sessions, NoHello(s) PROVE Assigned'
  BY <1>13 DEF NoHello
<1>14. ASSUME NEW s \in Sessions, ReceiveChat(s) PROVE Assigned'
  BY <1>14 DEF ReceiveChat
<1>15. ASSUME NEW s \in Sessions, LeaveLoop(s) PROVE Assigned'
  BY <1>15 DEF LeaveLoop
<1>16. ASSUME NEW s \in Sessions, LockForBroadcast(s) PROVE Assigned'
  BY <1>16 DEF LockForBroadcast, Exclude
<1>17. ASSUME NEW s \in Sessions, NEW c \in Sessions, SendFrame(s, c) PROVE Assigned'
  BY <1>17 DEF SendFrame
<1>18. ASSUME NEW s \in Sessions, NEW c \in Sessions, EraseClient(s, c) PROVE Assigned'
  BY <1>18 DEF EraseClient, SendFails
<1>19. ASSUME NEW s \in Sessions, Unlock(s) PROVE Assigned'
  BY <1>19 DEF Unlock, AfterBroadcast
<1>20. ASSUME NEW s \in Sessions, RemoveClient(s) PROVE Assigned'
  BY <1>20 DEF RemoveClient
<1>21. ASSUME NEW s \in Sessions, EndSession(s) PROVE Assigned'
  BY <1>21 DEF EndSession
<1>22. ASSUME NEW s \in Sessions, PeerGoes(s) PROVE Assigned'
  BY <1>22 DEF PeerGoes
<1>23. ASSUME Crash PROVE Assigned'
  BY <1>23 DEF Crash
<1> QED
  BY <1>1, <1>2, <1>3, <1>4, <1>5, <1>6, <1>7, <1>8, <1>9, <1>10, <1>11, <1>12, <1>13, <1>14, <1>15, <1>16, <1>17, <1>18, <1>19, <1>20, <1>21, <1>22, <1>23
     DEF Next, AcceptThread, QuitThread, SessionThread, Deleters

LEMMA AlwaysAssigned == Spec => []Assigned
<1>1. Init => Assigned
  BY ChatServerAssumption DEF Init, Assigned, Threads
<1>2. Ownership /\ Assigned /\ [Next]_vars => Assigned'
  <2> SUFFICES ASSUME Ownership, Assigned, [Next]_vars PROVE Assigned'
    OBVIOUS
  <2>1. CASE Next
    BY <2>1, AssignedStep
  <2>2. CASE UNCHANGED vars
    BY <2>2 DEF vars, Assigned
  <2> QED
    BY <2>1, <2>2
<1> QED
  BY <1>1, <1>2, AlwaysOwnership, PTL DEF Spec

\* Only DeleteSession deletes.
LEMMA OnlyDeleteFrees ==
    ASSUME Ownership, Next, NEW s \in Sessions,
           object[s] = "live", object'[s] = "freed"
    PROVE  \E t \in Deleters : DeleteSession(t) /\ s = victim[t]
<1> USE DEF Ownership, TypeOK, connections, history
<1>1. \E t \in Deleters : DeleteSession(t)
  <2>1. ASSUME NEW t \in Deleters, ForceClose(t) PROVE object' = object
    BY <2>1 DEF ForceClose
  <2>2. ASSUME AcceptThread PROVE object'[s] # "freed"
    BY <2>2 DEF AcceptThread, AcceptConnection, AcceptFails, PushBack, StartThread,
                AssignThread
  <2>3. ASSUME StopRunning \/ CloseListenSock \/ JoinAccept \/ SwapClients
        PROVE  object' = object
    BY <2>3 DEF StopRunning, CloseListenSock, JoinAccept, SwapClients
  <2>4. ASSUME NEW r \in Sessions,
               \/ ReceiveHello(r) \/ NoHello(r) \/ ReceiveChat(r) \/ LeaveLoop(r)
               \/ LockForBroadcast(r) \/ Unlock(r) \/ RemoveClient(r) \/ EndSession(r)
               \/ PeerGoes(r)
        PROVE  object' = object
    BY <2>4 DEF ReceiveHello, NoHello, ReceiveChat, LeaveLoop, LockForBroadcast,
                Unlock, RemoveClient, EndSession, PeerGoes
  <2>5. ASSUME NEW r \in Sessions, NEW c \in Sessions,
               SendFrame(r, c) \/ EraseClient(r, c)
        PROVE  object' = object
    BY <2>5 DEF SendFrame, EraseClient
  <2>6. ASSUME Crash PROVE object' = object
    BY <2>6 DEF Crash
  <2> QED
    BY <2>1, <2>2, <2>3, <2>4, <2>5, <2>6 DEF Next, QuitThread, SessionThread, Deleters
<1>2. PICK t \in Deleters : DeleteSession(t)
  BY <1>1
<1>3. object' = [object EXCEPT ![victim[t]] = "freed"]
  BY <1>2 DEF DeleteSession
<1> QED
  BY <1>2, <1>3

\* A session is deleted only after its thread has ended, unless its thread_ is not yet
\* assigned, and never otherwise once stop() has joined the accept thread
\* (chat_server.cpp:64, 142-148 and 155-164).
THEOREM EndedBeforeFreed == Spec => JoinedBeforeFreed
<1> DEFINE A == \A s \in Sessions :
                   object[s] = "live" /\ object'[s] = "freed" =>
                       \/ pc[s] = "done"
                       \/ s = newcomer /\ pc[Quit] \in {"idle", "listen", "join"}
<1>1. Ownership /\ Assigned /\ Next => A
  <2> SUFFICES ASSUME Ownership, Assigned, Next, NEW s \in Sessions,
                      object[s] = "live", object'[s] = "freed", pc[s] # "done"
               PROVE  s = newcomer /\ pc[Quit] \in {"idle", "listen", "join"}
    OBVIOUS
  <2>1. PICK t \in Deleters : DeleteSession(t) /\ s = victim[t]
    BY OnlyDeleteFrees
  <2>2. ~joinable[s]
    BY <2>1 DEF DeleteSession, CanDelete
  <2>3. s = newcomer
    BY <2>2 DEF Assigned
  <2>4. pc[Accept] # "done"
    BY <2>3, ChatServerAssumption DEF Assigned
  <2> QED
    BY <2>3, <2>4 DEF Assigned, Ownership, Places
<1>2. Ownership /\ Assigned /\ [Next]_vars => [A]_vars
  BY <1>1
<1> QED
  BY <1>2, AlwaysOwnership, AlwaysAssigned, PTL DEF Spec, JoinedBeforeFreed

-----------------------------------------------------------------------------
(***************************************************************************)
(* The refinement: everybody in clients_ hears the broadcasts in one order. *)
(***************************************************************************)

\* A thread that can still broadcast something else has not said goodbye.
NotYetGone ==
    \A s \in Sessions : pc[s] \in {"none", "hello", "recv"} => kind[s] # "LEAVE"

\* Those a broadcast has still to visit have heard all but its message, the others
\* in the list have heard all.
HeardSoFar ==
    \A c \in Sessions :
        /\ c \notin clients => heard[c] = 0
        /\ c \in todo => heard[c] + 1 = published
        /\ c \in clients \ todo => heard[c] = published

\* A session says goodbye once, and then nothing.
LEMMA GoneStep ==
    ASSUME Ownership, NotYetGone, Next
    PROVE  NotYetGone'
<1> USE ChatServerAssumption DEF Ownership, TypeOK, Places, Threads, Deleters, SessionPlaces, connections, history, Goto, Broadcast, Newborn, NotYetGone
<1>1. ASSUME NEW s \in Sessions, AcceptConnection(s) PROVE NotYetGone'
  BY <1>1 DEF AcceptConnection
<1>2. ASSUME AcceptFails PROVE NotYetGone'
  BY <1>2 DEF AcceptFails
<1>3. ASSUME PushBack PROVE NotYetGone'
  BY <1>3 DEF PushBack
<1>4. ASSUME StartThread PROVE NotYetGone'
  BY <1>4 DEF StartThread
<1>5. ASSUME AssignThread PROVE NotYetGone'
  BY <1>5 DEF AssignThread
<1>6. ASSUME StopRunning PROVE NotYetGone'
  BY <1>6 DEF StopRunning
<1>7. ASSUME CloseListenSock PROVE NotYetGone'
  BY <1>7 DEF CloseListenSock
<1>8. ASSUME JoinAccept PROVE NotYetGone'
  BY <1>8 DEF JoinAccept
<1>9. ASSUME SwapClients PROVE NotYetGone'
  BY <1>9 DEF SwapClients
<1>10. ASSUME NEW t \in Deleters, ForceClose(t) PROVE NotYetGone'
  BY <1>10 DEF ForceClose
<1>11. ASSUME NEW t \in Deleters, DeleteSession(t) PROVE NotYetGone'
  <2>1. Deletion(t)
    BY <1>11, DeleteEffect
  <2> QED
    BY <2>1 DEF Deletion, CanDelete
<1>12. ASSUME NEW s \in Sessions, ReceiveHello(s) PROVE NotYetGone'
  BY <1>12 DEF ReceiveHello
<1>13. ASSUME NEW s \in Sessions, NoHello(s) PROVE NotYetGone'
  BY <1>13 DEF NoHello
<1>14. ASSUME NEW s \in Sessions, ReceiveChat(s) PROVE NotYetGone'
  BY <1>14 DEF ReceiveChat
<1>15. ASSUME NEW s \in Sessions, LeaveLoop(s) PROVE NotYetGone'
  BY <1>15 DEF LeaveLoop
<1>16. ASSUME NEW s \in Sessions, LockForBroadcast(s) PROVE NotYetGone'
  BY <1>16 DEF LockForBroadcast, Exclude
<1>17. ASSUME NEW s \in Sessions, NEW c \in Sessions, SendFrame(s, c) PROVE NotYetGone'
  BY <1>17 DEF SendFrame
<1>18. ASSUME NEW s \in Sessions, NEW c \in Sessions, EraseClient(s, c) PROVE NotYetGone'
  BY <1>18 DEF EraseClient, SendFails
<1>19. ASSUME NEW s \in Sessions, Unlock(s) PROVE NotYetGone'
  BY <1>19 DEF Unlock, AfterBroadcast
<1>20. ASSUME NEW s \in Sessions, RemoveClient(s) PROVE NotYetGone'
  BY <1>20 DEF RemoveClient
<1>21. ASSUME NEW s \in Sessions, EndSession(s) PROVE NotYetGone'
  BY <1>21 DEF EndSession
<1>22. ASSUME NEW s \in Sessions, PeerGoes(s) PROVE NotYetGone'
  BY <1>22 DEF PeerGoes
<1>23. ASSUME Crash PROVE NotYetGone'
  BY <1>23 DEF Crash
<1> QED
  BY <1>1, <1>2, <1>3, <1>4, <1>5, <1>6, <1>7, <1>8, <1>9, <1>10, <1>11, <1>12, <1>13, <1>14, <1>15, <1>16, <1>17, <1>18, <1>19, <1>20, <1>21, <1>22, <1>23
     DEF Next, AcceptThread, QuitThread, SessionThread, Deleters

\* A broadcast reaches everybody before the mutex is free again.
LEMMA HeardStep ==
    ASSUME Ownership, HeardSoFar, Next
    PROVE  HeardSoFar'
<1> USE ChatServerAssumption DEF Ownership, TypeOK, Places, Threads, Deleters, SessionPlaces, connections, history, Goto, Broadcast, Newborn, Iteration, HeardSoFar
<1>1. ASSUME NEW s \in Sessions, AcceptConnection(s) PROVE HeardSoFar'
  BY <1>1 DEF AcceptConnection
<1>2. ASSUME AcceptFails PROVE HeardSoFar'
  BY <1>2 DEF AcceptFails
<1>3. ASSUME PushBack PROVE HeardSoFar'
  BY <1>3 DEF PushBack
<1>4. ASSUME StartThread PROVE HeardSoFar'
  BY <1>4 DEF StartThread
<1>5. ASSUME AssignThread PROVE HeardSoFar'
  BY <1>5 DEF AssignThread
<1>6. ASSUME StopRunning PROVE HeardSoFar'
  BY <1>6 DEF StopRunning
<1>7. ASSUME CloseListenSock PROVE HeardSoFar'
  BY <1>7 DEF CloseListenSock
<1>8. ASSUME JoinAccept PROVE HeardSoFar'
  BY <1>8 DEF JoinAccept
<1>9. ASSUME SwapClients PROVE HeardSoFar'
  BY <1>9 DEF SwapClients
<1>10. ASSUME NEW t \in Deleters, ForceClose(t) PROVE HeardSoFar'
  BY <1>10 DEF ForceClose
<1>11. ASSUME NEW t \in Deleters, DeleteSession(t) PROVE HeardSoFar'
  <2>1. Deletion(t)
    BY <1>11, DeleteEffect
  <2> QED
    BY <2>1 DEF Deletion, CanDelete
<1>12. ASSUME NEW s \in Sessions, ReceiveHello(s) PROVE HeardSoFar'
  BY <1>12 DEF ReceiveHello
<1>13. ASSUME NEW s \in Sessions, NoHello(s) PROVE HeardSoFar'
  BY <1>13 DEF NoHello
<1>14. ASSUME NEW s \in Sessions, ReceiveChat(s) PROVE HeardSoFar'
  BY <1>14 DEF ReceiveChat
<1>15. ASSUME NEW s \in Sessions, LeaveLoop(s) PROVE HeardSoFar'
  BY <1>15 DEF LeaveLoop
<1>16. ASSUME NEW s \in Sessions, LockForBroadcast(s) PROVE HeardSoFar'
  BY <1>16 DEF LockForBroadcast, Exclude
<1>17. ASSUME NEW s \in Sessions, NEW c \in Sessions, SendFrame(s, c) PROVE HeardSoFar'
  BY <1>17 DEF SendFrame
<1>18. ASSUME NEW s \in Sessions, NEW c \in Sessions, EraseClient(s, c) PROVE HeardSoFar'
  BY <1>18 DEF EraseClient
<1>19. ASSUME NEW s \in Sessions, Unlock(s) PROVE HeardSoFar'
  BY <1>19 DEF Unlock, AfterBroadcast
<1>20. ASSUME NEW s \in Sessions, RemoveClient(s) PROVE HeardSoFar'
  BY <1>20 DEF RemoveClient
<1>21. ASSUME NEW s \in Sessions, EndSession(s) PROVE HeardSoFar'
  BY <1>21 DEF EndSession
<1>22. ASSUME NEW s \in Sessions, PeerGoes(s) PROVE HeardSoFar'
  BY <1>22 DEF PeerGoes
<1>23. ASSUME Crash PROVE HeardSoFar'
  BY <1>23 DEF Crash
<1> QED
  BY <1>1, <1>2, <1>3, <1>4, <1>5, <1>6, <1>7, <1>8, <1>9, <1>10, <1>11, <1>12, <1>13, <1>14, <1>15, <1>16, <1>17, <1>18, <1>19, <1>20, <1>21, <1>22, <1>23
     DEF Next, AcceptThread, QuitThread, SessionThread, Deleters

Listening == Ownership /\ NotYetGone /\ HeardSoFar

LEMMA AlwaysListening == Spec => []Listening
<1>1. Init => NotYetGone /\ HeardSoFar
  BY ChatServerAssumption DEF Init, NotYetGone, HeardSoFar
<1>2. Listening /\ [Next]_vars => NotYetGone' /\ HeardSoFar'
  <2> SUFFICES ASSUME Listening, [Next]_vars PROVE NotYetGone' /\ HeardSoFar'
    OBVIOUS
  <2>1. CASE Next
    BY <2>1, GoneStep, HeardStep DEF Listening
  <2>2. CASE UNCHANGED vars
    BY <2>2 DEF vars, history, Listening, NotYetGone, HeardSoFar
  <2> QED
    BY <2>1, <2>2
<1> QED
  BY <1>1, <1>2, AlwaysOwnership, PTL DEF Spec, Listening

\* The steps that are silent in the room: they change neither the list nor who
\* has heard what, and announce nobody's departure.
LEMMA SilentSteps ==
    ASSUME Listening, Next, UNCHANGED <<clients, history>>
    PROVE  Departing' = Departing
<1> USE ChatServerAssumption DEF Listening, Ownership, TypeOK, Places, Threads, Deleters, SessionPlaces, connections, history, Goto, Broadcast, Newborn, NotYetGone, Departing
<1>1. ASSUME NEW s \in Sessions, AcceptConnection(s) PROVE Departing' = Departing
  BY <1>1 DEF AcceptConnection
<1>2. ASSUME AcceptFails PROVE Departing' = Departing
  BY <1>2 DEF AcceptFails
<1>3. ASSUME PushBack PROVE Departing' = Departing
  BY <1>3 DEF PushBack
<1>4. ASSUME StartThread PROVE Departing' = Departing
  BY <1>4 DEF StartThread
<1>5. ASSUME AssignThread PROVE Departing' = Departing
  BY <1>5 DEF AssignThread
<1>6. ASSUME StopRunning PROVE Departing' = Departing
  BY <1>6 DEF StopRunning
<1>7. ASSUME CloseListenSock PROVE Departing' = Departing
  BY <1>7 DEF CloseListenSock
<1>8. ASSUME JoinAccept PROVE Departing' = Departing
  BY <1>8 DEF JoinAccept
<1>9. ASSUME SwapClients PROVE Departing' = Departing
  BY <1>9 DEF SwapClients
<1>10. ASSUME NEW t \in Deleters, ForceClose(t) PROVE Departing' = Departing
  BY <1>10 DEF ForceClose
<1>11. ASSUME NEW t \in Deleters, DeleteSession(t) PROVE Departing' = Departing
  <2>1. Deletion(t)
    BY <1>11, DeleteEffect
  <2> QED
    BY <2>1 DEF Deletion
<1>12. ASSUME NEW s \in Sessions, ReceiveHello(s) PROVE Departing' = Departing
  BY <1>12 DEF ReceiveHello
<1>13. ASSUME NEW s \in Sessions, NoHello(s) PROVE Departing' = Departing
  BY <1>13 DEF NoHello
<1>14. ASSUME NEW s \in Sessions, ReceiveChat(s) PROVE Departing' = Departing
  BY <1>14 DEF ReceiveChat
<1>15. ASSUME NEW s \in Sessions, LeaveLoop(s) PROVE Departing' = Departing
  BY <1>15 DEF LeaveLoop
<1>16. ASSUME NEW s \in Sessions, LockForBroadcast(s) PROVE Departing' = Departing
  BY <1>16 DEF LockForBroadcast
<1>17. ASSUME NEW s \in Sessions, NEW c \in Sessions, SendFrame(s, c) PROVE Departing' = Departing
  BY <1>17 DEF SendFrame
<1>18. ASSUME NEW s \in Sessions, NEW c \in Sessions, EraseClient(s, c) PROVE Departing' = Departing
  BY <1>18 DEF EraseClient
<1>19. ASSUME NEW s \in Sessions, Unlock(s) PROVE Departing' = Departing
  BY <1>19 DEF Unlock, AfterBroadcast
<1>20. ASSUME NEW s \in Sessions, RemoveClient(s) PROVE Departing' = Departing
  BY <1>20 DEF RemoveClient
<1>21. ASSUME NEW s \in Sessions, EndSession(s) PROVE Departing' = Departing
  BY <1>21 DEF EndSession
<1>22. ASSUME NEW s \in Sessions, PeerGoes(s) PROVE Departing' = Departing
  BY <1>22 DEF PeerGoes
<1>23. ASSUME Crash PROVE Departing' = Departing
  BY <1>23 DEF Crash
<1> QED
  BY <1>1, <1>2, <1>3, <1>4, <1>5, <1>6, <1>7, <1>8, <1>9, <1>10, <1>11, <1>12, <1>13, <1>14, <1>15, <1>16, <1>17, <1>18, <1>19, <1>20, <1>21, <1>22, <1>23
     DEF Next, AcceptThread, QuitThread, SessionThread, Deleters

\* The steps that the room sees.
LEMMA RoomSteps ==
    ASSUME Listening, Next
    PROVE  Room!Next \/ UNCHANGED Room!vars
<1> USE ChatServerAssumption DEF Listening, Ownership, TypeOK, Places, Threads, Deleters, history, Goto, Iteration, HeardSoFar, Room!Next, Room!CaughtUp
<1>1. ASSUME PushBack PROVE Room!Next
  <2>1. newcomer \in Sessions /\ newcomer \notin clients
    BY <1>1 DEF PushBack, Newborn
  <2>2. Departing' = Departing
    BY <1>1 DEF PushBack, Departing
  <2>3. Room!Enter(newcomer)
    BY <1>1, <2>1, <2>2 DEF PushBack, Room!Enter
  <2> QED
    BY <2>1, <2>3
<1>2. ASSUME NEW s \in Sessions, LockForBroadcast(s) PROVE Room!Next
  <2>1. \A c \in clients : heard[c] = published
    BY <1>2 DEF LockForBroadcast
  <2>2. CASE kind[s] = "LEAVE"
    <3>1. s \notin Departing /\ Departing' = Departing \cup {s}
      BY <1>2, <2>2 DEF LockForBroadcast, Departing
    <3>2. heard' = IF s \in clients THEN [heard EXCEPT ![s] = published + 1]
                                    ELSE heard
      <4>1. clients \cap Exclude(s) = IF s \in clients THEN {s} ELSE {}
        BY <2>2 DEF Exclude
      <4>2. heard' = [c \in Sessions |-> IF c \in clients \cap Exclude(s)
                                         THEN published + 1 ELSE heard[c]]
        BY <1>2 DEF LockForBroadcast
      <4>3. CASE s \in clients
        BY <4>1, <4>2, <4>3
      <4>4. CASE s \notin clients
        BY <4>1, <4>2, <4>4
      <4> QED
        BY <4>3, <4>4
    <3>3. Room!Farewell(s)
      BY <1>2, <2>1, <3>1, <3>2 DEF LockForBroadcast, Room!Farewell
    <3> QED
      BY <3>3
  <2>3. CASE kind[s] # "LEAVE"
    <3>1. Departing' = Departing
      BY <1>2, <2>3 DEF LockForBroadcast, Departing
    <3>2. heard' = heard
      BY <1>2, <2>3 DEF LockForBroadcast, Exclude
    <3>3. Room!Publish
      BY <1>2, <2>1, <3>1, <3>2 DEF LockForBroadcast, Room!Publish
    <3> QED
      BY <3>3
  <2> QED
    BY <2>2, <2>3
<1>3. ASSUME NEW s \in Sessions, NEW c \in Sessions, SendFrame(s, c) PROVE Room!Next
  <2>1. heard[c] + 1 = published /\ c \in clients
    BY <1>3 DEF SendFrame
  <2>2. Departing' = Departing
    BY <1>3 DEF SendFrame, Departing
  <2>3. heard[c] < published /\ heard' = [heard EXCEPT ![c] = heard[c] + 1]
    <3>1. published = heard[c] + 1 /\ heard[c] \in Nat
      BY <2>1
    <3>2. heard' = [heard EXCEPT ![c] = published]
      BY <1>3 DEF SendFrame
    <3>3. heard[c] < published
      BY <3>1
    <3> QED
      BY <3>1, <3>2, <3>3
  <2>4. Room!Hear(c)
    BY <1>3, <2>1, <2>2, <2>3 DEF SendFrame, Room!Hear
  <2> QED
    BY <2>4
<1>4. ASSUME NEW s \in Sessions, NEW c \in Sessions, EraseClient(s, c) PROVE Room!Next
  <2>1. Departing' = Departing
    BY <1>4 DEF EraseClient, Departing
  <2>2. {c} \subseteq clients
    BY <1>4 DEF EraseClient
  <2>3. heard' = [d \in Sessions |-> IF d \in {c} THEN 0 ELSE heard[d]]
    BY <1>4 DEF EraseClient
  <2>4. Room!Leave({c})
    BY <1>4, <2>1, <2>3 DEF EraseClient, Room!Leave
  <2> QED
    BY <2>2, <2>4
<1>5. ASSUME NEW s \in Sessions, RemoveClient(s) PROVE Room!Next
  <2>1. Departing' = Departing
    BY <1>5 DEF RemoveClient, Departing
  <2>2. heard' = [d \in Sessions |-> IF d \in clients \cap {s} THEN 0 ELSE heard[d]]
    BY <1>5 DEF RemoveClient
  <2>3. Room!Leave(clients \cap {s})
    BY <1>5, <2>1, <2>2 DEF RemoveClient, Room!Leave
  <2> QED
    BY <2>3
<1>6. ASSUME SwapClients PROVE Room!Next
  <2>1. Departing' = Departing
    BY <1>6 DEF SwapClients, Departing
  <2>2. heard' = [d \in Sessions |-> IF d \in clients THEN 0 ELSE heard[d]]
    BY <1>6 DEF SwapClients
  <2>3. Room!Leave(clients)
    BY <1>6, <2>1, <2>2 DEF SwapClients, Room!Leave
  <2> QED
    BY <2>3
<1>7. CASE UNCHANGED <<clients, history>>
  BY <1>7, SilentSteps DEF Room!vars
<1>8. \/ UNCHANGED <<clients, history>>
      \/ PushBack \/ SwapClients
      \/ \E s \in Sessions : LockForBroadcast(s) \/ RemoveClient(s)
      \/ \E s, c \in Sessions : SendFrame(s, c) \/ EraseClient(s, c)
  BY DEF Next, AcceptThread, QuitThread, SessionThread, AcceptConnection, AcceptFails,
         StartThread, AssignThread, StopRunning, CloseListenSock, JoinAccept, ForceClose,
         DeleteSession, ReceiveHello, NoHello, ReceiveChat, LeaveLoop, Unlock, EndSession,
         PeerGoes, Crash, connections
<1> QED
  BY <1>1, <1>2, <1>3, <1>4, <1>5, <1>6, <1>7, <1>8

\* The server implements TotalOrderBroadcast (chat_server.cpp:86-114, 120-126): the
\* mutex is held for a whole broadcast, so all who are in the list hear the same
\* messages in the same order and nobody misses one while he is in it.
THEOREM BroadcastsInOrder == Spec => HearsInOrder
<1>1. Init => Room!Init
  BY DEF Init, Room!Init, Departing
<1>2. Listening /\ [Next]_vars => [Room!Next]_(Room!vars)
  <2> SUFFICES ASSUME Listening, [Next]_vars PROVE [Room!Next]_(Room!vars)
    OBVIOUS
  <2>1. CASE Next
    BY <2>1, RoomSteps
  <2>2. CASE UNCHANGED vars
    BY <2>2 DEF vars, history, Room!vars, Departing
  <2> QED
    BY <2>1, <2>2
<1> QED
  BY <1>1, <1>2, AlwaysListening, PTL DEF Spec, HearsInOrder, Room!Spec

-----------------------------------------------------------------------------
(***************************************************************************)
(* The end of the server.                                                  *)
(***************************************************************************)

\* A session object that is alive is in clients_ or in the hands of a thread that
\* deletes it, unless acceptLoop has not got so far, or removeClient has taken it
\* out of the list; its own thread ends then.
Accounted ==
    /\ \A s \in Sessions : object[s] = "none" => pc[s] = "none" /\ peer[s] = "absent"
    /\ \A s \in Sessions : object[s] = "live" =>
           \/ s \in clients
           \/ \E t \in Deleters : s \in removed[t]
           \/ pc[s] \in {"end", "done"}
           \/ pc[Accept] = "push" /\ newcomer = s

\* A thread that has sessions to delete is on the way to it.
Busy ==
    /\ \A s \in Sessions : removed[s] # {} => pc[s] \in {"send", "close", "delete"}
    /\ removed[Quit] # {} => pc[Quit] \in {"close", "delete"}

\* stop() takes the list when acceptLoop has ended, so it stays empty.
Emptied ==
    /\ pc[Quit] \in {"swap", "close", "delete", "returned"} => pc[Accept] = "done"
    /\ pc[Quit] \in {"close", "delete", "returned"} => clients = {}

\* A thread that has ended has closed its socket.
SocketsClosed == \A s \in Sessions : pc[s] = "done" => ~sock[s]

Shutdown == Accounted /\ Busy /\ Emptied /\ SocketsClosed

\* No session is lost sight of.
LEMMA AccountedStep ==
    ASSUME Ownership, Accounted, Busy, Emptied, Next
    PROVE  Accounted'
<1> USE ChatServerAssumption DEF Ownership, TypeOK, Places, Threads, Deleters, SessionPlaces, connections, history, Goto, Broadcast, Newborn, Iteration, ExclusiveOwner, Accounted
<1>1. ASSUME NEW s \in Sessions, AcceptConnection(s) PROVE Accounted'
  BY <1>1 DEF AcceptConnection
<1>2. ASSUME AcceptFails PROVE Accounted'
  BY <1>2 DEF AcceptFails
<1>3. ASSUME PushBack PROVE Accounted'
  BY <1>3 DEF PushBack
<1>4. ASSUME StartThread PROVE Accounted'
  <2>1. newcomer \in Sessions /\ pc[newcomer] = "none" /\ pc[Accept] = "start"
    BY <1>4 DEF StartThread
  <2>2. object[newcomer] # "none"
    BY <2>1 DEF Newborn, Accounted
  <2>3. \A s \in Sessions : s # newcomer => pc'[s] = pc[s]
    BY <1>4, <2>1 DEF StartThread
  <2> QED
    BY <1>4, <2>1, <2>2, <2>3 DEF StartThread
<1>5. ASSUME AssignThread PROVE Accounted'
  BY <1>5 DEF AssignThread
<1>6. ASSUME StopRunning PROVE Accounted'
  BY <1>6 DEF StopRunning
<1>7. ASSUME CloseListenSock PROVE Accounted'
  BY <1>7 DEF CloseListenSock
<1>8. ASSUME JoinAccept PROVE Accounted'
  BY <1>8 DEF JoinAccept
<1>9. ASSUME SwapClients PROVE Accounted'
  <2>1. removed[Quit] = {}
    BY <1>9 DEF SwapClients, Busy
  <2>2. \A s \in Sessions : pc'[s] = pc[s]
    BY <1>9 DEF SwapClients
  <2>3. removed'[Quit] = clients /\ \A t \in Sessions : removed'[t] = removed[t]
    BY <1>9 DEF SwapClients
  <2>4. ASSUME NEW s \in Sessions, object'[s] = "live"
        PROVE  \/ \E t \in Deleters : s \in removed'[t]
               \/ pc'[s] \in {"end", "done"}
    <3>1. \/ s \in clients \/ \E t \in Sessions : s \in removed[t]
          \/ pc[s] \in {"end", "done"} \/ pc[Accept] = "push"
      BY <1>9, <2>1, <2>4 DEF SwapClients
    <3>2. pc[Accept] # "push"
      BY <1>9 DEF SwapClients, Emptied
    <3> QED
      BY <3>1, <3>2, <2>2, <2>3
  <2> QED
    BY <1>9, <2>2, <2>4 DEF SwapClients
<1>10. ASSUME NEW t \in Deleters, ForceClose(t) PROVE Accounted'
  BY <1>10 DEF ForceClose
<1>11. ASSUME NEW t \in Deleters, DeleteSession(t) PROVE Accounted'
  <2>1. Deletion(t)
    BY <1>11, DeleteEffect
  <2> QED
    BY <2>1 DEF Deletion, CanDelete
<1>12. ASSUME NEW s \in Sessions, ReceiveHello(s) PROVE Accounted'
  BY <1>12 DEF ReceiveHello
<1>13. ASSUME NEW s \in Sessions, NoHello(s) PROVE Accounted'
  BY <1>13 DEF NoHello
<1>14. ASSUME NEW s \in Sessions, ReceiveChat(s) PROVE Accounted'
  BY <1>14 DEF ReceiveChat
<1>15. ASSUME NEW s \in Sessions, LeaveLoop(s) PROVE Accounted'
  BY <1>15 DEF LeaveLoop
<1>16. ASSUME NEW s \in Sessions, LockForBroadcast(s) PROVE Accounted'
  BY <1>16 DEF LockForBroadcast
<1>17. ASSUME NEW s \in Sessions, NEW c \in Sessions, SendFrame(s, c) PROVE Accounted'
  BY <1>17 DEF SendFrame
<1>18. ASSUME NEW s \in Sessions, NEW c \in Sessions, EraseClient(s, c) PROVE Accounted'
  BY <1>18 DEF EraseClient
<1>19. ASSUME NEW s \in Sessions, Unlock(s) PROVE Accounted'
  BY <1>19 DEF Unlock, AfterBroadcast
<1>20. ASSUME NEW s \in Sessions, RemoveClient(s) PROVE Accounted'
  BY <1>20 DEF RemoveClient
<1>21. ASSUME NEW s \in Sessions, EndSession(s) PROVE Accounted'
  BY <1>21 DEF EndSession
<1>22. ASSUME NEW s \in Sessions, PeerGoes(s) PROVE Accounted'
  BY <1>22 DEF PeerGoes
<1>23. ASSUME Crash PROVE Accounted'
  BY <1>23 DEF Crash
<1> QED
  BY <1>1, <1>2, <1>3, <1>4, <1>5, <1>6, <1>7, <1>8, <1>9, <1>10, <1>11, <1>12, <1>13, <1>14, <1>15, <1>16, <1>17, <1>18, <1>19, <1>20, <1>21, <1>22, <1>23
     DEF Next, AcceptThread, QuitThread, SessionThread, Deleters

\* Whoever takes a session out of the list goes on to delete it.
LEMMA BusyStep ==
    ASSUME Ownership, Busy, Next
    PROVE  Busy'
<1> USE ChatServerAssumption DEF Ownership, TypeOK, Places, Threads, Deleters, SessionPlaces, connections, history, Goto, Broadcast, Newborn, Iteration, ExclusiveOwner, Busy
<1>1. ASSUME NEW s \in Sessions, AcceptConnection(s) PROVE Busy'
  BY <1>1 DEF AcceptConnection
<1>2. ASSUME AcceptFails PROVE Busy'
  BY <1>2 DEF AcceptFails
<1>3. ASSUME PushBack PROVE Busy'
  BY <1>3 DEF PushBack
<1>4. ASSUME StartThread PROVE Busy'
  BY <1>4 DEF StartThread
<1>5. ASSUME AssignThread PROVE Busy'
  BY <1>5 DEF AssignThread
<1>6. ASSUME StopRunning PROVE Busy'
  BY <1>6 DEF StopRunning
<1>7. ASSUME CloseListenSock PROVE Busy'
  BY <1>7 DEF CloseListenSock
<1>8. ASSUME JoinAccept PROVE Busy'
  BY <1>8 DEF JoinAccept
<1>9. ASSUME SwapClients PROVE Busy'
  BY <1>9 DEF SwapClients
<1>10. ASSUME NEW t \in Deleters, ForceClose(t) PROVE Busy'
  BY <1>10 DEF ForceClose
<1>11. ASSUME NEW t \in Deleters, DeleteSession(t) PROVE Busy'
  <2>1. Deletion(t)
    BY <1>11, DeleteEffect
  <2> QED
    BY <2>1 DEF Deletion, CanDelete
<1>12. ASSUME NEW s \in Sessions, ReceiveHello(s) PROVE Busy'
  BY <1>12 DEF ReceiveHello
<1>13. ASSUME NEW s \in Sessions, NoHello(s) PROVE Busy'
  BY <1>13 DEF NoHello
<1>14. ASSUME NEW s \in Sessions, ReceiveChat(s) PROVE Busy'
  BY <1>14 DEF ReceiveChat
<1>15. ASSUME NEW s \in Sessions, LeaveLoop(s) PROVE Busy'
  BY <1>15 DEF LeaveLoop
<1>16. ASSUME NEW s \in Sessions, LockForBroadcast(s) PROVE Busy'
  BY <1>16 DEF LockForBroadcast
<1>17. ASSUME NEW s \in Sessions, NEW c \in Sessions, SendFrame(s, c) PROVE Busy'
  BY <1>17 DEF SendFrame
<1>18. ASSUME NEW s \in Sessions, NEW c \in Sessions, EraseClient(s, c) PROVE Busy'
  BY <1>18 DEF EraseClient
<1>19. ASSUME NEW s \in Sessions, Unlock(s) PROVE Busy'
  BY <1>19 DEF Unlock, AfterBroadcast
<1>20. ASSUME NEW s \in Sessions, RemoveClient(s) PROVE Busy'
  BY <1>20 DEF RemoveClient
<1>21. ASSUME NEW s \in Sessions, EndSession(s) PROVE Busy'
  BY <1>21 DEF EndSession
<1>22. ASSUME NEW s \in Sessions, PeerGoes(s) PROVE Busy'
  BY <1>22 DEF PeerGoes
<1>23. ASSUME Crash PROVE Busy'
  BY <1>23 DEF Crash
<1> QED
  BY <1>1, <1>2, <1>3, <1>4, <1>5, <1>6, <1>7, <1>8, <1>9, <1>10, <1>11, <1>12, <1>13, <1>14, <1>15, <1>16, <1>17, <1>18, <1>19, <1>20, <1>21, <1>22, <1>23
     DEF Next, AcceptThread, QuitThread, SessionThread, Deleters

\* The list stays empty.
LEMMA EmptiedStep ==
    ASSUME Ownership, Emptied, Next
    PROVE  Emptied'
<1> USE ChatServerAssumption DEF Ownership, TypeOK, Places, Threads, Deleters, SessionPlaces, connections, history, Goto, Broadcast, Newborn, Iteration, ExclusiveOwner, Emptied
<1>1. ASSUME NEW s \in Sessions, AcceptConnection(s) PROVE Emptied'
  BY <1>1 DEF AcceptConnection
<1>2. ASSUME AcceptFails PROVE Emptied'
  BY <1>2 DEF AcceptFails
<1>3. ASSUME PushBack PROVE Emptied'
  BY <1>3 DEF PushBack
<1>4. ASSUME StartThread PROVE Emptied'
  BY <1>4 DEF StartThread
<1>5. ASSUME AssignThread PROVE Emptied'
  BY <1>5 DEF AssignThread
<1>6. ASSUME StopRunning PROVE Emptied'
  BY <1>6 DEF StopRunning
<1>7. ASSUME CloseListenSock PROVE Emptied'
  BY <1>7 DEF CloseListenSock
<1>8. ASSUME JoinAccept PROVE Emptied'
  BY <1>8 DEF JoinAccept
<1>9. ASSUME SwapClients PROVE Emptied'
  BY <1>9 DEF SwapClients
<1>10. ASSUME NEW t \in Deleters, ForceClose(t) PROVE Emptied'
  BY <1>10 DEF ForceClose
<1>11. ASSUME NEW t \in Deleters, DeleteSession(t) PROVE Emptied'
  <2>1. Deletion(t)
    BY <1>11, DeleteEffect
  <2> QED
    BY <2>1 DEF Deletion, CanDelete
<1>12. ASSUME NEW s \in Sessions, ReceiveHello(s) PROVE Emptied'
  BY <1>12 DEF ReceiveHello
<1>13. ASSUME NEW s \in Sessions, NoHello(s) PROVE Emptied'
  BY <1>13 DEF NoHello
<1>14. ASSUME NEW s \in Sessions, ReceiveChat(s) PROVE Emptied'
  BY <1>14 DEF ReceiveChat
<1>15. ASSUME NEW s \in Sessions, LeaveLoop(s) PROVE Emptied'
  BY <1>15 DEF LeaveLoop
<1>16. ASSUME NEW s \in Sessions, LockForBroadcast(s) PROVE Emptied'
  BY <1>16 DEF LockForBroadcast
<1>17. ASSUME NEW s \in Sessions, NEW c \in Sessions, SendFrame(s, c) PROVE Emptied'
  BY <1>17 DEF SendFrame
<1>18. ASSUME NEW s \in Sessions, NEW c \in Sessions, EraseClient(s, c) PROVE Emptied'
  BY <1>18 DEF EraseClient
<1>19. ASSUME NEW s \in Sessions, Unlock(s) PROVE Emptied'
  BY <1>19 DEF Unlock, AfterBroadcast
<1>20. ASSUME NEW s \in Sessions, RemoveClient(s) PROVE Emptied'
  BY <1>20 DEF RemoveClient
<1>21. ASSUME NEW s \in Sessions, EndSession(s) PROVE Emptied'
  BY <1>21 DEF EndSession
<1>22. ASSUME NEW s \in Sessions, PeerGoes(s) PROVE Emptied'
  BY <1>22 DEF PeerGoes
<1>23. ASSUME Crash PROVE Emptied'
  BY <1>23 DEF Crash
<1> QED
  BY <1>1, <1>2, <1>3, <1>4, <1>5, <1>6, <1>7, <1>8, <1>9, <1>10, <1>11, <1>12, <1>13, <1>14, <1>15, <1>16, <1>17, <1>18, <1>19, <1>20, <1>21, <1>22, <1>23
     DEF Next, AcceptThread, QuitThread, SessionThread, Deleters

\* The socket is closed before the thread ends.
LEMMA SocketsClosedStep ==
    ASSUME Ownership, SocketsClosed, Next
    PROVE  SocketsClosed'
<1> USE ChatServerAssumption DEF Ownership, TypeOK, Places, Threads, Deleters, SessionPlaces, connections, history, Goto, Broadcast, Newborn, Iteration, ExclusiveOwner, SocketsClosed
<1>1. ASSUME NEW s \in Sessions, AcceptConnection(s) PROVE SocketsClosed'
  BY <1>1 DEF AcceptConnection
<1>2. ASSUME AcceptFails PROVE SocketsClosed'
  BY <1>2 DEF AcceptFails
<1>3. ASSUME PushBack PROVE SocketsClosed'
  BY <1>3 DEF PushBack
<1>4. ASSUME StartThread PROVE SocketsClosed'
  BY <1>4 DEF StartThread
<1>5. ASSUME AssignThread PROVE SocketsClosed'
  BY <1>5 DEF AssignThread
<1>6. ASSUME StopRunning PROVE SocketsClosed'
  BY <1>6 DEF StopRunning
<1>7. ASSUME CloseListenSock PROVE SocketsClosed'
  BY <1>7 DEF CloseListenSock
<1>8. ASSUME JoinAccept PROVE SocketsClosed'
  BY <1>8 DEF JoinAccept
<1>9. ASSUME SwapClients PROVE SocketsClosed'
  BY <1>9 DEF SwapClients
<1>10. ASSUME NEW t \in Deleters, ForceClose(t) PROVE SocketsClosed'
  BY <1>10 DEF ForceClose
<1>11. ASSUME NEW t \in Deleters, DeleteSession(t) PROVE SocketsClosed'
  <2>1. Deletion(t)
    BY <1>11, DeleteEffect
  <2> QED
    BY <2>1 DEF Deletion, CanDelete
<1>12. ASSUME NEW s \in Sessions, ReceiveHello(s) PROVE SocketsClosed'
  BY <1>12 DEF ReceiveHello
<1>13. ASSUME NEW s \in Sessions, NoHello(s) PROVE SocketsClosed'
  BY <1>13 DEF NoHello
<1>14. ASSUME NEW s \in Sessions, ReceiveChat(s) PROVE SocketsClosed'
  BY <1>14 DEF ReceiveChat
<1>15. ASSUME NEW s \in Sessions, LeaveLoop(s) PROVE SocketsClosed'
  BY <1>15 DEF LeaveLoop
<1>16. ASSUME NEW s \in Sessions, LockForBroadcast(s) PROVE SocketsClosed'
  BY <1>16 DEF LockForBroadcast
<1>17. ASSUME NEW s \in Sessions, NEW c \in Sessions, SendFrame(s, c) PROVE SocketsClosed'
  BY <1>17 DEF SendFrame
<1>18. ASSUME NEW s \in Sessions, NEW c \in Sessions, EraseClient(s, c) PROVE SocketsClosed'
  BY <1>18 DEF EraseClient
<1>19. ASSUME NEW s \in Sessions, Unlock(s) PROVE SocketsClosed'
  BY <1>19 DEF Unlock, AfterBroadcast
<1>20. ASSUME NEW s \in Sessions, RemoveClient(s) PROVE SocketsClosed'
  BY <1>20 DEF RemoveClient
<1>21. ASSUME NEW s \in Sessions, EndSession(s) PROVE SocketsClosed'
  BY <1>21 DEF EndSession
<1>22. ASSUME NEW s \in Sessions, PeerGoes(s) PROVE SocketsClosed'
  BY <1>22 DEF PeerGoes
<1>23. ASSUME Crash PROVE SocketsClosed'
  BY <1>23 DEF Crash
<1> QED
  BY <1>1, <1>2, <1>3, <1>4, <1>5, <1>6, <1>7, <1>8, <1>9, <1>10, <1>11, <1>12, <1>13, <1>14, <1>15, <1>16, <1>17, <1>18, <1>19, <1>20, <1>21, <1>22, <1>23
     DEF Next, AcceptThread, QuitThread, SessionThread, Deleters

LEMMA AlwaysShutdown == Spec => []Shutdown
<1>1. Init => Shutdown
  BY ChatServerAssumption
     DEF Init, Shutdown, Accounted, Busy, Emptied, SocketsClosed, Threads, Deleters
<1>2. Ownership /\ Shutdown /\ [Next]_vars => Shutdown'
  <2> SUFFICES ASSUME Ownership, Shutdown, [Next]_vars PROVE Shutdown'
    OBVIOUS
  <2>1. CASE Next
    BY <2>1, AccountedStep, BusyStep, EmptiedStep, SocketsClosedStep DEF Shutdown
  <2>2. CASE UNCHANGED vars
    BY <2>2 DEF vars, connections, history, Shutdown, Accounted, Busy, Emptied,
                SocketsClosed
  <2> QED
    BY <2>1, <2>2
<1> QED
  BY <1>1, <1>2, AlwaysOwnership, PTL DEF Spec

\* A thread that is still at work after stop() has returned has been taken out of
\* the list by another one that is still at work.
LEMMA WhoIsLeft ==
    ASSUME Ownership, FreedHasEnded, Shutdown,
           pc[Quit] = "returned",
           NEW s \in Sessions, pc[s] \notin {"none", "end", "done"}
    PROVE  \E t \in Sessions : s \in removed[t]
<1> USE DEF Shutdown
<1>1. object[s] = "live"
  <2>1. object[s] # "none"
    BY DEF Accounted
  <2>2. object[s] # "freed"
    BY DEF FreedHasEnded
  <2> QED
    BY <2>1, <2>2 DEF Ownership, TypeOK
<1>2. pc[Accept] = "done" /\ clients = {} /\ removed[Quit] = {}
  BY DEF Emptied, Busy
<1> QED
  BY <1>1, <1>2 DEF Accounted, Deleters

\* When stop() has returned (chat_server.cpp:54-78) nothing of the server runs any
\* more and its connections are closed, so main may destroy it.  What is excepted
\* is threads that wait for one another in join() for ever, and a thread that runs on
\* in a session that was deleted before acceptLoop had assigned its thread_.
THEOREM QuietWhenStopped == Spec => []QuietAfterStop
<1>1. Ownership /\ Shutdown => QuietAfterStop
  <2> SUFFICES ASSUME Ownership, Shutdown,
                      pc[Quit] = "returned", ~ClaimCycle, FreedHasEnded
               PROVE  /\ clients = {} /\ mutex = None /\ pc[Accept] = "done"
                      /\ \A s \in Sessions :
                             pc[s] \in {"none", "end"} \/ (pc[s] = "done" /\ ~sock[s])
    BY DEF QuietAfterStop
  <2> DEFINE Working == {s \in Sessions : pc[s] \notin {"none", "end", "done"}}
             Claimants == {t \in Sessions : removed[t] # {}}
  <2>1. \A s \in Working : \E t \in Claimants : s \in removed[t]
    BY WhoIsLeft
  <2>2. Claimants \subseteq Working
    BY DEF Shutdown, Busy
  <2>3. Claimants = {}
    <3>1. \A s \in Claimants : \E t \in Claimants : s \in removed[t]
      BY <2>1, <2>2
    <3>2. Claimants \in SUBSET Sessions
      OBVIOUS
    <3> QED
      BY <3>1, <3>2 DEF ClaimCycle
  <2>4. \A s \in Sessions : pc[s] \in {"none", "end", "done"}
    BY <2>1, <2>3
  <2>5. mutex = None
    BY <2>4 DEF Ownership, TypeOK
  <2>6. clients = {} /\ pc[Accept] = "done"
    BY DEF Shutdown, Emptied
  <2> QED
    BY <2>4, <2>5, <2>6 DEF Shutdown, SocketsClosed
<1> QED
  BY <1>1, AlwaysOwnership, AlwaysShutdown, PTL

-----------------------------------------------------------------------------
(***************************************************************************)
(* No thread is stuck.  What waits for the mutex waits for a thread in its *)
(* broadcast, and that one waits for nothing.  What waits in join() waits  *)
(* for a thread that was started and whose accept() or recv() fails: stop  *)
(* and broadcast close the sockets before they join.                       *)
(***************************************************************************)

\* stop() waits for the accept thread when the listening socket is closed.
ListenClosed == pc[Quit] \notin {"idle", "listen"} => ~listening

\* The sockets of the sessions to delete are closed before the first is deleted.
ForcedClosed ==
    \A t \in Deleters : pc[t] = "delete" => \A v \in removed[t] : ~sock[v]

\* thread_ is assigned when the thread runs.
Started ==
    /\ \A s \in Sessions : joinable[s] => pc[s] # "none"
    /\ pc[Accept] = "assign" => pc[newcomer] # "none"

Unblocked == ListenClosed /\ ForcedClosed /\ Started

\* The listening socket stays closed.
LEMMA ListenClosedStep ==
    ASSUME Ownership, ListenClosed, Next
    PROVE  ListenClosed'
<1> USE ChatServerAssumption DEF Ownership, TypeOK, Places, Threads, Deleters, SessionPlaces, connections, history, Goto, Broadcast, Newborn, Iteration, ExclusiveOwner, ListenClosed
<1>1. ASSUME NEW s \in Sessions, AcceptConnection(s) PROVE ListenClosed'
  BY <1>1 DEF AcceptConnection
<1>2. ASSUME AcceptFails PROVE ListenClosed'
  BY <1>2 DEF AcceptFails
<1>3. ASSUME PushBack PROVE ListenClosed'
  BY <1>3 DEF PushBack
<1>4. ASSUME StartThread PROVE ListenClosed'
  BY <1>4 DEF StartThread
<1>5. ASSUME AssignThread PROVE ListenClosed'
  BY <1>5 DEF AssignThread
<1>6. ASSUME StopRunning PROVE ListenClosed'
  BY <1>6 DEF StopRunning
<1>7. ASSUME CloseListenSock PROVE ListenClosed'
  BY <1>7 DEF CloseListenSock
<1>8. ASSUME JoinAccept PROVE ListenClosed'
  BY <1>8 DEF JoinAccept
<1>9. ASSUME SwapClients PROVE ListenClosed'
  BY <1>9 DEF SwapClients
<1>10. ASSUME NEW t \in Deleters, ForceClose(t) PROVE ListenClosed'
  BY <1>10 DEF ForceClose
<1>11. ASSUME NEW t \in Deleters, DeleteSession(t) PROVE ListenClosed'
  <2>1. Deletion(t)
    BY <1>11, DeleteEffect
  <2> QED
    BY <2>1 DEF Deletion, CanDelete
<1>12. ASSUME NEW s \in Sessions, ReceiveHello(s) PROVE ListenClosed'
  BY <1>12 DEF ReceiveHello
<1>13. ASSUME NEW s \in Sessions, NoHello(s) PROVE ListenClosed'
  BY <1>13 DEF NoHello
<1>14. ASSUME NEW s \in Sessions, ReceiveChat(s) PROVE ListenClosed'
  BY <1>14 DEF ReceiveChat
<1>15. ASSUME NEW s \in Sessions, LeaveLoop(s) PROVE ListenClosed'
  BY <1>15 DEF LeaveLoop
<1>16. ASSUME NEW s \in Sessions, LockForBroadcast(s) PROVE ListenClosed'
  BY <1>16 DEF LockForBroadcast
<1>17. ASSUME NEW s \in Sessions, NEW c \in Sessions, SendFrame(s, c) PROVE ListenClosed'
  BY <1>17 DEF SendFrame
<1>18. ASSUME NEW s \in Sessions, NEW c \in Sessions, EraseClient(s, c) PROVE ListenClosed'
  BY <1>18 DEF EraseClient
<1>19. ASSUME NEW s \in Sessions, Unlock(s) PROVE ListenClosed'
  BY <1>19 DEF Unlock, AfterBroadcast
<1>20. ASSUME NEW s \in Sessions, RemoveClient(s) PROVE ListenClosed'
  BY <1>20 DEF RemoveClient
<1>21. ASSUME NEW s \in Sessions, EndSession(s) PROVE ListenClosed'
  BY <1>21 DEF EndSession
<1>22. ASSUME NEW s \in Sessions, PeerGoes(s) PROVE ListenClosed'
  BY <1>22 DEF PeerGoes
<1>23. ASSUME Crash PROVE ListenClosed'
  BY <1>23 DEF Crash
<1> QED
  BY <1>1, <1>2, <1>3, <1>4, <1>5, <1>6, <1>7, <1>8, <1>9, <1>10, <1>11, <1>12, <1>13, <1>14, <1>15, <1>16, <1>17, <1>18, <1>19, <1>20, <1>21, <1>22, <1>23
     DEF Next, AcceptThread, QuitThread, SessionThread, Deleters

\* A socket that was closed is not opened again.
LEMMA ForcedClosedStep ==
    ASSUME Ownership, ForcedClosed, Next
    PROVE  ForcedClosed'
<1> USE ChatServerAssumption DEF Ownership, TypeOK, Places, Threads, Deleters, SessionPlaces, connections, history, Goto, Broadcast, Newborn, Iteration, ExclusiveOwner, ForcedClosed
<1>1. ASSUME NEW s \in Sessions, AcceptConnection(s) PROVE ForcedClosed'
  BY <1>1 DEF AcceptConnection
<1>2. ASSUME AcceptFails PROVE ForcedClosed'
  BY <1>2 DEF AcceptFails
<1>3. ASSUME PushBack PROVE ForcedClosed'
  BY <1>3 DEF PushBack
<1>4. ASSUME StartThread PROVE ForcedClosed'
  BY <1>4 DEF StartThread
<1>5. ASSUME AssignThread PROVE ForcedClosed'
  BY <1>5 DEF AssignThread
<1>6. ASSUME StopRunning PROVE ForcedClosed'
  BY <1>6 DEF StopRunning
<1>7. ASSUME CloseListenSock PROVE ForcedClosed'
  BY <1>7 DEF CloseListenSock
<1>8. ASSUME JoinAccept PROVE ForcedClosed'
  BY <1>8 DEF JoinAccept
<1>9. ASSUME SwapClients PROVE ForcedClosed'
  BY <1>9 DEF SwapClients
<1>10. ASSUME NEW t \in Deleters, ForceClose(t) PROVE ForcedClosed'
  BY <1>10 DEF ForceClose
<1>11. ASSUME NEW t \in Deleters, DeleteSession(t) PROVE ForcedClosed'
  <2>1. Deletion(t)
    BY <1>11, DeleteEffect
  <2>2. ASSUME NEW u \in Deleters, pc'[u] = "delete"
        PROVE  pc[u] = "delete" /\ removed'[u] \subseteq removed[u]
    BY <2>1, <2>2 DEF Deletion
  <2>3. sock' = sock
    BY <2>1 DEF Deletion
  <2> QED
    BY <2>2, <2>3
<1>12. ASSUME NEW s \in Sessions, ReceiveHello(s) PROVE ForcedClosed'
  BY <1>12 DEF ReceiveHello
<1>13. ASSUME NEW s \in Sessions, NoHello(s) PROVE ForcedClosed'
  BY <1>13 DEF NoHello
<1>14. ASSUME NEW s \in Sessions, ReceiveChat(s) PROVE ForcedClosed'
  BY <1>14 DEF ReceiveChat
<1>15. ASSUME NEW s \in Sessions, LeaveLoop(s) PROVE ForcedClosed'
  BY <1>15 DEF LeaveLoop
<1>16. ASSUME NEW s \in Sessions, LockForBroadcast(s) PROVE ForcedClosed'
  BY <1>16 DEF LockForBroadcast
<1>17. ASSUME NEW s \in Sessions, NEW c \in Sessions, SendFrame(s, c) PROVE ForcedClosed'
  BY <1>17 DEF SendFrame
<1>18. ASSUME NEW s \in Sessions, NEW c \in Sessions, EraseClient(s, c) PROVE ForcedClosed'
  BY <1>18 DEF EraseClient
<1>19. ASSUME NEW s \in Sessions, Unlock(s) PROVE ForcedClosed'
  BY <1>19 DEF Unlock, AfterBroadcast
<1>20. ASSUME NEW s \in Sessions, RemoveClient(s) PROVE ForcedClosed'
  BY <1>20 DEF RemoveClient
<1>21. ASSUME NEW s \in Sessions, EndSession(s) PROVE ForcedClosed'
  BY <1>21 DEF EndSession
<1>22. ASSUME NEW s \in Sessions, PeerGoes(s) PROVE ForcedClosed'
  BY <1>22 DEF PeerGoes
<1>23. ASSUME Crash PROVE ForcedClosed'
  BY <1>23 DEF Crash
<1> QED
  BY <1>1, <1>2, <1>3, <1>4, <1>5, <1>6, <1>7, <1>8, <1>9, <1>10, <1>11, <1>12, <1>13, <1>14, <1>15, <1>16, <1>17, <1>18, <1>19, <1>20, <1>21, <1>22, <1>23
     DEF Next, AcceptThread, QuitThread, SessionThread, Deleters

\* A thread that was started does not go back.
LEMMA StartedStep ==
    ASSUME Ownership, Started, Next
    PROVE  Started'
<1> USE ChatServerAssumption DEF Ownership, TypeOK, Places, Threads, Deleters, SessionPlaces, connections, history, Goto, Broadcast, Newborn, Iteration, ExclusiveOwner, Started
<1>1. ASSUME NEW s \in Sessions, AcceptConnection(s) PROVE Started'
  BY <1>1 DEF AcceptConnection
<1>2. ASSUME AcceptFails PROVE Started'
  BY <1>2 DEF AcceptFails
<1>3. ASSUME PushBack PROVE Started'
  BY <1>3 DEF PushBack
<1>4. ASSUME StartThread PROVE Started'
  BY <1>4 DEF StartThread
<1>5. ASSUME AssignThread PROVE Started'
  BY <1>5 DEF AssignThread
<1>6. ASSUME StopRunning PROVE Started'
  BY <1>6 DEF StopRunning
<1>7. ASSUME CloseListenSock PROVE Started'
  BY <1>7 DEF CloseListenSock
<1>8. ASSUME JoinAccept PROVE Started'
  BY <1>8 DEF JoinAccept
<1>9. ASSUME SwapClients PROVE Started'
  BY <1>9 DEF SwapClients
<1>10. ASSUME NEW t \in Deleters, ForceClose(t) PROVE Started'
  BY <1>10 DEF ForceClose
<1>11. ASSUME NEW t \in Deleters, DeleteSession(t) PROVE Started'
  <2>1. Deletion(t)
    BY <1>11, DeleteEffect
  <2> QED
    BY <2>1 DEF Deletion, CanDelete
<1>12. ASSUME NEW s \in Sessions, ReceiveHello(s) PROVE Started'
  BY <1>12 DEF ReceiveHello
<1>13. ASSUME NEW s \in Sessions, NoHello(s) PROVE Started'
  BY <1>13 DEF NoHello
<1>14. ASSUME NEW s \in Sessions, ReceiveChat(s) PROVE Started'
  BY <1>14 DEF ReceiveChat
<1>15. ASSUME NEW s \in Sessions, LeaveLoop(s) PROVE Started'
  BY <1>15 DEF LeaveLoop
<1>16. ASSUME NEW s \in Sessions, LockForBroadcast(s) PROVE Started'
  BY <1>16 DEF LockForBroadcast
<1>17. ASSUME NEW s \in Sessions, NEW c \in Sessions, SendFrame(s, c) PROVE Started'
  BY <1>17 DEF SendFrame
<1>18. ASSUME NEW s \in Sessions, NEW c \in Sessions, EraseClient(s, c) PROVE Started'
  BY <1>18 DEF EraseClient
<1>19. ASSUME NEW s \in Sessions, Unlock(s) PROVE Started'
  BY <1>19 DEF Unlock, AfterBroadcast
<1>20. ASSUME NEW s \in Sessions, RemoveClient(s) PROVE Started'
  BY <1>20 DEF RemoveClient
<1>21. ASSUME NEW s \in Sessions, EndSession(s) PROVE Started'
  BY <1>21 DEF EndSession
<1>22. ASSUME NEW s \in Sessions, PeerGoes(s) PROVE Started'
  BY <1>22 DEF PeerGoes
<1>23. ASSUME Crash PROVE Started'
  BY <1>23 DEF Crash
<1> QED
  BY <1>1, <1>2, <1>3, <1>4, <1>5, <1>6, <1>7, <1>8, <1>9, <1>10, <1>11, <1>12, <1>13, <1>14, <1>15, <1>16, <1>17, <1>18, <1>19, <1>20, <1>21, <1>22, <1>23
     DEF Next, AcceptThread, QuitThread, SessionThread, Deleters

LEMMA AlwaysUnblocked == Spec => []Unblocked
<1>1. Init => Unblocked
  BY ChatServerAssumption
     DEF Init, Unblocked, ListenClosed, ForcedClosed, Started, Threads, Deleters
<1>2. Ownership /\ Unblocked /\ [Next]_vars => Unblocked'
  <2> SUFFICES ASSUME Ownership, Unblocked, [Next]_vars PROVE Unblocked'
    OBVIOUS
  <2>1. CASE Next
    BY <2>1, ListenClosedStep, ForcedClosedStep, StartedStep DEF Unblocked
  <2>2. CASE UNCHANGED vars
    BY <2>2 DEF vars, connections, Unblocked, ListenClosed, ForcedClosed, Started
  <2> QED
    BY <2>1, <2>2
<1> QED
  BY <1>1, <1>2, AlwaysOwnership, PTL DEF Spec

\* The thread that holds the mutex is in its broadcast: it neither rests nor waits.
LEMMA HolderGoesOn ==
    ASSUME Ownership, NEW u \in Threads, mutex = u
    PROVE  ~Rests(u) /\ \A w \in Threads : ~WaitsFor(u, w)
<1>1. pc[u] = "send"
  BY ChatServerAssumption DEF Ownership, TypeOK, Threads
<1> QED
  BY <1>1 DEF Rests, WaitsFor

\* Whoever waits, and not for a thread that goes on, is in a join().
LEMMA OnlyJoinsBlock ==
    ASSUME Ownership, Unblocked,
           NEW S \in SUBSET Threads,
           \A r \in S : Rests(r) \/ \E u \in S : WaitsFor(r, u),
           NEW t \in S, ~Rests(t)
    PROVE  /\ t \in Deleters /\ pc[t] = "delete" /\ ~CanDelete(t)
           /\ victim[t] \in S \cap Sessions /\ ~Rests(victim[t])
<1> USE ChatServerAssumption DEF Ownership, Unblocked
<1>1. ASSUME NEW r \in S, NEW u \in S, WaitsFor(r, u)
      PROVE  mutex # u
  <2> SUFFICES ASSUME mutex = u PROVE FALSE
    OBVIOUS
  <2> QED
    BY HolderGoesOn
<1>2. PICK u \in S : WaitsFor(t, u)
  OBVIOUS
<1>3. ASSUME t = Quit, pc[t] = "join", u = Accept, pc[u] # "done"
      PROVE  FALSE
  <2>1. ~Rests(Accept)
    BY <1>3 DEF Rests, ListenClosed, Places
  <2>2. PICK w \in S : WaitsFor(Accept, w)
    BY <1>3, <2>1
  <2>3. Accept \notin Deleters /\ Accept # Quit
    BY DEF Deleters
  <2> QED
    BY <1>1, <1>3, <2>2, <2>3 DEF WaitsFor
<1>4. /\ t \in Deleters /\ pc[t] = "delete" /\ ~CanDelete(t)
      /\ victim[t] = u
  BY <1>1, <1>2, <1>3 DEF WaitsFor
<1>5. u \in Sessions /\ u \in removed[t]
  BY <1>4 DEF Victims, TypeOK
<1>6. joinable[u] /\ pc[u] # "done" /\ ~sock[u]
  BY <1>4, <1>5 DEF CanDelete, ForcedClosed, TypeOK
<1>7. ~Rests(u)
  BY <1>5, <1>6 DEF Rests, ReceiveFails, Started, Places, SessionPlaces
<1> QED
  BY <1>4, <1>5, <1>7

\* The threads of the server cannot block one another (chat_server.cpp:54-78,
\* 86-126), for any number of clients: apart from the sessions that join each other,
\* whoever waits for the mutex or in join() waits in the end for a thread that goes
\* on.  This is the part of StopReturns and LeaveAnnounced that is not about time.
THEOREM NoneStuck == Spec => []NobodyStuck
<1>1. Ownership /\ Unblocked => NobodyStuck
  <2> SUFFICES ASSUME Ownership, Unblocked, ~JoinCycle,
                      NEW S \in SUBSET Threads,
                      \A r \in S : Rests(r) \/ \E u \in S : WaitsFor(r, u),
                      NEW t \in S, ~Rests(t)
               PROVE  FALSE
    BY DEF NobodyStuck
  <2> DEFINE Blocked == {s \in S \cap Sessions : ~Rests(s)}
  <2>1. \A s \in Blocked : pc[s] = "delete" /\ victim[s] \in Blocked /\ ~CanDelete(s)
    BY OnlyJoinsBlock
  <2>2. Blocked # {}
    <3>1. victim[t] \in Blocked
      BY OnlyJoinsBlock
    <3> QED
      BY <3>1
  <2>3. Blocked \in SUBSET Sessions
    OBVIOUS
  <2> QED
    BY <2>1, <2>2, <2>3 DEF JoinCycle
<1> QED
  BY <1>1, AlwaysOwnership, AlwaysUnblocked, PTL

=============================================================================
