-------------------------- MODULE WorldSocketProofs --------------------------
(***************************************************************************)
(* Theorems about WorldSocket, for any workers of other maps, any packets  *)
(* and any buffer: the references are counted, who is called is there, and *)
(* what is sent keeps the order of its headers and is not left to nobody.  *)
(***************************************************************************)
EXTENDS WorldSocket, SequenceTheorems, WellFoundedInduction, TLAPS

Waiting == {"drop2", "lost2", "kick2"}      \* the network thread before m_Session = NULL
Holding == {"latency", "queue", "kick"}     \* it calls the session, with the lock held
Listed == {"drop", "drop2", "dropped"}      \* it is in the loop, not in the reactor
Started == {"opened", "done"}               \* the acceptor has registered the socket or given up

Labels == {"open", "challenge", "register", "opened", "done", "idle", "lost", "lost2", "lost3",
           "input", "reply", "addons", "drop", "drop2", "dropped", "latency", "queue", "kick", "kick2", "send",
           "fail", "fail2", "clean", "destroy", "destroy2", "destroyed"}

PlacesOK ==
    /\ pc \in [Threads -> Labels]
    /\ pc[Acceptor] \in {"open", "challenge", "register"} \cup Started
    /\ pc[Net] \in {"idle", "lost", "lost3", "input", "reply", "addons"}
                \cup Waiting \cup Holding \cup Listed
    /\ \A t \in Callers : pc[t] \in {"idle", "send", "fail", "fail2", "clean", "destroy",
                                     "destroy2", "destroyed"}
    /\ closing_ \in BOOLEAN /\ toSession \in BOOLEAN
    /\ toSocket \in BOOLEAN /\ registered \in BOOLEAN
    /\ refs \in Int
    /\ busy \subseteq Callers \ {World}
    /\ listed \in {"no", "new", "sockets"}
    /\ session \in {"none", "queued", "world", "deleted"}

\* Either the world thread calls the session or the workers do, and what the world
\* thread and the worker of the player's map have read of m_Socket stays true.
CallsInv ==
    /\ \A t \in Callers \ {World} : pc[t] # "idle" => t \in busy
    /\ busy # {} => pc[World] = "idle"
    /\ \A t \in Callers : pc[t] # "idle" => session \in {"queued", "world"}
    /\ \A t \in {World, Home} : pc[t] # "idle" => toSocket
    /\ \A t \in Callers \ {World} : pc[t] \notin {"destroy", "destroy2", "destroyed"}
    /\ \A t \in Away : pc[t] # "clean"

\* Who has the socket in which of its lists.
ListsInv ==
    /\ pc[Acceptor] = "open" => listed = "no"
    /\ pc[Net] \in Listed => listed = "sockets"
    /\ pc[Net] \notin Listed \cup {"idle"} => registered
    /\ registered \/ session # "none" => pc[Acceptor] \in Started
    /\ session = "none" => ~toSocket /\ ~toSession

\* A closed socket has forgotten its session, or a thread is about to make it forget;
\* it cannot forget it while the network thread is in the session.
CloseInv ==
    /\ sessionLock = IF pc[Net] \in Holding \cup {"kick2"} THEN Net ELSE NoThread
    /\ pc[Net] \in Holding => toSession
    /\ closing_ /\ toSession =>
            pc[Net] \in Waiting \/ \E t \in Callers : pc[t] \in {"fail2", "destroy2"}
    /\ session = "deleted" \/ pc[World] = "destroyed" =>
            closing_ /\ (toSession => pc[Net] \in Waiting)
    /\ ~toSocket /\ session # "none" => closing_
    /\ \A t \in Callers : pc[t] \in {"fail2", "destroy2", "clean"} => closing_

IInv == PlacesOK /\ CallsInv /\ ListsInv /\ CloseInv /\ EveryHolderCounts

-----------------------------------------------------------------------------
\* The threads differ.
LEMMA Different ==
    /\ Acceptor # Net /\ Acceptor # World /\ Acceptor # Home /\ Net # World /\ Net # Home
    /\ World # Home /\ NoThread # Net
    /\ Acceptor \notin Callers /\ Net \notin Callers /\ World \in Callers /\ Home \in Callers
    /\ World \notin Away /\ Home \notin Away /\ Away \subseteq Callers
    /\ Callers \subseteq Threads /\ Acceptor \in Threads /\ Net \in Threads
    /\ \A t \in Callers : t # Acceptor /\ t # Net
  BY ThreadsDiffer, Zenon DEF Callers, Threads

\* What the two sections of CloseSocket do to the place of their thread.
CloseSocketEffect(t) ==
    /\ pc' \in [Threads -> Labels] /\ closing_' = TRUE
    /\ \A u \in Threads : u # t => pc'[u] = pc[u]
    /\ t = Net \/ t \in Callers
    /\ t = Net =>
         \/ pc[t] = "drop" /\ closing_ /\ pc'[t] = "dropped"
         \/ pc[t] = "drop" /\ ~closing_ /\ pc'[t] = "drop2"
         \/ pc[t] = "kick" /\ closing_ /\ pc'[t] = "queue"
         \/ pc[t] = "kick" /\ ~closing_ /\ pc'[t] = "kick2"
    /\ t \in Callers => /\ toSocket
                        /\ \/ pc[t] = "fail" /\ closing_ /\ pc'[t] = "idle"
                           \/ pc[t] = "fail" /\ ~closing_ /\ pc'[t] = "fail2"
                           \/ pc[t] = "destroy" /\ closing_ /\ pc'[t] = "destroyed"
                           \/ pc[t] = "destroy" /\ ~closing_ /\ pc'[t] = "destroy2"
    /\ UNCHANGED <<refs, listed, registered, sessionLock, toSession, toSocket, session, busy>>

\* CloseSocket is called by the network thread or by a caller of the session.
LEMMA CloseSocketPlaces == ASSUME PlacesOK, NEW t \in Threads, CloseSocket(t) PROVE CloseSocketEffect(t)
<1> USE DEF CloseSocketEffect
<1>1. pc[t] \in {"fail", "destroy", "drop", "kick"}
  BY SMTT(30) DEF CloseSocket, Returns
<1>2. t = Net \/ t \in Callers
  BY <1>1, Different, SMTT(30) DEF PlacesOK, Started, Threads
<1>3. /\ Returns["fail"] = "idle" /\ Returns["destroy"] = "destroyed"
      /\ Returns["drop"] = "dropped" /\ Returns["kick"] = "queue"
      /\ Second["fail"] = "fail2" /\ Second["destroy"] = "destroy2"
      /\ Second["drop"] = "drop2" /\ Second["kick"] = "kick2"
  BY SMTT(30) DEF Returns, Second
<1>4. pc' = [pc EXCEPT ![t] = IF closing_ THEN Returns[pc[t]] ELSE Second[pc[t]]]
  BY Zenon DEF CloseSocket, Goto
<1>5. \A u \in Threads : u # t => pc'[u] = pc[u]
  BY <1>4, Zenon DEF PlacesOK
<1>6. pc'[t] = IF closing_ THEN Returns[pc[t]] ELSE Second[pc[t]]
  BY <1>4, Zenon DEF PlacesOK
<1>7. UNCHANGED <<refs, listed, registered, sessionLock, toSession, toSocket, session, busy>> /\ closing_' = TRUE
  BY Zenon DEF CloseSocket, pointers
<1>8. t \in Callers => toSocket
  BY Zenon DEF CloseSocket
<1>9. t = Net => pc[t] \in {"drop", "kick"}
  BY <1>1, SMTT(30) DEF PlacesOK, Waiting, Holding, Listed
<1>10. t \in Callers => pc[t] \in {"fail", "destroy"}
  BY <1>1, SMTT(30) DEF PlacesOK
<1>11. pc' \in [Threads -> Labels]
  <2>1. (IF closing_ THEN Returns[pc[t]] ELSE Second[pc[t]]) \in Labels
    <3>1. /\ \A call \in {"fail", "destroy", "drop", "kick"} : Returns[call] \in Labels
          /\ \A call \in {"fail", "destroy", "drop", "kick"} : Second[call] \in Labels
      BY <1>3, SMTT(30) DEF Labels
    <3> QED
      BY <1>1, <3>1, Zenon
  <2> QED
    BY <1>4, <2>1, Zenon DEF PlacesOK
<1> QED
  BY <1>2, <1>3, <1>5, <1>6, <1>7, <1>8, <1>9, <1>10, <1>11, SMTT(30) DEF PlacesOK

ForgetSessionEffect(t) ==
    /\ pc' \in [Threads -> Labels]
    /\ \A u \in Threads : u # t => pc'[u] = pc[u]
    /\ t = Net \/ t \in Callers
    /\ t = Net => \/ pc[t] = "drop2" /\ pc'[t] = "dropped"
                  \/ pc[t] = "kick2" /\ pc'[t] = "queue"
    /\ t \in Callers => \/ pc[t] = "fail2" /\ pc'[t] = "idle"
                        \/ pc[t] = "destroy2" /\ pc'[t] = "destroyed"
    /\ sessionLock = NoThread /\ toSession' = FALSE
    /\ UNCHANGED <<closing_, refs, listed, registered, sessionLock, toSocket, session, busy>>

\* The second section takes the lock, so nobody is in the session.
LEMMA ForgetSessionPlaces == ASSUME PlacesOK, NEW t \in Threads, ForgetSession(t) PROVE ForgetSessionEffect(t)
<1> USE DEF ForgetSessionEffect
<1>1. PICK call \in {"fail", "destroy", "drop", "kick"} :
        pc[t] = Second[call] /\ pc' = [pc EXCEPT ![t] = Returns[call]]
  <2>1. DOMAIN Second = {"fail", "destroy", "drop", "kick"}
    BY SMTT(30) DEF Second
  <2> QED
    BY <2>1, Zenon DEF ForgetSession, Goto
<1>2. /\ Returns["fail"] = "idle" /\ Returns["destroy"] = "destroyed"
      /\ Returns["drop"] = "dropped" /\ Returns["kick"] = "queue"
      /\ Second["fail"] = "fail2" /\ Second["destroy"] = "destroy2"
      /\ Second["drop"] = "drop2" /\ Second["kick"] = "kick2"
  BY SMTT(30) DEF Returns, Second
<1>3. \/ pc[t] = "fail2" /\ pc' = [pc EXCEPT ![t] = "idle"]
      \/ pc[t] = "destroy2" /\ pc' = [pc EXCEPT ![t] = "destroyed"]
      \/ pc[t] = "drop2" /\ pc' = [pc EXCEPT ![t] = "dropped"]
      \/ pc[t] = "kick2" /\ pc' = [pc EXCEPT ![t] = "queue"]
  BY <1>1, <1>2, Zenon
<1>4. t = Net \/ t \in Callers
  BY <1>3, Different, SMTT(30) DEF PlacesOK, Started, Threads
<1>5. t = Net => pc[t] \in {"drop2", "kick2"}
  BY <1>3, SMTT(30) DEF PlacesOK, Waiting, Holding, Listed
<1>6. t \in Callers => pc[t] \in {"fail2", "destroy2"}
  BY <1>3, SMTT(30) DEF PlacesOK
<1>7. /\ sessionLock = NoThread /\ toSession' = FALSE
      /\ UNCHANGED <<closing_, refs, listed, registered, sessionLock, toSocket, session, busy>>
  BY Zenon DEF ForgetSession
<1>8. PICK label \in Labels : pc' = [pc EXCEPT ![t] = label]
  BY <1>3, SMTT(30) DEF Labels
<1>9. pc' \in [Threads -> Labels] /\ pc'[t] = label /\ \A u \in Threads : u # t => pc'[u] = pc[u]
  BY <1>8, Zenon DEF PlacesOK
<1>10. \/ pc[t] = "fail2" /\ pc'[t] = "idle"
       \/ pc[t] = "destroy2" /\ pc'[t] = "destroyed"
       \/ pc[t] = "drop2" /\ pc'[t] = "dropped"
       \/ pc[t] = "kick2" /\ pc'[t] = "queue"
  BY <1>3, Zenon DEF PlacesOK
<1> QED
  BY <1>4, <1>5, <1>6, <1>7, <1>9, <1>10, SMTT(30)

-----------------------------------------------------------------------------
(* The steps.                                                              *)

\* The acceptor.
LEMMA AcceptorStep ==
    ASSUME IInv, AcceptorNext
    PROVE  IInv'
<1> USE Different DEF IInv, PlacesOK, CallsInv, ListsInv, CloseInv, EveryHolderCounts, One, Labels,
               Waiting, Holding, Listed, Started, Goto, NetIdle, MayCall, output, pointers
<1>1. CASE OnSocketOpen
  BY <1>1, SMTT(30) DEF OnSocketOpen
<1>2. CASE SendChallenge
  BY <1>2, SMTT(30) DEF SendChallenge
<1>3. CASE RegisterHandler
  BY <1>3, SMTT(30) DEF RegisterHandler
<1>4. CASE LeaveToReactor
  BY <1>4, SMTT(30) DEF LeaveToReactor
<1>5. CASE OpenFails
  BY <1>5, SMTT(30) DEF OpenFails
<1> QED
  BY <1>1, <1>2, <1>3, <1>4, <1>5 DEF AcceptorNext

\* The network thread.
LEMMA NetStep ==
    ASSUME IInv, NetNext
    PROVE  IInv'
<1> USE Different DEF IInv, PlacesOK, CallsInv, ListsInv, CloseInv, EveryHolderCounts, One, Labels,
               Waiting, Holding, Listed, Started, Goto, NetIdle, MayCall, output, pointers
<1>1. CASE AddNewSockets
  BY <1>1, SMTT(30) DEF AddNewSockets
<1>2. CASE UpdateFails
  BY <1>2, SMTT(30) DEF UpdateFails
<1>3. CASE UpdateSends
  BY <1>3, SMTT(30) DEF UpdateSends
<1>4. CASE DropSocket
  BY <1>4, SMTT(30) DEF DropSocket
<1>5. CASE Writable
  BY <1>5, SMTT(30) DEF Writable
<1>6. CASE HandlerFails
  BY <1>6, SMTT(30) DEF HandlerFails
<1>7. CASE HandleClose
  BY <1>7, SMTT(30) DEF HandleClose
<1>8. CASE HandleCloseSession
  <2>1. PlacesOK'
    <3>1. toSession' \in BOOLEAN
      BY <1>8, Zenon DEF HandleCloseSession
    <3> QED
      BY <1>8, <3>1, SMTT(30) DEF HandleCloseSession
  <2>2. CallsInv'
    BY <1>8, SMTT(30) DEF HandleCloseSession
  <2>3. ListsInv'
    BY <1>8, SMTT(30) DEF HandleCloseSession
  <2>4. CloseInv'
    BY <1>8, SMTT(30) DEF HandleCloseSession
  <2>5. EveryHolderCounts'
    BY <1>8, SMTT(30) DEF HandleCloseSession
  <2> QED
    BY <2>1, <2>2, <2>3, <2>4, <2>5
<1>9. CASE RemoveHandler
  <2>1. PlacesOK'
    <3>1. registered' \in BOOLEAN
      BY <1>9, Zenon DEF RemoveHandler
    <3> QED
      BY <1>9, <3>1, SMTT(30) DEF RemoveHandler
  <2>2. CallsInv'
    BY <1>9, SMTT(30) DEF RemoveHandler
  <2>3. ListsInv'
    BY <1>9, SMTT(30) DEF RemoveHandler
  <2>4. CloseInv'
    BY <1>9, SMTT(30) DEF RemoveHandler
  <2>5. EveryHolderCounts'
    BY <1>9, SMTT(30) DEF RemoveHandler
  <2> QED
    BY <2>1, <2>2, <2>3, <2>4, <2>5
<1>10. CASE ProcessIncoming
  BY <1>10, SMTT(30) DEF ProcessIncoming
<1>11. CASE HandleAuthSession
  BY <1>11, SMTT(30) DEF HandleAuthSession
<1>12. CASE TakeSessionLock
  BY <1>12, SMTT(30) DEF TakeSessionLock
<1>13. CASE SetLatency
  BY <1>13, SMTT(30) DEF SetLatency
<1>14. CASE QueuePacket
  BY <1>14, SMTT(30) DEF QueuePacket
<1>15. CASE Reply
  BY <1>15, SMTT(30) DEF Reply
<1>16. CASE SendAddons
  BY <1>16, SMTT(30) DEF SendAddons
<1> QED
  BY <1>1, <1>2, <1>3, <1>4, <1>5, <1>6, <1>7, <1>8, <1>9, <1>10, <1>11, <1>12, <1>13, <1>14, <1>15,
     <1>16 DEF NetNext

\* The world thread and its sessions.
LEMMA WorldStep ==
    ASSUME IInv, WorldNext
    PROVE  IInv'
<1> USE Different DEF IInv, PlacesOK, CallsInv, ListsInv, CloseInv, EveryHolderCounts, One, Labels,
               Waiting, Holding, Listed, Started, Goto, NetIdle, MayCall, output, pointers
<1>1. CASE AddSession
  BY <1>1, SMTT(30) DEF AddSession
<1>2. CASE DeleteSession
  BY <1>2, SMTT(30) DEF DeleteSession
<1>3. CASE Destroyed
  <2>1. PlacesOK'
    <3>1. toSocket' \in BOOLEAN
      BY <1>3, Zenon DEF Destroyed
    <3> QED
      BY <1>3, <3>1, SMTT(30) DEF Destroyed
  <2>2. CallsInv'
    BY <1>3, SMTT(30) DEF Destroyed
  <2>3. ListsInv'
    BY <1>3, SMTT(30) DEF Destroyed
  <2>4. CloseInv'
    BY <1>3, SMTT(30) DEF Destroyed
  <2>5. EveryHolderCounts'
    BY <1>3, SMTT(30) DEF Destroyed
  <2> QED
    BY <2>1, <2>2, <2>3, <2>4, <2>5
<1>4. CASE UpdateMaps
  BY <1>4, SMTT(30) DEF UpdateMaps
<1> QED
  BY <1>1, <1>2, <1>3, <1>4 DEF WorldNext

\* The session's calls of the socket.
LEMMA CallerStep ==
    ASSUME IInv, NEW t \in Callers, CallerNext(t)
    PROVE  IInv'
<1> USE Different DEF IInv, PlacesOK, CallsInv, ListsInv, CloseInv, EveryHolderCounts, One, Labels,
               Waiting, Holding, Listed, Started, Goto, NetIdle, MayCall, output, pointers
<1>1. CASE StartSend(t)
  BY <1>1, SMTT(30) DEF StartSend
<1>2. CASE CallSend(t)
  BY <1>2, SMTT(30) DEF CallSend
<1>3. CASE KickPlayer(t)
  BY <1>3, SMTT(30) DEF KickPlayer
<1>4. CASE CleanUp(t)
  <2>1. PlacesOK'
    BY <1>4, SMTT(30) DEF CleanUp
  <2>2. CallsInv'
    BY <1>4, SMTT(30) DEF CleanUp
  <2>3. ListsInv'
    BY <1>4, SMTT(30) DEF CleanUp
  <2>4. CloseInv'
    BY <1>4, SMTT(30) DEF CleanUp
  <2>5. EveryHolderCounts'
    <3>1. toSocket /\ \A u \in Callers : pc[u] # "clean"
      BY <1>4, SMTT(30) DEF CleanUp, Callers
    <3>2. pc'[t] = "clean" /\ pc'[Acceptor] = pc[Acceptor]
      BY <1>4, SMTT(30) DEF CleanUp
    <3>3. refs' = refs - 1 /\ UNCHANGED <<listed, registered>>
      BY <1>4, Zenon DEF CleanUp
    <3> QED
      BY <3>1, <3>2, <3>3, SMTT(30)
  <2> QED
    BY <2>1, <2>2, <2>3, <2>4, <2>5
<1>5. CASE ForgetSocket(t)
  <2>1. PlacesOK'
    <3>1. toSocket' \in BOOLEAN
      BY <1>5, Zenon DEF ForgetSocket
    <3> QED
      BY <1>5, <3>1, SMTT(30) DEF ForgetSocket
  <2>2. CallsInv'
    <3>1. t \in {World, Home} /\ pc'[t] = "idle" /\ \A u \in Callers : u # t => pc'[u] = pc[u]
      BY <1>5, SMTT(30) DEF ForgetSocket, Callers
    <3>2. \A u \in {World, Home} : pc'[u] = "idle"
      BY <1>5, <3>1, SMTT(30) DEF ForgetSocket
    <3>3. UNCHANGED <<busy, session>>
      BY <1>5, Zenon DEF ForgetSocket
    <3> QED
      BY <3>1, <3>2, <3>3, SMTT(30)
  <2>3. ListsInv'
    BY <1>5, SMTT(30) DEF ForgetSocket
  <2>4. CloseInv'
    BY <1>5, SMTT(30) DEF ForgetSocket
  <2>5. EveryHolderCounts'
    BY <1>5, SMTT(30) DEF ForgetSocket
  <2> QED
    BY <2>1, <2>2, <2>3, <2>4, <2>5
<1>6. CASE FinishMap(t)
  BY <1>6, SMTT(30) DEF FinishMap
<1> QED
  BY <1>1, <1>2, <1>3, <1>4, <1>5, <1>6 DEF CallerNext

\* CloseSocket, whoever calls it.
LEMMA CloseSocketStep ==
    ASSUME IInv, NEW t \in Threads, CloseSocket(t) \/ ForgetSession(t)
    PROVE  IInv'
<1> USE Different DEF IInv
<1>1. CASE CloseSocket(t)
  <2> USE DEF CloseSocketEffect
  <2>0. CloseSocketEffect(t)
    BY <1>1, CloseSocketPlaces, Zenon
  <2>1. PlacesOK'
    BY <2>0, SMTT(30) DEF PlacesOK, Started, Waiting, Holding, Listed
  <2>2. CallsInv'
    BY <2>0, SMTT(30) DEF PlacesOK, CallsInv
  <2>3. ListsInv'
    BY <2>0, SMTT(30) DEF PlacesOK, ListsInv, Started, Waiting, Holding, Listed
  <2>4. CloseInv'
    BY <2>0, SMTT(30) DEF PlacesOK, CallsInv, ListsInv, CloseInv, Started, Waiting, Holding, Listed
  <2>5. EveryHolderCounts'
    BY <2>0, SMTT(30) DEF PlacesOK, EveryHolderCounts, One
  <2> QED
    BY <2>1, <2>2, <2>3, <2>4, <2>5
<1>2. CASE ForgetSession(t)
  <2> USE DEF ForgetSessionEffect
  <2>0. ForgetSessionEffect(t)
    BY <1>2, ForgetSessionPlaces, Zenon
  <2>1. PlacesOK'
    <3>1. toSession' \in BOOLEAN
      BY <2>0, Zenon
    <3> QED
      BY <2>0, <3>1, SMTT(30) DEF PlacesOK, Started, Waiting, Holding, Listed
  <2>2. CallsInv'
    BY <2>0, SMTT(30) DEF PlacesOK, CallsInv
  <2>3. ListsInv'
    BY <2>0, SMTT(30) DEF PlacesOK, ListsInv, Started, Waiting, Holding, Listed
  <2>4. CloseInv'
    <3>1. pc[Net] \notin Holding \cup {"kick2"} /\ sessionLock' = NoThread
      BY <2>0, SMTT(30) DEF CloseInv
    <3>2. pc'[Net] \notin Holding \cup {"kick2"}
      BY <2>0, <3>1, SMTT(30) DEF Holding
    <3>3. ~toSession'
      BY <2>0, Zenon
    <3>4. session' = "deleted" \/ pc'[World] = "destroyed" => closing_'
      BY <2>0, SMTT(30) DEF PlacesOK, CallsInv, CloseInv
    <3>5. ~toSocket' /\ session' # "none" => closing_'
      BY <2>0, Zenon DEF CloseInv
    <3>6. \A u \in Callers : pc'[u] \in {"fail2", "destroy2", "clean"} => closing_'
      BY <2>0, SMTT(30) DEF CloseInv
    <3> QED
      BY <3>1, <3>2, <3>3, <3>4, <3>5, <3>6, Zenon DEF CloseInv
  <2>5. EveryHolderCounts'
    BY <2>0, SMTT(30) DEF PlacesOK, EveryHolderCounts, One
  <2> QED
    BY <2>1, <2>2, <2>3, <2>4, <2>5
<1> QED
  BY <1>1, <1>2

\* A new socket has one holder, the acceptor.
LEMMA InitInv == Init => IInv
<1> SUFFICES ASSUME Init PROVE IInv
  OBVIOUS
<1>1. /\ pc \in [Threads -> Labels] /\ pc[Acceptor] = "open" /\ pc[Net] = "idle"
      /\ \A t \in Callers : pc[t] = "idle"
  BY Different, SMTT(30) DEF Init, Labels
<1>2. PlacesOK
  <2>1. /\ closing_ \in BOOLEAN /\ toSession \in BOOLEAN
        /\ toSocket \in BOOLEAN /\ registered \in BOOLEAN
    BY Zenon DEF Init
  <2> QED
    BY <1>1, <2>1, SMTT(30) DEF Init, PlacesOK
<1> QED
  BY <1>1, <1>2, Different, SMTT(30) DEF Init, IInv, CallsInv, ListsInv, CloseInv, EveryHolderCounts,
     One, Started, Waiting, Holding, Listed

\* No step disturbs the invariant.
LEMMA NextInv == IInv /\ [Next]_vars => IInv'
<1>1. ASSUME IInv, UNCHANGED vars PROVE IInv'
  BY <1>1, SMTT(30) DEF vars, IInv, PlacesOK, CallsInv, ListsInv, CloseInv, EveryHolderCounts
<1> QED
  BY <1>1, AcceptorStep, NetStep, WorldStep, CallerStep, CloseSocketStep, Zenon DEF Next

\* The count of the references is that of the holders: the socket is deleted with its
\* last holder and not before.
THEOREM CountCorrect == Spec => []EveryHolderCounts
<1>1. IInv => EveryHolderCounts
  BY DEF IInv
<1> QED
  BY <1>1, InitInv, NextInv, PTL DEF Spec

\* The network thread never calls a session that was deleted, and the world thread
\* and the worker of the player's map never call a socket that has gone.
THEOREM CalleeCorrect == Spec => []CalleeExists
<1>1. IInv => CalleeExists
  <2> SUFFICES ASSUME IInv PROVE CalleeExists
    OBVIOUS
  <2>1. pc[Net] \in {"latency", "queue", "kick"} => session # "deleted"
    BY SMTT(30) DEF IInv, PlacesOK, CloseInv, Holding, Waiting
  <2>2. ASSUME NEW t \in {World, Home}, pc[t] \in {"send", "fail", "fail2"}
        PROVE  toSocket /\ ~Freed
    <3>1. toSocket
      BY <2>2, SMTT(30) DEF IInv, CallsInv
    <3>2. \A u \in Callers : pc[u] # "clean"
      BY <2>2, Different, SMTT(30) DEF IInv, PlacesOK, CallsInv, Callers
    <3> QED
      BY <3>1, <3>2, SMTT(30) DEF IInv, EveryHolderCounts, One, Freed
  <2>3. ASSUME NEW t \in Callers, Dangling(t) PROVE t \in Away
    <3>1. pc[t] \in {"send", "fail", "fail2"} /\ ~(toSocket /\ ~Freed)
      BY <2>3, SMTT(30) DEF Dangling
    <3> QED
      BY <2>2, <3>1, Zenon DEF Callers
  <2> QED
    BY <2>1, <2>3, Zenon DEF CalleeExists
<1> QED
  BY <1>1, InitInv, NextInv, PTL DEF Spec
-----------------------------------------------------------------------------
(* Flattened sequences.                                                    *)

\* A set of natural numbers that is not empty has a least element.
LEMMA LeastNatural ==
  ASSUME NEW T \in SUBSET Nat, T # {}
  PROVE  \E n \in T : \A m \in T : ~(m < n)
<1>1. IsWellFoundedOn(OpToRel(<, Nat), Nat)
  BY NatLessThanWellFounded
<1>2. \E n \in T : \A m \in T : ~(<<m, n>> \in OpToRel(<, Nat))
  BY <1>1, WFMin
<1> QED
  BY <1>2 DEF OpToRel

\* The function that FlattenSeq defines exists: its values can be computed one after
\* the other.
LEMMA FlattenRecursion ==
  ASSUME NEW S, NEW s \in Seq(Seq(S)), s # << >>
  PROVE  \E f : /\ f = [i \in 1 .. Len(s) |-> IF i = 1 THEN s[i] ELSE f[i - 1] \o s[i]]
                /\ FlattenSeq(s) = f[Len(s)]
<1> DEFINE Flat(k) == \E f : f = [i \in 1 .. k |-> IF i = 1 THEN s[i] ELSE f[i - 1] \o s[i]]
           Bad == {k \in Nat : ~Flat(k)}
<1>1. Bad = {}
  <2> SUFFICES ASSUME Bad # {} PROVE FALSE
    OBVIOUS
  <2>1. PICK k \in Bad : \A m \in Bad : ~(m < k)
    BY LeastNatural
  <2>2. CASE k = 0
    <3>1. Flat(0)
      <4> DEFINE f == [i \in 1 .. 0 |-> s[i]]
      <4>1. f = [i \in 1 .. 0 |-> IF i = 1 THEN s[i] ELSE f[i - 1] \o s[i]]
        BY SMTT(30)
      <4> QED
        BY <4>1
    <3> QED
      BY <2>1, <2>2, <3>1
  <2>3. CASE k # 0
    <3>1. k \in Nat /\ k - 1 \in Nat /\ k - 1 < k
      BY <2>3, SMTT(30)
    <3>2. Flat(k - 1)
      BY <2>1, <3>1
    <3>3. PICK g : g = [i \in 1 .. k - 1 |-> IF i = 1 THEN s[i] ELSE g[i - 1] \o s[i]]
      BY <3>2
    <3> DEFINE f == [i \in 1 .. k |-> IF i = 1 THEN s[i] ELSE g[i - 1] \o s[i]]
    <3>4. ASSUME NEW i \in 1 .. k - 1 PROVE f[i] = g[i]
      <4>1. i \in 1 .. k
        BY <3>1, SMTT(30)
      <4>2. g[i] = [j \in 1 .. k - 1 |-> IF j = 1 THEN s[j] ELSE g[j - 1] \o s[j]][i]
        BY <3>3, Zenon
      <4> QED
        BY <4>1, <4>2
    <3>5. \A i \in 1 .. k : i # 1 => i - 1 \in 1 .. k - 1
      BY <3>1, SMTT(30)
    <3>6. f = [i \in 1 .. k |-> IF i = 1 THEN s[i] ELSE f[i - 1] \o s[i]]
      <4> HIDE DEF f
      <4>1. \A i \in 1 .. k : i # 1 => f[i - 1] = g[i - 1]
        BY <3>4, <3>5
      <4> QED
        BY <4>1, Zenon DEF f
    <3>7. Flat(k)
      <4> HIDE DEF f
      <4> QED
        BY <3>6
    <3> QED
      BY <3>7
  <2> QED
    BY <2>2, <2>3
<1>2. Len(s) \in Nat /\ Len(s) # 0
  BY EmptySeq
<1>3. Flat(Len(s))
  BY <1>1, <1>2
<1> DEFINE c == CHOOSE f : f = [i \in 1 .. Len(s) |-> IF i = 1 THEN s[i] ELSE f[i - 1] \o s[i]]
<1>4. c = [i \in 1 .. Len(s) |-> IF i = 1 THEN s[i] ELSE c[i - 1] \o s[i]]
  BY <1>3, Zenon
<1>5. FlattenSeq(s) = c[Len(s)]
  BY <1>2 DEF FlattenSeq
<1> HIDE DEF c
<1> QED
  BY <1>4, <1>5

\* Flattening one more sequence puts it at the end.
LEMMA FlattenAppend ==
  ASSUME NEW S, NEW s \in Seq(Seq(S)), NEW x \in Seq(S)
  PROVE  FlattenSeq(s) \in Seq(S) /\ FlattenSeq(Append(s, x)) = FlattenSeq(s) \o x
<1> DEFINE t == Append(s, x)
<1>1. /\ t \in Seq(Seq(S)) /\ t # << >> /\ Len(t) = Len(s) + 1 /\ t[Len(s) + 1] = x
      /\ \A i \in 1 .. Len(s) : t[i] = s[i]
  BY AppendProperties
<1> HIDE DEF t
<1>2. PICK g : /\ g = [i \in 1 .. Len(t) |-> IF i = 1 THEN t[i] ELSE g[i - 1] \o t[i]]
               /\ FlattenSeq(t) = g[Len(t)]
  BY <1>1, FlattenRecursion
<1>3. \A i \in 1 .. Len(t) : g[i] = IF i = 1 THEN t[i] ELSE g[i - 1] \o t[i]
  <2> TAKE i \in 1 .. Len(t)
  <2>1. g[i] = [j \in 1 .. Len(t) |-> IF j = 1 THEN t[j] ELSE g[j - 1] \o t[j]][i]
    BY <1>2, Zenon
  <2> QED
    BY <2>1
<1>4. Len(s) \in Nat /\ FlattenSeq(t) = g[Len(s) + 1]
  BY <1>1, <1>2, LenProperties
<1>5. CASE s = << >>
  <2>1. Len(s) = 0 /\ g[1] = x /\ << >> \o x = x /\ << >> \in Seq(S)
    BY <1>1, <1>3, <1>4, <1>5, ConcatEmptySeq, EmptySeq
  <2>2. FlattenSeq(s) = << >>
    BY <1>5, <2>1 DEF FlattenSeq
  <2> QED
    BY <1>4, <2>1, <2>2 DEF t
<1>6. CASE s # << >>
  <2>1. PICK f : /\ f = [i \in 1 .. Len(s) |-> IF i = 1 THEN s[i] ELSE f[i - 1] \o s[i]]
                 /\ FlattenSeq(s) = f[Len(s)]
    BY <1>6, FlattenRecursion
  <2>2. ASSUME NEW i \in 1 .. Len(s)
        PROVE  f[i] = IF i = 1 THEN s[i] ELSE f[i - 1] \o s[i]
    <3>1. f[i] = [j \in 1 .. Len(s) |-> IF j = 1 THEN s[j] ELSE f[j - 1] \o s[j]][i]
      BY <2>1, Zenon
    <3> QED
      BY <3>1
  <2> DEFINE Bad == {i \in 1 .. Len(s) : ~(g[i] = f[i] /\ f[i] \in Seq(S))}
  <2>3. Bad = {}
    <3> SUFFICES ASSUME Bad # {} PROVE FALSE
      OBVIOUS
    <3>1. Bad \in SUBSET Nat
      BY SMTT(30)
    <3>2. PICK i \in Bad : \A j \in Bad : ~(j < i)
      BY <3>1, LeastNatural
    <3>3. i \in 1 .. Len(s) /\ i \in 1 .. Len(t) /\ t[i] = s[i] /\ s[i] \in Seq(S)
      BY <1>1, <1>4, <3>2, ElementOfSeq
    <3>4. CASE i = 1
      BY <1>3, <2>2, <3>2, <3>3, <3>4
    <3>5. CASE i # 1
      <4>1. i - 1 \in 1 .. Len(s) /\ i - 1 < i
        BY <1>4, <3>3, <3>5, SMTT(30)
      <4>2. g[i - 1] = f[i - 1] /\ f[i - 1] \in Seq(S)
        BY <3>2, <4>1
      <4>3. g[i] = g[i - 1] \o s[i] /\ f[i] = f[i - 1] \o s[i]
        BY <1>3, <2>2, <3>3, <3>5
      <4>4. f[i] \in Seq(S)
        BY <3>3, <4>2, <4>3, ConcatProperties
      <4> QED
        BY <3>2, <4>2, <4>3, <4>4
    <3> QED
      BY <3>4, <3>5
  <2>4. Len(s) \in 1 .. Len(s) /\ Len(s) + 1 \in 1 .. Len(t) /\ Len(s) + 1 # 1 /\ Len(s) + 1 - 1 = Len(s)
    BY <1>1, <1>4, <1>6, EmptySeq
  <2>5. g[Len(s)] = f[Len(s)] /\ f[Len(s)] \in Seq(S)
    BY <2>3, <2>4
  <2>6. g[Len(s) + 1] = g[Len(s)] \o t[Len(s) + 1]
    <3>1. ASSUME NEW i \in 1 .. Len(t), i # 1 PROVE g[i] = g[i - 1] \o t[i]
      BY <1>3, <3>1
    <3> DEFINE n == Len(s) + 1
    <3>2. n \in 1 .. Len(t) /\ n # 1 /\ n - 1 = Len(s)
      BY <2>4
    <3>3. g[n] = g[n - 1] \o t[n]
      <4> HIDE DEF n
      <4> QED
        BY <3>1, <3>2
    <3> QED
      <4> HIDE DEF n
      <4>1. g[n] = g[Len(s)] \o t[n]
        BY <3>2, <3>3
      <4> QED
        BY <4>1 DEF n
  <2> QED
    BY <1>1, <1>4, <2>1, <2>5, <2>6 DEF t
<1> QED
  BY <1>5, <1>6

-----------------------------------------------------------------------------
(* The units of packets.                                                   *)

\* A packet has as many units as its size, which fit into the buffer.
LEMMA UnitsOK ==
  ASSUME NEW p \in Packets
  PROVE  Units(p) \in Seq(Packets) /\ Len(Units(p)) = Size[p] /\ Size[p] \in 1 .. OutBufferSize
<1>1. Size[p] \in Nat /\ Size[p] \in 1 .. OutBufferSize
  BY PacketsFit, PacketsAreMade, SMTT(30) DEF Packets
<1> QED
  BY <1>1, SMTT(30) DEF Units

\* No packets have no units.
LEMMA UnitsOfEmpty == UnitsOf(<< >>) = << >>
<1>1. [i \in DOMAIN << >> |-> Units(<< >>[i])] = << >>
  BY SMTT(30)
<1> QED
  BY <1>1, SMTT(30) DEF UnitsOf, FlattenSeq

\* The units of packets and one more are theirs, and then its own.
LEMMA UnitsOfAppend ==
  ASSUME NEW c \in Seq(Packets), NEW p \in Packets
  PROVE  UnitsOf(c) \in Seq(Packets) /\ UnitsOf(Append(c, p)) = UnitsOf(c) \o Units(p)
<1> DEFINE us(d) == [i \in DOMAIN d |-> Units(d[i])]
<1>1. ASSUME NEW d \in Seq(Packets)
      PROVE  /\ us(d) \in Seq(Seq(Packets)) /\ Len(us(d)) = Len(d)
             /\ \A i \in 1 .. Len(d) : us(d)[i] = Units(d[i])
  <2>1. \A i \in 1 .. Len(d) : Units(d[i]) \in Seq(Packets)
    BY UnitsOK, ElementOfSeq
  <2>2. DOMAIN d = 1 .. Len(d) /\ Len(d) \in Nat
    BY LenProperties
  <2> QED
    BY <2>1, <2>2, SMTT(30)
<1>2. Units(p) \in Seq(Packets)
  BY UnitsOK
<1>3. /\ Append(c, p) \in Seq(Packets) /\ Len(Append(c, p)) = Len(c) + 1
      /\ Append(c, p)[Len(c) + 1] = p /\ \A i \in 1 .. Len(c) : Append(c, p)[i] = c[i]
      /\ Len(c) \in Nat
  BY AppendProperties, LenProperties
<1>4. us(Append(c, p)) = Append(us(c), Units(p))
  <2> DEFINE l == us(Append(c, p))
             r == Append(us(c), Units(p))
  <2>1. /\ l \in Seq(Seq(Packets)) /\ Len(l) = Len(c) + 1
        /\ \A i \in 1 .. Len(c) + 1 : l[i] = Units(Append(c, p)[i])
    BY <1>1, <1>3
  <2>2. us(c) \in Seq(Seq(Packets)) /\ Len(us(c)) = Len(c) /\ \A i \in 1 .. Len(c) : us(c)[i] = Units(c[i])
    BY <1>1
  <2>3. /\ r \in Seq(Seq(Packets)) /\ Len(r) = Len(c) + 1 /\ r[Len(c) + 1] = Units(p)
        /\ \A i \in 1 .. Len(c) : r[i] = Units(c[i])
    <3> HIDE DEF us
    <3> QED
      BY <1>2, <2>2, AppendProperties
  <2> HIDE DEF l, r
  <2>4. \A i \in 1 .. Len(c) + 1 : l[i] = r[i]
    BY <1>3, <2>1, <2>3, SMTT(30)
  <2>5. l = r
    BY <2>1, <2>3, <2>4, SeqEqual
  <2> QED
    BY <2>5 DEF l, r
<1>5. UnitsOf(c) = FlattenSeq(us(c)) /\ UnitsOf(Append(c, p)) = FlattenSeq(us(Append(c, p)))
  BY DEF UnitsOf
<1>6. us(c) \in Seq(Seq(Packets))
  BY <1>1
<1> HIDE DEF us
<1> QED
  BY <1>2, <1>4, <1>5, <1>6, FlattenAppend

\* The units of packets and others after them are theirs, and then those of the others.
LEMMA UnitsOfConcat ==
  ASSUME NEW c \in Seq(Packets), NEW d \in Seq(Packets)
  PROVE  UnitsOf(c \o d) = UnitsOf(c) \o UnitsOf(d)
<1>0. ASSUME NEW a \in Seq(Packets), NEW b \in Seq(Packets), NEW e \in Seq(Packets)
      PROVE  (a \o b) \o e = a \o (b \o e)
  BY ConcatAssociative, SMTT(60)
<1> DEFINE Holds(k) == UnitsOf(c \o SubSeq(d, 1, k)) = UnitsOf(c) \o UnitsOf(SubSeq(d, 1, k))
           Bad == {k \in 0 .. Len(d) : ~Holds(k)}
<1>1. Len(d) \in Nat /\ SubSeq(d, 1, Len(d)) = d /\ UnitsOf(c) \in Seq(Packets)
  <2>1. UnitsOf(c) \in Seq(Packets)
    <3>1. CASE Packets = {}
      BY UnitsOfEmpty, <3>1, EmptySeq, ElementOfSeq, LenProperties, SMTT(30)
    <3>2. CASE Packets # {}
      BY <3>2, UnitsOfAppend
    <3> QED
      BY <3>1, <3>2
  <2> QED
    BY <2>1, LenProperties, SubSeqFull
<1>2. Bad = {}
  <2> SUFFICES ASSUME Bad # {} PROVE FALSE
    OBVIOUS
  <2>1. Bad \in SUBSET Nat
    BY SMTT(30)
  <2>2. PICK k \in Bad : \A m \in Bad : ~(m < k)
    <3> HIDE DEF Bad
    <3> QED
      BY <2>1, LeastNatural
  <2>3. CASE k = 0
    <3>1. SubSeq(d, 1, 0) = << >>
      BY SubSeqEmpty
    <3>2. c \o << >> = c /\ UnitsOf(c) \o << >> = UnitsOf(c)
      BY <1>1, ConcatEmptySeq
    <3> QED
      BY <2>2, <2>3, <3>1, <3>2, UnitsOfEmpty
  <2>4. CASE k # 0
    <3>1. k \in 1 .. Len(d) /\ k - 1 \in 0 .. Len(d) /\ k - 1 < k /\ 1 \in 1 .. Len(d) /\ k \in 1 .. Len(d)
      BY <1>1, <2>2, <2>4, SMTT(30)
    <3>2. Holds(k - 1)
      <4> HIDE DEF Holds
      <4> QED
        BY <2>2, <3>1
    <3> DEFINE e == SubSeq(d, 1, k - 1)
    <3>3. d[k] \in Packets /\ e \in Seq(Packets)
      <4>1. \A i \in 1 .. k - 1 : d[i] \in Packets
        BY <1>1, <3>1, ElementOfSeq
      <4>2. k - 1 \in Int
        BY <3>1, SMTT(30)
      <4> QED
        BY <3>1, <4>1, <4>2, ElementOfSeq, SubSeqProperties
    <3>4. SubSeq(d, 1, k) = e \o << d[k] >>
      BY <3>1, SubSeqRecursiveSecond
    <3>5. UnitsOf(c \o e) = UnitsOf(c) \o UnitsOf(e)
      BY <3>2
    <3> HIDE DEF e
    <3>6. e \o << d[k] >> = Append(e, d[k])
      BY <3>3, AppendIsConcat
    <3>7. c \o (e \o << d[k] >>) = Append(c \o e, d[k]) /\ c \o e \in Seq(Packets)
      <4>1. << d[k] >> \in Seq(Packets)
        BY <3>3
      <4>2. (c \o e) \o << d[k] >> = c \o (e \o << d[k] >>)
        BY <1>0, <3>3, <4>1, Zenon
      <4>3. c \o e \in Seq(Packets)
        BY <3>3, ConcatProperties
      <4> QED
        BY <3>3, <4>2, <4>3, AppendIsConcat
    <3>8. /\ UnitsOf(e) \in Seq(Packets) /\ UnitsOf(Append(e, d[k])) = UnitsOf(e) \o Units(d[k])
          /\ UnitsOf(Append(c \o e, d[k])) = UnitsOf(c \o e) \o Units(d[k])
          /\ Units(d[k]) \in Seq(Packets)
      BY <3>3, <3>7, UnitsOfAppend, UnitsOK
    <3>9. (UnitsOf(c) \o UnitsOf(e)) \o Units(d[k]) = UnitsOf(c) \o (UnitsOf(e) \o Units(d[k]))
      BY <1>0, <1>1, <3>8, Zenon
    <3>10. Holds(k)
      BY <3>4, <3>5, <3>6, <3>7, <3>8, <3>9
    <3> QED
      BY <2>2, <3>10
  <2> QED
    BY <2>3, <2>4
<1>3. Holds(Len(d))
  <2> HIDE DEF Holds
  <2> QED
    BY <1>1, <1>2
<1> QED
  BY <1>1, <1>3

\* The buffer that iFlushPacketQueue fills holds what it moved, which is something if
\* there was a packet in the queue.
LEMMA FlushedOK ==
  ASSUME packetQueue \in Seq(Packets)
  PROVE  \E k \in 0 .. Len(packetQueue) :
            /\ Flushed = SubSeq(packetQueue, 1, k)
            /\ Len(UnitsOf(Flushed)) <= OutBufferSize
            /\ packetQueue # << >> => k # 0
<1> DEFINE q == packetQueue
           fit == {k \in 0 .. Len(q) : Len(UnitsOf(SubSeq(q, 1, k))) <= OutBufferSize}
           Gaps == {Len(q) - k : k \in fit}
<1>1. Len(q) \in Nat /\ OutBufferSize \in Nat
  BY LenProperties, PacketsAreMade
<1>2. 0 \in fit
  <2>1. SubSeq(q, 1, 0) = << >> /\ Len(<< >>) = 0
    BY SubSeqEmpty, EmptySeq
  <2>2. UnitsOf(SubSeq(q, 1, 0)) = << >>
    BY <2>1, UnitsOfEmpty
  <2>3. Len(UnitsOf(SubSeq(q, 1, 0))) <= OutBufferSize
    BY <1>1, <2>1, <2>2, SMTT(30)
  <2> QED
    BY <1>1, <2>3, SMTT(30)
<1>3. ASSUME q # << >> PROVE 1 \in fit
  <2>1. 1 \in 1 .. Len(q) /\ 1 \in 0 .. Len(q) /\ q[1] \in Packets
    BY <1>3, EmptySeq, ElementOfSeq, SMTT(30)
  <2>2. SubSeq(q, 1, 1) = SubSeq(q, 1, 0) \o << q[1] >> /\ SubSeq(q, 1, 0) = << >>
    BY <2>1, SubSeqRecursiveSecond, SubSeqEmpty
  <2>3. /\ << >> \in Seq(Packets) /\ << >> \o << q[1] >> = Append(<< >>, q[1])
        /\ << >> \o Units(q[1]) = Units(q[1])
    BY <2>1, EmptySeq, AppendIsConcat, UnitsOK, ConcatEmptySeq
  <2>4. UnitsOf(SubSeq(q, 1, 1)) = Units(q[1])
    <3>1. UnitsOf(Append(<< >>, q[1])) = UnitsOf(<< >>) \o Units(q[1])
      BY <2>1, <2>3, UnitsOfAppend
    <3> QED
      BY <2>2, <2>3, <3>1, UnitsOfEmpty
  <2>5. Len(UnitsOf(SubSeq(q, 1, 1))) <= OutBufferSize
    <3>1. Len(Units(q[1])) = Size[q[1]] /\ Size[q[1]] \in 1 .. OutBufferSize
      BY <2>1, UnitsOK
    <3>2. Len(Units(q[1])) <= OutBufferSize
      BY <1>1, <3>1, SMTT(30)
    <3> QED
      BY <2>4, <3>2
  <2> QED
    BY <2>1, <2>5
<1>4. \E k \in fit : \A j \in fit : j <= k
  <2>1. fit \subseteq 0 .. Len(q)
    OBVIOUS
  <2> HIDE DEF fit
  <2>2. Gaps \in SUBSET Nat /\ Gaps # {}
    BY <1>1, <1>2, <2>1, SMTT(30)
  <2>3. PICK g \in Gaps : \A m \in Gaps : ~(m < g)
    <3> HIDE DEF Gaps
    <3> QED
      BY <2>2, LeastNatural
  <2>4. PICK k \in fit : g = Len(q) - k
    BY <2>3
  <2>5. \A j \in fit : ~(Len(q) - j < Len(q) - k)
    BY <2>3, <2>4
  <2> QED
    BY <1>1, <2>1, <2>4, <2>5, SMTT(30)
<1> DEFINE m == CHOOSE k \in fit : \A j \in fit : j <= k
<1>5. m \in fit /\ \A j \in fit : j <= m
  <2> HIDE DEF fit
  <2> QED
    BY <1>4, Zenon
<1>6. Flushed = SubSeq(q, 1, m)
  BY DEF Flushed
<1>7. m \in 0 .. Len(q) /\ Len(UnitsOf(SubSeq(q, 1, m))) <= OutBufferSize
  <2> HIDE DEF m
  <2> QED
    BY <1>5
<1>8. q # << >> => m # 0
  <2>1. q # << >> => 1 <= m
    <3> HIDE DEF m, fit
    <3> QED
      BY <1>3, <1>5
  <2> QED
    <3> HIDE DEF m
    <3> QED
      BY <2>1, <1>7, SMTT(30)
<1> HIDE DEF m
<1> QED
  BY <1>6, <1>7, <1>8

\* What was moved has units.
LEMMA FlushedNotEmpty ==
  ASSUME packetQueue \in Seq(Packets)
  PROVE  /\ Flushed \in Seq(Packets) /\ UnitsOf(Flushed) \in Seq(Packets)
         /\ Flushed = << >> <=> packetQueue = << >>
         /\ UnitsOf(Flushed) = << >> <=> Flushed = << >>
<1>1. PICK k \in 0 .. Len(packetQueue) :
            /\ Flushed = SubSeq(packetQueue, 1, k)
            /\ packetQueue # << >> => k # 0
  BY FlushedOK
<1>2. CASE k = 0
  <2>1. Flushed = << >> /\ packetQueue = << >> /\ << >> \in Seq(Packets)
    <3>1. SubSeq(packetQueue, 1, 0) = << >> /\ << >> \in Seq(Packets)
      BY SubSeqEmpty, EmptySeq
    <3> QED
      BY <1>1, <1>2, <3>1
  <2> QED
    BY <2>1, UnitsOfEmpty
<1>3. CASE k # 0
  <2> DEFINE e == SubSeq(packetQueue, 1, k - 1)
             p == packetQueue[k]
  <2>1. Len(packetQueue) \in Nat
    BY LenProperties
  <2>2. k \in 1 .. Len(packetQueue) /\ 1 \in 1 .. Len(packetQueue) /\ k - 1 \in Int
    BY <1>3, <2>1, SMTT(30)
  <2>3. \A i \in 1 .. k - 1 : packetQueue[i] \in Packets
    BY <2>1, <2>2, ElementOfSeq
  <2>4. p \in Packets /\ e \in Seq(Packets)
    BY <2>2, <2>3, ElementOfSeq, SubSeqProperties
  <2>5. Flushed = e \o << p >>
    <3>1. k \in 1 .. Len(packetQueue) /\ 1 \in 1 .. Len(packetQueue) /\ k \in 1 .. Len(packetQueue)
      BY <2>2
    <3>2. SubSeq(packetQueue, 1, k) = e \o << p >>
      BY <3>1, SubSeqRecursiveSecond
    <3> QED
      BY <1>1, <3>2
  <2> HIDE DEF e, p
  <2>6. Flushed = Append(e, p)
    BY <2>4, <2>5, AppendIsConcat
  <2>7. /\ Flushed \in Seq(Packets) /\ Flushed # << >>
        /\ UnitsOf(e) \in Seq(Packets) /\ UnitsOf(Flushed) = UnitsOf(e) \o Units(p)
        /\ Units(p) \in Seq(Packets) /\ Len(Units(p)) \in Nat \ {0}
    <3>1. Flushed \in Seq(Packets) /\ Flushed # << >>
      BY <2>4, <2>6, AppendProperties
    <3>2. UnitsOf(e) \in Seq(Packets) /\ UnitsOf(Flushed) = UnitsOf(e) \o Units(p)
      BY <2>4, <2>6, UnitsOfAppend
    <3>3. Units(p) \in Seq(Packets) /\ Len(Units(p)) = Size[p] /\ Size[p] \in 1 .. OutBufferSize
      BY <2>4, UnitsOK
    <3>4. Len(Units(p)) \in Nat \ {0}
      BY <3>3, PacketsAreMade, SMTT(30)
    <3> QED
      BY <3>1, <3>2, <3>3, <3>4
  <2>8. UnitsOf(Flushed) \in Seq(Packets) /\ Len(UnitsOf(Flushed)) # 0
    BY <2>7, ConcatProperties, LenProperties, SMTT(30)
  <2>9. UnitsOf(Flushed) # << >> /\ packetQueue # << >>
    BY <2>2, <2>8, EmptySeq, SMTT(30)
  <2> QED
    BY <2>7, <2>8, <2>9
<1> QED
  BY <1>2, <1>3

-----------------------------------------------------------------------------
(* The output path.                                                        *)

OutputOK ==
    /\ outActive \in BOOLEAN
    /\ outBuffer \in Seq(Packets) /\ Len(outBuffer) <= OutBufferSize
    /\ packetQueue \in Seq(Packets) /\ wire \in Seq(Packets) /\ crypt \in Seq(Packets)
    /\ made \in 0 .. Len(Size)

\* Packets wait only behind what is in the buffer.
QueueInv == packetQueue # << >> => outBuffer # << >>

OutputInv == OutputOK /\ HeadersInStep /\ QueueInv

\* The steps as the output path sees them.
Quiet == UNCHANGED <<outBuffer, packetQueue, wire, crypt, made>> /\ outActive' \in BOOLEAN
Sends == made + 1 \in Packets /\ SendPacket(made + 1)
Gives == UNCHANGED made /\ \E n \in 1 .. Len(outBuffer) : SendSome(n)

\* Before the acceptor has sent the challenge there is nothing to send; an open
\* socket that it has passed on is in a list of its thread and, in the end, with the
\* reactor.
ServedInv ==
    /\ pc[Acceptor] \in {"open", "challenge"} => made = 0 /\ outBuffer = << >> /\ packetQueue = << >>
    /\ ~closing_ => /\ pc[Acceptor] # "open" => listed # "no"
                    /\ pc[Acceptor] \in Started => registered
                    /\ pc[Acceptor] = "challenge" => outActive
    /\ pc[Net] \in {"lost2", "lost3", "drop2", "dropped"} => closing_

\* The elements of two sequences, one after the other.
LEMMA ToSetOfConcat ==
  ASSUME NEW S, NEW s \in Seq(S), NEW t \in Seq(S)
  PROVE  ToSet(s \o t) = ToSet(s) \cup ToSet(t)
<1>1. Range(s \o t) = Range(s) \cup Range(t)
  BY RangeConcatenation
<1> QED
  BY <1>1 DEF ToSet, Range

\* What is moved from the head of a queue to the tail of another one keeps its order.
InOrder(a, b, e) == (a \o b) \o e = a \o (b \o e)

\* The concatenation of packets is associative.
LEMMA MovedAcross == \A a, b, e \in Seq(Packets) : InOrder(a, b, e)
BY ConcatAssociative DEF InOrder

\* The elements of a sequence and one more.
LEMMA ToSetOfAppend ==
  ASSUME NEW S, NEW s \in Seq(S), NEW e \in S
  PROVE  ToSet(Append(s, e)) = ToSet(s) \cup {e}
<1> DEFINE one == << e >>
<1>1. one \in Seq(S) /\ ToSet(one) = {e}
  BY SMTT(30) DEF ToSet
<1>2. Append(s, e) = s \o one
  BY AppendIsConcat, Zenon
<1> HIDE DEF one
<1>3. ToSet(s \o one) = ToSet(s) \cup ToSet(one)
  BY <1>1, ToSetOfConcat
<1>4. ToSet(Append(s, e)) = ToSet(s \o one)
  BY <1>2, Zenon
<1> QED
  BY <1>1, <1>3, <1>4, Zenon

\* The numbers of the packets.
LEMMA PacketNumbers == Packets = 1 .. Len(Size) /\ Len(Size) \in Nat \ {0}
  BY PacketsAreMade, LenProperties, EmptySeq DEF Packets

\* A packet goes to the buffer or to the end of the queue.
LEMMA SendsOK == ASSUME OutputInv, Sends PROVE OutputInv'
<1> DEFINE p == made + 1
<1>1. /\ p \in Packets /\ p \in 1 .. Len(Size) /\ made' = p /\ made \in Nat
      /\ UNCHANGED <<wire, outActive>>
  BY PacketNumbers, SMTT(30) DEF Sends, SendPacket, OutputInv, OutputOK
<1>2. /\ outBuffer \in Seq(Packets) /\ Len(outBuffer) \in Nat /\ Len(outBuffer) <= OutBufferSize
      /\ packetQueue \in Seq(Packets) /\ wire \in Seq(Packets) /\ crypt \in Seq(Packets)
      /\ Len(packetQueue) \in Nat /\ Len(crypt) \in Nat /\ outActive \in BOOLEAN
      /\ OutBufferSize \in Nat
  BY LenProperties, PacketsAreMade DEF OutputInv, OutputOK
<1>3. /\ UnitsOf(crypt) = wire \o outBuffer
      /\ ToSet(crypt \o packetQueue) = 1 .. made
      /\ Len(crypt \o packetQueue) = made
      /\ \A i, j \in DOMAIN packetQueue : i < j => packetQueue[i] < packetQueue[j]
  BY DEF OutputInv, HeadersInStep
<1>4. Units(p) \in Seq(Packets) /\ Len(Units(p)) = Size[p] /\ Size[p] \in 1 .. OutBufferSize
  BY <1>1, UnitsOK
<1>5. ToSet(crypt) \cup ToSet(packetQueue) = 1 .. made /\ Len(crypt) + Len(packetQueue) = made
  BY <1>2, <1>3, ToSetOfConcat, ConcatProperties
<1>6. (1 .. made) \cup {p} = 1 .. p
  BY <1>1, SMTT(30)
<1> HIDE DEF p
<1>7. CASE iSendPacket(p)
  <2>1. /\ Len(outBuffer) + Size[p] <= OutBufferSize /\ crypt' = Append(crypt, p)
        /\ outBuffer' = outBuffer \o Units(p) /\ packetQueue' = packetQueue
    BY <1>7 DEF iSendPacket
  <2>2. /\ outBuffer' \in Seq(Packets) /\ Len(outBuffer') = Len(outBuffer) + Size[p]
        /\ crypt' \in Seq(Packets) /\ Len(crypt') = Len(crypt) + 1
    BY <1>1, <1>2, <1>4, <2>1, ConcatProperties, AppendProperties
  <2>3. UnitsOf(crypt') = wire' \o outBuffer'
    <3>1. UnitsOf(crypt') = (wire \o outBuffer) \o Units(p)
      BY <1>1, <1>2, <1>3, <2>1, UnitsOfAppend
    <3>2. InOrder(wire, outBuffer, Units(p))
      BY <1>2, <1>4, MovedAcross, Zenon
    <3> QED
      BY <1>1, <2>1, <3>1, <3>2, Zenon DEF InOrder
  <2>4. ToSet(crypt' \o packetQueue') = 1 .. made' /\ Len(crypt' \o packetQueue') = made'
    <3>1. ToSet(crypt' \o packetQueue') = ToSet(crypt') \cup ToSet(packetQueue)
      BY <1>2, <2>1, <2>2, ToSetOfConcat
    <3>2. ToSet(crypt') = ToSet(crypt) \cup {p}
      BY <1>1, <1>2, <2>1, ToSetOfAppend
    <3>3. Len(crypt' \o packetQueue') = Len(crypt') + Len(packetQueue)
      BY <1>2, <2>1, <2>2, ConcatProperties
    <3>4. Len(crypt' \o packetQueue') = made'
      BY <1>1, <1>2, <1>5, <2>2, <3>3, SMTT(30) DEF p
    <3> QED
      BY <1>1, <1>5, <1>6, <3>1, <3>2, <3>4
  <2>5. OutputOK'
    BY <1>1, <1>2, <1>4, <2>1, <2>2, SMTT(30) DEF OutputOK
  <2>6. outBuffer' # << >>
    BY <1>2, <1>4, <2>2, EmptySeq, SMTT(30)
  <2> QED
    BY <1>3, <2>1, <2>3, <2>4, <2>5, <2>6 DEF OutputInv, QueueInv, HeadersInStep
<1>8. CASE /\ Len(outBuffer) + Size[p] > OutBufferSize
           /\ packetQueue' = Append(packetQueue, p)
           /\ UNCHANGED <<outBuffer, crypt>>
  <2>1. /\ packetQueue' \in Seq(Packets) /\ Len(packetQueue') = Len(packetQueue) + 1
        /\ packetQueue'[Len(packetQueue) + 1] = p
        /\ \A i \in 1 .. Len(packetQueue) : packetQueue'[i] = packetQueue[i]
    BY <1>1, <1>2, <1>8, AppendProperties
  <2>2. DOMAIN packetQueue' = 1 .. Len(packetQueue) + 1 /\ DOMAIN packetQueue = 1 .. Len(packetQueue)
    BY <1>2, <2>1, LenProperties
  <2>3. \A i \in 1 .. Len(packetQueue) : packetQueue[i] \in 1 .. made
    <3>1. \A i \in 1 .. Len(packetQueue) : packetQueue[i] \in ToSet(packetQueue)
      BY <2>2 DEF ToSet
    <3> QED
      BY <1>5, <3>1
  <2>4. \A i, j \in DOMAIN packetQueue' : i < j => packetQueue'[i] < packetQueue'[j]
    <3> SUFFICES ASSUME NEW i \in 1 .. Len(packetQueue) + 1, NEW j \in 1 .. Len(packetQueue) + 1, i < j
                 PROVE  packetQueue'[i] < packetQueue'[j]
      BY <2>2
    <3>1. i \in 1 .. Len(packetQueue)
      BY <1>2, SMTT(30)
    <3>2. CASE j = Len(packetQueue) + 1
      BY <1>1, <2>1, <2>3, <3>1, <3>2, SMTT(30) DEF p
    <3>3. CASE j # Len(packetQueue) + 1
      <4>1. j \in 1 .. Len(packetQueue)
        BY <1>2, <3>3, SMTT(30)
      <4> QED
        BY <1>3, <2>1, <2>2, <3>1, <4>1
    <3> QED
      BY <3>2, <3>3
  <2>5. ToSet(crypt' \o packetQueue') = 1 .. made' /\ Len(crypt' \o packetQueue') = made'
    <3>1. ToSet(crypt' \o packetQueue') = ToSet(crypt) \cup ToSet(packetQueue')
      <4>1. ToSet(crypt \o packetQueue') = ToSet(crypt) \cup ToSet(packetQueue')
        BY <1>2, <2>1, ToSetOfConcat
      <4> QED
        BY <1>8, <4>1
    <3>2. ToSet(packetQueue') = ToSet(packetQueue) \cup {p}
      BY <1>1, <1>2, <1>8, ToSetOfAppend
    <3>3. Len(crypt' \o packetQueue') = Len(crypt) + Len(packetQueue')
      BY <1>2, <1>8, <2>1, ConcatProperties
    <3>4. Len(crypt' \o packetQueue') = made'
      BY <1>1, <1>2, <1>5, <2>1, <3>3, SMTT(30) DEF p
    <3> QED
      BY <1>1, <1>5, <1>6, <3>1, <3>2, <3>4
  <2>6. OutputOK'
    BY <1>1, <1>2, <1>8, <2>1, SMTT(30) DEF OutputOK
  <2>7. outBuffer' # << >>
    <3>1. Len(outBuffer) # 0
      BY <1>2, <1>4, <1>8, SMTT(30)
    <3> QED
      BY <1>8, <3>1, EmptySeq
  <2> QED
    BY <1>1, <1>3, <1>8, <2>4, <2>5, <2>6, <2>7 DEF OutputInv, QueueInv, HeadersInStep
<1> QED
  BY <1>7, <1>8 DEF Sends, SendPacket, p

\* What the kernel takes goes from the head of the buffer to the wire, and a buffer
\* that it has emptied is filled from the head of the queue.
LEMMA GivesOK == ASSUME OutputInv, Gives PROVE OutputInv'
<1>1. PICK n \in 1 .. Len(outBuffer) : SendSome(n)
  BY DEF Gives
<1>2. /\ outBuffer \in Seq(Packets) /\ Len(outBuffer) \in Nat /\ Len(outBuffer) <= OutBufferSize
      /\ packetQueue \in Seq(Packets) /\ wire \in Seq(Packets) /\ crypt \in Seq(Packets)
      /\ Len(packetQueue) \in Nat /\ OutBufferSize \in Nat
      /\ made' = made /\ made \in 0 .. Len(Size)
      /\ 1 \in 1 .. Len(outBuffer) + 1 /\ n \in 1 - 1 .. Len(outBuffer) /\ n \in Nat
      /\ Len(outBuffer) \in n .. Len(outBuffer)
  BY LenProperties, PacketsAreMade, SMTT(30) DEF OutputInv, OutputOK, Gives
<1>3. /\ UnitsOf(crypt) = wire \o outBuffer
      /\ ToSet(crypt \o packetQueue) = 1 .. made
      /\ Len(crypt \o packetQueue) = made
      /\ \A i, j \in DOMAIN packetQueue : i < j => packetQueue[i] < packetQueue[j]
  BY DEF OutputInv, HeadersInStep
<1> DEFINE taken == SubSeq(outBuffer, 1, n)
           rest == SubSeq(outBuffer, n + 1, Len(outBuffer))
<1>4. taken \in Seq(Packets) /\ rest \in Seq(Packets) /\ Len(rest) = Len(outBuffer) - n
  <2>1. \A i \in 1 .. Len(outBuffer) : outBuffer[i] \in Packets
    BY <1>2, ElementOfSeq
  <2>2. (\A i \in 1 .. n : outBuffer[i] \in Packets) /\ (\A i \in n + 1 .. Len(outBuffer) : outBuffer[i] \in Packets)
    BY <1>2, <2>1, SMTT(30)
  <2>3. 1 \in Int /\ n \in Int /\ n + 1 \in Int /\ Len(outBuffer) \in Int
    BY <1>2, SMTT(30)
  <2>4. taken \in Seq(Packets)
    BY <2>2, <2>3, SubSeqProperties
  <2>5. rest \in Seq(Packets) /\ Len(rest) = IF n + 1 <= Len(outBuffer) THEN Len(outBuffer) - (n + 1) + 1 ELSE 0
    BY <2>2, <2>3, SubSeqProperties
  <2>6. Len(rest) = Len(outBuffer) - n
    BY <1>2, <2>5, SMTT(30)
  <2> QED
    BY <2>4, <2>5, <2>6
<1>5. taken \o rest = outBuffer
  <2>1. taken \o rest = SubSeq(outBuffer, 1, Len(outBuffer))
    BY <1>2, ConcatAdjacentSubSeq
  <2> QED
    BY <1>2, <2>1, SubSeqFull
<1>6. wire' = wire \o taken /\ wire' \in Seq(Packets)
  <2>1. wire' = wire \o taken
    BY <1>1 DEF SendSome
  <2> QED
    BY <1>2, <1>4, <2>1, ConcatProperties
<1>7. UnitsOf(crypt) = wire' \o rest
  <2> HIDE DEF taken, rest
  <2>1. InOrder(wire, taken, rest)
    BY <1>2, <1>4, MovedAcross, Zenon
  <2> QED
    BY <1>3, <1>5, <1>6, <2>1, Zenon DEF InOrder
<1>8. CASE n < Len(outBuffer)
  <2>1. outBuffer' = rest /\ outActive' = TRUE /\ packetQueue' = packetQueue /\ crypt' = crypt
    BY <1>1, <1>8 DEF SendSome
  <2>2. OutputOK' /\ outBuffer' # << >>
    <3>1. Len(rest) <= OutBufferSize /\ Len(rest) # 0
      BY <1>2, <1>4, <1>8, SMTT(30)
    <3>2. outBuffer' # << >>
      BY <2>1, <3>1, EmptySeq
    <3>3. outBuffer' \in Seq(Packets) /\ Len(outBuffer') <= OutBufferSize
      BY <1>4, <2>1, <3>1
    <3> QED
      BY <1>2, <1>6, <2>1, <3>2, <3>3 DEF OutputOK
  <2>3. HeadersInStep'
    BY <1>2, <1>3, <1>7, <2>1 DEF HeadersInStep
  <2> QED
    BY <2>2, <2>3 DEF OutputInv, QueueInv
<1>9. CASE ~(n < Len(outBuffer))
  <2>1. rest = << >>
    <3>1. Len(rest) = 0
      BY <1>2, <1>4, <1>9, SMTT(30)
    <3> QED
      BY <1>4, <3>1, EmptySeq
  <2>2. UnitsOf(crypt) = wire'
    BY <1>6, <1>7, <2>1, ConcatEmptySeq
  <2> HIDE DEF taken, rest
  <2>3. /\ outBuffer' = UnitsOf(Flushed) /\ crypt' = crypt \o Flushed
        /\ packetQueue' = SubSeq(packetQueue, Len(Flushed) + 1, Len(packetQueue))
        /\ outActive' \in BOOLEAN
    BY <1>1, <1>9 DEF SendSome
  <2>4. PICK k \in 0 .. Len(packetQueue) :
            /\ Flushed = SubSeq(packetQueue, 1, k)
            /\ Len(UnitsOf(Flushed)) <= OutBufferSize
    BY <1>2, FlushedOK
  <2>5. /\ Flushed \in Seq(Packets) /\ UnitsOf(Flushed) \in Seq(Packets)
        /\ Flushed = << >> <=> packetQueue = << >>
        /\ UnitsOf(Flushed) = << >> <=> Flushed = << >>
    BY <1>2, FlushedNotEmpty
  <2>6. /\ k \in Nat /\ k \in Int /\ k + 1 \in Int /\ 1 \in Int /\ Len(packetQueue) \in Int
        /\ k <= Len(packetQueue) /\ 1 \in 1 .. Len(packetQueue) + 1 /\ k \in 1 - 1 .. Len(packetQueue)
        /\ Len(packetQueue) \in k .. Len(packetQueue)
    BY <1>2, SMTT(30)
  <2>7. \A i \in 1 .. Len(packetQueue) : packetQueue[i] \in Packets
    BY <1>2, ElementOfSeq
  <2>8. Len(Flushed) = k
    <3>1. \A i \in 1 .. k : packetQueue[i] \in Packets
      BY <2>6, <2>7, SMTT(30)
    <3>2. Len(Flushed) = IF 1 <= k THEN k - 1 + 1 ELSE 0
      BY <2>4, <2>6, <3>1, SubSeqProperties
    <3> QED
      BY <2>6, <3>2, SMTT(30)
  <2> DEFINE left == SubSeq(packetQueue, k + 1, Len(packetQueue))
  <2>9. /\ left \in Seq(Packets)
        /\ Len(left) = IF k + 1 <= Len(packetQueue) THEN Len(packetQueue) - (k + 1) + 1 ELSE 0
        /\ \A i \in 1 .. Len(packetQueue) - (k + 1) + 1 : left[i] = packetQueue[k + 1 + i - 1]
    <3>1. \A i \in k + 1 .. Len(packetQueue) : packetQueue[i] \in Packets
      BY <2>6, <2>7, SMTT(30)
    <3> QED
      BY <2>6, <3>1, SubSeqProperties
  <2>10. Flushed \o left = packetQueue
    <3>1. SubSeq(packetQueue, 1, k) \o left = SubSeq(packetQueue, 1, Len(packetQueue))
      BY <1>2, <2>6, ConcatAdjacentSubSeq
    <3> QED
      BY <1>2, <2>4, <3>1, SubSeqFull
  <2>11. packetQueue' = left
    BY <2>3, <2>8
  <2> HIDE DEF left
  <2>12. crypt' \o packetQueue' = crypt \o packetQueue /\ crypt' \in Seq(Packets)
    <3>1. InOrder(crypt, Flushed, left)
      BY <1>2, <2>5, <2>9, MovedAcross, Zenon
    <3>2. crypt' \in Seq(Packets)
      BY <1>2, <2>3, <2>5, ConcatProperties
    <3> QED
      BY <2>3, <2>10, <2>11, <3>1, <3>2, Zenon DEF InOrder
  <2>13. UnitsOf(crypt') = wire' \o outBuffer'
    BY <1>2, <2>2, <2>3, <2>5, UnitsOfConcat
  <2>14. \A i, j \in DOMAIN packetQueue' : i < j => packetQueue'[i] < packetQueue'[j]
    <3>1. DOMAIN left = 1 .. Len(left) /\ DOMAIN packetQueue = 1 .. Len(packetQueue)
      BY <1>2, <2>9, LenProperties
    <3> SUFFICES ASSUME NEW i \in 1 .. Len(left), NEW j \in 1 .. Len(left), i < j
                 PROVE  left[i] < left[j]
      BY <2>11, <3>1
    <3>2. /\ i \in 1 .. Len(packetQueue) - (k + 1) + 1 /\ j \in 1 .. Len(packetQueue) - (k + 1) + 1
          /\ k + 1 + i - 1 \in 1 .. Len(packetQueue) /\ k + 1 + j - 1 \in 1 .. Len(packetQueue)
          /\ k + 1 + i - 1 < k + 1 + j - 1
      BY <1>2, <2>6, <2>9, SMTT(30)
    <3>3. left[i] = packetQueue[k + 1 + i - 1] /\ left[j] = packetQueue[k + 1 + j - 1]
      BY <2>9, <3>2
    <3> QED
      BY <1>3, <3>1, <3>2, <3>3
  <2>15. OutputOK'
    BY <1>2, <1>6, <2>3, <2>4, <2>5, <2>9, <2>11, <2>12 DEF OutputOK
  <2>16. HeadersInStep'
    BY <1>2, <1>3, <2>12, <2>13, <2>14 DEF HeadersInStep
  <2>17. QueueInv'
    <3>1. CASE packetQueue = << >>
      <4>1. Len(packetQueue) = 0 /\ k = 0
        BY <1>2, <2>6, <3>1, EmptySeq, SMTT(30)
      <4>2. Len(left) = 0
        BY <2>9, <4>1, SMTT(30)
      <4> QED
        BY <2>9, <2>11, <4>2, EmptySeq DEF QueueInv
    <3>2. CASE packetQueue # << >>
      BY <2>3, <2>5, <3>2 DEF QueueInv
    <3> QED
      BY <3>1, <3>2
  <2> QED
    BY <2>15, <2>16, <2>17 DEF OutputInv
<1> QED
  BY <1>8, <1>9

\* What is not an output step leaves the output path as it is.
LEMMA QuietOK == ASSUME OutputInv, Quiet PROVE OutputInv'
  BY DEF OutputInv, Quiet, OutputOK, HeadersInStep, QueueInv

\* Every step is one of the three.
LEMMA OutputStepKinds ==
  ASSUME IInv, ServedInv, OutputOK, [Next]_vars
  PROVE  Quiet \/ Sends \/ Gives
<1>1. outActive \in BOOLEAN /\ made \in Nat
  BY PacketNumbers, SMTT(30) DEF OutputOK
<1>2. ASSUME HandleOutput, UNCHANGED made PROVE Quiet \/ Gives
  BY <1>2 DEF HandleOutput, Quiet, Gives
<1>3. ASSUME SendNext PROVE Quiet \/ Sends
  BY <1>1, <1>3 DEF SendNext, Quiet, Sends, output
<1>4. CASE AcceptorNext
  <2>1. CASE SendChallenge
    <3>1. made = 0 /\ SendPacket(1)
      BY <2>1 DEF SendChallenge, ServedInv
    <3>2. made + 1 = 1 /\ 1 \in Packets
      BY <3>1, PacketNumbers, SMTT(30)
    <3> QED
      BY <3>1, <3>2 DEF Sends
  <2>2. CASE OnSocketOpen
    BY <2>2 DEF OnSocketOpen, Quiet
  <2>3. CASE RegisterHandler \/ LeaveToReactor \/ OpenFails
    BY <1>1, <2>3 DEF RegisterHandler, LeaveToReactor, OpenFails, Quiet, output
  <2> QED
    BY <1>4, <2>1, <2>2, <2>3 DEF AcceptorNext
<1>5. CASE NetNext
  <2>1. CASE UpdateSends \/ Writable
    BY <1>2, <2>1 DEF UpdateSends, Writable
  <2>2. CASE Reply
    BY <1>1, <1>3, <2>2 DEF Reply, Quiet, output
  <2>5. CASE SendAddons
    BY <1>1, <1>3, <2>5 DEF SendAddons, Quiet, output
  <2>3. CASE \/ AddNewSockets \/ UpdateFails \/ DropSocket \/ HandlerFails \/ HandleClose
             \/ HandleCloseSession \/ RemoveHandler
    BY <1>1, <2>3 DEF AddNewSockets, UpdateFails, DropSocket, HandlerFails, HandleClose,
                      HandleCloseSession, RemoveHandler, Quiet, output
  <2>4. CASE ProcessIncoming \/ HandleAuthSession \/ TakeSessionLock \/ SetLatency \/ QueuePacket
    BY <1>1, <2>4 DEF ProcessIncoming, HandleAuthSession, TakeSessionLock, SetLatency, QueuePacket,
                      Quiet, output
  <2> QED
    BY <1>5, <2>1, <2>2, <2>3, <2>4, <2>5 DEF NetNext
<1>6. CASE WorldNext
  BY <1>1, <1>6 DEF WorldNext, AddSession, DeleteSession, Destroyed, UpdateMaps, Quiet, output
<1>7. ASSUME NEW t \in Callers, CallerNext(t) PROVE Quiet \/ Sends \/ Gives
  <2>1. CASE CallSend(t)
    BY <1>1, <1>3, <2>1 DEF CallSend, Quiet, output
  <2>2. CASE StartSend(t) \/ KickPlayer(t) \/ CleanUp(t) \/ ForgetSocket(t) \/ FinishMap(t)
    BY <1>1, <2>2 DEF StartSend, KickPlayer, CleanUp, ForgetSocket, FinishMap, Quiet, output
  <2> QED
    BY <1>7, <2>1, <2>2 DEF CallerNext
<1>8. ASSUME NEW t \in Threads, CloseSocket(t) \/ ForgetSession(t) PROVE Quiet
  BY <1>1, <1>8 DEF CloseSocket, ForgetSession, Quiet, output
<1>9. CASE UNCHANGED vars
  BY <1>1, <1>9 DEF vars, Quiet
<1> QED
  BY <1>4, <1>5, <1>6, <1>7, <1>8, <1>9 DEF Next

\* The socket is passed on before it can be sent to, and leaves its lists closed.
LEMMA ServedNext ==
  ASSUME IInv, ServedInv, [Next]_vars
  PROVE  ServedInv'
<1>1. /\ pc \in [Threads -> Labels] /\ Acceptor \in Threads /\ Net \in Threads /\ Acceptor # Net
      /\ \A t \in Callers : t # Acceptor /\ t # Net
      /\ pc[Acceptor] \in {"open", "challenge", "register"} \cup Started
      /\ pc[Net] \notin Listed \cup {"idle"} => registered
      /\ registered \/ session # "none" => pc[Acceptor] \in Started
      /\ \A t \in Callers : pc[t] # "idle" => session \in {"queued", "world"}
      /\ pc[Acceptor] = "open" => listed = "no"
  BY Different DEF IInv, PlacesOK, ListsInv, CallsInv
<1>2. CASE AcceptorNext
  <2>1. CASE OnSocketOpen
    BY <1>1, <2>1, SMTT(30) DEF OnSocketOpen, ServedInv, Started, Goto
  <2>2. CASE SendChallenge
    BY <1>1, <2>2, SMTT(30) DEF SendChallenge, ServedInv, Started, Goto, pointers
  <2>3. CASE RegisterHandler
    BY <1>1, <2>3, SMTT(30) DEF RegisterHandler, ServedInv, Started, Goto, output
  <2>4. CASE LeaveToReactor
    BY <1>1, <2>4, SMTT(30) DEF LeaveToReactor, ServedInv, Started, Goto, output
  <2>5. CASE OpenFails
    BY <1>1, <2>5, SMTT(30) DEF OpenFails, ServedInv, Started, Goto, output
  <2> QED
    BY <1>2, <2>1, <2>2, <2>3, <2>4, <2>5 DEF AcceptorNext
<1>3. CASE NetNext
  <2> USE <1>1 DEF ServedInv, Started, Goto, output, pointers, NetIdle
  <2>1. CASE AddNewSockets
    BY <2>1, SMTT(30) DEF AddNewSockets
  <2>2. CASE UpdateFails
    BY <2>2, SMTT(30) DEF UpdateFails
  <2>3. CASE UpdateSends
    BY <2>3, SMTT(30) DEF UpdateSends
  <2>4. CASE DropSocket
    BY <2>4, SMTT(30) DEF DropSocket
  <2>5. CASE Writable
    BY <2>5, SMTT(30) DEF Writable
  <2>6. CASE HandlerFails
    BY <2>6, SMTT(30) DEF HandlerFails
  <2>7. CASE HandleClose
    BY <2>7, SMTT(30) DEF HandleClose
  <2>8. CASE HandleCloseSession
    BY <2>8, SMTT(30) DEF HandleCloseSession
  <2>9. CASE RemoveHandler
    BY <2>9, SMTT(30) DEF RemoveHandler
  <2>10. CASE ProcessIncoming
    BY <2>10, SMTT(30) DEF ProcessIncoming
  <2>11. CASE HandleAuthSession
    BY <2>11, SMTT(30) DEF HandleAuthSession
  <2>12. CASE TakeSessionLock
    BY <2>12, SMTT(30) DEF TakeSessionLock
  <2>13. CASE SetLatency
    BY <2>13, SMTT(30) DEF SetLatency
  <2>14. CASE QueuePacket
    BY <2>14, SMTT(30) DEF QueuePacket
  <2>15. CASE Reply
    BY <2>15, SMTT(30) DEF Reply, Listed
  <2>16. CASE SendAddons
    BY <2>16, SMTT(30) DEF SendAddons, Listed
  <2> QED
    BY <1>3, <2>1, <2>2, <2>3, <2>4, <2>5, <2>6, <2>7, <2>8, <2>9, <2>10, <2>11, <2>12, <2>13, <2>14,
       <2>15, <2>16 DEF NetNext
<1>4. CASE WorldNext
  BY <1>1, <1>4, Different, SMTT(30) DEF WorldNext, AddSession, DeleteSession, Destroyed, UpdateMaps,
     ServedInv, Started, Goto, output, pointers
<1>5. ASSUME NEW t \in Callers, CallerNext(t) PROVE ServedInv'
  <2>1. CASE CallSend(t)
    BY <1>1, <2>1, SMTT(30) DEF CallSend, ServedInv, Started, Goto, pointers
  <2>2. CASE StartSend(t) \/ KickPlayer(t) \/ CleanUp(t) \/ ForgetSocket(t) \/ FinishMap(t)
    BY <1>1, <2>2, SMTT(30) DEF StartSend, KickPlayer, CleanUp, ForgetSocket, FinishMap, ServedInv,
       Started, Goto, output, pointers
  <2> QED
    BY <1>5, <2>1, <2>2 DEF CallerNext
<1>6. ASSUME NEW t \in Threads, CloseSocket(t) PROVE ServedInv'
  <2>1. CloseSocketEffect(t) /\ UNCHANGED <<outBuffer, packetQueue, made>>
    BY <1>6, CloseSocketPlaces, Zenon DEF IInv, CloseSocket, output
  <2> QED
    BY <1>1, <2>1, SMTT(30) DEF CloseSocketEffect, ServedInv
<1>7. ASSUME NEW t \in Threads, ForgetSession(t) PROVE ServedInv'
  <2>1. ForgetSessionEffect(t) /\ UNCHANGED <<outBuffer, packetQueue, made, outActive>>
    BY <1>7, ForgetSessionPlaces, Zenon DEF IInv, ForgetSession, output
  <2> QED
    BY <1>1, <2>1, SMTT(30) DEF ForgetSessionEffect, ServedInv, Started
<1>8. CASE UNCHANGED vars
  BY <1>8 DEF vars, ServedInv
<1> QED
  BY <1>2, <1>3, <1>4, <1>5, <1>6, <1>7, <1>8 DEF Next

FullInv == IInv /\ OutputInv /\ ServedInv

\* The whole invariant holds in every state.
LEMMA FullInvariant == Spec => []FullInv
<1>1. Init => FullInv
  <2> SUFFICES ASSUME Init PROVE FullInv
    OBVIOUS
  <2>1. IInv
    BY InitInv
  <2>2. << >> \in Seq(Packets) /\ Len(<< >>) = 0 /\ << >> \o << >> = << >> /\ OutBufferSize \in Nat
    BY EmptySeq, ConcatEmptySeq, PacketsAreMade
  <2>3. OutputOK
    <3>1. 0 \in 0 .. Len(Size) /\ Len(<< >>) <= OutBufferSize
      BY <2>2, PacketNumbers, SMTT(30)
    <3> QED
      BY <2>2, <3>1, Zenon DEF Init, OutputOK
  <2>4. HeadersInStep
    <3>1. DOMAIN << >> = {} /\ ToSet(<< >>) = {} /\ 1 .. 0 = {}
      BY SMTT(30) DEF ToSet
    <3> QED
      BY <2>2, <3>1, UnitsOfEmpty DEF Init, HeadersInStep
  <2>5. QueueInv /\ pc[Acceptor] = "open" /\ pc[Net] = "idle"
    BY Different, SMTT(30) DEF Init, QueueInv
  <2>6. ServedInv
    BY <2>5 DEF Init, ServedInv, Started
  <2> QED
    BY <2>1, <2>3, <2>4, <2>5, <2>6 DEF FullInv, OutputInv
<1>2. FullInv /\ [Next]_vars => FullInv'
  <2> SUFFICES ASSUME FullInv, [Next]_vars PROVE FullInv'
    OBVIOUS
  <2>1. IInv /\ OutputInv /\ ServedInv /\ OutputOK
    BY DEF FullInv, OutputInv
  <2>2. Quiet \/ Sends \/ Gives
    BY <2>1, OutputStepKinds
  <2> QED
    BY <2>1, <2>2, NextInv, ServedNext, SendsOK, GivesOK, QuietOK DEF FullInv
<1> QED
  BY <1>1, <1>2, PTL DEF Spec

\* Every variable keeps its type: the buffer never holds more than it can
\* (iSendPacket, iFlushPacketQueue) and the references stay between none and four.
THEOREM TypesCorrect == Spec => []TypeOK
<1>1. FullInv => TypeOK
  <2> SUFFICES ASSUME FullInv PROVE TypeOK
    OBVIOUS
  <2>1. refs \in 0 .. 4
    BY SMTT(30) DEF FullInv, IInv, EveryHolderCounts, One
  <2>2. {closing_, outActive, registered, toSession, toSocket} \subseteq BOOLEAN
    BY DEF FullInv, IInv, PlacesOK, OutputInv, OutputOK
  <2>3. sessionLock \in {Net, NoThread} /\ DOMAIN pc = Threads
    BY SMTT(30) DEF FullInv, IInv, PlacesOK, CloseInv
  <2> QED
    BY <2>1, <2>2, <2>3 DEF TypeOK, FullInv, IInv, PlacesOK, OutputInv, OutputOK
<1> QED
  BY <1>1, FullInvariant, PTL

\* The client gets whole packets in the order in which their headers were encrypted,
\* and no packet is lost or doubled, whatever the kernel takes at a time and however
\* the queue and the buffer fill up (SendPacket, iFlushPacketQueue, handle_output).
THEOREM HeadersCorrect == Spec => []HeadersInStep
<1>1. FullInv => HeadersInStep
  BY DEF FullInv, OutputInv
<1> QED
  BY <1>1, FullInvariant, PTL

\* What an open socket has to send is never left to nobody: the loop of its thread or
\* the reactor sends it, and neither looks at the buffer before it is there.
THEOREM OutputCorrect == Spec => []OutputIsServed
<1>1. FullInv => OutputIsServed
  <2> SUFFICES ASSUME FullInv, ~closing_ PROVE OutputIsServed
    BY DEF OutputIsServed
  <2>1. /\ pc[Acceptor] \in {"open", "challenge", "register"} \cup Started
        /\ pc[Acceptor] = "open" => listed = "no"
    BY DEF FullInv, IInv, PlacesOK, ListsInv
  <2>2. ServedInv /\ QueueInv
    BY DEF FullInv, OutputInv
  <2> QED
    BY <2>1, <2>2 DEF OutputIsServed, ServedInv, QueueInv
<1> QED
  BY <1>1, FullInvariant, PTL
==============================================================================
