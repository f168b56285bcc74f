---------------------------- MODULE WorldSocket ----------------------------
(***************************************************************************)
(* One client's socket, its output path and its life: the acceptor opens   *)
(* it, a network thread reads and writes it, and the world thread and the  *)
(* map workers send to it and close it through the client's session.       *)
(*                                                                         *)
(* The code has two locks.  A section under m_OutBufferLock calls nothing  *)
(* that locks again and is one step.  m_SessionLock is a variable, because *)
(* ProcessIncoming calls the session with it held.  Three pointers decide  *)
(* who may call whom: the socket's m_Session, the session's m_Socket and   *)
(* the reference count of the socket.                                      *)
(***************************************************************************)
EXTENDS Integers, Sequences, SequencesExt, FiniteSets

CONSTANTS
    Acceptor, Net, World,   \* the threads that accept, do the network, run the world
    Home,                   \* the worker of the map of the client's player
    Away,                   \* workers of other maps
    NoThread,
    Size,                   \* the length of each packet; packet 1 is the challenge
    OutBufferSize,          \* the capacity of m_OutBuffer
    ChatClient              \* a chat-only client, and CONFIG_WARDEN_KICK is set

Packets == DOMAIN Size
Callers == {World, Home} \cup Away
Threads == Callers \cup {Acceptor, Net}

\* There is a challenge.  No packet is longer than the buffer; the code does not check it.
ASSUME PacketsAreMade == Size \in Seq(Nat) /\ Size # <<>> /\ OutBufferSize \in Nat
ASSUME PacketsFit == \A p \in Packets : Size[p] \in 1..OutBufferSize
ASSUME ThreadsDiffer ==
    /\ Acceptor \notin {Net, World, Home} /\ Net \notin {World, Home} /\ World # Home
    /\ Away \cap {Acceptor, Net, World, Home} = {}
    /\ NoThread \notin Threads
ASSUME ChatClientIsFlag == ChatClient \in BOOLEAN

VARIABLES
    closing_,       \* the socket is closed for sending
    outBuffer,      \* m_OutBuffer, one element for each unit of a packet
    packetQueue,    \* m_PacketQueue
    outActive,      \* m_OutActive
    wire,           \* what the kernel has taken, in units
    crypt,          \* the packets in the order of m_Crypt.EncryptSend
    made,           \* how many packets the server has made
    refs,           \* the reference count of the socket
    listed,         \* in m_NewSockets, in m_Sockets of its thread, or in none
    registered,     \* with the reactor
    sessionLock,    \* the holder of m_SessionLock
    toSession,      \* m_Session of the socket is not NULL
    toSocket,       \* m_Socket of the session is not NULL
    session,        \* where the session is
    busy,           \* the workers that update a map; the world thread waits for them
    pc              \* what each thread is about to do

output == <<outBuffer, packetQueue, outActive, wire, crypt>>
pointers == <<refs, listed, registered, toSession, toSocket>>
vars == <<closing_, outBuffer, packetQueue, outActive, wire, crypt, made, refs, listed,
          registered, sessionLock, toSession, toSocket, session, busy, pc>>

Goto(t, label) == pc' = [pc EXCEPT ![t] = label]
Freed == refs = 0

-----------------------------------------------------------------------------
(* The output path *)

Units(p) == [i \in 1..Size[p] |-> p]
UnitsOf(packets) == FlattenSeq([i \in DOMAIN packets |-> Units(packets[i])])

\* Mutant: a packet is copied to the buffer if there is any space at all.
iSendPacketMutant(p) ==
    /\ Len(outBuffer) < OutBufferSize
    /\ crypt' = Append(crypt, p)
    /\ outBuffer' = outBuffer \o Units(p)
    /\ UNCHANGED packetQueue

\* iSendPacket: a packet that fits is encrypted and copied to the buffer.
iSendPacket(p) ==
    /\ Len(outBuffer) + Size[p] <= OutBufferSize
    /\ crypt' = Append(crypt, p)
    /\ outBuffer' = outBuffer \o Units(p)
    /\ UNCHANGED packetQueue

\* SendPacket after the test of closing_: what does not fit waits in the queue.
SendPacket(p) ==
    /\ made' = p
    /\ \/ iSendPacket(p)
       \/ /\ Len(outBuffer) + Size[p] > OutBufferSize
          /\ packetQueue' = Append(packetQueue, p)
          /\ UNCHANGED <<outBuffer, crypt>>
    /\ UNCHANGED <<wire, outActive>>

\* The next packet; the bound on packets is the length of Size.
SendNext == IF made + 1 \in Packets THEN SendPacket(made + 1)
                                    ELSE UNCHANGED <<output, made>>

\* The packets that iFlushPacketQueue moves to the empty buffer.
Flushed == LET fit == {k \in 0..Len(packetQueue) :
                          Len(UnitsOf(SubSeq(packetQueue, 1, k))) <= OutBufferSize}
           IN  SubSeq(packetQueue, 1, CHOOSE k \in fit : \A j \in fit : j <= k)

\* Mutant: what the kernel has taken stays at the base of the buffer.
SendSomeTwiceMutant(n) ==
    /\ wire' = wire \o SubSeq(outBuffer, 1, n)
    /\ IF n < Len(outBuffer)
       THEN outActive' = TRUE /\ UNCHANGED <<outBuffer, packetQueue, crypt>>
       ELSE outBuffer' = <<>> /\ outActive' = FALSE /\ UNCHANGED <<packetQueue, crypt>>

\* Mutant: output stops without a look at the queue.
SendSomeMutant(n) ==
    /\ wire' = wire \o SubSeq(outBuffer, 1, n)
    /\ outBuffer' = SubSeq(outBuffer, n + 1, Len(outBuffer))
    /\ outActive' = (n < Len(outBuffer))
    /\ UNCHANGED <<packetQueue, crypt>>

\* handle_output when the kernel takes n units: the rest moves to the base of
\* the buffer; an empty buffer is filled from the queue, or output stops.
SendSome(n) ==
    /\ wire' = wire \o SubSeq(outBuffer, 1, n)
    /\ IF n < Len(outBuffer)
       THEN /\ outBuffer' = SubSeq(outBuffer, n + 1, Len(outBuffer))
            /\ outActive' = TRUE
            /\ UNCHANGED <<packetQueue, crypt>>
       ELSE /\ outBuffer' = UnitsOf(Flushed)
            /\ packetQueue' = SubSeq(packetQueue, Len(Flushed) + 1, Len(packetQueue))
            /\ crypt' = crypt \o Flushed
            /\ outActive' = (Flushed # <<>>)

\* handle_output when it does not fail: nothing to send, a full kernel, or some sent.
HandleOutput ==
    \/ /\ outBuffer = <<>>
       /\ outActive' = FALSE
       /\ UNCHANGED <<outBuffer, packetQueue, wire, crypt>>
    \/ /\ outBuffer # <<>>
       /\ outActive' = TRUE
       /\ UNCHANGED <<outBuffer, packetQueue, wire, crypt>>
    \/ \E n \in 1..Len(outBuffer) : SendSome(n)

-----------------------------------------------------------------------------
(* Closing *)

\* CloseSocket, first section: only the first caller goes on to the second one.
Returns == [fail |-> "idle", destroy |-> "destroyed", drop |-> "dropped", kick |-> "queue"]
Second == [fail |-> "fail2", destroy |-> "destroy2", drop |-> "drop2", kick |-> "kick2"]

CloseSocket(t) ==
    /\ pc[t] \in DOMAIN Returns
    /\ t \in Callers => toSocket /\ ~Freed
    /\ closing_' = TRUE
    /\ Goto(t, IF closing_ THEN Returns[pc[t]] ELSE Second[pc[t]])
    /\ UNCHANGED <<output, pointers, made, sessionLock, session, busy>>

\* Mutant: the socket does not forget its session.
ForgetSessionMutant(t) ==
    \E call \in DOMAIN Second :
        /\ pc[t] = Second[call]
        /\ ~Freed
        /\ sessionLock = NoThread
        /\ Goto(t, Returns[call])
        /\ UNCHANGED <<closing_, output, made, refs, listed, registered, sessionLock,
                       toSession, toSocket, session, busy>>

\* CloseSocket, second section.
ForgetSession(t) ==
    \E call \in DOMAIN Second :
        /\ pc[t] = Second[call]
        /\ ~Freed
        /\ sessionLock = NoThread
        /\ toSession' = FALSE
        /\ Goto(t, Returns[call])
        /\ UNCHANGED <<closing_, output, made, refs, listed, registered, sessionLock,
                       toSocket, session, busy>>

-----------------------------------------------------------------------------
(* The acceptor: WorldSocket::open and, when it fails, close *)

\* OnSocketOpen gives the socket to a network thread before it has a buffer.
OnSocketOpen ==
    /\ pc[Acceptor] = "open"
    /\ outActive' = TRUE
    /\ listed' = "new"
    /\ refs' = refs + 1
    /\ Goto(Acceptor, "challenge")
    /\ UNCHANGED <<closing_, outBuffer, packetQueue, wire, crypt, made, registered,
                   sessionLock, toSession, toSocket, session, busy>>

SendChallenge ==
    /\ pc[Acceptor] = "challenge"
    /\ SendPacket(1)
    /\ Goto(Acceptor, "register")
    /\ UNCHANGED <<closing_, pointers, sessionLock, session, busy>>

\* register_handler takes a reference.
RegisterHandler ==
    /\ pc[Acceptor] = "register"
    /\ registered' = TRUE
    /\ refs' = refs + 1
    /\ Goto(Acceptor, "opened")
    /\ UNCHANGED <<closing_, output, made, listed, sessionLock, toSession, toSocket,
                   session, busy>>

LeaveToReactor ==
    /\ pc[Acceptor] = "opened"
    /\ refs' = refs - 1
    /\ Goto(Acceptor, "done")
    /\ UNCHANGED <<closing_, output, made, listed, registered, sessionLock, toSession,
                   toSocket, session, busy>>

\* open fails at any of its calls and the acceptor calls close.
OpenFails ==
    /\ pc[Acceptor] \in {"open", "challenge", "register"}
    /\ closing_' = TRUE
    /\ refs' = refs - 1
    /\ Goto(Acceptor, "done")
    /\ UNCHANGED <<output, made, listed, registered, sessionLock, toSession, toSocket,
                   session, busy>>

AcceptorNext ==
    OnSocketOpen \/ SendChallenge \/ RegisterHandler \/ LeaveToReactor \/ OpenFails

-----------------------------------------------------------------------------
(* The network thread: ReactorRunnable::svc and the handlers of the socket *)

NetIdle == pc[Net] = "idle"

AddNewSockets ==
    /\ NetIdle /\ listed = "new"
    /\ IF closing_ THEN listed' = "no" /\ refs' = refs - 1
                   ELSE listed' = "sockets" /\ UNCHANGED refs
    /\ UNCHANGED <<closing_, output, made, registered, sessionLock, toSession, toSocket,
                   session, busy, pc>>

\* Update of the loop fails: the socket is closed or the kernel refuses to send.
UpdateFails ==
    /\ NetIdle /\ listed = "sockets"
    /\ closing_ \/ (~outActive /\ outBuffer # <<>>)
    /\ Goto(Net, "drop")
    /\ UNCHANGED <<closing_, output, pointers, made, sessionLock, session, busy>>

\* Update sends what was written since the socket was last active.
UpdateSends ==
    /\ NetIdle /\ listed = "sockets"
    /\ ~closing_ /\ ~outActive /\ outBuffer # <<>>
    /\ HandleOutput
    /\ UNCHANGED <<closing_, pointers, made, sessionLock, session, busy, pc>>

\* Mutant: the loop forgets the socket without giving its reference back.
DropSocketMutant ==
    /\ pc[Net] = "dropped"
    /\ listed' = "no"
    /\ Goto(Net, "idle")
    /\ UNCHANGED <<closing_, output, made, refs, registered, sessionLock, toSession, toSocket,
                   session, busy>>

\* The loop drops the socket that could not be updated.
DropSocket ==
    /\ pc[Net] = "dropped"
    /\ refs' = refs - 1
    /\ listed' = "no"
    /\ Goto(Net, "idle")
    /\ UNCHANGED <<closing_, output, made, registered, sessionLock, toSession, toSocket,
                   session, busy>>

\* The reactor finds the socket writable.
Writable ==
    /\ NetIdle /\ registered /\ outActive /\ ~closing_
    /\ HandleOutput
    /\ UNCHANGED <<closing_, pointers, made, sessionLock, session, busy, pc>>

\* A handler returns -1: the peer is gone, sends what is not expected, or the
\* socket is closed.  The reactor calls handle_close.
HandlerFails ==
    /\ NetIdle /\ registered
    /\ Goto(Net, "lost")
    /\ UNCHANGED <<closing_, output, pointers, made, sessionLock, session, busy>>

HandleClose ==
    /\ pc[Net] = "lost"
    /\ closing_' = TRUE
    /\ Goto(Net, "lost2")
    /\ UNCHANGED <<output, pointers, made, sessionLock, session, busy>>

HandleCloseSession ==
    /\ pc[Net] = "lost2" /\ sessionLock = NoThread
    /\ toSession' = FALSE
    /\ Goto(Net, "lost3")
    /\ UNCHANGED <<closing_, output, made, refs, listed, registered, sessionLock,
                   toSocket, session, busy>>

\* Mutant: a handler that fails leaves the socket with the reactor.
RemoveHandlerMutant ==
    /\ pc[Net] = "lost3"
    /\ Goto(Net, "idle")
    /\ UNCHANGED <<closing_, output, made, refs, listed, registered, sessionLock, toSession,
                   toSocket, session, busy>>

\* remove_handler, and the reactor gives its reference back.
RemoveHandler ==
    /\ pc[Net] = "lost3"
    /\ registered' = FALSE
    /\ refs' = refs - 1
    /\ Goto(Net, "idle")
    /\ UNCHANGED <<closing_, output, made, listed, sessionLock, toSession, toSocket,
                   session, busy>>

\* ProcessIncoming of a packet other than CMSG_AUTH_SESSION, up to the test of closing_.
ProcessIncoming ==
    /\ NetIdle /\ registered /\ ~closing_
    /\ Goto(Net, "input")
    /\ UNCHANGED <<closing_, output, pointers, made, sessionLock, session, busy>>

\* HandleAuthSession: the session of a client that had none, for the world's queue.
HandleAuthSession ==
    /\ NetIdle /\ registered /\ ~closing_
    /\ ~toSession /\ session = "none"
    /\ session' = "queued"
    /\ toSession' = TRUE /\ toSocket' = TRUE
    /\ refs' = refs + 1
    /\ Goto(Net, "addons")
    /\ UNCHANGED <<closing_, output, made, listed, registered, sessionLock, busy>>

\* The end of HandleAuthSession: the addon packet, if there is one and the socket is
\* not closed.  Nobody looks whether it was sent.
SendAddons ==
    /\ pc[Net] = "addons"
    /\ Goto(Net, "idle")
    /\ \/ ~closing_ /\ SendNext
       \/ UNCHANGED <<output, made>>
    /\ UNCHANGED <<closing_, pointers, sessionLock, session, busy>>

\* m_SessionLock is taken and m_Session read: a ping, a packet for the session,
\* or a packet that a chat client may not send.
TakeSessionLock ==
    /\ pc[Net] = "input" /\ sessionLock = NoThread
    /\ IF toSession
       THEN /\ sessionLock' = Net
            /\ \E call \in {"latency", "queue"} \cup (IF ChatClient THEN {"kick"} ELSE {}) :
                  Goto(Net, call)
       ELSE UNCHANGED sessionLock /\ Goto(Net, "lost")
    /\ UNCHANGED <<closing_, output, pointers, made, session, busy>>

\* SetLatency of HandlePing; the pong is sent without the lock.
SetLatency ==
    /\ pc[Net] = "latency"
    /\ sessionLock' = NoThread
    /\ Goto(Net, "reply")
    /\ UNCHANGED <<closing_, output, pointers, made, session, busy>>

QueuePacket ==
    /\ pc[Net] = "queue"
    /\ sessionLock' = NoThread
    /\ Goto(Net, "idle")
    /\ UNCHANGED <<closing_, output, pointers, made, session, busy>>

\* The answer to a ping; on a closed socket the handler fails.
Reply ==
    /\ pc[Net] = "reply"
    /\ IF closing_
       THEN Goto(Net, "lost") /\ UNCHANGED <<output, made>>
       ELSE Goto(Net, "idle") /\ SendNext
    /\ UNCHANGED <<closing_, pointers, sessionLock, session, busy>>

NetNext ==
    \/ AddNewSockets \/ UpdateFails \/ UpdateSends \/ DropSocket \/ Writable
    \/ HandlerFails \/ HandleClose \/ HandleCloseSession \/ RemoveHandler
    \/ ProcessIncoming \/ HandleAuthSession \/ SendAddons \/ TakeSessionLock
    \/ SetLatency \/ QueuePacket \/ Reply

-----------------------------------------------------------------------------
(* The session: the world thread and the map workers *)

\* Who may call the session: the world thread alone, or the workers in Map::Update.
MayCall(t) ==
    /\ pc[t] = "idle"
    /\ session = "world"
    /\ IF t = World THEN busy = {} ELSE t \in busy

\* SendPacket of the session, first read of m_Socket.
StartSend(t) ==
    /\ MayCall(t) /\ toSocket
    /\ Goto(t, "send")
    /\ UNCHANGED <<closing_, output, pointers, made, sessionLock, session, busy>>

\* m_Socket->SendPacket; when it fails the socket is closed.
CallSend(t) ==
    /\ pc[t] = "send" /\ toSocket /\ ~Freed
    /\ IF closing_
       THEN Goto(t, "fail") /\ UNCHANGED <<output, made>>
       ELSE Goto(t, "idle") /\ SendNext
    /\ UNCHANGED <<closing_, pointers, sessionLock, session, busy>>

\* KickPlayer: the idle timer, a bad packet, an overlong update, a command.
KickPlayer(t) ==
    /\ MayCall(t) /\ toSocket
    /\ Goto(t, "fail")
    /\ UNCHANGED <<closing_, output, pointers, made, sessionLock, session, busy>>

\* The end of WorldSession::Update, by the world or by the map of the player.
CleanUp(t) ==
    /\ t \in {World, Home}
    /\ MayCall(t) /\ toSocket /\ closing_
    /\ refs' = refs - 1
    /\ Goto(t, "clean")
    /\ UNCHANGED <<closing_, output, made, listed, registered, sessionLock, toSession,
                   toSocket, session, busy>>

ForgetSocket(t) ==
    /\ pc[t] = "clean"
    /\ toSocket' = FALSE
    /\ Goto(t, "idle")
    /\ UNCHANGED <<closing_, output, made, refs, listed, registered, sessionLock,
                   toSession, session, busy>>

\* World::AddSession_ takes the session.
AddSession ==
    /\ pc[World] = "idle" /\ busy = {} /\ session = "queued"
    /\ session' = "world"
    /\ UNCHANGED <<closing_, output, pointers, made, sessionLock, busy, pc>>

\* The session is deleted: refused, replaced, at the end of the world, or
\* because Update found it without a socket.
DeleteSession ==
    /\ pc[World] = "idle" /\ busy = {} /\ session \in {"queued", "world"}
    /\ IF toSocket THEN Goto(World, "destroy") /\ UNCHANGED session
                   ELSE session' = "deleted" /\ UNCHANGED pc
    /\ UNCHANGED <<closing_, output, pointers, made, sessionLock, busy>>

\* The destructor gives the reference back after CloseSocket.
Destroyed ==
    /\ pc[World] = "destroyed"
    /\ refs' = refs - 1
    /\ toSocket' = FALSE
    /\ session' = "deleted"
    /\ Goto(World, "idle")
    /\ UNCHANGED <<closing_, output, made, listed, registered, sessionLock, toSession, busy>>

\* The world thread starts the workers; each goes on to the end of its map.
UpdateMaps ==
    /\ busy = {} /\ pc[World] = "idle"
    /\ busy' = Callers \ {World}
    /\ UNCHANGED <<closing_, output, pointers, made, sessionLock, session, pc>>

FinishMap(t) ==
    /\ t \in busy /\ pc[t] = "idle"
    /\ busy' = busy \ {t}
    /\ UNCHANGED <<closing_, output, pointers, made, sessionLock, session, pc>>

CallerNext(t) ==
    StartSend(t) \/ CallSend(t) \/ KickPlayer(t) \/ CleanUp(t) \/ ForgetSocket(t)
    \/ FinishMap(t)

WorldNext == AddSession \/ DeleteSession \/ Destroyed \/ UpdateMaps

-----------------------------------------------------------------------------
Init ==
    /\ closing_ = FALSE
    /\ outBuffer = <<>> /\ packetQueue = <<>> /\ wire = <<>> /\ crypt = <<>>
    /\ outActive = FALSE
    /\ made = 0
    /\ refs = 1
    /\ listed = "no" /\ registered = FALSE
    /\ sessionLock = NoThread
    /\ toSession = FALSE /\ toSocket = FALSE /\ session = "none"
    /\ busy = {}
    /\ pc = [t \in Threads |-> IF t = Acceptor THEN "open" ELSE "idle"]

Next ==
    \/ AcceptorNext
    \/ NetNext
    \/ WorldNext
    \/ \E t \in Callers : CallerNext(t)
    \/ \E t \in Threads : CloseSocket(t) \/ ForgetSession(t)

Spec == Init /\ [][Next]_vars

\* Every thread goes on with a call it is in.  The loop of the network thread looks at
\* its sockets again and again, each map update ends, and the world thread updates its
\* sessions again and again.  Nothing is assumed of the client: the reactor calls no
\* handler (HandlerFails) unless the client does something.
GoesOn(t) ==
    \/ CloseSocket(t) \/ ForgetSession(t)
    \/ t = Acceptor /\ AcceptorNext
    \/ t = Net /\ \/ DropSocket \/ HandleClose \/ HandleCloseSession \/ RemoveHandler
                  \/ SendAddons \/ TakeSessionLock \/ SetLatency \/ QueuePacket \/ Reply
    \/ t \in Callers /\ (CallSend(t) \/ ForgetSocket(t))
    \/ t = World /\ Destroyed

Fairness ==
    /\ \A t \in Threads : WF_vars(GoesOn(t))
    /\ WF_vars(AddNewSockets \/ (closing_ /\ UpdateFails))
    /\ SF_vars(AddSession \/ CleanUp(World) \/ (DeleteSession /\ ~toSocket))
    /\ \A t \in Callers \ {World} : SF_vars(FinishMap(t))

FairSpec == Spec /\ Fairness

-----------------------------------------------------------------------------
(* What is required of it *)

TypeOK ==
    /\ {closing_, outActive, registered, toSession, toSocket} \subseteq BOOLEAN
    /\ busy \subseteq Callers \ {World}
    /\ outBuffer \in Seq(Packets) /\ Len(outBuffer) <= OutBufferSize
    /\ wire \in Seq(Packets) /\ crypt \in Seq(Packets) /\ packetQueue \in Seq(Packets)
    /\ made \in 0..Len(Size)
    /\ refs \in 0..4
    /\ listed \in {"no", "new", "sockets"}
    /\ sessionLock \in {Net, NoThread}
    /\ session \in {"none", "queued", "world", "deleted"}
    /\ DOMAIN pc = Threads

\* What the client receives, with what is in the buffer, is whole packets one
\* after the other in the order in which their headers were encrypted, and each
\* packet the server made is there or in the queue, once; the queue keeps the
\* order in which it was filled.  A packet may overtake one that waits, and the
\* client can still decrypt every header.
HeadersInStep ==
    /\ UnitsOf(crypt) = wire \o outBuffer
    /\ ToSet(crypt \o packetQueue) = 1..made
    /\ Len(crypt \o packetQueue) = made
    /\ \A i, j \in DOMAIN packetQueue : i < j => packetQueue[i] < packetQueue[j]

\* Every holder of the socket has one reference, so it is freed by the last one:
\* the acceptor, the list of its thread, the reactor and the session.
One(held) == IF held THEN 1 ELSE 0
EveryHolderCounts ==
    refs = One(pc[Acceptor] # "done") + One(listed # "no") + One(registered)
           + One(toSocket /\ \A t \in Callers : pc[t] # "clean")

\* A thread that has read m_Socket and calls a socket that is gone: the map of the
\* player cleaned the session's pointer up in the meantime.
Dangling(t) ==
    \/ pc[t] \in {"send", "fail"} /\ (~toSocket \/ Freed)
    \/ pc[t] = "fail2" /\ Freed

\* Who is called is there.  The network thread calls into a session only while it
\* exists, although the world deletes sessions without asking the socket: CloseSocket
\* has made the socket forget its session, or waits for the lock, before the session
\* goes.  A thread that calls the socket through the session finds it, unless it is
\* the worker of another map (WorldSession::Update, SendPacket, KickPlayer).
CalleeExists ==
    /\ pc[Net] \in {"latency", "queue", "kick"} => session # "deleted"
    /\ \A t \in Callers : Dangling(t) => t \in Away

\* While the socket is open, what it has to send is in the buffer or behind what is
\* in the buffer, and the reactor or the loop of its thread will send it: no packet
\* waits in the queue for an output that nobody starts.  And the loop never sends
\* from a buffer that the acceptor has not made yet (OnSocketOpen sets m_OutActive).
OutputIsServed ==
    ~closing_ =>
        /\ outBuffer # <<>> \/ packetQueue # <<>> =>
               /\ outBuffer # <<>>
               /\ listed # "no"
               /\ outActive => registered \/ pc[Acceptor] = "register"
        /\ pc[Acceptor] \in {"open", "challenge"} => (listed = "sockets" => outActive)

\* A thread waits for a lock it holds: ProcessIncoming kicks a chat client with
\* m_SessionLock held, and CloseSocket takes it.
WaitsForItself(t) == sessionLock = t /\ \E call \in DOMAIN Second : pc[t] = Second[call]

\* The socket is freed and its session deleted.
Gone == Freed /\ session \in {"none", "deleted"}

\* Only the reactor still holds the socket.  CloseSocket shuts the writing side down
\* and tells the reactor nothing, so a client that keeps its own side open and is
\* silent keeps the socket: no handler is called.
HeldByReactor == registered /\ refs = 1 /\ session \in {"none", "deleted"}

\* A thread waits for itself, or another map's worker followed a pointer to what is gone.
Stuck == \E t \in Threads : WaitsForItself(t) \/ (t \in Away /\ Dangling(t))

\* A closed socket loses its session and every reference but the reactor's, whatever
\* the client does; and once a handler has failed, because the client closed its side
\* or sent something, it is closed and freed (CloseSocket, handle_close, svc).
ClosedSocketIsFreed ==
    /\ closing_ ~> Gone \/ HeldByReactor \/ Stuck
    /\ pc[Net] = "lost" ~> Gone \/ Stuck
=============================================================================
