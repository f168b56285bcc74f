--------------------------- MODULE WorldSessions ---------------------------
(***************************************************************************)
(* The sessions of the world and its login queue.  A network thread that   *)
(* has authenticated a client makes a session and hands it to the world    *)
(* thread; on every tick the world thread takes the new sessions over,     *)
(* lets them in or makes them wait, updates every session and deletes      *)
(* those whose socket is closed, runs the callbacks of the database (a     *)
(* character that has been loaded) and the commands.                       *)
(*                                                                         *)
(* Clients may disconnect at any moment, and may log in again before the   *)
(* world has noticed: there can be several sessions for one account.       *)
(***************************************************************************)
EXTENDS Integers, FiniteSets, SequencesExt

CONSTANTS
    Accounts,
    Sessions,       \* the addresses a WorldSession may have
    None,           \* no account, no session, no time
    Privileged,     \* the accounts with PERM_GMT or in m_UnqueuedAccounts
    Limits,         \* the values of the player limit, 0 for none
    Tolerance,      \* CONFIG_INTERVAL_DISCONNECT_TOLERANCE
    MayStop,        \* the world may be stopped
    MaxTime,        \* bound: the clock
    MaxHolders      \* bound: characters being loaded

ASSUME WorldSessionsAssumption ==
    /\ IsFiniteSet(Accounts) /\ IsFiniteSet(Sessions)
    /\ None \notin Accounts \cup Sessions \cup Int
    /\ Privileged \subseteq Accounts
    /\ Limits \subseteq Nat /\ Limits # {}
    /\ Tolerance \in Nat /\ MaxTime \in Nat /\ MaxHolders \in Nat
    /\ MayStop \in BOOLEAN

VARIABLES
    session,        \* the session at each address
    addSessQueue,   \* World::addSessQueue: the sessions to take over
    m_sessions,     \* World::m_sessions: the session of each account
    m_QueuedPlayer, \* World::m_QueuedPlayer: the sessions that wait, in order
    m_playerLimit,
    m_disconnects,  \* World::m_disconnects: when an account has left
    removed,        \* World::removedSessions
    phase, todo,    \* where the world thread is, the sessions it still updates
    stopping,       \* World::KickAll has been called
    holders,        \* the accounts of the LoginQueryHolders of the database, in order
    orphaned,       \* history: accounts with a Player no session refers to any more
    now

worldVars == <<m_sessions, m_QueuedPlayer, m_playerLimit, m_disconnects, removed>>
loopVars == <<phase, todo, stopping>>
vars == <<session, addSessQueue, worldVars, loopVars, holders, orphaned, now>>

\* The fields of a WorldSession: open stands for its socket, which is not
\* closed, loading for m_playerLoading, player for _player # NULL and
\* recentlyLogout for m_playerRecentlyLogout.
Free == [acct |-> None, open |-> FALSE, inQueue |-> FALSE, loading |-> FALSE,
         player |-> FALSE, recentlyLogout |-> FALSE]
NewSession(a) == [Free EXCEPT !.acct = a, !.open = TRUE]

Live == {s \in Sessions : session[s].acct # None}

Init ==
    /\ session = [s \in Sessions |-> Free]
    /\ addSessQueue = << >>
    /\ m_sessions = [a \in Accounts |-> None]
    /\ m_QueuedPlayer = << >>
    /\ m_playerLimit \in Limits
    /\ m_disconnects = [a \in Accounts |-> None]
    /\ removed = {}
    /\ phase = "add"
    /\ todo = {}
    /\ stopping = FALSE
    /\ holders = << >>
    /\ orphaned = {}
    /\ now = 0

-----------------------------------------------------------------------------
(* The clients and the network threads.                                    *)

\* HandleAuthSession.  A login that comes while the world thread empties
\* addSessQueue is as one that came before it began.
Authenticate(a, s) ==
    /\ phase \notin {"add", "halted"}
    /\ session[s] = Free
    /\ session' = [session EXCEPT ![s] = NewSession(a)]
    /\ addSessQueue' = Append(addSessQueue, s)
    /\ UNCHANGED <<worldVars, loopVars, holders, orphaned, now>>

\* The client disconnects, or somebody kicks it.
CloseSocket(s) ==
    /\ session[s].open
    /\ session' = [session EXCEPT ![s].open = FALSE]
    /\ UNCHANGED <<addSessQueue, worldVars, loopVars, holders, orphaned, now>>

TimePasses ==
    /\ now < MaxTime
    /\ now' = now + 1
    /\ UNCHANGED <<session, addSessQueue, worldVars, loopVars, holders, orphaned>>

-----------------------------------------------------------------------------
(* Operations of the world thread on a session.                            *)

\* WorldSession::LogoutPlayer does nothing if the player has logged out
\* recently; otherwise the Player, if there is one, is saved and deleted.
LogoutPlayer(r) ==
    IF r.recentlyLogout THEN r ELSE [r EXCEPT !.player = FALSE, !.recentlyLogout = TRUE]

\* ~WorldSession logs the player out.  A Player that is left then has no
\* session any more.
Orphans(gone) ==
    orphaned \cup {session[s].acct : s \in {t \in gone : LogoutPlayer(session[t]).player}}

Sess == {s \in Sessions : \E a \in Accounts : m_sessions[a] = s}
ActiveSessionCount == Cardinality(Sess) - Len(m_QueuedPlayer)

\* RemoveQueuedPlayer(s), of a session of the map: s leaves the queue, or its
\* leaving the world is counted, and the first session that waits is let in if
\* there is room for it.
Leaving(s) ==
    IF s \in Range(m_QueuedPlayer) \/ ActiveSessionCount = 0
    THEN ActiveSessionCount ELSE ActiveSessionCount - 1

Rest(s) ==
    LET at == {i \in 1 .. Len(m_QueuedPlayer) : m_QueuedPlayer[i] = s} IN
    IF at = {} THEN m_QueuedPlayer
    ELSE RemoveAt(m_QueuedPlayer, CHOOSE i \in at : \A j \in at : i <= j)

Popped(s) ==
    IF Rest(s) # << >> /\ (m_playerLimit = 0 \/ Leaving(s) < m_playerLimit)
    THEN {Head(Rest(s))} ELSE {}

Unqueued(s) == Popped(s) \cup ({s} \cap Range(m_QueuedPlayer))

Released(s) ==
    [t \in Sessions |-> IF t \in Unqueued(s) THEN [session[t] EXCEPT !.inQueue = FALSE]
                        ELSE session[t]]

StillQueued(s) == IF Popped(s) = {} THEN Rest(s) ELSE Tail(Rest(s))

\* addDisconnectTime does not replace an earlier time.
DisconnectsMutant(s) ==     \* the end of the tolerance
    [m_disconnects EXCEPT ![session[s].acct] = now + Tolerance]
Disconnects(s) ==
    LET a == session[s].acct IN
    IF s \notin Range(m_QueuedPlayer) /\ Tolerance > 0 /\ m_disconnects[a] = None
    THEN [m_disconnects EXCEPT ![a] = now] ELSE m_disconnects

\* HasRecentlyDisconnected, as it is written: the difference is that of the
\* earlier time and the later one.
HasRecentlyDisconnected(a, disconnects) ==
    /\ Tolerance > 0
    /\ disconnects[a] # None
    /\ disconnects[a] - now <= Tolerance

-----------------------------------------------------------------------------
(* World::UpdateSessions.                                                  *)

Take(s) ==
    /\ phase = "add"
    /\ addSessQueue # << >>
    /\ s = Head(addSessQueue)
    /\ addSessQueue' = Tail(addSessQueue)
    /\ UNCHANGED <<m_playerLimit, removed, loopVars, holders, now>>

\* "if player is in loading and want to load again, return"
IsLoadingMutant(a) == FALSE
IsLoading(a) == m_sessions[a] # None /\ session[m_sessions[a]].loading

RefuseSession(s) ==
    /\ Take(s)
    /\ IsLoading(session[s].acct)
    /\ session' = [session EXCEPT ![s] = Free]
    /\ UNCHANGED <<m_sessions, m_QueuedPlayer, m_disconnects, orphaned>>

\* The end of AddSession_: the session is let in, or it joins the queue.
\* count is the number of the sessions, which does not include this one unless
\* it replaces a session that has been waiting.
MustWaitMutant(a, count, disconnects) == count > m_playerLimit /\ a \notin Privileged
MustWait(a, count, disconnects) ==
    /\ m_playerLimit > 0
    /\ count >= m_playerLimit
    /\ a \notin Privileged
    /\ ~HasRecentlyDisconnected(a, disconnects)

LetInOrQueue(s, sess, queue, waits) ==
    /\ session' = IF waits THEN [sess EXCEPT ![s].inQueue = TRUE] ELSE sess
    /\ m_QueuedPlayer' = IF waits THEN Append(queue, s) ELSE queue

AddSession(s) ==
    LET a == session[s].acct IN
    /\ Take(s)
    /\ m_sessions[a] = None
    /\ m_sessions' = [m_sessions EXCEPT ![a] = s]
    /\ LetInOrQueue(s, session, m_QueuedPlayer,
                    MustWait(a, Cardinality(Sess), m_disconnects))
    /\ UNCHANGED <<m_disconnects, orphaned>>

\* The session of the account is kicked and leaves the queue or the world;
\* after that it is deleted, and the new one takes its place.
StaysQueuedMutant(old) == m_QueuedPlayer    \* "not remove replaced session from queue"
StaysQueued(old) == StillQueued(old)

ReplaceSession(s) ==
    LET a == session[s].acct
        old == m_sessions[a]
        waited == old \in Range(m_QueuedPlayer)
        count == IF waited THEN Cardinality(Sess) ELSE Cardinality(Sess) - 1
    IN  /\ Take(s)
        /\ old # None
        /\ ~IsLoading(a)
        /\ m_disconnects' = Disconnects(old)
        /\ orphaned' = Orphans({old})
        /\ m_sessions' = [m_sessions EXCEPT ![a] = s]
        /\ LetInOrQueue(s, [Released(old) EXCEPT ![old] = Free], StaysQueued(old),
                        MustWait(a, count, Disconnects(old)))

EndAdd ==
    /\ phase = "add"
    /\ addSessQueue = << >>
    /\ phase' = "update"
    /\ todo' = Sess
    /\ UNCHANGED <<session, addSessQueue, worldVars, stopping, holders, orphaned, now>>

\* The packets of a session whose turn has not passed.  Those of different
\* sessions commute, except that two logins reach the database in either order.
Packet(s) ==
    /\ phase = "update"
    /\ s \in todo
    /\ session[s].open
    /\ UNCHANGED <<addSessQueue, worldVars, loopVars, orphaned, now>>

\* A packet of STATUS_AUTHED is ignored while the session waits.
PassesQueue(s) == ~session[s].inQueue

AuthedOpcode(s) ==
    /\ Packet(s)
    /\ PassesQueue(s)
    /\ session[s].recentlyLogout
    /\ session' = [session EXCEPT ![s].recentlyLogout = FALSE]
    /\ UNCHANGED holders

\* HandlePlayerLoginOpcode
PlayerLoginOpcode(s) ==
    /\ Packet(s)
    /\ PassesQueue(s)
    /\ ~session[s].loading /\ ~session[s].player
    /\ Len(holders) < MaxHolders
    /\ session' = [session EXCEPT ![s].recentlyLogout = FALSE, ![s].loading = TRUE]
    /\ holders' = Append(holders, session[s].acct)

\* HandleLogoutRequestOpcode, or twenty seconds after it the session's update.
LogoutOpcode(s) ==
    /\ Packet(s)
    /\ session[s].player
    /\ session' = [session EXCEPT ![s] = LogoutPlayer(@)]
    /\ UNCHANGED holders

\* The end of WorldSession::Update: the session stays while its socket is open.
\* Otherwise it leaves the queue or the world, and is deleted after the loop.
Gone(s) == ~session[s].open

UpdateSession(s) ==
    /\ phase = "update"
    /\ s \in todo
    /\ todo' = todo \ {s}
    /\ \/ /\ ~Gone(s)
          /\ UNCHANGED <<session, m_QueuedPlayer, m_disconnects, removed>>
       \/ /\ Gone(s)
          /\ session' = Released(s)
          /\ m_QueuedPlayer' = StillQueued(s)
          /\ m_disconnects' = Disconnects(s)
          /\ removed' = removed \cup {s}
    /\ UNCHANGED <<addSessQueue, m_sessions, m_playerLimit, phase, stopping, holders, orphaned,
                   now>>

Erased(a) == IF m_sessions[a] \in removed THEN None ELSE m_sessions[a]

EraseRemoved ==
    /\ phase = "update"
    /\ todo = {}
    /\ phase' = IF stopping THEN "halted" ELSE "results"
    /\ m_sessions' = [a \in Accounts |-> Erased(a)]
    /\ session' = [s \in Sessions |-> IF s \in removed THEN Free ELSE session[s]]
    /\ orphaned' = Orphans(removed)
    /\ removed' = {}
    /\ UNCHANGED <<addSessQueue, m_QueuedPlayer, m_playerLimit, m_disconnects, todo, stopping,
                   holders, now>>

-----------------------------------------------------------------------------
(* The rest of the tick.                                                   *)

\* HandlePlayerLoginCallback finds the session by the account of the holder.
LoginCallback ==
    /\ phase = "results"
    /\ holders # << >>
    /\ holders' = Tail(holders)
    /\ UNCHANGED <<addSessQueue, worldVars, loopVars, now>>

DropHolder ==
    /\ LoginCallback
    /\ m_sessions[Head(holders)] = None
    /\ UNCHANGED <<session, orphaned>>

\* HandlePlayerLogin: the character becomes the player of the session, whoever
\* has asked for it.
LoadedMutant(r) == [r EXCEPT !.player = TRUE]           \* m_playerLoading stays set
Loaded(r) == [r EXCEPT !.player = TRUE, !.loading = FALSE]

LoadPlayer ==
    LET a == Head(holders)
        s == m_sessions[a] IN
    /\ LoginCallback
    /\ s # None
    /\ session' = [session EXCEPT ![s] = Loaded(@)]
    /\ orphaned' = IF session[s].player THEN orphaned \cup {a} ELSE orphaned

\* LoadFromDB has failed.
KickUnloadable ==
    LET s == m_sessions[Head(holders)] IN
    /\ LoginCallback
    /\ s # None
    /\ session' = [session EXCEPT ![s].open = FALSE, ![s].loading = FALSE]
    /\ UNCHANGED orphaned

EndResults ==
    /\ phase = "results"
    /\ phase' = "commands"
    /\ UNCHANGED <<session, addSessQueue, worldVars, todo, stopping, holders, orphaned, now>>

\* HandlePLimitCommand, typed by a player or at the console.
SetPlayerLimit(l) ==
    /\ phase \in {"update", "commands"}
    /\ l # m_playerLimit
    /\ m_playerLimit' = l
    /\ UNCHANGED <<session, addSessQueue, m_sessions, m_QueuedPlayer, m_disconnects, removed,
                   loopVars, holders, orphaned, now>>

EndTick ==
    /\ phase = "commands"
    /\ phase' = "add"
    /\ UNCHANGED <<session, addSessQueue, worldVars, todo, stopping, holders, orphaned, now>>

\* The world is stopped: KickAll, and a last UpdateSessions.
KickedMutant == {s \in Sess : session[s].acct \notin Privileged}
Kicked == Sess

KickAll ==
    /\ MayStop
    /\ phase = "commands"
    /\ phase' = "add"
    /\ stopping' = TRUE
    /\ m_QueuedPlayer' = << >>
    /\ session' = [s \in Sessions |-> IF s \in Kicked THEN [session[s] EXCEPT !.open = FALSE]
                                      ELSE session[s]]
    /\ UNCHANGED <<addSessQueue, m_sessions, m_playerLimit, m_disconnects, removed, todo, holders,
                   orphaned, now>>

-----------------------------------------------------------------------------

Network ==
    \/ \E a \in Accounts, s \in Sessions : Authenticate(a, s)
    \/ \E s \in Sessions : CloseSocket(s)
    \/ TimePasses

AddStep ==
    \/ \E s \in Sessions : RefuseSession(s) \/ AddSession(s) \/ ReplaceSession(s)
    \/ EndAdd

PacketStep ==
    \E s \in Sessions : AuthedOpcode(s) \/ PlayerLoginOpcode(s) \/ LogoutOpcode(s)

UpdateStep == (\E s \in Sessions : UpdateSession(s)) \/ EraseRemoved

CallbackStep == DropHolder \/ LoadPlayer \/ KickUnloadable

CommandStep == \E l \in Limits : SetPlayerLimit(l)

Next ==
    \/ Network
    \/ AddStep
    \/ PacketStep
    \/ UpdateStep
    \/ CallbackStep
    \/ EndResults
    \/ CommandStep
    \/ EndTick
    \/ KickAll

\* The world thread goes on with its loop; it waits for no client and no query.
\* The database answers every query.
Fairness ==
    /\ WF_vars(AddStep) /\ WF_vars(UpdateStep)
    /\ WF_vars(EndResults) /\ WF_vars(EndTick)
    /\ SF_vars(CallbackStep)

Spec == Init /\ [][Next]_vars
FairSpec == Spec /\ Fairness

-----------------------------------------------------------------------------
(* Properties.                                                             *)

Phases == {"add", "update", "results", "commands", "halted"}

\* The types of the variables.
TypeOK ==
    /\ session \in [Sessions -> [acct : Accounts \cup {None}, open : BOOLEAN, inQueue : BOOLEAN,
                                 loading : BOOLEAN, player : BOOLEAN, recentlyLogout : BOOLEAN]]
    /\ addSessQueue \in Seq(Sessions)
    /\ m_sessions \in [Accounts -> Sessions \cup {None}]
    /\ m_QueuedPlayer \in Seq(Sessions)
    /\ m_playerLimit \in Limits
    /\ m_disconnects \in [Accounts -> 0 .. MaxTime \cup {None}]
    /\ removed \subseteq Sessions
    /\ phase \in Phases
    /\ todo \subseteq Sessions
    /\ stopping \in BOOLEAN
    /\ holders \in Seq(Accounts)
    /\ orphaned \subseteq Accounts
    /\ now \in 0 .. MaxTime

\* No list of the world holds a session that has been deleted, and every
\* session is either new or the one of its account ("can't delete session at
\* this moment to prevent iterator invalidation").
NoDanglingSession ==
    /\ \A a \in Accounts : m_sessions[a] # None => session[m_sessions[a]].acct = a
    /\ Range(m_QueuedPlayer) \cup removed \cup todo \subseteq Sess
    /\ \A s \in Live : (s \in Sess) # (s \in Range(addSessQueue))

\* A client waits if and only if its session is in the queue, once, so a
\* session that has left the queue is not kept out.
QueuedSessionsWait ==
    ~stopping =>
        /\ \A s \in Sessions : session[s].inQueue <=> s \in Range(m_QueuedPlayer)
        /\ \A i, j \in 1 .. Len(m_QueuedPlayer) :
               m_QueuedPlayer[i] = m_QueuedPlayer[j] => i = j

\* The lists of the world and the sessions agree (the two above: AddSession_,
\* RemoveQueuedPlayer, UpdateSessions).
SessionsAreKept == NoDanglingSession /\ QueuedSessionsWait

\* The sessions that are let in and stay, and those of them that are not exempt.
Playing == Sess \ (Range(m_QueuedPlayer) \cup removed)
Exempt(a) == a \in Privileged \/ HasRecentlyDisconnected(a, m_disconnects)
Ordinary == {s \in Playing : ~Exempt(session[s].acct)}

\* "Maximum number of players in the world. Excluding Mods, GM's and Admins":
\* nobody is let in over the limit, but those who are exempt from it.
AdmissionKeepsTheLimit ==
    [][(\E s \in Sessions : s \notin Playing /\ s \in Ordinary') /\ m_playerLimit > 0 /\ ~stopping'
           => Cardinality(Ordinary') <= m_playerLimit]_vars

\* Nobody gets before a client that waits: the others that are let in from the
\* queue have been before it, and so have those that wait before it now.
Ahead(queue, s) == {queue[i] : i \in {j \in 1 .. Len(queue) :
                                          \E k \in j + 1 .. Len(queue) : queue[k] = s}}
FirstComeFirstServed ==
    [][\A s \in Range(m_QueuedPlayer) \cap Range(m_QueuedPlayer') :
           /\ Ahead(m_QueuedPlayer', s) \subseteq Ahead(m_QueuedPlayer, s)
           /\ Playing' \cap Range(m_QueuedPlayer) \subseteq Ahead(m_QueuedPlayer, s)]_vars

\* Admission keeps the limit and the order of the queue (the two above).
AdmissionIsFair == AdmissionKeepsTheLimit /\ FirstComeFirstServed

\* A session that loads its character is not replaced ("if player is in loading
\* and want to load again, return").
LoadingSessionStays ==
    [][\A s \in Sessions :
           session[s].loading /\ session[s].open => session'[s].acct # None]_vars

\* "save and kick all players": when the world has stopped no Player is left
\* that has not been saved by the logout of its session.
StopSavesThePlayers == phase = "halted" => \A s \in Sessions : ~session[s].player

\* The session of a client that has gone is deleted, unless the world stops.
ClosedSessionIsDeleted ==
    \A s \in Sessions : ~session[s].open ~> session[s].acct = None \/ stopping

\* A client that has asked for its character is not left on the loading screen,
\* unless the world stops.
LoginIsAnswered ==
    \A s \in Sessions : session[s].loading ~> ~session[s].loading \/ stopping

\* A client that has authenticated is let in, told to wait or refused, unless
\* the world stops.
NewSessionIsDecided ==
    \A s \in Sessions :
        s \in Range(addSessQueue) ~> s \notin Range(addSessQueue) \/ stopping

\* No client is kept waiting by the server: sessions are decided on, logins
\* answered, closed sessions deleted (the three above).
EverySessionIsServed == ClosedSessionIsDeleted /\ LoginIsAnswered /\ NewSessionIsDecided

\* "accept first in queue": after the sessions that left have been removed no
\* client waits while there is room for it.
NobodyWaitsForNothing ==
    phase = "results" /\ m_QueuedPlayer # << >> => Cardinality(Playing) >= m_playerLimit

\* "each account can only have one online character at any given time": no
\* account has a Player that its session does not know.
OneCharacterPerAccount == orphaned = {}
=============================================================================
