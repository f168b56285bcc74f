------------------------ MODULE WorldSessionsProofs ------------------------
(***************************************************************************)
(* Proofs about the sessions of the world: the types, that the lists of    *)
(* the world and the sessions agree, that no session is replaced while it  *)
(* loads a character, that the world stops with every Player saved, and    *)
(* that admission keeps the player limit and the order of the queue.       *)
(*                                                                         *)
(* IInv is the inductive invariant.  StepKinds sorts the steps: those that *)
(* leave every list of sessions alone (Mild), and seven that do not.       *)
(***************************************************************************)
EXTENDS WorldSessions, SequenceTheorems, FiniteSetTheorems, TLAPS

-----------------------------------------------------------------------------
(* Sequences without repetition.                                           *)

\* No element occurs twice.
Distinct(q) == \A i, j \in 1 .. Len(q) : q[i] = q[j] => i = j

\* What Append adds to the elements.
LEMMA AppendDistinct ==
  ASSUME NEW S, NEW q \in Seq(S), NEW x \in S
  PROVE  /\ Range(Append(q, x)) = Range(q) \cup {x}
         /\ Distinct(q) /\ x \notin Range(q) => Distinct(Append(q, x))
<1>1. Append(q, x) \in Seq(S) /\ Len(Append(q, x)) = Len(q) + 1 /\ Len(q) \in Nat
  BY SMTT(30)
<1>2. Append(q, x)[Len(q) + 1] = x /\ \A i \in 1 .. Len(q) : Append(q, x)[i] = q[i]
  BY SMTT(30)
<1>3. 1 .. Len(q) + 1 = (1 .. Len(q)) \cup {Len(q) + 1}
  BY <1>1, SMTT(30)
<1>4. /\ Range(Append(q, x)) = {Append(q, x)[i] : i \in 1 .. Len(q) + 1}
      /\ Range(q) = {q[i] : i \in 1 .. Len(q)}
  <2>1. Range(Append(q, x)) = {Append(q, x)[i] : i \in 1 .. Len(Append(q, x))}
    BY <1>1, RangeEquality
  <2> QED
    BY <1>1, <2>1, RangeEquality
<1>5. Range(Append(q, x)) = Range(q) \cup {x}
  BY <1>2, <1>3, <1>4
<1>6. ASSUME Distinct(q), x \notin Range(q) PROVE Distinct(Append(q, x))
  BY <1>1, <1>2, <1>3, <1>4, <1>6 DEF Distinct
<1> QED
  BY <1>5, <1>6

\* What Tail takes from the elements.
LEMMA TailDistinct ==
  ASSUME NEW S, NEW q \in Seq(S), q # << >>
  PROVE  /\ Tail(q) \in Seq(S) /\ Head(q) \in Range(q) /\ Head(q) = q[1] /\ Len(Tail(q)) = Len(q) - 1
         /\ \A i \in 1 .. Len(Tail(q)) : Tail(q)[i] = q[i + 1]
         /\ Distinct(q) => Distinct(Tail(q)) /\ Range(Tail(q)) = Range(q) \ {Head(q)}
<1>1. /\ Tail(q) \in Seq(S) /\ Len(Tail(q)) = Len(q) - 1 /\ Len(q) \in Nat \ {0} /\ Head(q) = q[1]
      /\ \A i \in 1 .. Len(q) - 1 : Tail(q)[i] = q[i + 1]
  BY EmptySeq, SMTT(30)
<1>2. Range(q) = {q[i] : i \in 1 .. Len(q)} /\ Range(Tail(q)) = {Tail(q)[i] : i \in 1 .. Len(q) - 1}
  <2>1. Range(Tail(q)) = {Tail(q)[i] : i \in 1 .. Len(Tail(q))}
    BY <1>1, RangeEquality
  <2> QED
    BY <1>1, <2>1, RangeEquality
<1>3. Head(q) \in Range(q)
  BY <1>1, <1>2, SMTT(30)
<1>4. ASSUME Distinct(q) PROVE Distinct(Tail(q))
  <2> SUFFICES ASSUME NEW i \in 1 .. Len(q) - 1, NEW j \in 1 .. Len(q) - 1, Tail(q)[i] = Tail(q)[j]
               PROVE  i = j
    BY <1>1 DEF Distinct
  <2>1. i + 1 \in 1 .. Len(q) /\ j + 1 \in 1 .. Len(q) /\ q[i + 1] = q[j + 1]
    BY <1>1, SMTT(30)
  <2>2. i + 1 = j + 1
    BY <1>4, <2>1 DEF Distinct
  <2> QED
    BY <2>2, SMTT(30)
<1>5. ASSUME Distinct(q) PROVE Range(Tail(q)) = Range(q) \ {Head(q)}
  <2>1. ASSUME NEW i \in 1 .. Len(q) - 1 PROVE Tail(q)[i] \in Range(q) \ {Head(q)}
    <3>1. i + 1 \in 1 .. Len(q) /\ 1 \in 1 .. Len(q) /\ i + 1 # 1 /\ Tail(q)[i] = q[i + 1]
      BY <1>1, SMTT(30)
    <3> QED
      BY <1>1, <1>2, <1>5, <3>1 DEF Distinct
  <2>2. ASSUME NEW i \in 1 .. Len(q), q[i] # Head(q) PROVE q[i] \in Range(Tail(q))
    <3>1. i - 1 \in 1 .. Len(q) - 1 /\ (i - 1) + 1 = i
      BY <1>1, <2>2, SMTT(30)
    <3>2. Tail(q)[i - 1] = q[(i - 1) + 1]
      BY <1>1, <3>1
    <3> QED
      BY <1>2, <3>1, <3>2
  <2> QED
    BY <1>2, <2>1, <2>2
<1> QED
  BY <1>1, <1>3, <1>4, <1>5

\* What RemoveAt takes from the elements, and where the others go.
LEMMA RemoveAtDistinct ==
  ASSUME NEW S, NEW q \in Seq(S), NEW n \in 1 .. Len(q)
  PROVE  /\ RemoveAt(q, n) \in Seq(S) /\ Len(RemoveAt(q, n)) = Len(q) - 1
         /\ \A i \in 1 .. Len(q) - 1 : RemoveAt(q, n)[i] = q[IF i < n THEN i ELSE i + 1]
         /\ Distinct(q) => Distinct(RemoveAt(q, n)) /\ Range(RemoveAt(q, n)) = Range(q) \ {q[n]}
<1> DEFINE r == RemoveAt(q, n)
           a == SubSeq(q, 1, n - 1)
           b == SubSeq(q, n + 1, Len(q))
           at(i) == IF i < n THEN i ELSE i + 1
<1>1. n \in Nat \ {0} /\ n <= Len(q) /\ Len(q) \in Nat
  BY SMTT(30)
<1>2. a \in Seq(S) /\ Len(a) = n - 1 /\ \A i \in 1 .. n - 1 : a[i] = q[i]
  BY <1>1, SMTT(30)
<1>3. b \in Seq(S) /\ Len(b) = Len(q) - n /\ \A i \in 1 .. Len(q) - n : b[i] = q[n + i]
  BY <1>1, SMTT(30)
<1>4. r = a \o b
  BY DEF RemoveAt
<1> HIDE DEF a, b, r
<1>5. r \in Seq(S) /\ Len(r) = Len(q) - 1
  <2>1. r \in Seq(S) /\ Len(r) = Len(a) + Len(b)
    BY <1>2, <1>3, <1>4, ConcatProperties
  <2> QED
    BY <1>1, <1>2, <1>3, <2>1, SMTT(30)
<1>6. ASSUME NEW i \in 1 .. Len(q) - 1 PROVE r[i] = q[at(i)] /\ at(i) \in 1 .. Len(q) /\ at(i) # n
  <2>1. CASE i < n
    BY <1>1, <1>2, <1>3, <1>4, <2>1, SMTT(30)
  <2>2. CASE ~(i < n)
    <3>1. r[i] = b[i - (n - 1)] /\ i - (n - 1) \in 1 .. Len(q) - n
      BY <1>1, <1>2, <1>3, <1>4, <2>2, SMTT(30)
    <3>2. b[i - (n - 1)] = q[n + (i - (n - 1))] /\ n + (i - (n - 1)) = i + 1
      BY <1>1, <1>3, <3>1, SMTT(30)
    <3> QED
      BY <1>1, <2>2, <3>1, <3>2, SMTT(30)
  <2> QED
    BY <2>1, <2>2
<1>7. Range(q) = {q[i] : i \in 1 .. Len(q)} /\ Range(r) = {r[i] : i \in 1 .. Len(q) - 1}
  <2>1. Range(r) = {r[i] : i \in 1 .. Len(r)}
    BY <1>5, RangeEquality
  <2> QED
    BY <1>5, <2>1, RangeEquality
<1>8. ASSUME Distinct(q) PROVE Distinct(r)
  <2> SUFFICES ASSUME NEW i \in 1 .. Len(q) - 1, NEW j \in 1 .. Len(q) - 1, r[i] = r[j]
               PROVE  i = j
    BY <1>5 DEF Distinct
  <2>1. at(i) = at(j)
    BY <1>6, <1>8 DEF Distinct
  <2> QED
    BY <1>1, <2>1, SMTT(30)
<1>9. ASSUME Distinct(q) PROVE Range(r) = Range(q) \ {q[n]}
  <2>1. ASSUME NEW i \in 1 .. Len(q) - 1 PROVE r[i] \in Range(q) \ {q[n]}
    BY <1>6, <1>7, <1>9 DEF Distinct
  <2>2. ASSUME NEW i \in 1 .. Len(q), i # n PROVE q[i] \in Range(r)
    <3>1. CASE i < n
      <4>1. i \in 1 .. Len(q) - 1 /\ at(i) = i
        BY <1>1, <3>1, SMTT(30)
      <4> QED
        BY <1>6, <1>7, <4>1
    <3>2. CASE i > n
      <4>1. i - 1 \in 1 .. Len(q) - 1 /\ at(i - 1) = i
        BY <1>1, <3>2, SMTT(30)
      <4> QED
        BY <1>6, <1>7, <4>1
    <3> QED
      BY <1>1, <2>2, <3>1, <3>2, SMTT(30)
  <2> QED
    BY <1>7, <2>1, <2>2
<1> QED
  BY <1>5, <1>6, <1>8, <1>9 DEF r

\* Tail puts nobody before x, and its head was before all that remain.
LEMMA AheadOfTail ==
  ASSUME NEW S, NEW q \in Seq(S), q # << >>, NEW x
  PROVE  /\ Ahead(Tail(q), x) \subseteq Ahead(q, x)
         /\ x \in Range(Tail(q)) => Head(q) \in Ahead(q, x)
<1>1. /\ Tail(q) \in Seq(S) /\ Len(Tail(q)) = Len(q) - 1 /\ Len(q) \in Nat \ {0} /\ Head(q) = q[1]
      /\ \A i \in 1 .. Len(q) - 1 : Tail(q)[i] = q[i + 1]
  BY EmptySeq, SMTT(30)
<1>2. ASSUME NEW i \in 1 .. Len(q) - 1, NEW k \in i + 1 .. Len(q) - 1, Tail(q)[k] = x
      PROVE  Tail(q)[i] \in Ahead(q, x)
  <2>1. i + 1 \in 1 .. Len(q) /\ k + 1 \in (i + 1) + 1 .. Len(q) /\ k \in 1 .. Len(q) - 1
    BY <1>1, SMTT(30)
  <2>2. Tail(q)[i] = q[i + 1] /\ q[k + 1] = x
    BY <1>1, <1>2, <2>1
  <2> QED
    BY <2>1, <2>2 DEF Ahead
<1>3. Ahead(Tail(q), x) \subseteq Ahead(q, x)
  BY <1>1, <1>2 DEF Ahead
<1>4. ASSUME x \in Range(Tail(q)) PROVE Head(q) \in Ahead(q, x)
  <2>1. PICK k \in 1 .. Len(q) - 1 : Tail(q)[k] = x
    <3>1. Range(Tail(q)) = {Tail(q)[i] : i \in 1 .. Len(Tail(q))}
      BY <1>1, RangeEquality
    <3> QED
      BY <1>1, <1>4, <3>1
  <2>2. 1 \in 1 .. Len(q) /\ k + 1 \in 1 + 1 .. Len(q) /\ q[k + 1] = x
    BY <1>1, <2>1, SMTT(30)
  <2> QED
    BY <1>1, <2>2 DEF Ahead
<1> QED
  BY <1>3, <1>4

\* RemoveAt puts nobody before x.
LEMMA AheadOfRemoveAt ==
  ASSUME NEW S, NEW q \in Seq(S), NEW n \in 1 .. Len(q), NEW x
  PROVE  Ahead(RemoveAt(q, n), x) \subseteq Ahead(q, x)
<1> DEFINE r == RemoveAt(q, n)
           at(i) == IF i < n THEN i ELSE i + 1
<1>1. r \in Seq(S) /\ Len(r) = Len(q) - 1 /\ \A i \in 1 .. Len(q) - 1 : r[i] = q[at(i)]
  BY RemoveAtDistinct
<1>2. n \in Nat /\ Len(q) \in Nat
  BY SMTT(30)
<1> HIDE DEF r
<1>3. ASSUME NEW i \in 1 .. Len(q) - 1, NEW k \in i + 1 .. Len(q) - 1, r[k] = x
      PROVE  r[i] \in Ahead(q, x)
  <2>1. at(i) \in 1 .. Len(q) /\ at(k) \in at(i) + 1 .. Len(q) /\ k \in 1 .. Len(q) - 1
    BY <1>2, SMTT(30)
  <2>2. r[i] = q[at(i)] /\ q[at(k)] = x
    BY <1>1, <1>3, <2>1
  <2> HIDE DEF at
  <2> QED
    BY <2>1, <2>2 DEF Ahead
<1>4. Ahead(r, x) \subseteq Ahead(q, x)
  BY <1>1, <1>3 DEF Ahead
<1> QED
  BY <1>4 DEF r

\* Append puts nobody before x.
LEMMA AheadOfAppend ==
  ASSUME NEW S, NEW q \in Seq(S), NEW y \in S, NEW x, x # y
  PROVE  Ahead(Append(q, y), x) \subseteq Ahead(q, x)
<1> DEFINE r == Append(q, y)
<1>1. /\ Len(r) = Len(q) + 1 /\ Len(q) \in Nat
      /\ r[Len(q) + 1] = y /\ \A i \in 1 .. Len(q) : r[i] = q[i]
  BY SMTT(30)
<1> HIDE DEF r
<1>2. ASSUME NEW i \in 1 .. Len(q) + 1, NEW k \in i + 1 .. Len(q) + 1, r[k] = x
      PROVE  r[i] \in Ahead(q, x)
  <2>1. k # Len(q) + 1
    BY <1>1, <1>2
  <2>2. i \in 1 .. Len(q) /\ k \in i + 1 .. Len(q) /\ k \in 1 .. Len(q)
    BY <1>1, <2>1, SMTT(30)
  <2>3. r[i] = q[i] /\ q[k] = x
    BY <1>1, <1>2, <2>2
  <2> QED
    BY <2>2, <2>3 DEF Ahead
<1>3. Ahead(r, x) \subseteq Ahead(q, x)
  BY <1>1, <1>2 DEF Ahead
<1> QED
  BY <1>3 DEF r

-----------------------------------------------------------------------------
(* RemoveQueuedPlayer.                                                     *)

\* The session leaves the queue; those that are left keep their order.
LEMMA RestOfQueue ==
  ASSUME m_QueuedPlayer \in Seq(Sessions), Distinct(m_QueuedPlayer), NEW s
  PROVE  /\ Rest(s) \in Seq(Sessions) /\ Distinct(Rest(s))
         /\ Range(Rest(s)) = Range(m_QueuedPlayer) \ {s}
         /\ \A x : Ahead(Rest(s), x) \subseteq Ahead(m_QueuedPlayer, x)
<1> DEFINE q == m_QueuedPlayer
           at == {i \in 1 .. Len(q) : q[i] = s}
           n == CHOOSE i \in at : \A j \in at : i <= j
<1>1. Range(q) = {q[i] : i \in 1 .. Len(q)}
  BY RangeEquality
<1>2. CASE at = {}
  <2>1. Rest(s) = q /\ s \notin Range(q)
    BY <1>1, <1>2 DEF Rest
  <2> QED
    BY <2>1
<1>3. CASE at # {}
  <2>1. n \in at
    <3>1. PICK i \in at : TRUE
      BY <1>3
    <3>2. \A j \in at : q[i] = q[j] => i = j
      BY <3>1 DEF Distinct
    <3>3. \A j \in at : i = j
      BY <3>1, <3>2
    <3>4. \A j \in at : i <= j
      BY <3>1, <3>3, SMTT(30)
    <3> QED
      BY <3>1, <3>4
  <2>2. Rest(s) = RemoveAt(q, n)
    BY <1>3 DEF Rest
  <2> HIDE DEF n
  <2>3. n \in 1 .. Len(q) /\ q[n] = s
    BY <2>1
  <2>4. Rest(s) \in Seq(Sessions) /\ Distinct(Rest(s)) /\ Range(Rest(s)) = Range(q) \ {s}
    BY <2>2, <2>3, RemoveAtDistinct
  <2>5. \A x : Ahead(Rest(s), x) \subseteq Ahead(q, x)
    BY <2>2, <2>3, AheadOfRemoveAt
  <2> QED
    BY <2>4, <2>5
<1> QED
  BY <1>2, <1>3

\* The first of them may be let in.
LEMMA Release ==
  ASSUME m_QueuedPlayer \in Seq(Sessions), Distinct(m_QueuedPlayer), NEW s
  PROVE  /\ StillQueued(s) \in Seq(Sessions) /\ Distinct(StillQueued(s))
         /\ Range(StillQueued(s)) = Range(m_QueuedPlayer) \ Unqueued(s)
         /\ s \notin Range(StillQueued(s))
         /\ Popped(s) \subseteq Range(m_QueuedPlayer) \ {s}
         /\ \A x : Ahead(StillQueued(s), x) \subseteq Ahead(m_QueuedPlayer, x)
         /\ \A x \in Range(StillQueued(s)) : Popped(s) \subseteq Ahead(m_QueuedPlayer, x)
<1> DEFINE q == m_QueuedPlayer
           r == Rest(s)
<1>1. /\ r \in Seq(Sessions) /\ Distinct(r) /\ Range(r) = Range(q) \ {s}
      /\ \A x : Ahead(r, x) \subseteq Ahead(q, x)
  BY RestOfQueue
<1>2. CASE Popped(s) = {}
  <2>1. StillQueued(s) = r /\ Unqueued(s) = {s} \cap Range(q)
    BY <1>2 DEF StillQueued, Unqueued
  <2> QED
    BY <1>1, <1>2, <2>1
<1>3. CASE Popped(s) # {}
  <2>1. r # << >> /\ Popped(s) = {Head(r)}
    BY <1>3, Zenon DEF Popped
  <2>2. StillQueued(s) = Tail(r) /\ Unqueued(s) = {Head(r)} \cup ({s} \cap Range(q))
    BY <1>3, <2>1 DEF StillQueued, Unqueued
  <2> HIDE DEF r, q
  <2>3. Tail(r) \in Seq(Sessions) /\ Head(r) \in Range(r) /\ Distinct(Tail(r))
    BY <1>1, <2>1, TailDistinct
  <2>4. Range(Tail(r)) = Range(r) \ {Head(r)}
    BY <1>1, <2>1, TailDistinct
  <2>5. \A x : Ahead(Tail(r), x) \subseteq Ahead(r, x)
    BY <1>1, <2>1, AheadOfTail
  <2>6. \A x \in Range(Tail(r)) : Head(r) \in Ahead(r, x)
    BY <1>1, <2>1, AheadOfTail
  <2>7. \A x : Ahead(Tail(r), x) \subseteq Ahead(q, x)
    BY <1>1, <2>5
  <2>8. \A x \in Range(Tail(r)) : {Head(r)} \subseteq Ahead(q, x)
    BY <1>1, <2>6
  <2>9. Range(Tail(r)) = Range(q) \ Unqueued(s) /\ s \notin Range(Tail(r)) /\ {Head(r)} \subseteq Range(q) \ {s}
    BY <1>1, <2>2, <2>3, <2>4
  <2> QED
    BY <2>1, <2>2, <2>3, <2>7, <2>8, <2>9 DEF q
<1> QED
  BY <1>2, <1>3

-----------------------------------------------------------------------------
(* The inductive invariant.                                                *)

\* A new session belongs to an account, is not in the world yet and has no
\* character; every session is new or in the world.
NewInv ==
    /\ Distinct(addSessQueue)
    /\ \A s \in Range(addSessQueue) : session[s].acct # None /\ s \notin Sess
    /\ \A s \in Live : s \in Sess \/ s \in Range(addSessQueue)
    /\ \A s \in Sessions : session[s].player \/ session[s].loading => s \in Sess

\* The session of an account is that account's.
MapInv == \A a \in Accounts : m_sessions[a] # None => session[m_sessions[a]].acct = a

\* The lists of the world thread hold sessions of the world; the sessions it has
\* removed have left the queue and are closed, and are erased before the tick
\* goes on.
ListsInv ==
    /\ Range(m_QueuedPlayer) \cup removed \cup todo \subseteq Sess
    /\ phase # "update" => removed = {} /\ todo = {}
    /\ \A s \in removed : s \notin Range(m_QueuedPlayer) /\ s \notin todo /\ ~session[s].open

\* The queue holds the sessions that wait, each once.
QueueInv ==
    /\ Distinct(m_QueuedPlayer)
    /\ ~stopping => \A s \in Sessions : session[s].inQueue <=> s \in Range(m_QueuedPlayer)

\* While the world stops the sessions that have a Player are closed and wait to
\* be removed.
StopInv ==
    /\ phase = "halted" => stopping
    /\ stopping => phase \in {"add", "update", "halted"}
    /\ stopping =>
        \A s \in Sessions : session[s].player =>
            /\ ~session[s].open
            /\ phase = "add" \/ (phase = "update" /\ s \in todo \cup removed)

IInv == TypeOK /\ NewInv /\ MapInv /\ ListsInv /\ QueueInv /\ StopInv

-----------------------------------------------------------------------------
(* The steps, by what they do to the lists.                                *)

\* A step that changes no list of sessions.
ListsStay ==
    /\ addSessQueue' = addSessQueue /\ m_sessions' = m_sessions
    /\ m_QueuedPlayer' = m_QueuedPlayer /\ removed' = removed /\ todo' = todo
    /\ stopping' = stopping

PhaseStays == phase' = phase \/ (phase \in {"results", "commands"} /\ phase' \in {"commands", "add"})

\* What such a step may do to a session.
SessionStays(s) ==
    /\ session'[s].acct = session[s].acct /\ session'[s].inQueue = session[s].inQueue
    /\ session'[s].open => session[s].open
    /\ session'[s].player \/ session'[s].loading =>
           session[s].player \/ session[s].loading \/ s \in Sess
    /\ stopping => (session'[s].player => session[s].player)

Mild == ListsStay /\ PhaseStays /\ m_disconnects' = m_disconnects /\ \A s \in Sessions : SessionStays(s)

SessionRecord ==
    [acct : Accounts \cup {None}, open : BOOLEAN, inQueue : BOOLEAN, loading : BOOLEAN,
     player : BOOLEAN, recentlyLogout : BOOLEAN]

\* Sess is the range of m_sessions.
LEMMA InTheWorld ==
  ASSUME m_sessions \in [Accounts -> Sessions \cup {None}]
  PROVE  /\ \A a \in Accounts : m_sessions[a] # None => m_sessions[a] \in Sess
         /\ \A s \in Sess : s \in Sessions /\ \E a \in Accounts : m_sessions[a] = s
         /\ None \notin Sess
BY WorldSessionsAssumption DEF Sess

\* The sessions whose entry nobody changes are as they were; one may be changed.
LEMMA OneSession ==
  ASSUME TypeOK, NEW r \in Sessions, NEW new,
         session' = [session EXCEPT ![r] = new],
         new.acct = session[r].acct, new.inQueue = session[r].inQueue,
         new.open => session[r].open,
         new.player \/ new.loading => session[r].player \/ session[r].loading \/ r \in Sess,
         stopping => (new.player => session[r].player)
  PROVE  \A s \in Sessions : SessionStays(s)
<1> SUFFICES ASSUME NEW s \in Sessions PROVE SessionStays(s)
  OBVIOUS
<1>1. session \in [Sessions -> SessionRecord]
  BY DEF TypeOK, SessionRecord
<1>2. session'[s] = IF s = r THEN new ELSE session[s]
  BY <1>1
<1> QED
  BY <1>2 DEF SessionStays

\* Every step is mild or one of seven.
LEMMA StepKinds ==
  ASSUME IInv, [Next]_vars
  PROVE  \/ Mild
         \/ \E a \in Accounts, s \in Sessions : Authenticate(a, s)
         \/ \E s \in Sessions : RefuseSession(s) \/ AddSession(s) \/ ReplaceSession(s)
         \/ EndAdd
         \/ \E s \in Sessions : UpdateSession(s)
         \/ EraseRemoved
         \/ KickAll
<1> USE DEF IInv
<1>1. session \in [Sessions -> SessionRecord] /\ todo \subseteq Sess
  BY DEF TypeOK, SessionRecord, ListsInv
<1>2. ASSUME session' = session PROVE \A s \in Sessions : SessionStays(s)
  BY <1>2 DEF SessionStays
<1>3. ASSUME NEW s \in Sessions, CloseSocket(s) PROVE Mild
  <2>1. ListsStay /\ PhaseStays /\ m_disconnects' = m_disconnects
    BY <1>3 DEF CloseSocket, ListsStay, PhaseStays, worldVars, loopVars
  <2>2. session' = [session EXCEPT ![s] = [session[s] EXCEPT !.open = FALSE]]
    BY <1>3, Zenon DEF CloseSocket
  <2>3. \A t \in Sessions : SessionStays(t)
    BY <1>1, <2>2, OneSession DEF SessionRecord
  <2> QED
    BY <2>1, <2>3 DEF Mild
<1>4. CASE TimePasses
  BY <1>2, <1>4 DEF TimePasses, Mild, ListsStay, PhaseStays, worldVars, loopVars
<1>5. ASSUME NEW s \in Sessions, AuthedOpcode(s) \/ PlayerLoginOpcode(s) \/ LogoutOpcode(s)
      PROVE  Mild
  <2>1. ListsStay /\ PhaseStays /\ m_disconnects' = m_disconnects /\ s \in Sess
    BY <1>1, <1>5 DEF AuthedOpcode, PlayerLoginOpcode, LogoutOpcode, Packet, ListsStay, PhaseStays,
                      worldVars, loopVars
  <2>2. CASE AuthedOpcode(s)
    <3>1. session' = [session EXCEPT ![s] = [session[s] EXCEPT !.recentlyLogout = FALSE]]
      BY <2>2, Zenon DEF AuthedOpcode
    <3> QED
      BY <1>1, <2>1, <3>1, OneSession DEF SessionRecord, Mild
  <2>3. CASE PlayerLoginOpcode(s)
    <3>1. session' = [session EXCEPT ![s] = [session[s] EXCEPT !.recentlyLogout = FALSE,
                                                               !.loading = TRUE]]
      BY <1>1, <2>3 DEF PlayerLoginOpcode, SessionRecord
    <3> QED
      BY <1>1, <2>1, <3>1, OneSession DEF SessionRecord, Mild
  <2>4. CASE LogoutOpcode(s)
    <3>1. session' = [session EXCEPT ![s] = LogoutPlayer(session[s])]
      BY <2>4, Zenon DEF LogoutOpcode
    <3> QED
      BY <1>1, <2>1, <3>1, OneSession DEF SessionRecord, Mild, LogoutPlayer
  <2> QED
    BY <1>5, <2>2, <2>3, <2>4
<1>6. ASSUME CallbackStep PROVE Mild
  <2>1. ListsStay /\ PhaseStays /\ m_disconnects' = m_disconnects /\ phase = "results"
        /\ holders # << >>
    BY <1>6 DEF CallbackStep, DropHolder, LoadPlayer, KickUnloadable, LoginCallback, ListsStay,
                PhaseStays, worldVars, loopVars
  <2>2. CASE DropHolder
    BY <1>2, <2>1, <2>2 DEF DropHolder, Mild
  <2> DEFINE s == m_sessions[Head(holders)]
  <2>3. Head(holders) \in Accounts
    BY <2>1 DEF TypeOK
  <2>4. ASSUME s # None PROVE s \in Sess /\ s \in Sessions
    BY <2>3, <2>4, InTheWorld DEF TypeOK
  <2>5. ~stopping
    BY <2>1 DEF StopInv
  <2>6. CASE LoadPlayer
    <3>1. s # None /\ session' = [session EXCEPT ![s] = Loaded(session[s])]
      BY <2>6, Zenon DEF LoadPlayer
    <3>2. s \in Sess /\ s \in Sessions
      BY <2>4, <3>1
    <3> HIDE DEF s
    <3> DEFINE new == Loaded(session[s])
    <3>3. /\ new.acct = session[s].acct /\ new.inQueue = session[s].inQueue
          /\ new.open => session[s].open
      BY <1>1, <3>2 DEF SessionRecord, Loaded
    <3> HIDE DEF new
    <3>4. session' = [session EXCEPT ![s] = new]
      BY <3>1 DEF new
    <3>5. \A t \in Sessions : SessionStays(t)
      BY <2>5, <3>2, <3>3, <3>4, OneSession
    <3> QED
      BY <2>1, <3>5 DEF Mild
  <2>7. CASE KickUnloadable
    <3>1. s # None /\ session' = [session EXCEPT ![s] = [session[s] EXCEPT !.open = FALSE,
                                                                           !.loading = FALSE]]
      BY <1>1, <2>4, <2>7 DEF KickUnloadable, SessionRecord
    <3>2. s \in Sess /\ s \in Sessions
      BY <2>4, <3>1
    <3> HIDE DEF s
    <3> DEFINE new == [session[s] EXCEPT !.open = FALSE, !.loading = FALSE]
    <3>3. /\ new.acct = session[s].acct /\ new.inQueue = session[s].inQueue
          /\ new.open => session[s].open
      BY <1>1, <3>2 DEF SessionRecord
    <3> HIDE DEF new
    <3>4. session' = [session EXCEPT ![s] = new]
      BY <3>1 DEF new
    <3>5. \A t \in Sessions : SessionStays(t)
      BY <2>5, <3>2, <3>3, <3>4, OneSession
    <3> QED
      BY <2>1, <3>5 DEF Mild
  <2> QED
    BY <1>6, <2>2, <2>6, <2>7 DEF CallbackStep
<1>7. CASE EndResults \/ EndTick
  BY <1>2, <1>7 DEF EndResults, EndTick, Mild, ListsStay, PhaseStays, worldVars
<1>8. CASE CommandStep
  BY <1>2, <1>8 DEF CommandStep, SetPlayerLimit, Mild, ListsStay, PhaseStays, loopVars
<1>9. CASE UNCHANGED vars
  BY <1>2, <1>9 DEF vars, Mild, ListsStay, PhaseStays, worldVars, loopVars
<1> QED
  BY <1>3, <1>4, <1>5, <1>6, <1>7, <1>8, <1>9, Zenon
     DEF Next, Network, AddStep, PacketStep, UpdateStep

-----------------------------------------------------------------------------
(* What the steps that change the lists do.                                *)

\* A session of which at most the place in the queue changes.
Keeps(t) ==
    /\ session'[t].acct = session[t].acct /\ session'[t].open = session[t].open
    /\ session'[t].loading = session[t].loading /\ session'[t].player = session[t].player

\* A session that waits no more if it is one of those that have left the queue.
LosesPlace(t, left) == session'[t].inQueue = IF t \in left THEN FALSE ELSE session[t].inQueue

\* The type of the sessions.
LEMMA TypeOKUsed ==
  ASSUME TypeOK
  PROVE  session \in [Sessions -> SessionRecord]
BY DEF TypeOK, SessionRecord

\* One account gets a session that was not in the world.
LEMMA SessOfOneMore ==
  ASSUME TypeOK, MapInv, NEW a \in Accounts, NEW s \in Sessions, s \notin Sess,
         m_sessions' = [m_sessions EXCEPT ![a] = s]
  PROVE  Sess' = (Sess \ {m_sessions[a]}) \cup {s}
<1>1. m_sessions \in [Accounts -> Sessions \cup {None}] /\ None \notin Sessions
  BY WorldSessionsAssumption DEF TypeOK
<1>2. \A b \in Accounts : m_sessions'[b] = IF b = a THEN s ELSE m_sessions[b]
  BY <1>1
<1>3. ASSUME NEW b \in Accounts, b # a, m_sessions[b] # None PROVE m_sessions[b] # m_sessions[a]
  BY <1>3 DEF MapInv
<1>4. ASSUME NEW t \in Sess' PROVE t \in (Sess \ {m_sessions[a]}) \cup {s}
  <2>1. PICK b \in Accounts : m_sessions'[b] = t /\ t \in Sessions
    BY <1>4 DEF Sess
  <2> QED
    BY <1>1, <1>2, <1>3, <2>1 DEF Sess
<1>5. ASSUME NEW t \in Sess, t # m_sessions[a] PROVE t \in Sess'
  <2>1. PICK b \in Accounts : m_sessions[b] = t /\ t \in Sessions
    BY <1>5 DEF Sess
  <2> QED
    BY <1>2, <1>5, <2>1 DEF Sess
<1>6. s \in Sess'
  BY <1>2 DEF Sess
<1> QED
  BY <1>4, <1>5, <1>6

\* The session that the world thread takes over has no place yet.
LEMMA Taken ==
  ASSUME IInv, NEW s \in Sessions, Take(s)
  PROVE  /\ s \in Range(addSessQueue) /\ s \notin Sess /\ session[s].acct \in Accounts
         /\ addSessQueue' \in Seq(Sessions) /\ Distinct(addSessQueue')
         /\ Range(addSessQueue') = Range(addSessQueue) \ {s}
         /\ removed = {} /\ todo = {} /\ phase = "add"
         /\ removed' = removed /\ todo' = todo /\ phase' = phase /\ stopping' = stopping
         /\ ~session[s].player /\ ~session[s].loading
         /\ s \notin Range(m_QueuedPlayer)
         /\ ~stopping => ~session[s].inQueue
<1> USE DEF IInv
<1>1. /\ addSessQueue # << >> /\ s = Head(addSessQueue) /\ addSessQueue' = Tail(addSessQueue)
      /\ phase = "add" /\ removed' = removed /\ todo' = todo /\ phase' = phase /\ stopping' = stopping
  BY DEF Take, loopVars
<1>2. addSessQueue \in Seq(Sessions) /\ Distinct(addSessQueue)
  BY DEF TypeOK, NewInv
<1>3. s \in Range(addSessQueue) /\ addSessQueue' \in Seq(Sessions) /\ Distinct(addSessQueue')
      /\ Range(addSessQueue') = Range(addSessQueue) \ {s}
  BY <1>1, <1>2, TailDistinct
<1>4. session[s].acct # None /\ s \notin Sess
  BY <1>3 DEF NewInv
<1>5. session[s].acct \in Accounts /\ session[s] \in SessionRecord
  BY <1>4, TypeOKUsed DEF SessionRecord
<1>6. ~session[s].player /\ ~session[s].loading
  BY <1>4, <1>5 DEF NewInv
<1>7. s \notin Range(m_QueuedPlayer) /\ (~stopping => ~session[s].inQueue)
  BY <1>4, <1>5 DEF ListsInv, QueueInv
<1>8. removed = {} /\ todo = {}
  BY <1>1 DEF ListsInv
<1> QED
  BY <1>1, <1>3, <1>4, <1>5, <1>6, <1>7, <1>8

\* AddSession_, for an account without a session.
LEMMA Added ==
  ASSUME IInv, NEW s \in Sessions, AddSession(s)
  PROVE  /\ m_sessions' = [m_sessions EXCEPT ![session[s].acct] = s]
         /\ Sess' = Sess \cup {s}
         /\ \A t \in Sessions : Keeps(t) /\ (t # s => session'[t] = session[t])
         /\ \/ m_QueuedPlayer' = m_QueuedPlayer /\ session'[s].inQueue = session[s].inQueue
            \/ m_QueuedPlayer' = Append(m_QueuedPlayer, s) /\ session'[s].inQueue = TRUE
<1> USE DEF IInv
<1> DEFINE a == session[s].acct
           waits == MustWait(a, Cardinality(Sess), m_disconnects)
<1>1. /\ Take(s) /\ m_sessions[a] = None
      /\ m_sessions' = [m_sessions EXCEPT ![a] = s]
      /\ LetInOrQueue(s, session, m_QueuedPlayer, waits)
  BY Zenon DEF AddSession
<1>2. a \in Accounts /\ s \notin Sess
  BY <1>1, Taken
<1>3. Sess' = Sess \cup {s}
  <2>1. None \notin Sess
    BY InTheWorld DEF TypeOK
  <2> QED
    BY <1>1, <1>2, <2>1, SessOfOneMore
<1>4. session \in [Sessions -> SessionRecord]
  BY TypeOKUsed
<1>5. CASE waits
  <2>1. session' = [session EXCEPT ![s].inQueue = TRUE] /\ m_QueuedPlayer' = Append(m_QueuedPlayer, s)
    BY <1>1, <1>5, Zenon DEF LetInOrQueue
  <2> QED
    BY <1>1, <1>3, <1>4, <2>1 DEF Keeps, SessionRecord
<1>6. CASE ~waits
  <2>1. session' = session /\ m_QueuedPlayer' = m_QueuedPlayer
    BY <1>1, <1>6, Zenon DEF LetInOrQueue
  <2> QED
    BY <1>1, <1>3, <2>1 DEF Keeps
<1> QED
  BY <1>5, <1>6

\* AddSession_, for an account whose session is replaced.
LEMMA Replaced ==
  ASSUME IInv, NEW s \in Sessions, ReplaceSession(s),
         NEW old, old = m_sessions[session[s].acct]
  PROVE  /\ m_sessions' = [m_sessions EXCEPT ![session[s].acct] = s]
         /\ old \in Sess /\ old \in Sessions /\ old # s /\ ~session[old].loading
         /\ session[old].acct = session[s].acct
         /\ Sess' = (Sess \ {old}) \cup {s}
         /\ session'[old] = Free
         /\ \A t \in Sessions \ {old} : Keeps(t)
         /\ \A t \in Sessions \ {old, s} : LosesPlace(t, Unqueued(old))
         /\ \/ m_QueuedPlayer' = StillQueued(old) /\ session'[s].inQueue = session[s].inQueue
            \/ m_QueuedPlayer' = Append(StillQueued(old), s) /\ session'[s].inQueue = TRUE
<1> USE DEF IInv
<1> DEFINE a == session[s].acct
           between == [Released(old) EXCEPT ![old] = Free]
           count == IF old \in Range(m_QueuedPlayer) THEN Cardinality(Sess) ELSE Cardinality(Sess) - 1
           waits == MustWait(a, count, Disconnects(old))
<1>1. /\ Take(s) /\ old # None /\ ~IsLoading(a)
      /\ m_sessions' = [m_sessions EXCEPT ![a] = s]
      /\ LetInOrQueue(s, between, StaysQueued(old), waits)
  BY Zenon DEF ReplaceSession
<1>2. a \in Accounts /\ s \notin Sess /\ s \notin Range(m_QueuedPlayer)
  BY <1>1, Taken
<1>3. old \in Sess /\ old \in Sessions /\ old # s /\ session[old].acct = a
  BY <1>1, <1>2, InTheWorld DEF TypeOK, MapInv
<1>4. Sess' = (Sess \ {old}) \cup {s} /\ ~session[old].loading
  BY <1>1, <1>2, SessOfOneMore DEF IsLoading
<1>5. session \in [Sessions -> SessionRecord]
  BY TypeOKUsed
<1>6. s \notin Unqueued(old)
  BY <1>2, <1>3, Release DEF TypeOK, QueueInv, Unqueued
<1>7. /\ between \in [Sessions -> SessionRecord] /\ between[old] = Free /\ between[s] = session[s]
      /\ \A t \in Sessions \ {old} : between[t] =
             IF t \in Unqueued(old) THEN [session[t] EXCEPT !.inQueue = FALSE] ELSE session[t]
  BY <1>3, <1>5, <1>6 DEF Released, Free, SessionRecord
<1>8. StaysQueued(old) = StillQueued(old)
  BY DEF StaysQueued
<1> HIDE DEF between, waits
<1>9. ASSUME NEW t \in Sessions \ {old}
       PROVE  /\ between[t].acct = session[t].acct /\ between[t].open = session[t].open
              /\ between[t].loading = session[t].loading /\ between[t].player = session[t].player
              /\ between[t].inQueue = IF t \in Unqueued(old) THEN FALSE ELSE session[t].inQueue
  <2>1. session[t] \in SessionRecord
    BY <1>5
  <2> QED
    BY <1>7, <2>1 DEF SessionRecord
<1>10. CASE waits
  <2>1. session' = [between EXCEPT ![s].inQueue = TRUE] /\ m_QueuedPlayer' = Append(StillQueued(old), s)
    BY <1>1, <1>8, <1>10, Zenon DEF LetInOrQueue
  <2>2. \A t \in Sessions : session'[t] = IF t = s THEN [session[s] EXCEPT !.inQueue = TRUE] ELSE between[t]
    BY <1>7, <2>1
  <2>3. session'[old] = Free /\ session'[s].inQueue = TRUE
    BY <1>3, <1>5, <1>7, <2>2 DEF SessionRecord
  <2>4. ASSUME NEW t \in Sessions \ {old} PROVE Keeps(t)
    <3>1. CASE t = s
      <4>1. session[s] \in SessionRecord
        BY <1>5
      <4>2. session'[t] = [session[t] EXCEPT !.inQueue = TRUE]
        BY <2>2, <3>1
      <4> QED
        BY <3>1, <4>1, <4>2 DEF Keeps, SessionRecord
    <3>2. CASE t # s
      BY <1>9, <2>2, <3>2 DEF Keeps
    <3> QED
      BY <3>1, <3>2
  <2>5. \A t \in Sessions \ {old, s} : LosesPlace(t, Unqueued(old))
    BY <1>9, <2>2 DEF LosesPlace
  <2> QED
    BY <1>1, <1>3, <1>4, <2>1, <2>3, <2>4, <2>5
<1>11. CASE ~waits
  <2>1. session' = between /\ m_QueuedPlayer' = StillQueued(old)
    BY <1>1, <1>8, <1>11, Zenon DEF LetInOrQueue
  <2>2. \A t \in Sessions \ {old} : Keeps(t)
    BY <1>9, <2>1 DEF Keeps
  <2>3. \A t \in Sessions \ {old, s} : LosesPlace(t, Unqueued(old))
    BY <1>9, <2>1 DEF LosesPlace
  <2> QED
    BY <1>1, <1>3, <1>4, <1>7, <2>1, <2>2, <2>3
<1> QED
  BY <1>10, <1>11

\* The last part of a session's update.
LEMMA Updated ==
  ASSUME IInv, NEW s \in Sessions, UpdateSession(s)
  PROVE  /\ phase = "update" /\ phase' = phase /\ stopping' = stopping /\ s \in todo
         /\ todo' = todo \ {s} /\ m_sessions' = m_sessions /\ addSessQueue' = addSessQueue
         /\ \A t \in Sessions : Keeps(t)
         /\ \/ /\ session[s].open /\ session' = session /\ m_QueuedPlayer' = m_QueuedPlayer
               /\ removed' = removed /\ m_disconnects' = m_disconnects
            \/ /\ ~session[s].open /\ m_QueuedPlayer' = StillQueued(s) /\ removed' = removed \cup {s}
               /\ m_disconnects' = Disconnects(s)
               /\ \A t \in Sessions : session'[t].inQueue =
                      IF t \in Unqueued(s) THEN FALSE ELSE session[t].inQueue
<1> USE DEF IInv
<1>1. session \in [Sessions -> SessionRecord]
  BY TypeOKUsed
<1>2. /\ phase = "update" /\ phase' = phase /\ stopping' = stopping /\ s \in todo
      /\ todo' = todo \ {s} /\ m_sessions' = m_sessions /\ addSessQueue' = addSessQueue
  BY DEF UpdateSession
<1>3. CASE session[s].open
  BY <1>2, <1>3 DEF UpdateSession, Gone, Keeps
<1>4. CASE ~session[s].open
  <2>1. /\ session' = Released(s) /\ m_QueuedPlayer' = StillQueued(s) /\ removed' = removed \cup {s}
        /\ m_disconnects' = Disconnects(s)
    BY <1>4 DEF UpdateSession, Gone
  <2> QED
    BY <1>1, <1>2, <1>4, <2>1 DEF Released, Keeps, SessionRecord
<1> QED
  BY <1>3, <1>4

\* World::AddSession, from the network thread.
LEMMA AddedToQueue ==
  ASSUME IInv, NEW a \in Accounts, NEW s \in Sessions, Authenticate(a, s)
  PROVE  /\ session' = [session EXCEPT ![s] = NewSession(a)] /\ session[s] = Free
         /\ addSessQueue' = Append(addSessQueue, s)
         /\ addSessQueue' \in Seq(Sessions) /\ Distinct(addSessQueue')
         /\ Range(addSessQueue') = Range(addSessQueue) \cup {s}
         /\ s \notin Range(addSessQueue) /\ s \notin Sess
         /\ UNCHANGED <<worldVars, loopVars, holders, orphaned, now>>
<1> USE DEF IInv
<1>1. /\ session' = [session EXCEPT ![s] = NewSession(a)] /\ session[s] = Free
      /\ addSessQueue' = Append(addSessQueue, s)
      /\ UNCHANGED <<worldVars, loopVars, holders, orphaned, now>>
  BY Zenon DEF Authenticate
<1>2. s \notin Range(addSessQueue)
  BY <1>1 DEF NewInv, Free
<1>3. s \notin Sess
  <2>1. ASSUME s \in Sess PROVE FALSE
    <3>1. PICK b \in Accounts : m_sessions[b] = s
      BY <2>1 DEF Sess
    <3> QED
      BY <1>1, <3>1, WorldSessionsAssumption DEF MapInv, Free
  <2> QED
    BY <2>1
<1>4. /\ addSessQueue' \in Seq(Sessions) /\ Distinct(addSessQueue')
      /\ Range(addSessQueue') = Range(addSessQueue) \cup {s}
  BY <1>1, <1>2, AppendDistinct DEF TypeOK, NewInv
<1> QED
  BY <1>1, <1>2, <1>3, <1>4

\* The end of UpdateSessions.
LEMMA Erasing ==
  ASSUME IInv, EraseRemoved
  PROVE  /\ phase = "update" /\ todo = {} /\ todo' = {} /\ removed' = {} /\ stopping' = stopping
         /\ phase' = (IF stopping THEN "halted" ELSE "results")
         /\ addSessQueue' = addSessQueue /\ m_QueuedPlayer' = m_QueuedPlayer
         /\ m_disconnects' = m_disconnects
         /\ \A t \in Sessions : session'[t] = IF t \in removed THEN Free ELSE session[t]
         /\ \A a \in Accounts : m_sessions'[a] = IF m_sessions[a] \in removed THEN None
                                                 ELSE m_sessions[a]
         /\ Sess' = Sess \ removed
<1>1. /\ phase = "update" /\ todo = {} /\ todo' = {} /\ removed' = {} /\ stopping' = stopping
      /\ phase' = (IF stopping THEN "halted" ELSE "results")
      /\ addSessQueue' = addSessQueue /\ m_QueuedPlayer' = m_QueuedPlayer
      /\ m_disconnects' = m_disconnects
      /\ \A t \in Sessions : session'[t] = IF t \in removed THEN Free ELSE session[t]
      /\ \A a \in Accounts : m_sessions'[a] = IF m_sessions[a] \in removed THEN None
                                              ELSE m_sessions[a]
  BY DEF EraseRemoved, Erased
<1>2. removed \subseteq Sess /\ None \notin Sessions
  BY WorldSessionsAssumption DEF IInv, ListsInv
<1>3. Sess' = Sess \ removed
  BY <1>1, <1>2 DEF Sess
<1> QED
  BY <1>1, <1>3

\* World::KickAll.
LEMMA Kicking ==
  ASSUME IInv, KickAll
  PROVE  /\ phase = "commands" /\ phase' = "add" /\ stopping' = TRUE /\ m_QueuedPlayer' = << >>
         /\ \A t \in Sessions :
                session'[t] = IF t \in Sess THEN [session[t] EXCEPT !.open = FALSE] ELSE session[t]
         /\ \A t \in Sessions : /\ session'[t].acct = session[t].acct
                                /\ session'[t].loading = session[t].loading
                                /\ session'[t].player = session[t].player
                                /\ t \in Sess => ~session'[t].open
         /\ addSessQueue' = addSessQueue /\ m_sessions' = m_sessions /\ removed' = removed
         /\ todo' = todo /\ Sess' = Sess
<1>1. /\ phase = "commands" /\ phase' = "add" /\ stopping' = TRUE /\ m_QueuedPlayer' = << >>
      /\ \A t \in Sessions :
             session'[t] = IF t \in Sess THEN [session[t] EXCEPT !.open = FALSE] ELSE session[t]
      /\ addSessQueue' = addSessQueue /\ m_sessions' = m_sessions /\ removed' = removed
      /\ todo' = todo
  BY DEF KickAll, Kicked
<1>2. session \in [Sessions -> SessionRecord]
  BY TypeOKUsed DEF IInv
<1>3. ASSUME NEW t \in Sessions
      PROVE  /\ session'[t].acct = session[t].acct /\ session'[t].loading = session[t].loading
             /\ session'[t].player = session[t].player /\ (t \in Sess => ~session'[t].open)
  BY <1>1, <1>2 DEF SessionRecord
<1> QED
  BY <1>1, <1>3 DEF Sess

\* Each part of the inductive invariant is kept: the new sessions,
LEMMA NewInvStep ==
  ASSUME IInv, [Next]_vars
  PROVE  NewInv'
<1> USE DEF IInv
<1>1. session \in [Sessions -> SessionRecord] /\ addSessQueue \in Seq(Sessions)
  BY TypeOKUsed DEF TypeOK
<1>2. Range(addSessQueue) \subseteq Sessions
  BY <1>1, RangeOfSeq
<1>3. CASE Mild
  <2>1. addSessQueue' = addSessQueue /\ Sess' = Sess
    BY <1>3 DEF Mild, ListsStay, Sess
  <2> QED
    BY <1>2, <1>3, <2>1 DEF NewInv, Mild, SessionStays, Live
<1>4. ASSUME NEW a \in Accounts, NEW s \in Sessions, Authenticate(a, s) PROVE NewInv'
  <2>1. Sess' = Sess
    BY <1>4, AddedToQueue DEF worldVars, Sess
  <2>2. \A t \in Sessions : session'[t] = IF t = s THEN NewSession(a) ELSE session[t]
    BY <1>1, <1>4, AddedToQueue
  <2>3. a # None
    BY WorldSessionsAssumption
  <2>4. NewSession(a).acct = a /\ ~NewSession(a).player /\ ~NewSession(a).loading
    BY DEF NewSession, Free
  <2>5. Range(addSessQueue') = Range(addSessQueue) \cup {s} /\ Distinct(addSessQueue') /\ s \notin Sess
    BY <1>4, AddedToQueue
  <2>6. \A t \in Range(addSessQueue') : session'[t].acct # None /\ t \notin Sess'
    BY <1>2, <2>1, <2>2, <2>3, <2>4, <2>5 DEF NewInv
  <2>7. \A t \in Live' : t \in Sess' \/ t \in Range(addSessQueue')
    BY <2>1, <2>2, <2>5 DEF NewInv, Live
  <2>8. \A t \in Sessions : session'[t].player \/ session'[t].loading => t \in Sess'
    BY <2>1, <2>2, <2>4 DEF NewInv
  <2> QED
    BY <2>5, <2>6, <2>7, <2>8 DEF NewInv
<1>5. ASSUME NEW s \in Sessions, RefuseSession(s) PROVE NewInv'
  <2>1. Take(s) /\ session' = [session EXCEPT ![s] = Free] /\ m_sessions' = m_sessions
    BY <1>5 DEF RefuseSession
  <2>2. Sess' = Sess /\ \A t \in Sessions : session'[t] = IF t = s THEN Free ELSE session[t]
    BY <1>1, <2>1 DEF Sess
  <2>3. Free.acct = None /\ ~Free.player /\ ~Free.loading
    BY DEF Free
  <2>4. Range(addSessQueue') = Range(addSessQueue) \ {s} /\ Distinct(addSessQueue')
    BY <2>1, Taken
  <2> QED
    BY <1>2, <2>2, <2>3, <2>4 DEF NewInv, Live
<1>6. ASSUME NEW s \in Sessions, AddSession(s) PROVE NewInv'
  <2>1. Take(s)
    BY <1>6 DEF AddSession
  <2>2. Range(addSessQueue') = Range(addSessQueue) \ {s} /\ Distinct(addSessQueue')
    BY <2>1, Taken
  <2>3. Sess' = Sess \cup {s} /\ \A t \in Sessions : Keeps(t)
    BY <1>6, Added
  <2> QED
    BY <1>2, <2>2, <2>3 DEF NewInv, Live, Keeps
<1>7. ASSUME NEW s \in Sessions, ReplaceSession(s) PROVE NewInv'
  <2> DEFINE old == m_sessions[session[s].acct]
  <2>1. Take(s)
    BY <1>7 DEF ReplaceSession
  <2>2. Range(addSessQueue') = Range(addSessQueue) \ {s} /\ Distinct(addSessQueue')
    BY <2>1, Taken
  <2>3. /\ Sess' = (Sess \ {old}) \cup {s} /\ \A t \in Sessions \ {old} : Keeps(t)
        /\ session'[old] = Free /\ old \in Sess
    BY <1>7, Replaced
  <2>4. Free.acct = None /\ ~Free.player /\ ~Free.loading
    BY DEF Free
  <2>5. old \notin Range(addSessQueue)
    BY <2>3 DEF NewInv
  <2> HIDE DEF old
  <2> QED
    BY <1>2, <2>2, <2>3, <2>4, <2>5 DEF NewInv, Live, Keeps
<1>8. CASE EndAdd
  BY <1>8 DEF EndAdd, NewInv, Live, Sess, worldVars
<1>9. ASSUME NEW s \in Sessions, UpdateSession(s) PROVE NewInv'
  <2>1. addSessQueue' = addSessQueue /\ m_sessions' = m_sessions /\ \A t \in Sessions : Keeps(t)
    BY <1>9, Updated
  <2>2. Sess' = Sess
    BY <2>1 DEF Sess
  <2> QED
    BY <1>2, <2>1, <2>2 DEF NewInv, Live, Keeps
<1>10. CASE EraseRemoved
  <2>1. Free.acct = None /\ ~Free.player /\ ~Free.loading
    BY DEF Free
  <2>2. removed \subseteq Sess
    BY DEF ListsInv
  <2>3. /\ addSessQueue' = addSessQueue /\ Sess' = Sess \ removed
        /\ \A t \in Sessions : session'[t] = IF t \in removed THEN Free ELSE session[t]
    BY <1>10, Erasing
  <2> QED
    BY <1>2, <2>1, <2>2, <2>3 DEF NewInv, Live
<1>11. CASE KickAll
  BY <1>2, <1>11, Kicking DEF NewInv, Live
<1> QED
  BY <1>3, <1>4, <1>5, <1>6, <1>7, <1>8, <1>9, <1>10, <1>11, StepKinds

\* the sessions of the accounts,
LEMMA MapInvStep ==
  ASSUME IInv, [Next]_vars
  PROVE  MapInv'
<1> USE DEF IInv
<1>1. session \in [Sessions -> SessionRecord] /\ m_sessions \in [Accounts -> Sessions \cup {None}]
  BY TypeOKUsed DEF TypeOK
<1>2. ASSUME m_sessions' = m_sessions, \A t \in Sess : session'[t].acct = session[t].acct
      PROVE  MapInv'
  BY <1>1, <1>2, InTheWorld DEF MapInv
<1>3. Sess \subseteq Sessions
  BY DEF Sess
<1>4. CASE Mild
  BY <1>2, <1>3, <1>4 DEF Mild, ListsStay, SessionStays
<1>5. ASSUME NEW a \in Accounts, NEW s \in Sessions, Authenticate(a, s) PROVE MapInv'
  <2>1. m_sessions' = m_sessions
    BY <1>5, AddedToQueue DEF worldVars
  <2>2. \A t \in Sessions : session'[t] = IF t = s THEN NewSession(a) ELSE session[t]
    BY <1>1, <1>5, AddedToQueue
  <2>3. s \notin Sess
    BY <1>5, AddedToQueue
  <2> QED
    BY <1>2, <1>3, <2>1, <2>2, <2>3
<1>6. ASSUME NEW s \in Sessions, RefuseSession(s) PROVE MapInv'
  <2>1. Take(s) /\ session' = [session EXCEPT ![s] = Free] /\ m_sessions' = m_sessions
    BY <1>6 DEF RefuseSession
  <2>2. s \notin Sess
    BY <2>1, Taken
  <2>3. \A t \in Sess : session'[t].acct = session[t].acct
    BY <1>1, <1>3, <2>1, <2>2
  <2> QED
    BY <1>2, <2>1, <2>3
<1>7. ASSUME NEW s \in Sessions, AddSession(s) PROVE MapInv'
  <2>1. Take(s)
    BY <1>7 DEF AddSession
  <2>2. session[s].acct \in Accounts
    BY <2>1, Taken
  <2>3. m_sessions' = [m_sessions EXCEPT ![session[s].acct] = s] /\ \A t \in Sessions : Keeps(t)
    BY <1>7, Added
  <2> QED
    BY <1>1, <2>2, <2>3 DEF MapInv, Keeps
<1>8. ASSUME NEW s \in Sessions, ReplaceSession(s) PROVE MapInv'
  <2> DEFINE old == m_sessions[session[s].acct]
  <2>1. Take(s)
    BY <1>8 DEF ReplaceSession
  <2>2. session[s].acct \in Accounts
    BY <2>1, Taken
  <2>3. /\ m_sessions' = [m_sessions EXCEPT ![session[s].acct] = s]
        /\ \A t \in Sessions \ {old} : Keeps(t)
        /\ old # s /\ session[old].acct = session[s].acct
    BY <1>8, Replaced
  <2>4. ASSUME NEW b \in Accounts, m_sessions'[b] # None PROVE session'[m_sessions'[b]].acct = b
    <3>1. CASE b = session[s].acct
      BY <1>1, <2>2, <2>3, <3>1 DEF Keeps
    <3>2. CASE b # session[s].acct
      <4>1. m_sessions'[b] = m_sessions[b] /\ session[m_sessions[b]].acct = b /\ m_sessions[b] \in Sessions
        BY <1>1, <2>3, <2>4, <3>2 DEF MapInv
      <4>2. m_sessions[b] # old
        BY <2>3, <3>2, <4>1
      <4> HIDE DEF old
      <4> QED
        BY <2>3, <4>1, <4>2 DEF Keeps
    <3> QED
      BY <3>1, <3>2
  <2> QED
    BY <2>4 DEF MapInv
<1>9. CASE EndAdd
  BY <1>2, <1>9 DEF EndAdd, worldVars
<1>10. ASSUME NEW s \in Sessions, UpdateSession(s) PROVE MapInv'
  <2>1. m_sessions' = m_sessions /\ \A t \in Sessions : Keeps(t)
    BY <1>10, Updated
  <2> QED
    BY <1>2, <1>3, <2>1 DEF Keeps
<1>11. CASE EraseRemoved
  <2>1. /\ \A t \in Sessions : session'[t] = IF t \in removed THEN Free ELSE session[t]
        /\ \A a \in Accounts : m_sessions'[a] = IF m_sessions[a] \in removed THEN None
                                                ELSE m_sessions[a]
    BY <1>11, Erasing
  <2> QED
    BY <1>1, <2>1 DEF MapInv
<1>12. CASE KickAll
  <2>1. m_sessions' = m_sessions /\ \A t \in Sessions : session'[t].acct = session[t].acct
    BY <1>12, Kicking
  <2> QED
    BY <1>2, <1>3, <2>1
<1> QED
  BY <1>4, <1>5, <1>6, <1>7, <1>8, <1>9, <1>10, <1>11, <1>12, StepKinds

\* the lists,
LEMMA ListsInvStep ==
  ASSUME IInv, [Next]_vars
  PROVE  ListsInv'
<1> USE DEF IInv
<1>1. Range(m_QueuedPlayer) \subseteq Sess /\ removed \subseteq Sess /\ todo \subseteq Sess
  BY DEF ListsInv
<1>2. Sess \subseteq Sessions /\ m_QueuedPlayer \in Seq(Sessions) /\ Distinct(m_QueuedPlayer)
  BY DEF Sess, TypeOK, QueueInv
<1>3. CASE Mild
  <2>1. Sess' = Sess /\ m_QueuedPlayer' = m_QueuedPlayer /\ removed' = removed /\ todo' = todo
    BY <1>3 DEF Mild, ListsStay, Sess
  <2>2. phase' # "update" => phase # "update"
    BY <1>3 DEF Mild, PhaseStays
  <2>3. \A t \in removed : ~session'[t].open
    BY <1>1, <1>2, <1>3 DEF ListsInv, Mild, SessionStays
  <2> QED
    BY <2>1, <2>2, <2>3 DEF ListsInv
<1>4. ASSUME NEW a \in Accounts, NEW s \in Sessions, Authenticate(a, s) PROVE ListsInv'
  <2>1. /\ m_sessions' = m_sessions /\ m_QueuedPlayer' = m_QueuedPlayer /\ removed' = removed
        /\ todo' = todo /\ phase' = phase
    BY <1>4, AddedToQueue DEF worldVars, loopVars
  <2>2. \A t \in Sess : session'[t] = session[t]
    BY <1>2, <1>4, AddedToQueue, TypeOKUsed
  <2> QED
    BY <1>1, <2>1, <2>2 DEF ListsInv, Sess
<1>5. ASSUME NEW s \in Sessions, RefuseSession(s) PROVE ListsInv'
  <2>1. Take(s) /\ m_sessions' = m_sessions /\ m_QueuedPlayer' = m_QueuedPlayer
    BY <1>5 DEF RefuseSession
  <2> QED
    BY <1>1, <2>1, Taken DEF ListsInv, Sess
<1>6. ASSUME NEW s \in Sessions, AddSession(s) PROVE ListsInv'
  <2>1. Take(s)
    BY <1>6 DEF AddSession
  <2>2. removed' = {} /\ todo' = {} /\ Sess' = Sess \cup {s}
    BY <1>6, <2>1, Added, Taken
  <2>3. Range(m_QueuedPlayer') \subseteq Sess'
    <3>1. m_QueuedPlayer' = m_QueuedPlayer \/ m_QueuedPlayer' = Append(m_QueuedPlayer, s)
      BY <1>6, Added
    <3>2. Range(Append(m_QueuedPlayer, s)) = Range(m_QueuedPlayer) \cup {s}
      BY <1>2, AppendDistinct
    <3> QED
      BY <1>1, <2>2, <3>1, <3>2
  <2> QED
    BY <2>2, <2>3 DEF ListsInv
<1>7. ASSUME NEW s \in Sessions, ReplaceSession(s) PROVE ListsInv'
  <2> DEFINE old == m_sessions[session[s].acct]
  <2>1. Take(s)
    BY <1>7 DEF ReplaceSession
  <2>2. removed' = {} /\ todo' = {} /\ Sess' = (Sess \ {old}) \cup {s}
    BY <1>7, <2>1, Replaced, Taken
  <2>3. /\ StillQueued(old) \in Seq(Sessions) /\ old \notin Range(StillQueued(old))
        /\ Range(StillQueued(old)) \subseteq Range(m_QueuedPlayer)
    BY <1>2, Release
  <2>4. Range(m_QueuedPlayer') \subseteq Sess'
    <3>1. m_QueuedPlayer' = StillQueued(old) \/ m_QueuedPlayer' = Append(StillQueued(old), s)
      BY <1>7, Replaced
    <3>2. Range(Append(StillQueued(old), s)) = Range(StillQueued(old)) \cup {s}
      BY <2>3, AppendDistinct
    <3> HIDE DEF old
    <3> QED
      BY <1>1, <2>2, <2>3, <3>1, <3>2
  <2> QED
    BY <2>2, <2>4 DEF ListsInv
<1>8. CASE EndAdd
  BY <1>1, <1>8 DEF EndAdd, ListsInv, Sess, worldVars
<1>9. ASSUME NEW s \in Sessions, UpdateSession(s) PROVE ListsInv'
  <2>1. /\ phase' = "update" /\ s \in todo /\ todo' = todo \ {s} /\ m_sessions' = m_sessions
        /\ \A t \in Sessions : Keeps(t)
    BY <1>9, Updated
  <2>2. Sess' = Sess
    BY <2>1 DEF Sess
  <2>3. CASE m_QueuedPlayer' = m_QueuedPlayer /\ removed' = removed
    BY <1>1, <1>2, <2>1, <2>2, <2>3 DEF ListsInv, Keeps
  <2>4. CASE ~session[s].open /\ m_QueuedPlayer' = StillQueued(s) /\ removed' = removed \cup {s}
    <3>1. Range(StillQueued(s)) \subseteq Range(m_QueuedPlayer) /\ s \notin Range(StillQueued(s))
      BY <1>2, Release
    <3> QED
      BY <1>1, <1>2, <2>1, <2>2, <2>4, <3>1 DEF ListsInv, Keeps
  <2> QED
    BY <1>9, <2>3, <2>4, Updated
<1>10. CASE EraseRemoved
  <2>1. Range(m_QueuedPlayer) \subseteq Sess \ removed
    BY <1>1 DEF ListsInv
  <2> QED
    BY <1>10, <2>1, Erasing DEF ListsInv
<1>11. CASE KickAll
  <2>1. Range(<< >>) = {}
    BY DEF Range
  <2>2. /\ phase = "commands" /\ m_QueuedPlayer' = << >> /\ removed' = removed /\ todo' = todo
        /\ Sess' = Sess
    BY <1>11, Kicking
  <2> QED
    BY <1>1, <2>1, <2>2 DEF ListsInv
<1> QED
  BY <1>3, <1>4, <1>5, <1>6, <1>7, <1>8, <1>9, <1>10, <1>11, StepKinds

\* the queue,
LEMMA QueueInvStep ==
  ASSUME IInv, [Next]_vars
  PROVE  QueueInv'
<1> USE DEF IInv
<1>1. /\ m_QueuedPlayer \in Seq(Sessions) /\ Distinct(m_QueuedPlayer)
      /\ Range(m_QueuedPlayer) \subseteq Sess /\ Sess \subseteq Sessions
  BY DEF Sess, TypeOK, QueueInv, ListsInv
<1>2. \A t \in Sessions : ~stopping => (session[t].inQueue <=> t \in Range(m_QueuedPlayer))
  BY DEF QueueInv
<1>3. CASE Mild
  BY <1>3 DEF QueueInv, Mild, ListsStay, SessionStays
<1>4. ASSUME NEW a \in Accounts, NEW s \in Sessions, Authenticate(a, s) PROVE QueueInv'
  <2>1. m_QueuedPlayer' = m_QueuedPlayer /\ stopping' = stopping
    BY <1>4, AddedToQueue DEF worldVars, loopVars
  <2>2. \A t \in Sessions : session'[t] = IF t = s THEN NewSession(a) ELSE session[t]
    BY <1>4, AddedToQueue, TypeOKUsed
  <2>3. s \notin Range(m_QueuedPlayer) /\ ~NewSession(a).inQueue
    BY <1>1, <1>4, AddedToQueue DEF NewSession, Free
  <2> QED
    BY <1>1, <1>2, <2>1, <2>2, <2>3 DEF QueueInv
<1>5. ASSUME NEW s \in Sessions, RefuseSession(s) PROVE QueueInv'
  <2>1. Take(s) /\ session' = [session EXCEPT ![s] = Free] /\ m_QueuedPlayer' = m_QueuedPlayer
    BY <1>5 DEF RefuseSession
  <2>2. stopping' = stopping /\ s \notin Range(m_QueuedPlayer)
    BY <2>1, Taken
  <2>3. \A t \in Sessions : session'[t] = IF t = s THEN Free ELSE session[t]
    BY <2>1, TypeOKUsed
  <2>4. ~Free.inQueue
    BY DEF Free
  <2> QED
    BY <1>1, <1>2, <2>1, <2>2, <2>3, <2>4 DEF QueueInv
<1>6. ASSUME NEW s \in Sessions, AddSession(s) PROVE QueueInv'
  <2>1. Take(s)
    BY <1>6 DEF AddSession
  <2>2. stopping' = stopping /\ s \notin Range(m_QueuedPlayer) /\ (~stopping => ~session[s].inQueue)
    BY <2>1, Taken
  <2>3. \A t \in Sessions : t # s => session'[t] = session[t]
    BY <1>6, Added
  <2>4. CASE m_QueuedPlayer' = m_QueuedPlayer /\ session'[s].inQueue = session[s].inQueue
    BY <1>1, <1>2, <2>2, <2>3, <2>4 DEF QueueInv
  <2>5. CASE m_QueuedPlayer' = Append(m_QueuedPlayer, s) /\ session'[s].inQueue = TRUE
    <3>1. /\ Range(m_QueuedPlayer') = Range(m_QueuedPlayer) \cup {s}
          /\ Distinct(m_QueuedPlayer')
      BY <1>1, <2>2, <2>5, AppendDistinct
    <3> QED
      BY <1>2, <2>2, <2>3, <2>5, <3>1 DEF QueueInv
  <2> QED
    BY <1>6, <2>4, <2>5, Added
<1>7. ASSUME NEW s \in Sessions, ReplaceSession(s) PROVE QueueInv'
  <2> DEFINE old == m_sessions[session[s].acct]
             r == StillQueued(old)
  <2>1. Take(s)
    BY <1>7 DEF ReplaceSession
  <2>2. stopping' = stopping /\ s \notin Range(m_QueuedPlayer) /\ (~stopping => ~session[s].inQueue)
    BY <2>1, Taken
  <2>3. r \in Seq(Sessions) /\ Distinct(r) /\ Range(r) = Range(m_QueuedPlayer) \ Unqueued(old)
        /\ old \notin Range(r)
    BY <1>1, Release
  <2>4. old # s /\ session'[old] = Free
    BY <1>7, Replaced
  <2>5. \A t \in Sessions \ {old, s} : LosesPlace(t, Unqueued(old))
    BY <1>7, Replaced
  <2>6. ~Free.inQueue
    BY DEF Free
  <2>7. \A t \in Sessions \ {s} : ~stopping => (session'[t].inQueue <=> t \in Range(r))
    BY <1>2, <2>3, <2>4, <2>5, <2>6 DEF LosesPlace
  <2> HIDE DEF old, r
  <2>8. CASE m_QueuedPlayer' = r /\ session'[s].inQueue = session[s].inQueue
    BY <2>2, <2>3, <2>7, <2>8 DEF QueueInv
  <2>9. CASE m_QueuedPlayer' = Append(r, s) /\ session'[s].inQueue = TRUE
    <3>1. Range(m_QueuedPlayer') = Range(r) \cup {s} /\ Distinct(m_QueuedPlayer')
      BY <2>2, <2>3, <2>9, AppendDistinct
    <3> QED
      BY <2>2, <2>7, <2>9, <3>1 DEF QueueInv
  <2> QED
    BY <1>7, <2>8, <2>9, Replaced DEF old, r
<1>8. CASE EndAdd
  BY <1>8 DEF EndAdd, QueueInv, worldVars
<1>9. ASSUME NEW s \in Sessions, UpdateSession(s) PROVE QueueInv'
  <2>1. stopping' = stopping
    BY <1>9, Updated
  <2>2. CASE session' = session /\ m_QueuedPlayer' = m_QueuedPlayer
    BY <2>1, <2>2 DEF QueueInv
  <2>3. CASE /\ m_QueuedPlayer' = StillQueued(s)
             /\ \A t \in Sessions : session'[t].inQueue =
                    IF t \in Unqueued(s) THEN FALSE ELSE session[t].inQueue
    <3>1. /\ Distinct(StillQueued(s))
          /\ Range(StillQueued(s)) = Range(m_QueuedPlayer) \ Unqueued(s)
      BY <1>1, Release
    <3> QED
      BY <1>2, <2>1, <2>3, <3>1 DEF QueueInv
  <2> QED
    BY <1>9, <2>2, <2>3, Updated
<1>10. CASE EraseRemoved
  <2>1. ~Free.inQueue
    BY DEF Free
  <2>2. \A t \in removed : t \notin Range(m_QueuedPlayer)
    BY DEF ListsInv
  <2> QED
    BY <1>2, <1>10, <2>1, <2>2, Erasing DEF QueueInv
<1>11. CASE KickAll
  <2>1. Distinct(<< >>)
    BY SMTT(30) DEF Distinct
  <2> QED
    BY <1>11, <2>1, Kicking DEF QueueInv
<1> QED
  BY <1>3, <1>4, <1>5, <1>6, <1>7, <1>8, <1>9, <1>10, <1>11, StepKinds

\* the stop of the world.
LEMMA StopInvStep ==
  ASSUME IInv, [Next]_vars
  PROVE  StopInv'
<1> USE DEF IInv
<1>1. ASSUME phase' = phase, stopping' = stopping, phase \in {"add", "update"},
             \A t \in Sessions : session'[t].player =>
                 /\ session[t].player /\ (~session[t].open => ~session'[t].open)
                 /\ (t \in todo \cup removed => t \in todo' \cup removed' \/ session[t].open)
      PROVE  StopInv'
  BY <1>1 DEF StopInv
<1>2. CASE Mild
  <2>1. stopping' = stopping /\ todo' = todo /\ removed' = removed
        /\ \A t \in Sessions : SessionStays(t)
    BY <1>2 DEF Mild, ListsStay
  <2>2. CASE phase' = phase
    BY <2>1, <2>2 DEF StopInv, SessionStays
  <2>3. CASE phase \in {"results", "commands"} /\ phase' \in {"commands", "add"}
    BY <2>1, <2>3 DEF StopInv
  <2> QED
    BY <1>2, <2>2, <2>3 DEF Mild, PhaseStays
<1>3. ASSUME NEW a \in Accounts, NEW s \in Sessions, Authenticate(a, s) PROVE StopInv'
  <2>1. phase' = phase /\ stopping' = stopping /\ todo' = todo /\ removed' = removed
    BY <1>3, AddedToQueue DEF worldVars, loopVars
  <2>2. \A t \in Sessions : session'[t] = IF t = s THEN NewSession(a) ELSE session[t]
    BY <1>3, AddedToQueue, TypeOKUsed
  <2>3. ~NewSession(a).player
    BY DEF NewSession, Free
  <2> QED
    BY <2>1, <2>2, <2>3 DEF StopInv
<1>4. ASSUME NEW s \in Sessions, RefuseSession(s) PROVE StopInv'
  <2>1. Take(s) /\ session' = [session EXCEPT ![s] = Free]
    BY <1>4 DEF RefuseSession
  <2>2. \A t \in Sessions : session'[t] = IF t = s THEN Free ELSE session[t]
    BY <2>1, TypeOKUsed
  <2>3. ~Free.player /\ ~Free.open
    BY DEF Free
  <2> QED
    BY <1>1, <2>1, <2>2, <2>3, Taken
<1>5. ASSUME NEW s \in Sessions, AddSession(s) PROVE StopInv'
  <2>1. Take(s)
    BY <1>5 DEF AddSession
  <2>2. \A t \in Sessions : Keeps(t)
    BY <1>5, Added
  <2>3. phase = "add" /\ phase' = phase /\ stopping' = stopping /\ removed' = removed /\ todo' = todo
    BY <2>1, Taken
  <2> QED
    BY <1>1, <2>2, <2>3 DEF Keeps
<1>6. ASSUME NEW s \in Sessions, ReplaceSession(s) PROVE StopInv'
  <2> DEFINE old == m_sessions[session[s].acct]
  <2>1. Take(s)
    BY <1>6 DEF ReplaceSession
  <2>2. session'[old] = Free /\ \A t \in Sessions \ {old} : Keeps(t)
    BY <1>6, Replaced
  <2>3. phase = "add" /\ phase' = phase /\ stopping' = stopping /\ removed' = removed /\ todo' = todo
    BY <2>1, Taken
  <2>4. ~Free.player /\ ~Free.open
    BY DEF Free
  <2> HIDE DEF old
  <2> QED
    BY <1>1, <2>2, <2>3, <2>4 DEF Keeps
<1>7. CASE EndAdd
  <2>1. phase = "add" /\ phase' = "update" /\ todo' = Sess /\ session' = session /\ stopping' = stopping
    BY <1>7 DEF EndAdd
  <2>2. \A t \in Sessions : session[t].player => t \in Sess
    BY DEF NewInv
  <2> QED
    BY <2>1, <2>2 DEF StopInv
<1>8. ASSUME NEW s \in Sessions, UpdateSession(s) PROVE StopInv'
  <2>1. phase = "update" /\ phase' = phase /\ stopping' = stopping /\ todo' = todo \ {s}
        /\ \A t \in Sessions : Keeps(t)
    BY <1>8, Updated
  <2>2. (session[s].open /\ removed' = removed) \/ removed' = removed \cup {s}
    BY <1>8, Updated
  <2> QED
    BY <1>1, <2>1, <2>2 DEF Keeps
<1>9. CASE EraseRemoved
  <2>1. ~Free.player
    BY DEF Free
  <2> QED
    BY <1>9, <2>1, Erasing DEF StopInv
<1>10. CASE KickAll
  <2>1. \A t \in Sessions : session[t].player => t \in Sess
    BY DEF NewInv
  <2> QED
    BY <1>10, <2>1, Kicking DEF StopInv
<1> QED
  BY <1>2, <1>3, <1>4, <1>5, <1>6, <1>7, <1>8, <1>9, <1>10, StepKinds

-----------------------------------------------------------------------------
(* The types.                                                              *)

\* The sessions keep their type.
LEMMA SessionsTyped ==
  ASSUME IInv, [Next]_vars
  PROVE  session' \in [Sessions -> SessionRecord]
<1>1. session \in [Sessions -> SessionRecord]
  BY TypeOKUsed DEF IInv
<1>2. Free \in SessionRecord
  BY DEF Free, SessionRecord
<1>3. ASSUME NEW s \in Sessions, NEW new \in SessionRecord, session' = [session EXCEPT ![s] = new]
      PROVE  session' \in [Sessions -> SessionRecord]
  BY <1>1, <1>3
<1>4. ASSUME NEW s \in Sessions PROVE Released(s) \in [Sessions -> SessionRecord]
  BY <1>1 DEF Released, SessionRecord
<1>5. ASSUME NEW sess \in [Sessions -> SessionRecord], NEW s \in Sessions, NEW q, NEW waits \in BOOLEAN,
             LetInOrQueue(s, sess, q, waits)
      PROVE  session' \in [Sessions -> SessionRecord]
  BY <1>5 DEF LetInOrQueue, SessionRecord
<1>6. CASE Network
  <2>1. ASSUME NEW a \in Accounts, NEW s \in Sessions, Authenticate(a, s)
        PROVE  session' \in [Sessions -> SessionRecord]
    <3>1. session' = [session EXCEPT ![s] = NewSession(a)]
      BY <2>1, Zenon DEF Authenticate
    <3>2. NewSession(a) \in SessionRecord
      BY DEF NewSession, Free, SessionRecord
    <3> QED
      BY <1>3, <3>1, <3>2
  <2>2. ASSUME NEW s \in Sessions, CloseSocket(s) PROVE session' \in [Sessions -> SessionRecord]
    <3>1. session' = [session EXCEPT ![s] = [session[s] EXCEPT !.open = FALSE]]
      BY <2>2, Zenon DEF CloseSocket
    <3>2. [session[s] EXCEPT !.open = FALSE] \in SessionRecord
      BY <1>1 DEF SessionRecord
    <3> QED
      BY <1>3, <3>1, <3>2
  <2> QED
    BY <1>1, <1>6, <2>1, <2>2 DEF Network, TimePasses
<1>7. CASE AddStep
  <2>1. ASSUME NEW s \in Sessions, RefuseSession(s) PROVE session' \in [Sessions -> SessionRecord]
    BY <1>1, <1>2, <2>1 DEF RefuseSession
  <2>2. ASSUME NEW s \in Sessions, AddSession(s) PROVE session' \in [Sessions -> SessionRecord]
    <3>1. LetInOrQueue(s, session, m_QueuedPlayer,
                       MustWait(session[s].acct, Cardinality(Sess), m_disconnects))
      BY <2>2, Zenon DEF AddSession
    <3>2. MustWait(session[s].acct, Cardinality(Sess), m_disconnects) \in BOOLEAN
      BY Zenon DEF MustWait
    <3> QED
      BY <1>1, <1>5, <3>1, <3>2
  <2>3. ASSUME NEW s \in Sessions, ReplaceSession(s) PROVE session' \in [Sessions -> SessionRecord]
    <3> DEFINE old == m_sessions[session[s].acct]
               count == IF old \in Range(m_QueuedPlayer) THEN Cardinality(Sess)
                        ELSE Cardinality(Sess) - 1
    <3>1. old \in Sessions
      BY <2>3, Replaced
    <3>2. LetInOrQueue(s, [Released(old) EXCEPT ![old] = Free], StaysQueued(old),
                       MustWait(session[s].acct, count, Disconnects(old)))
      BY <2>3, Zenon DEF ReplaceSession
    <3>3. MustWait(session[s].acct, count, Disconnects(old)) \in BOOLEAN
      BY Zenon DEF MustWait
    <3>4. [Released(old) EXCEPT ![old] = Free] \in [Sessions -> SessionRecord]
      BY <1>2, <1>4, <3>1
    <3> HIDE DEF old, count
    <3> QED
      BY <1>5, <3>2, <3>3, <3>4
  <2> QED
    BY <1>1, <1>7, <2>1, <2>2, <2>3 DEF AddStep, EndAdd
<1>8. CASE PacketStep
  <2> DEFINE awake(s) == [session[s] EXCEPT !.recentlyLogout = FALSE]
             loads(s) == [session[s] EXCEPT !.recentlyLogout = FALSE, !.loading = TRUE]
  <2>1. PICK s \in Sessions : \/ session' = [session EXCEPT ![s] = awake(s)]
                              \/ session' = [session EXCEPT ![s] = loads(s)]
                              \/ session' = [session EXCEPT ![s] = LogoutPlayer(session[s])]
    <3>1. PICK s \in Sessions : AuthedOpcode(s) \/ PlayerLoginOpcode(s) \/ LogoutOpcode(s)
      BY <1>8 DEF PacketStep
    <3>2. CASE AuthedOpcode(s)
      BY <3>2, Zenon DEF AuthedOpcode
    <3>3. CASE PlayerLoginOpcode(s)
      <4>1. session' = [session EXCEPT ![s] = loads(s)]
        BY <1>1, <3>3 DEF PlayerLoginOpcode, SessionRecord
      <4> QED
        BY <4>1, Zenon
    <3>4. CASE LogoutOpcode(s)
      BY <3>4, Zenon DEF LogoutOpcode
    <3> QED
      BY <3>1, <3>2, <3>3, <3>4
  <2>2. awake(s) \in SessionRecord /\ loads(s) \in SessionRecord
        /\ LogoutPlayer(session[s]) \in SessionRecord
    BY <1>1 DEF LogoutPlayer, SessionRecord
  <2> HIDE DEF awake, loads
  <2> QED
    BY <1>3, <2>1, <2>2
<1>9. CASE UpdateStep
  <2>1. ASSUME NEW s \in Sessions, UpdateSession(s) PROVE session' \in [Sessions -> SessionRecord]
    BY <1>1, <1>4, <2>1 DEF UpdateSession
  <2>2. CASE EraseRemoved
    BY <1>1, <1>2, <2>2 DEF EraseRemoved
  <2> QED
    BY <1>9, <2>1, <2>2 DEF UpdateStep
<1>10. CASE CallbackStep
  <2> DEFINE s == m_sessions[Head(holders)]
             kicked == [session[s] EXCEPT !.open = FALSE, !.loading = FALSE]
  <2>1. CASE DropHolder
    BY <1>1, <2>1 DEF DropHolder
  <2>2. ASSUME s # None, Head(holders) \in Accounts PROVE s \in Sessions
    BY <2>2, InTheWorld DEF IInv, TypeOK, Sess
  <2>3. Head(holders) \in Accounts
    BY <1>10 DEF CallbackStep, DropHolder, LoadPlayer, KickUnloadable, LoginCallback, IInv, TypeOK
  <2>4. CASE LoadPlayer
    <3>1. s # None /\ session' = [session EXCEPT ![s] = Loaded(session[s])]
      BY <2>4, Zenon DEF LoadPlayer
    <3>2. Loaded(session[s]) \in SessionRecord
      BY <1>1, <2>2, <2>3, <3>1 DEF Loaded, SessionRecord
    <3> QED
      BY <1>3, <2>2, <2>3, <3>1, <3>2
  <2>5. CASE KickUnloadable
    <3>1. s # None
      BY <2>5 DEF KickUnloadable
    <3>2. session' = [session EXCEPT ![s] = kicked] /\ kicked \in SessionRecord
      BY <1>1, <2>2, <2>3, <2>5, <3>1 DEF KickUnloadable, SessionRecord
    <3> HIDE DEF kicked
    <3> QED
      BY <1>3, <2>2, <2>3, <3>1, <3>2
  <2> QED
    BY <1>10, <2>1, <2>4, <2>5 DEF CallbackStep
<1>11. CASE KickAll
  BY <1>1, <1>11 DEF KickAll, SessionRecord
<1> QED
  BY <1>1, <1>6, <1>7, <1>8, <1>9, <1>10, <1>11
     DEF Next, CommandStep, EndResults, EndTick, SetPlayerLimit, vars

\* addDisconnectTime keeps its type.
LEMMA DisconnectsTyped ==
  ASSUME TypeOK, NEW s
  PROVE  Disconnects(s) \in [Accounts -> 0 .. MaxTime \cup {None}]
<1>1. m_disconnects \in [Accounts -> 0 .. MaxTime \cup {None}] /\ now \in 0 .. MaxTime
  BY DEF TypeOK
<1> QED
  BY <1>1 DEF Disconnects

\* Only a session of the world can leave its Player behind.
LEMMA OrphansTyped ==
  ASSUME IInv, NEW gone, gone \subseteq Sessions
  PROVE  Orphans(gone) \subseteq Accounts
<1> USE DEF IInv
<1>1. session \in [Sessions -> SessionRecord] /\ orphaned \subseteq Accounts
  BY TypeOKUsed DEF TypeOK
<1>2. ASSUME NEW t \in gone, LogoutPlayer(session[t]).player PROVE session[t].acct \in Accounts
  <2>1. session[t] \in SessionRecord
    BY <1>1
  <2>2. session[t].player
    BY <1>2, <2>1 DEF LogoutPlayer, SessionRecord
  <2>3. PICK a \in Accounts : m_sessions[a] = t
    BY <2>2 DEF NewInv, Sess
  <2> QED
    BY <2>3, WorldSessionsAssumption DEF MapInv
<1> QED
  BY <1>1, <1>2 DEF Orphans

\* All variables keep their types.
LEMMA TypeOKStep ==
  ASSUME IInv, [Next]_vars
  PROVE  TypeOK'
<1> USE DEF IInv
<1> DEFINE Others ==
             /\ addSessQueue \in Seq(Sessions)
             /\ m_sessions \in [Accounts -> Sessions \cup {None}]
             /\ m_QueuedPlayer \in Seq(Sessions)
             /\ m_playerLimit \in Limits
             /\ m_disconnects \in [Accounts -> 0 .. MaxTime \cup {None}]
             /\ removed \subseteq Sessions
             /\ phase \in Phases
             /\ todo \subseteq Sessions
             /\ stopping \in BOOLEAN
             /\ holders \in Seq(Accounts)
             /\ orphaned \subseteq Accounts
             /\ now \in 0 .. MaxTime
<1> SUFFICES Others'
  BY SessionsTyped DEF TypeOK, SessionRecord
<1>1. Others
  BY DEF TypeOK
<1>2. session \in [Sessions -> SessionRecord] /\ todo \subseteq Sess /\ Sess \subseteq Sessions
  BY TypeOKUsed DEF ListsInv, Sess
<1>3. MaxTime \in Nat
  BY WorldSessionsAssumption
<1>4. ASSUME NEW s PROVE Disconnects(s) \in [Accounts -> 0 .. MaxTime \cup {None}]
  BY DisconnectsTyped
<1>5. ASSUME NEW s PROVE StillQueued(s) \in Seq(Sessions)
  BY Release DEF TypeOK, QueueInv
<1>6. ASSUME NEW gone, gone \subseteq Sessions PROVE Orphans(gone) \subseteq Accounts
  BY <1>6, OrphansTyped
<1>7. CASE Network
  <2>1. ASSUME NEW a \in Accounts, NEW s \in Sessions, Authenticate(a, s) PROVE Others'
    <3>1. addSessQueue' \in Seq(Sessions) /\ UNCHANGED <<worldVars, loopVars, holders, orphaned, now>>
      BY <2>1, AddedToQueue
    <3> QED
      BY <1>1, <3>1 DEF worldVars, loopVars
  <2>2. ASSUME NEW s \in Sessions, CloseSocket(s) PROVE Others'
    BY <1>1, <2>2 DEF CloseSocket, worldVars, loopVars
  <2>3. CASE TimePasses
    BY <1>1, <1>3, <2>3 DEF TimePasses, worldVars, loopVars
  <2> QED
    BY <1>7, <2>1, <2>2, <2>3 DEF Network
<1>8. ASSUME NEW s \in Sessions, Take(s)
      PROVE  /\ addSessQueue' \in Seq(Sessions) /\ session[s].acct \in Accounts
             /\ UNCHANGED <<m_playerLimit, removed, phase, todo, stopping, holders, now>>
  BY <1>8, Taken DEF Take, loopVars
<1>9. CASE AddStep
  <2>1. ASSUME NEW s \in Sessions, RefuseSession(s) PROVE Others'
    BY <1>1, <1>8, <2>1 DEF RefuseSession
  <2>2. ASSUME NEW s \in Sessions, AddSession(s) PROVE Others'
    <3>1. Take(s) /\ m_disconnects' = m_disconnects /\ orphaned' = orphaned
      BY <2>2 DEF AddSession
    <3>2. m_sessions' \in [Accounts -> Sessions \cup {None}]
      <4>1. m_sessions' = [m_sessions EXCEPT ![session[s].acct] = s]
        BY <2>2, Added
      <4> QED
        BY <1>1, <4>1
    <3>3. m_QueuedPlayer' = m_QueuedPlayer \/ m_QueuedPlayer' = Append(m_QueuedPlayer, s)
      BY <2>2, Added
    <3>4. m_QueuedPlayer' \in Seq(Sessions)
      BY <1>1, <3>3, SMTT(30)
    <3> QED
      BY <1>1, <1>8, <3>1, <3>2, <3>4
  <2>3. ASSUME NEW s \in Sessions, ReplaceSession(s) PROVE Others'
    <3> DEFINE old == m_sessions[session[s].acct]
    <3>1. Take(s) /\ m_disconnects' = Disconnects(old) /\ orphaned' = Orphans({old})
      BY <2>3, Zenon DEF ReplaceSession
    <3>2. m_sessions' = [m_sessions EXCEPT ![session[s].acct] = s] /\ old \in Sessions
      BY <2>3, Replaced
    <3>3. m_QueuedPlayer' = StillQueued(old) \/ m_QueuedPlayer' = Append(StillQueued(old), s)
      BY <2>3, Replaced
    <3>4. StillQueued(old) \in Seq(Sessions)
      BY <1>5
    <3>5. m_disconnects' \in [Accounts -> 0 .. MaxTime \cup {None}] /\ orphaned' \subseteq Accounts
      BY <1>4, <1>6, <3>1, <3>2
    <3>6. m_QueuedPlayer' \in Seq(Sessions)
      BY <3>3, <3>4
    <3>7. m_sessions' \in [Accounts -> Sessions \cup {None}]
      BY <1>1, <3>2
    <3> QED
      BY <1>1, <1>8, <3>1, <3>5, <3>6, <3>7
  <2>4. CASE EndAdd
    BY <1>1, <1>2, <2>4 DEF EndAdd, worldVars, Phases
  <2> QED
    BY <1>9, <2>1, <2>2, <2>3, <2>4 DEF AddStep
<1>10. CASE PacketStep
  <2>1. PICK s \in Sessions : AuthedOpcode(s) \/ PlayerLoginOpcode(s) \/ LogoutOpcode(s)
    BY <1>10 DEF PacketStep
  <2>2. s \in todo /\ UNCHANGED <<addSessQueue, worldVars, loopVars, orphaned, now>>
    BY <2>1 DEF AuthedOpcode, PlayerLoginOpcode, LogoutOpcode, Packet
  <2>3. session[s].acct \in Accounts
    <3>1. PICK a \in Accounts : m_sessions[a] = s
      BY <1>2, <2>2 DEF Sess
    <3> QED
      BY <3>1, WorldSessionsAssumption DEF MapInv
  <2>4. holders' = holders \/ holders' = Append(holders, session[s].acct)
    BY <2>1 DEF AuthedOpcode, PlayerLoginOpcode, LogoutOpcode
  <2>5. holders' \in Seq(Accounts)
    BY <1>1, <2>3, <2>4
  <2> QED
    BY <1>1, <2>2, <2>5 DEF worldVars, loopVars
<1>11. CASE UpdateStep
  <2>1. ASSUME NEW s \in Sessions, UpdateSession(s) PROVE Others'
    BY <1>1, <1>4, <1>5, <2>1 DEF UpdateSession
  <2>2. CASE EraseRemoved
    <3>1. m_sessions' \in [Accounts -> Sessions \cup {None}] /\ orphaned' \subseteq Accounts
      BY <1>1, <1>6, <2>2 DEF EraseRemoved, Erased
    <3>2. phase' \in Phases /\ removed' \subseteq Sessions
      BY <2>2, Erasing DEF Phases
    <3> QED
      BY <1>1, <2>2, <3>1, <3>2 DEF EraseRemoved
  <2> QED
    BY <1>11, <2>1, <2>2 DEF UpdateStep
<1>12. CASE CallbackStep
  <2>1. /\ holders # << >> /\ holders' = Tail(holders)
        /\ UNCHANGED <<addSessQueue, worldVars, loopVars, now>>
    BY <1>12 DEF CallbackStep, DropHolder, LoadPlayer, KickUnloadable, LoginCallback
  <2>2. Head(holders) \in Accounts /\ holders' \in Seq(Accounts)
    BY <1>1, <2>1
  <2>3. orphaned' \subseteq Accounts
    BY <1>1, <1>12, <2>2 DEF CallbackStep, DropHolder, LoadPlayer, KickUnloadable
  <2> QED
    BY <1>1, <2>1, <2>2, <2>3 DEF worldVars, loopVars
<1>13. CASE CommandStep
  BY <1>1, <1>13 DEF CommandStep, SetPlayerLimit, loopVars
<1>14. CASE EndResults \/ EndTick
  BY <1>1, <1>14 DEF EndResults, EndTick, worldVars, Phases
<1>15. CASE KickAll
  BY <1>1, <1>15 DEF KickAll, Phases
<1>16. CASE UNCHANGED vars
  BY <1>1, <1>16 DEF vars, worldVars, loopVars
<1> QED
  BY <1>7, <1>9, <1>10, <1>11, <1>12, <1>13, <1>14, <1>15, <1>16 DEF Next

-----------------------------------------------------------------------------
(* The theorems.                                                           *)

\* The inductive invariant holds at the start
LEMMA InitIInv == Init => IInv
<1> SUFFICES ASSUME Init PROVE IInv
  OBVIOUS
<1> USE DEF Init
<1>1. Range(<< >>) = {} /\ Distinct(<< >>)
  BY SMTT(30) DEF Range, Distinct
<1>2. None \notin Sessions
  BY WorldSessionsAssumption
<1>3. Sess = {} /\ Live = {} /\ \A s \in Sessions : session[s] = Free
  BY <1>2 DEF Sess, Live, Free
<1>4. TypeOK
  <2>1. session \in [Sessions -> SessionRecord]
    BY DEF SessionRecord, Free
  <2>2. 0 \in 0 .. MaxTime
    BY WorldSessionsAssumption
  <2>3. /\ m_sessions \in [Accounts -> Sessions \cup {None}]
        /\ m_disconnects \in [Accounts -> 0 .. MaxTime \cup {None}]
    BY SMTT(30)
  <2>4. addSessQueue \in Seq(Sessions) /\ m_QueuedPlayer \in Seq(Sessions) /\ holders \in Seq(Accounts)
    BY SMTT(30)
  <2> QED
    BY <2>1, <2>2, <2>3, <2>4 DEF TypeOK, Phases, SessionRecord
<1>5. NewInv /\ MapInv /\ ListsInv
  BY <1>1, <1>3 DEF NewInv, MapInv, ListsInv, Free
<1>6. QueueInv /\ StopInv
  BY <1>1, <1>3 DEF QueueInv, StopInv, Free
<1> QED
  BY <1>4, <1>5, <1>6 DEF IInv

\* and is kept by every step.
LEMMA IInvStep == IInv /\ [Next]_vars => IInv'
<1> SUFFICES ASSUME IInv, [Next]_vars PROVE IInv'
  OBVIOUS
<1>1. TypeOK' /\ NewInv' /\ MapInv'
  BY TypeOKStep, NewInvStep, MapInvStep
<1>2. ListsInv' /\ QueueInv' /\ StopInv'
  BY ListsInvStep, QueueInvStep, StopInvStep
<1> QED
  BY <1>1, <1>2 DEF IInv

\* The inductive invariant holds in every state.
LEMMA Invariance == Spec => []IInv
BY InitIInv, IInvStep, PTL DEF Spec

\* The variables keep their types (the whole of World::UpdateSessions and what it
\* calls).
THEOREM TypesCorrect == Spec => []TypeOK
<1>1. IInv => TypeOK
  BY DEF IInv
<1> QED
  BY <1>1, Invariance, PTL

\* The lists of the world hold no session that has been deleted, every session is
\* in one of them, and those that wait are in the queue, once (AddSession_,
\* RemoveQueuedPlayer, UpdateSessions).
THEOREM SessionsCorrect == Spec => []SessionsAreKept
<1>1. ASSUME IInv PROVE SessionsAreKept
  <2> USE <1>1 DEF IInv
  <2>1. \A s \in Live : (s \in Sess) # (s \in Range(addSessQueue))
    <3> SUFFICES ASSUME NEW s \in Live PROVE (s \in Sess) # (s \in Range(addSessQueue))
      OBVIOUS
    <3>1. s \in Sess \/ s \in Range(addSessQueue)
      BY DEF NewInv
    <3>2. ~(s \in Sess /\ s \in Range(addSessQueue))
      BY DEF NewInv
    <3> QED
      BY <3>1, <3>2
  <2>2. NoDanglingSession
    BY <2>1 DEF NoDanglingSession, MapInv, ListsInv
  <2>3. QueuedSessionsWait
    BY DEF QueuedSessionsWait, QueueInv, Distinct
  <2> QED
    BY <2>2, <2>3 DEF SessionsAreKept
<1> QED
  BY <1>1, Invariance, PTL

\* When the world has stopped every Player has been saved (World::KickAll).
THEOREM StopCorrect == Spec => []StopSavesThePlayers
<1>1. IInv => StopSavesThePlayers
  BY DEF IInv, StopInv, StopSavesThePlayers
<1> QED
  BY <1>1, Invariance, PTL

\* A session that loads its character is not replaced by a new login of its
\* account (AddSession_).
THEOREM LoadingCorrect == Spec => LoadingSessionStays
<1> DEFINE Stays == \A s \in Sessions :
                        session[s].loading /\ session[s].open => session'[s].acct # None
<1>1. ASSUME IInv, [Next]_vars PROVE Stays
  <2> USE <1>1
  <2> SUFFICES ASSUME NEW s \in Sessions, session[s].loading, session[s].open
               PROVE  session'[s].acct # None
    OBVIOUS
  <2>1. s \in Sess
    BY DEF IInv, NewInv
  <2>2. session[s].acct # None
    <3>1. PICK a \in Accounts : m_sessions[a] = s
      BY <2>1 DEF Sess
    <3> QED
      BY <3>1, WorldSessionsAssumption DEF IInv, MapInv
  <2>3. CASE Mild
    BY <2>2, <2>3 DEF Mild, SessionStays
  <2>4. ASSUME NEW a \in Accounts, NEW t \in Sessions, Authenticate(a, t) PROVE session'[s].acct # None
    <3>1. session' = [session EXCEPT ![t] = NewSession(a)] /\ t \notin Sess
      BY <2>4, AddedToQueue
    <3> QED
      BY <2>1, <2>2, <3>1, TypeOKUsed DEF IInv
  <2>5. ASSUME NEW t \in Sessions, RefuseSession(t) PROVE session'[s].acct # None
    <3>1. Take(t) /\ session' = [session EXCEPT ![t] = Free]
      BY <2>5 DEF RefuseSession
    <3>2. t # s
      BY <2>1, <3>1, Taken
    <3> QED
      BY <2>2, <3>1, <3>2, TypeOKUsed DEF IInv
  <2>6. ASSUME NEW t \in Sessions, AddSession(t) PROVE session'[s].acct # None
    BY <2>2, <2>6, Added DEF Keeps
  <2>7. ASSUME NEW t \in Sessions, ReplaceSession(t) PROVE session'[s].acct # None
    <3> DEFINE old == m_sessions[session[t].acct]
    <3>1. ~session[old].loading /\ \A u \in Sessions \ {old} : Keeps(u)
      BY <2>7, Replaced
    <3> HIDE DEF old
    <3> QED
      BY <2>2, <3>1 DEF Keeps
  <2>8. CASE EndAdd
    BY <2>2, <2>8 DEF EndAdd
  <2>9. ASSUME NEW t \in Sessions, UpdateSession(t) PROVE session'[s].acct # None
    BY <2>2, <2>9, Updated DEF Keeps
  <2>10. CASE EraseRemoved
    <3>1. s \notin removed
      BY DEF IInv, ListsInv
    <3> QED
      BY <2>2, <2>10, <3>1, Erasing
  <2>11. CASE KickAll
    BY <2>2, <2>11, Kicking
  <2> QED
    BY <2>3, <2>4, <2>5, <2>6, <2>7, <2>8, <2>9, <2>10, <2>11, StepKinds
<1>2. IInv /\ [Next]_vars => [Stays]_vars
  BY <1>1
<1> QED
  BY <1>2, Invariance, PTL DEF Spec, LoadingSessionStays

-----------------------------------------------------------------------------
(* Admission.                                                              *)

\* Nobody gets before a client that waits (RemoveQueuedPlayer, AddQueuedPlayer).
LEMMA OrderStep ==
  ASSUME IInv, [Next]_vars, NEW x \in Range(m_QueuedPlayer), x \in Range(m_QueuedPlayer')
  PROVE  /\ Ahead(m_QueuedPlayer', x) \subseteq Ahead(m_QueuedPlayer, x)
         /\ Playing' \cap Range(m_QueuedPlayer) \subseteq Ahead(m_QueuedPlayer, x)
<1> DEFINE Goal == /\ Ahead(m_QueuedPlayer', x) \subseteq Ahead(m_QueuedPlayer, x)
                   /\ Playing' \cap Range(m_QueuedPlayer) \subseteq Ahead(m_QueuedPlayer, x)
<1>1. m_QueuedPlayer \in Seq(Sessions) /\ Distinct(m_QueuedPlayer) /\ Range(m_QueuedPlayer) \subseteq Sess
  BY DEF IInv, TypeOK, QueueInv, ListsInv
<1>2. ASSUME m_QueuedPlayer' = m_QueuedPlayer PROVE Goal
  BY <1>2 DEF Playing
<1>3. CASE Mild
  BY <1>2, <1>3 DEF Mild, ListsStay
<1>4. ASSUME NEW a \in Accounts, NEW s \in Sessions, Authenticate(a, s) PROVE Goal
  <2>1. m_QueuedPlayer' = m_QueuedPlayer
    BY <1>4, AddedToQueue DEF worldVars
  <2> QED
    BY <1>2, <2>1
<1>5. ASSUME NEW s \in Sessions, RefuseSession(s) PROVE Goal
  BY <1>2, <1>5 DEF RefuseSession
<1>6. ASSUME NEW s \in Sessions, AddSession(s) PROVE Goal
  <2>1. CASE m_QueuedPlayer' = m_QueuedPlayer
    BY <1>2, <2>1
  <2>2. CASE m_QueuedPlayer' = Append(m_QueuedPlayer, s)
    <3>1. Take(s)
      BY <1>6 DEF AddSession
    <3>2. x # s
      BY <1>1, <3>1, Taken
    <3>3. Ahead(m_QueuedPlayer', x) \subseteq Ahead(m_QueuedPlayer, x)
      BY <1>1, <2>2, <3>2, AheadOfAppend
    <3>4. Range(m_QueuedPlayer') = Range(m_QueuedPlayer) \cup {s}
      BY <1>1, <2>2, AppendDistinct
    <3> QED
      BY <3>3, <3>4 DEF Playing
  <2> QED
    BY <1>6, <2>1, <2>2, Added
<1>7. ASSUME NEW s \in Sessions, ReplaceSession(s) PROVE Goal
  <2> DEFINE old == m_sessions[session[s].acct]
             r == StillQueued(old)
  <2>1. Take(s)
    BY <1>7 DEF ReplaceSession
  <2>2. s \notin Range(m_QueuedPlayer)
    BY <2>1, Taken
  <2>3. old # s /\ Sess' = (Sess \ {old}) \cup {s}
    BY <1>7, Replaced
  <2>4. /\ r \in Seq(Sessions) /\ Range(r) = Range(m_QueuedPlayer) \ Unqueued(old)
        /\ Ahead(r, x) \subseteq Ahead(m_QueuedPlayer, x)
        /\ x \in Range(r) => Popped(old) \subseteq Ahead(m_QueuedPlayer, x)
    BY <1>1, Release
  <2>5. m_QueuedPlayer' = r \/ m_QueuedPlayer' = Append(r, s)
    BY <1>7, Replaced
  <2>6. Unqueued(old) \subseteq Popped(old) \cup {old}
    BY DEF Unqueued
  <2> HIDE DEF old, r
  <2>7. Range(Append(r, s)) = Range(r) \cup {s}
    BY <2>4, AppendDistinct
  <2>8. x \in Range(r) /\ x # s
    BY <2>2, <2>5, <2>7
  <2>9. Ahead(m_QueuedPlayer', x) \subseteq Ahead(m_QueuedPlayer, x)
    BY <2>4, <2>5, <2>8, AheadOfAppend
  <2>10. Playing' \cap Range(m_QueuedPlayer) \subseteq Popped(old)
    BY <2>2, <2>3, <2>4, <2>5, <2>6, <2>7 DEF Playing
  <2> QED
    BY <2>4, <2>8, <2>9, <2>10
<1>8. CASE EndAdd
  BY <1>2, <1>8 DEF EndAdd, worldVars
<1>9. ASSUME NEW s \in Sessions, UpdateSession(s) PROVE Goal
  <2>1. CASE m_QueuedPlayer' = m_QueuedPlayer
    BY <1>2, <2>1
  <2>2. CASE m_QueuedPlayer' = StillQueued(s) /\ removed' = removed \cup {s}
    <3>1. /\ Range(m_QueuedPlayer') = Range(m_QueuedPlayer) \ Unqueued(s)
          /\ Ahead(m_QueuedPlayer', x) \subseteq Ahead(m_QueuedPlayer, x)
          /\ Popped(s) \subseteq Ahead(m_QueuedPlayer, x)
      BY <1>1, <2>2, Release
    <3>2. Unqueued(s) \subseteq Popped(s) \cup {s}
      BY DEF Unqueued
    <3>3. Playing' \cap Range(m_QueuedPlayer) \subseteq Popped(s)
      BY <2>2, <3>1, <3>2 DEF Playing
    <3> QED
      BY <3>1, <3>3
  <2> QED
    BY <1>9, <2>1, <2>2, Updated
<1>10. CASE EraseRemoved
  BY <1>2, <1>10, Erasing
<1>11. CASE KickAll
  <2>1. x \notin Range(m_QueuedPlayer')
    BY <1>11, Kicking DEF Range
  <2> QED
    BY <2>1
<1> QED
  BY <1>3, <1>4, <1>5, <1>6, <1>7, <1>8, <1>9, <1>10, <1>11, StepKinds

\* A sequence without repetition is as long as the set of its elements.
LEMMA LengthOfDistinct ==
  ASSUME NEW S, NEW q \in Seq(S), Distinct(q)
  PROVE  IsFiniteSet(Range(q)) /\ Cardinality(Range(q)) = Len(q)
<1>1. Len(q) \in Nat /\ q \in [1 .. Len(q) -> S] /\ Range(q) = {q[i] : i \in 1 .. Len(q)}
  BY LenProperties, RangeEquality
<1>2. q \in Bijection(1 .. Len(q), Range(q))
  BY <1>1 DEF Bijection, Injection, Surjection, IsInjective, Distinct
<1>3. ExistsBijection(1 .. Len(q), Range(q))
  BY <1>2 DEF ExistsBijection
<1> QED
  BY <1>1, <1>3, FS_CountingElements, FS_NatBijection

\* ActiveSessionCount, the difference of two sizes, counts the sessions that do
\* not wait.
LEMMA ActiveCount ==
  ASSUME IInv
  PROVE  /\ IsFiniteSet(Sess) /\ Cardinality(Sess) \in Nat
         /\ IsFiniteSet(Sess \ Range(m_QueuedPlayer))
         /\ Cardinality(Sess \ Range(m_QueuedPlayer)) \in Nat
         /\ ActiveSessionCount = Cardinality(Sess \ Range(m_QueuedPlayer))
<1> DEFINE R == Range(m_QueuedPlayer)
<1>1. IsFiniteSet(Sess)
  BY FS_Subset, WorldSessionsAssumption DEF Sess
<1>2. IsFiniteSet(R) /\ Cardinality(R) = Len(m_QueuedPlayer)
  BY LengthOfDistinct DEF IInv, TypeOK, QueueInv
<1>3. Sess \cap R = R
  BY DEF IInv, ListsInv
<1> HIDE DEF R
<1>4. IsFiniteSet(Sess \ R) /\ Cardinality(Sess \ R) = Cardinality(Sess) - Cardinality(R)
  BY <1>1, <1>3, FS_Difference
<1> QED
  BY <1>1, <1>2, <1>4, FS_CardinalityType DEF ActiveSessionCount, R

\* There is room for the client that RemoveQueuedPlayer lets in.
LEMMA RoomForPopped ==
  ASSUME IInv, NEW s \in Sess, Popped(s) # {}, m_playerLimit > 0,
         NEW P, P \subseteq ((Sess \ Range(m_QueuedPlayer)) \ {s}) \cup Popped(s)
  PROVE  Cardinality(P) <= m_playerLimit
<1> DEFINE A == Sess \ Range(m_QueuedPlayer)
           B == A \ {s}
<1>1. IsFiniteSet(A) /\ Cardinality(A) \in Nat /\ ActiveSessionCount = Cardinality(A)
  BY ActiveCount
<1>2. m_playerLimit \in Nat
  BY WorldSessionsAssumption DEF IInv, TypeOK
<1>3. PICK h : Popped(s) = {h}
  BY DEF Popped
<1>4. Leaving(s) < m_playerLimit
  BY <1>2 DEF Popped
<1>5. s \in A <=> s \notin Range(m_QueuedPlayer)
  OBVIOUS
<1>6. Leaving(s) = IF s \notin A \/ ActiveSessionCount = 0 THEN ActiveSessionCount
                   ELSE ActiveSessionCount - 1
  BY <1>5 DEF Leaving
<1>7. P \subseteq B \cup {h}
  BY <1>3
<1> HIDE DEF A
<1>8. /\ IsFiniteSet(B) /\ Cardinality(B) = IF s \in A THEN Cardinality(A) - 1 ELSE Cardinality(A)
  BY <1>1, FS_RemoveElement
<1>9. Cardinality(B) \in Nat
  BY <1>8, FS_CardinalityType
<1>10. Cardinality(B) < m_playerLimit
  BY <1>1, <1>2, <1>4, <1>6, <1>8, <1>9
<1> HIDE DEF B
<1>11. IsFiniteSet(B \cup {h}) /\ Cardinality(B \cup {h}) <= Cardinality(B) + 1
       /\ Cardinality(B \cup {h}) \in Nat
  <2>1. /\ IsFiniteSet(B \cup {h})
        /\ Cardinality(B \cup {h}) = IF h \in B THEN Cardinality(B) ELSE Cardinality(B) + 1
    BY <1>8, FS_AddElement
  <2> QED
    BY <1>9, <2>1
<1>12. Cardinality(P) <= Cardinality(B \cup {h}) /\ Cardinality(P) \in Nat
  BY <1>7, <1>11, FS_Subset, FS_CardinalityType
<1> QED
  BY <1>2, <1>9, <1>10, <1>11, <1>12

\* An ordinary client that does not wait has found the limit unreached.
LEMMA NotMustWait ==
  ASSUME IInv, NEW a, NEW count \in Int, m_playerLimit > 0, ~MustWait(a, count, m_disconnects'),
         now' = now, ~Exempt(a)'
  PROVE  count < m_playerLimit
<1>1. m_playerLimit \in Nat
  BY WorldSessionsAssumption DEF IInv, TypeOK
<1>2. a \notin Privileged /\ ~HasRecentlyDisconnected(a, m_disconnects')
  BY DEF Exempt, HasRecentlyDisconnected
<1>3. ~(count >= m_playerLimit)
  BY <1>2 DEF MustWait
<1> QED
  BY <1>1, <1>3

\* An ordinary client that is let in found the limit unreached: a new session,
LEMMA LetInNew ==
  ASSUME IInv, NEW s \in Sessions, AddSession(s), s \in Ordinary', m_playerLimit > 0
  PROVE  Cardinality(Sess) < m_playerLimit
<1> DEFINE a == session[s].acct
           waits == MustWait(a, Cardinality(Sess), m_disconnects)
<1>1. /\ Take(s) /\ m_disconnects' = m_disconnects
      /\ LetInOrQueue(s, session, m_QueuedPlayer, waits)
  BY Zenon DEF AddSession
<1>2. now' = now /\ session'[s].acct = a
  BY <1>1, Added DEF Take, Keeps
<1>3. s \notin Range(m_QueuedPlayer') /\ ~Exempt(a)'
  BY <1>2 DEF Ordinary, Playing
<1>4. ~waits
  <2>1. waits => m_QueuedPlayer' = Append(m_QueuedPlayer, s)
    BY <1>1, Zenon DEF LetInOrQueue
  <2>2. s \in Range(Append(m_QueuedPlayer, s))
    BY AppendDistinct DEF IInv, TypeOK
  <2> QED
    BY <1>3, <2>1, <2>2
<1>5. Cardinality(Sess) \in Int
  BY ActiveCount
<1> QED
  BY <1>1, <1>2, <1>3, <1>4, <1>5, NotMustWait

\* and one that replaces another.
LEMMA LetInAgain ==
  ASSUME IInv, NEW s \in Sessions, ReplaceSession(s), s \in Ordinary', m_playerLimit > 0,
         NEW old, old = m_sessions[session[s].acct]
  PROVE  IF old \in Range(m_QueuedPlayer) THEN Cardinality(Sess) < m_playerLimit
         ELSE Cardinality(Sess) - 1 < m_playerLimit
<1> DEFINE a == session[s].acct
           count == IF old \in Range(m_QueuedPlayer) THEN Cardinality(Sess) ELSE Cardinality(Sess) - 1
           waits == MustWait(a, count, Disconnects(old))
<1>1. /\ Take(s) /\ m_disconnects' = Disconnects(old)
      /\ LetInOrQueue(s, [Released(old) EXCEPT ![old] = Free], StaysQueued(old), waits)
  BY Zenon DEF ReplaceSession
<1>2. now' = now /\ session'[s].acct = a
  <2>1. old # s /\ \A t \in Sessions \ {old} : Keeps(t)
    BY Replaced
  <2> QED
    BY <1>1, <2>1 DEF Take, Keeps
<1>3. s \notin Range(m_QueuedPlayer') /\ ~Exempt(a)'
  BY <1>2 DEF Ordinary, Playing
<1>4. ~waits
  <2>1. waits => m_QueuedPlayer' = Append(StillQueued(old), s)
    BY <1>1, Zenon DEF LetInOrQueue, StaysQueued
  <2>2. StillQueued(old) \in Seq(Sessions)
    BY Release DEF IInv, TypeOK, QueueInv
  <2>3. s \in Range(Append(StillQueued(old), s))
    BY <2>2, AppendDistinct
  <2> QED
    BY <1>3, <2>1, <2>3
<1>5. count \in Int
  BY ActiveCount
<1>6. count < m_playerLimit
  <2> HIDE DEF count
  <2> QED
    BY <1>1, <1>2, <1>3, <1>4, <1>5, NotMustWait
<1> QED
  BY <1>6

\* Nobody is let in over the limit, but those who are exempt from it.
LEMMA LimitStep ==
  ASSUME IInv, [Next]_vars, NEW x \in Sessions, x \notin Playing, x \in Ordinary',
         m_playerLimit > 0, ~stopping'
  PROVE  Cardinality(Ordinary') <= m_playerLimit
<1> DEFINE Goal == Cardinality(Ordinary') <= m_playerLimit
<1>1. m_QueuedPlayer \in Seq(Sessions) /\ Distinct(m_QueuedPlayer) /\ Range(m_QueuedPlayer) \subseteq Sess
  BY DEF IInv, TypeOK, QueueInv, ListsInv
<1>2. Ordinary' \subseteq Playing'
  BY DEF Ordinary
<1>3. ~(Playing' \subseteq Playing)
  BY <1>2
<1>4. IsFiniteSet(Sess) /\ Cardinality(Sess) \in Nat /\ m_playerLimit \in Nat
  BY ActiveCount, WorldSessionsAssumption DEF IInv, TypeOK
<1>5. CASE Mild
  BY <1>3, <1>5 DEF Mild, ListsStay, Playing, Sess
<1>6. ASSUME NEW a \in Accounts, NEW s \in Sessions, Authenticate(a, s) PROVE FALSE
  BY <1>3, <1>6, AddedToQueue DEF worldVars, Playing, Sess
<1>7. ASSUME NEW s \in Sessions, RefuseSession(s) PROVE FALSE
  <2>1. Take(s) /\ m_sessions' = m_sessions /\ m_QueuedPlayer' = m_QueuedPlayer
    BY <1>7 DEF RefuseSession
  <2>2. removed' = removed
    BY <2>1, Taken
  <2> QED
    BY <1>3, <2>1, <2>2 DEF Playing, Sess
<1>8. ASSUME NEW s \in Sessions, AddSession(s) PROVE Goal
  <2>1. Take(s)
    BY <1>8 DEF AddSession
  <2>2. removed' = {} /\ removed = {} /\ s \notin Sess
    BY <2>1, Taken
  <2>3. Sess' = Sess \cup {s}
    BY <1>8, Added
  <2>4. \/ Range(m_QueuedPlayer') = Range(m_QueuedPlayer)
        \/ Range(m_QueuedPlayer') = Range(m_QueuedPlayer) \cup {s}
    <3>1. m_QueuedPlayer' = m_QueuedPlayer \/ m_QueuedPlayer' = Append(m_QueuedPlayer, s)
      BY <1>8, Added
    <3>2. Range(Append(m_QueuedPlayer, s)) = Range(m_QueuedPlayer) \cup {s}
      BY <1>1, AppendDistinct
    <3> QED
      BY <3>1, <3>2
  <2>5. x = s
    BY <1>2, <2>2, <2>3, <2>4 DEF Playing
  <2>6. Cardinality(Sess) < m_playerLimit
    BY <1>8, <2>5, LetInNew
  <2>7. IsFiniteSet(Sess \cup {s}) /\ Cardinality(Sess \cup {s}) = Cardinality(Sess) + 1
    BY <1>4, <2>2, FS_AddElement
  <2>8. Ordinary' \subseteq Sess \cup {s}
    BY <2>3 DEF Ordinary, Playing
  <2>9. Cardinality(Ordinary') \in Nat /\ Cardinality(Ordinary') <= Cardinality(Sess \cup {s})
    BY <2>7, <2>8, FS_Subset, FS_CardinalityType
  <2> QED
    BY <1>4, <2>6, <2>7, <2>9
<1>9. ASSUME NEW s \in Sessions, ReplaceSession(s) PROVE Goal
  <2> DEFINE old == m_sessions[session[s].acct]
             r == StillQueued(old)
             waited == old \in Range(m_QueuedPlayer)
  <2>1. Take(s)
    BY <1>9 DEF ReplaceSession
  <2>2. removed' = {} /\ removed = {} /\ s \notin Sess /\ s \notin Range(m_QueuedPlayer)
    BY <2>1, Taken
  <2>3. old # s /\ old \in Sess /\ Sess' = (Sess \ {old}) \cup {s}
    BY <1>9, Replaced
  <2>4. r \in Seq(Sessions) /\ Range(r) = Range(m_QueuedPlayer) \ Unqueued(old)
    BY <1>1, Release
  <2>5. m_QueuedPlayer' = r \/ m_QueuedPlayer' = Append(r, s)
    BY <1>9, Replaced
  <2>6. Unqueued(old) \subseteq Popped(old) \cup {old}
    BY DEF Unqueued
  <2>7. CASE s \in Ordinary'
    <3>1. IF waited THEN Cardinality(Sess) < m_playerLimit ELSE Cardinality(Sess) - 1 < m_playerLimit
      BY <1>9, <2>7, LetInAgain
    <3> HIDE DEF old
    <3>2. IsFiniteSet(Sess \ {old}) /\ Cardinality(Sess \ {old}) = Cardinality(Sess) - 1
      BY <1>4, <2>3, FS_RemoveElement
    <3>3. IsFiniteSet(Sess') /\ Cardinality(Sess') = Cardinality(Sess)
      <4>1. /\ IsFiniteSet((Sess \ {old}) \cup {s})
            /\ Cardinality((Sess \ {old}) \cup {s}) = Cardinality(Sess \ {old}) + 1
        BY <2>2, <3>2, FS_AddElement
      <4> QED
        BY <1>4, <2>3, <3>2, <4>1
    <3>4. Ordinary' \subseteq Sess'
      BY DEF Ordinary, Playing
    <3>5. Cardinality(Ordinary') \in Nat /\ Cardinality(Ordinary') <= Cardinality(Sess')
      BY <3>3, <3>4, FS_Subset, FS_CardinalityType
    <3> QED
      BY <1>4, <3>1, <3>3, <3>5
  <2>8. CASE s \notin Ordinary'
    <3> HIDE DEF old, r, waited
    <3>1. Range(Append(r, s)) = Range(r) \cup {s}
      BY <2>4, AppendDistinct
    <3>2. Playing' \ {s} \subseteq ((Sess \ Range(m_QueuedPlayer)) \ {old}) \cup Popped(old)
      BY <2>3, <2>4, <2>5, <2>6, <3>1 DEF Playing
    <3>3. Ordinary' \subseteq ((Sess \ Range(m_QueuedPlayer)) \ {old}) \cup Popped(old)
      BY <1>2, <2>8, <3>2
    <3>4. Popped(old) # {}
      BY <2>2, <3>3 DEF Playing
    <3> QED
      BY <2>3, <3>3, <3>4, RoomForPopped
  <2> QED
    BY <2>7, <2>8
<1>10. CASE EndAdd
  BY <1>3, <1>10 DEF EndAdd, worldVars, Playing, Sess
<1>11. ASSUME NEW s \in Sessions, UpdateSession(s) PROVE Goal
  <2>1. m_sessions' = m_sessions /\ s \in todo
    BY <1>11, Updated
  <2>2. Sess' = Sess /\ s \in Sess
    BY <2>1 DEF Sess, IInv, ListsInv
  <2>3. CASE m_QueuedPlayer' = m_QueuedPlayer /\ removed' = removed
    BY <1>3, <2>2, <2>3 DEF Playing
  <2>4. CASE m_QueuedPlayer' = StillQueued(s) /\ removed' = removed \cup {s}
    <3>1. Range(m_QueuedPlayer') = Range(m_QueuedPlayer) \ Unqueued(s)
      BY <1>1, <2>4, Release
    <3>2. Unqueued(s) \subseteq Popped(s) \cup {s}
      BY DEF Unqueued
    <3>3. Playing' \subseteq (Playing \ {s}) \cup Popped(s)
      BY <2>2, <2>4, <3>1, <3>2 DEF Playing
    <3>4. Popped(s) # {}
      BY <1>3, <3>3
    <3>5. Ordinary' \subseteq ((Sess \ Range(m_QueuedPlayer)) \ {s}) \cup Popped(s)
      BY <1>2, <3>3 DEF Playing
    <3> QED
      BY <2>2, <3>4, <3>5, RoomForPopped
  <2> QED
    BY <1>11, <2>3, <2>4, Updated
<1>12. CASE EraseRemoved
  <2>1. Sess' = Sess \ removed /\ m_QueuedPlayer' = m_QueuedPlayer
    BY <1>12, Erasing
  <2> QED
    BY <1>3, <2>1 DEF Playing
<1>13. CASE KickAll
  BY <1>13, Kicking
<1> QED
  BY <1>5, <1>6, <1>7, <1>8, <1>9, <1>10, <1>11, <1>12, <1>13, StepKinds

\* Nobody is let in over the player limit but those who are exempt from it, and
\* nobody before a client that has waited longer (AddSession_, RemoveQueuedPlayer).
THEOREM AdmissionCorrect == Spec => AdmissionIsFair
<1> DEFINE Limit == (\E s \in Sessions : s \notin Playing /\ s \in Ordinary') /\ m_playerLimit > 0
                       /\ ~stopping' => Cardinality(Ordinary') <= m_playerLimit
           Order == \A s \in Range(m_QueuedPlayer) \cap Range(m_QueuedPlayer') :
                       /\ Ahead(m_QueuedPlayer', s) \subseteq Ahead(m_QueuedPlayer, s)
                       /\ Playing' \cap Range(m_QueuedPlayer) \subseteq Ahead(m_QueuedPlayer, s)
<1>1. IInv /\ [Next]_vars => [Limit]_vars
  BY LimitStep
<1>2. IInv /\ [Next]_vars => [Order]_vars
  BY OrderStep
<1>3. Spec => AdmissionKeepsTheLimit
  BY <1>1, Invariance, PTL DEF Spec, AdmissionKeepsTheLimit
<1>4. Spec => FirstComeFirstServed
  BY <1>2, Invariance, PTL DEF Spec, FirstComeFirstServed
<1> QED
  BY <1>3, <1>4 DEF AdmissionIsFair
=============================================================================
