------------------------ MODULE HealthMonitorProofs ------------------------
(***************************************************************************)
(* Proofs about HealthMonitor, for every set of monitors, clients, levels. *)
(***************************************************************************)
EXTENDS HealthMonitor, TLAPS

USE HealthAssumption, HealthThreads, SMTT(15), ZenonT(15)

-----------------------------------------------------------------------------
(* The inductive invariant.                                                *)

Labels ==
  {"idle", "compare", "lock", "tell", "setStopped", "join", "loop", "wait", "waiting"}

Types ==
  /\ m_observers \subseteq Clients /\ todo \subseteq Clients
  /\ m_status \in Levels
  /\ m_lock \in Threads \cup {NULL}
  /\ pc \in [Threads -> Labels]
  /\ newStatus \in [Threads -> Levels]
  /\ client \in [Clients -> {"none", "created", "subscribed", "unsubscribed"}]
  /\ told \in [Clients -> Levels \cup {NULL}]

\* Whoever is in the middle of a round holds m_lock, and nobody else does.
LockInv ==
  /\ \A p \in Threads : pc[p] = "tell" <=> m_lock = p
  /\ m_lock = NULL => todo = {}

\* m_observers is what the clients believe it to be.
ObserverInv ==
  /\ \A c \in Clients : c \in m_observers <=> client[c] = "subscribed"
  /\ \A c \in Clients : client[c] \in {"none", "created"} => told[c] = NULL
  /\ todo \subseteq m_observers

\* Halfway through a round, those that are done know the level to come.
ToldInv ==
  /\ ObserversAgree
  /\ \A p \in Threads : m_lock = p =>
       \A c \in m_observers \ todo : told[c] = newStatus[p]

\* Only a thread that has begun to monitor is in the middle of anything.
ThreadInv ==
  /\ thread \in [Monitors -> {"none", "started", "running", "ended"}]
  /\ \A m \in Monitors : thread[m] # "running" => pc[m] = "idle"

IInv == Types /\ LockInv /\ ObserverInv /\ ToldInv

LEMMA InitIInv == Init => IInv /\ ThreadInv
BY DEF Init, IInv, ThreadInv, Types, LockInv, ObserverInv, ToldInv, ObserversAgree, Threads, Labels

-----------------------------------------------------------------------------
(* The steps of a round of notifications.                                  *)

\* A step that leaves the observers, their levels and the round alone.
Aside ==
  /\ UNCHANGED <<m_observers, m_status, m_lock, todo, client, told>>
  /\ pc' \in [Threads -> Labels] /\ newStatus' \in [Threads -> Levels]
  /\ \A p \in Threads : pc'[p] = "tell" <=> pc[p] = "tell"
  /\ \A p \in Threads : pc[p] = "tell" => newStatus'[p] = newStatus[p]

LEMMA AsideKeepsIInv == IInv /\ Aside => IInv'
<1> SUFFICES ASSUME IInv, Aside PROVE IInv'
  OBVIOUS
<1>1. Types' /\ LockInv' /\ ObserverInv'
  BY DEF IInv, Aside, Types, LockInv, ObserverInv
<1>2. ObserversAgree'
  BY DEF IInv, ToldInv, ObserversAgree, Aside
<1>3. ASSUME NEW p \in Threads, m_lock' = p, NEW c \in m_observers' \ todo'
      PROVE  told'[c] = newStatus'[p]
  <2>1. m_lock = p /\ pc[p] = "tell" /\ c \in m_observers \ todo
    BY <1>3 DEF IInv, LockInv, Aside
  <2>2. told[c] = newStatus[p]
    BY <2>1 DEF IInv, ToldInv
  <2> QED
    BY <2>1, <2>2 DEF Aside
<1> QED
  BY <1>1, <1>2, <1>3 DEF IInv, ToldInv

LEMMA CompareKeepsIInv ==
  ASSUME IInv, NEW p \in Threads, CompareStatus(p) PROVE IInv'
<1>1. Aside
  BY DEF CompareStatus, Goto, Return, Aside, IInv, Types, Labels
<1> QED
  BY <1>1, AsideKeepsIInv

LEMMA LockKeepsIInv ==
  ASSUME IInv, NEW p \in Threads, LockObservers(p) PROVE IInv'
<1> USE DEF LockObservers, Goto
<1>1. p # NULL /\ m_lock = NULL /\ m_lock' = p
  OBVIOUS
<1>2. Types'
  BY DEF IInv, Types, Labels
<1>3. LockInv'
  BY <1>1 DEF IInv, Types, LockInv
<1>4. ObserverInv'
  BY DEF IInv, ObserverInv
<1>5. ToldInv'
  BY <1>1 DEF ToldInv, ObserversAgree
<1> QED
  BY <1>2, <1>3, <1>4, <1>5 DEF IInv

LEMMA TellKeepsIInv ==
  ASSUME IInv, NEW p \in Threads, TellObserver(p) PROVE IInv'
<1>1. PICK c \in todo : told' = [told EXCEPT ![c] = newStatus[p]] /\ todo' = todo \ {c}
  BY Zenon DEF TellObserver
<1>2. /\ m_lock = p /\ p # NULL /\ c \in m_observers /\ c \in Clients
      /\ client[c] = "subscribed"
  BY <1>1 DEF IInv, Types, LockInv, ObserverInv, TellObserver
<1>3. UNCHANGED <<m_observers, m_status, m_lock, pc, newStatus, client>>
  BY DEF TellObserver
<1>4. Types'
  BY <1>1, <1>3 DEF IInv, Types
<1>5. LockInv'
  BY <1>2, <1>3 DEF IInv, LockInv
<1>6. ObserverInv'
  BY <1>1, <1>2, <1>3 DEF IInv, Types, ObserverInv
<1>7. ToldInv'
  <2>1. ASSUME NEW d \in m_observers \ todo' PROVE told'[d] = newStatus[p]
    <3>1. CASE d = c
      BY <3>1, <1>1, <1>2 DEF IInv, Types
    <3>2. CASE d # c
      <4>1. d \in m_observers \ todo
        BY <3>2, <2>1, <1>1
      <4>2. told[d] = newStatus[p]
        BY <4>1, <1>2 DEF IInv, ToldInv
      <4> QED
        BY <4>2, <3>2, <1>1, <4>1 DEF IInv, Types
    <3> QED
      BY <3>1, <3>2
  <2> QED
    BY <2>1, <1>2, <1>3 DEF ToldInv, ObserversAgree
<1> QED
  BY <1>4, <1>5, <1>6, <1>7 DEF IInv

LEMMA SetStatusKeepsIInv ==
  ASSUME IInv, NEW p \in Threads, SetStatus(p) PROVE IInv'
<1> USE DEF SetStatus, Goto
<1>1. m_lock = p /\ m_lock' = NULL /\ p # NULL /\ todo = {} /\ todo' = {}
  BY DEF IInv, LockInv
<1>2. /\ newStatus' = [newStatus EXCEPT ![p] = Bold]
      /\ \E label \in Labels \ {"tell"} : pc' = [pc EXCEPT ![p] = label]
  <2>1. /\ newStatus' = [newStatus EXCEPT ![p] = Bold]
        /\ \/ pc' = [pc EXCEPT ![p] = "setStopped"]
           \/ pc' = [pc EXCEPT ![p] = "wait"]
    BY Zenon DEF Return
  <2> QED
    BY <2>1 DEF Labels
<1>3. Types'
  BY <1>2 DEF IInv, Types
<1>4. LockInv'
  BY <1>1, <1>2 DEF IInv, Types, LockInv
<1>5. ObserverInv'
  BY <1>1 DEF IInv, ObserverInv
<1>6. \A c \in m_observers : told[c] = newStatus[p]
  BY <1>1 DEF IInv, ToldInv
<1>7. ToldInv'
  BY <1>1, <1>6 DEF ToldInv, ObserversAgree
<1> QED
  BY <1>3, <1>4, <1>5, <1>7 DEF IInv

LEMMA NotifyObserversKeepsIInv ==
  ASSUME IInv, NEW p \in Threads, NotifyObservers(p) PROVE IInv'
BY CompareKeepsIInv, LockKeepsIInv, TellKeepsIInv, SetStatusKeepsIInv
   DEF NotifyObservers

-----------------------------------------------------------------------------
(* The server, the monitor thread and the clients.                         *)

LEMMA ServerKeepsIInv ==
  ASSUME IInv, Start \/ Stop \/ WaitForEnd \/ Server PROVE IInv'
<1> USE DEF Goto, Notify, Aside, Threads, Labels
<1>1. CASE Start
  <2>1. Aside
    BY <1>1 DEF Start, IInv, Types
  <2> QED
    BY <2>1, AsideKeepsIInv
<1>2. CASE Stop
  <2>1. Aside
    BY <1>2 DEF Stop, IInv, Types
  <2> QED
    BY <2>1, AsideKeepsIInv
<1>3. CASE WaitForEnd
  <2>1. Aside
    BY <1>3, Zenon DEF WaitForEnd, IInv, Types
  <2> QED
    BY <2>1, AsideKeepsIInv
<1>4. CASE SetStopped
  <2>1. Aside
    BY <1>4 DEF SetStopped, IInv, Types
  <2> QED
    BY <2>1, AsideKeepsIInv
<1>5. CASE Joined
  <2>1. Aside
    BY <1>5 DEF Joined, IInv, Types
  <2> QED
    BY <2>1, AsideKeepsIInv
<1> QED
  BY <1>1, <1>2, <1>3, <1>4, <1>5, NotifyObserversKeepsIInv DEF Server

LEMMA MonitorKeepsIInv ==
  ASSUME IInv, ThreadInv, NEW m \in Monitors, Monitor(m) PROVE IInv'
<1> USE DEF Goto, Notify, Aside, Threads, Labels
<1>1. CASE MonitorBegins(m)
  <2>1. Aside
    BY <1>1 DEF MonitorBegins, IInv, Types, ThreadInv
  <2> QED
    BY <2>1, AsideKeepsIInv
<1>2. CASE Evaluate(m)
  <2>1. Aside
    BY <1>2 DEF Evaluate, IInv, Types
  <2> QED
    BY <2>1, AsideKeepsIInv
<1>3. CASE MonitorWaits(m)
  <2>1. Aside
    BY <1>3 DEF MonitorWaits, IInv, Types
  <2> QED
    BY <2>1, AsideKeepsIInv
<1>4. CASE MonitorWakes(m)
  <2>1. Aside
    BY <1>4 DEF MonitorWakes, IInv, Types
  <2> QED
    BY <2>1, AsideKeepsIInv
<1>5. CASE MonitorEnds(m)
  <2>1. Aside
    BY <1>5 DEF MonitorEnds, IInv, Types
  <2> QED
    BY <2>1, AsideKeepsIInv
<1> QED
  BY <1>1, <1>2, <1>3, <1>4, <1>5, NotifyObserversKeepsIInv, Zenon DEF Monitor

LEMMA ClientKeepsIInv ==
  ASSUME IInv, NEW c \in Clients,
         Create(c) \/ Subscribe(c) \/ Unsubscribe(c) \/ Delete(c)
  PROVE  IInv'
<1>1. UNCHANGED <<m_status, m_lock, pc, newStatus, todo>>
  BY DEF Create, Subscribe, Unsubscribe, Delete
<1>2. Types'
  BY <1>1 DEF IInv, Types, Create, Subscribe, Unsubscribe, Delete
<1>3. LockInv'
  BY <1>1 DEF IInv, LockInv
<1>4. CASE Create(c) \/ Delete(c)
  <2>1. UNCHANGED m_observers /\ c \notin m_observers
    BY <1>4 DEF Create, Delete, IInv, ObserverInv
  <2>2. ObserverInv'
    BY <1>1, <1>4, <2>1 DEF Create, Delete, IInv, Types, ObserverInv
  <2>3. \A d \in m_observers : told'[d] = told[d]
    BY <1>4, <2>1 DEF Create, Delete, IInv, Types
  <2>4. ToldInv'
    BY <1>1, <2>1, <2>3 DEF IInv, ToldInv, ObserversAgree
  <2> QED
    BY <1>2, <1>3, <2>2, <2>4 DEF IInv
<1>5. CASE Subscribe(c) \/ Unsubscribe(c)
  <2>1. UNCHANGED told /\ m_lock = NULL /\ todo = {}
    BY <1>5 DEF Subscribe, Unsubscribe, IInv, LockInv
  <2>2. ObserverInv'
    BY <1>1, <1>5, <2>1 DEF Subscribe, Unsubscribe, IInv, Types, ObserverInv
  <2>3. ObserversAgree'
    BY <1>1, <1>5, <2>1
       DEF Subscribe, Unsubscribe, IInv, ObserverInv, ToldInv, ObserversAgree
  <2>4. ToldInv'
    BY <1>1, <2>1, <2>3 DEF ToldInv, Threads
  <2> QED
    BY <1>2, <1>3, <2>2, <2>4 DEF IInv
<1> QED
  BY <1>4, <1>5

LEMMA NextThreadInv == ASSUME IInv, ThreadInv, [Next]_vars PROVE ThreadInv'
<1> USE DEF ThreadInv, Goto, Threads
<1>1. CASE UNCHANGED vars
  BY <1>1 DEF vars, monitorVars
<1>2. CASE Start \/ Stop \/ WaitForEnd \/ SetStopped \/ Joined
  BY <1>2, Zenon DEF Start, Stop, WaitForEnd, SetStopped, Joined, Notify, monitorVars, IInv, Types
<1>3. ASSUME NEW p \in Threads, NotifyObservers(p) PROVE ThreadInv'
  BY <1>3 DEF NotifyObservers, CompareStatus, LockObservers, TellObserver, SetStatus,
              Return, monitorVars, IInv, Types
<1>4. ASSUME NEW m \in Monitors,
             \/ MonitorBegins(m) \/ Evaluate(m) \/ MonitorWaits(m)
             \/ MonitorWakes(m) \/ MonitorEnds(m)
      PROVE  ThreadInv'
  BY <1>4, Zenon DEF MonitorBegins, Evaluate, MonitorWaits, MonitorWakes, MonitorEnds, Notify,
              monitorVars, IInv, Types
<1>5. ASSUME NEW c \in Clients,
             Create(c) \/ Subscribe(c) \/ Unsubscribe(c) \/ Delete(c)
      PROVE  ThreadInv'
  BY <1>5 DEF Create, Subscribe, Unsubscribe, Delete, monitorVars
<1> QED
  BY <1>1, <1>2, <1>3, <1>4, <1>5, Zenon DEF Next, Server, Monitor

LEMMA NextIInv == ASSUME IInv, ThreadInv, [Next]_vars PROVE IInv'
<1>1. CASE UNCHANGED vars
  <2>1. Aside
    BY <1>1 DEF vars, Aside, IInv, Types
  <2> QED
    BY <2>1, AsideKeepsIInv
<1> QED
  BY <1>1, ServerKeepsIInv, MonitorKeepsIInv, ClientKeepsIInv DEF Next

\* The invariants hold in every state the monitor can reach.
THEOREM Inductive == Spec => [](IInv /\ ThreadInv)
<1>1. IInv /\ ThreadInv /\ [Next]_vars => IInv' /\ ThreadInv'
  BY NextIInv, NextThreadInv
<1> QED
  BY InitIInv, <1>1, PTL DEF Spec

-----------------------------------------------------------------------------
\* A round of notifications meets no observer that is gone, with any number
\* of clients: unsubscribe() waits for the end of the round.
THEOREM ObserversOutliveRounds == Spec => []NoDeadObserver
<1>1. IInv => NoDeadObserver
  BY DEF IInv, Types, ObserverInv, NoDeadObserver
<1> QED
  BY <1>1, Inductive, PTL

\* Between rounds every observer that was told anything knows m_status, for
\* any number of observers and levels.
THEOREM ObserversKnowStatus == Spec => []ObserversAgree
<1>1. IInv => ObserversAgree
  BY DEF IInv, ToldInv
<1> QED
  BY <1>1, Inductive, PTL
=============================================================================
