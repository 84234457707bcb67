--------------------------- MODULE HealthMonitor ---------------------------
(***************************************************************************)
(* runtime/server/host-health-monitor.{h,cpp}: a thread that evaluates the *)
(* health of the host from time to time and tells the observers when it    *)
(* has changed.  The server starts and stops it, and waits for its end at  *)
(* process exit; a start() after a stop() makes a new thread, whether the  *)
(* old one has ended or not.  Clients (PageletServer) create an observer,  *)
(* subscribe it, unsubscribe it and delete it, at any time.                *)
(*                                                                         *)
(* A monitor holds m_stopped_lock while it evaluates and notifies, and     *)
(* takes m_lock inside it.  Each access of state that is shared outside a  *)
(* lock is a step of its own, and so is each call of an observer.          *)
(***************************************************************************)
EXTENDS Integers

CONSTANTS
  Monitors,   \* bound: the threads that calls of start() may create
  Clients,    \* each owns one observer at a time
  Levels,     \* the health levels the metrics report
  Bold,       \* the best of them
  NULL

ASSUME HealthAssumption == Bold \in Levels /\ NULL \notin Levels

Threads == {"server"} \cup Monitors

ASSUME HealthThreads == NULL \notin Threads /\ "server" \notin Monitors

VARIABLES
  m_observers, m_status, m_stopped,
  m_lock, m_stopped_lock,  \* the thread that holds it, or NULL
  m_monitor_func,          \* the monitor it is for, or NULL
  thread,      \* of each monitor: none, started, running or ended
  pc,          \* of the server and the monitors
  exiting,     \* the server is in hphp_process_exit()
  newStatus,   \* the argument of their calls of notifyObservers()
  todo,        \* the observers that the holder of m_lock has not told yet
  client,      \* of each client: none, created, subscribed or unsubscribed
  told         \* what each observer was last told since it was created

monitorVars == <<m_stopped, m_stopped_lock, m_monitor_func, thread>>
vars == <<m_observers, m_status, monitorVars, m_lock, pc, exiting, newStatus,
          todo, client, told>>

Init ==
  /\ m_observers = {} /\ m_status = Bold /\ m_stopped = TRUE
  /\ m_lock = NULL /\ m_stopped_lock = NULL
  /\ m_monitor_func = NULL /\ thread = [m \in Monitors |-> "none"]
  /\ pc = [p \in Threads |-> "idle"]
  /\ exiting = FALSE
  /\ newStatus = [p \in Threads |-> Bold]
  /\ todo = {}
  /\ client = [c \in Clients |-> "none"]
  /\ told = [c \in Clients |-> NULL]

Goto(p, label) == pc' = [pc EXCEPT ![p] = label]

-----------------------------------------------------------------------------
(* notifyObservers(), called by stop() and by monitor().                   *)
Notify(p, status) ==
  /\ newStatus' = [newStatus EXCEPT ![p] = status]
  /\ Goto(p, "compare")

Return(p) ==
  /\ newStatus' = [newStatus EXCEPT ![p] = Bold]  \* out of scope
  /\ Goto(p, IF p = "server" THEN "setStopped" ELSE "wait")

(* Slip: the new status is stored when it is compared.                     *)
CompareStatus_Stores(p) ==
  /\ pc[p] = "compare"
  /\ IF newStatus[p] # m_status THEN Goto(p, "lock") /\ UNCHANGED newStatus ELSE Return(p)
  /\ m_status' = newStatus[p]
  /\ UNCHANGED <<m_observers, monitorVars, m_lock, todo, client, told, exiting>>

CompareStatus(p) ==
  /\ pc[p] = "compare"
  /\ IF newStatus[p] # m_status THEN Goto(p, "lock") /\ UNCHANGED newStatus ELSE Return(p)
  /\ UNCHANGED <<m_observers, m_status, monitorVars, m_lock, todo, client, told, exiting>>

LockObservers(p) ==
  /\ pc[p] = "lock" /\ m_lock = NULL
  /\ m_lock' = p
  /\ todo' = m_observers
  /\ Goto(p, "tell")
  /\ UNCHANGED <<m_observers, m_status, monitorVars, newStatus, client, told, exiting>>

TellObserver(p) ==
  /\ pc[p] = "tell"
  /\ \E c \in todo :
       /\ told' = [told EXCEPT ![c] = newStatus[p]]
       /\ todo' = todo \ {c}
  /\ UNCHANGED <<m_observers, m_status, monitorVars, m_lock, pc, newStatus, client, exiting>>

SetStatus(p) ==
  /\ pc[p] = "tell" /\ todo = {}
  /\ m_status' = newStatus[p]
  /\ m_lock' = NULL
  /\ Return(p)
  /\ UNCHANGED <<m_observers, monitorVars, todo, client, told, exiting>>

-----------------------------------------------------------------------------
(* The server.                                                             *)

(* start() asks for m_stopped alone, and replaces the AsyncFunc it finds.  *)
Start ==
  /\ pc["server"] = "idle" /\ ~exiting /\ m_stopped
  /\ \E m \in Monitors :
       /\ thread[m] = "none"
       /\ thread' = [thread EXCEPT ![m] = "started"]
       /\ m_monitor_func' = m
  /\ UNCHANGED <<m_observers, m_status, m_stopped, m_stopped_lock, m_lock, pc,
                 newStatus, todo, client, told, exiting>>

Stop ==
  /\ pc["server"] = "idle" /\ ~exiting
  /\ Notify("server", Bold)
  /\ UNCHANGED <<m_observers, m_status, monitorVars, m_lock, todo, client, told, exiting>>

SetStopped ==
  /\ pc["server"] = "setStopped" /\ m_stopped_lock = NULL
  /\ m_stopped' = TRUE
  /\ Goto("server", IF exiting THEN "join" ELSE "idle")
  /\ UNCHANGED <<m_observers, m_status, m_stopped_lock, m_monitor_func, thread,
                 m_lock, newStatus, todo, client, told, exiting>>

(* waitForEnd(), which the node of each start() runs at process exit: it   *)
(* stops the monitor first, unless m_stopped is set.                       *)
WaitForEnd ==
  /\ pc["server"] = "idle" /\ \E m \in Monitors : thread[m] # "none"
  /\ exiting' = TRUE
  /\ IF m_stopped THEN Goto("server", "join") /\ UNCHANGED newStatus
                  ELSE Notify("server", Bold)
  /\ UNCHANGED <<m_observers, m_status, monitorVars, m_lock, todo, client, told>>

(* It joins the thread of m_monitor_func and of no other.                  *)
Joined ==
  /\ pc["server"] = "join"
  /\ \A m \in Monitors : m_monitor_func = m => thread[m] = "ended"
  /\ m_monitor_func' = NULL
  /\ Goto("server", "idle")
  /\ UNCHANGED <<m_observers, m_status, m_stopped, m_stopped_lock, thread, m_lock,
                 newStatus, todo, client, told, exiting>>

-----------------------------------------------------------------------------
(* monitor(): the thread function, of the thread m.                        *)
MonitorBegins(m) ==
  /\ thread[m] = "started" /\ m_stopped_lock = NULL
  /\ thread' = [thread EXCEPT ![m] = "running"]
  /\ m_stopped_lock' = m /\ m_stopped' = FALSE
  /\ Goto(m, "loop")
  /\ UNCHANGED <<m_observers, m_status, m_monitor_func, m_lock, newStatus, todo,
                 client, told, exiting>>

(* evaluate() asks every metric under m_lock: any level may result.        *)
Evaluate(m) ==
  /\ pc[m] = "loop" /\ ~m_stopped /\ m_lock = NULL
  /\ \E level \in Levels : Notify(m, level)
  /\ UNCHANGED <<m_observers, m_status, monitorVars, m_lock, todo, client, told, exiting>>

MonitorWaits(m) ==
  /\ pc[m] = "wait"
  /\ m_stopped_lock' = NULL
  /\ Goto(m, "waiting")
  /\ UNCHANGED <<m_observers, m_status, m_stopped, m_monitor_func, thread, m_lock,
                 newStatus, todo, client, told, exiting>>

(* Slip: m_stopped is cleared in the loop.                                 *)
MonitorWakes_Clears(m) ==
  /\ pc[m] = "waiting" /\ m_stopped_lock = NULL
  /\ m_stopped_lock' = m
  /\ m_stopped' = FALSE
  /\ Goto(m, "loop")
  /\ UNCHANGED <<m_observers, m_status, m_monitor_func, thread, m_lock, newStatus,
                 todo, client, told, exiting>>

(* wait_for() returns: the time is over, or stop() has notified.           *)
MonitorWakes(m) ==
  /\ pc[m] = "waiting" /\ m_stopped_lock = NULL
  /\ m_stopped_lock' = m
  /\ Goto(m, "loop")
  /\ UNCHANGED <<m_observers, m_status, m_stopped, m_monitor_func, thread, m_lock,
                 newStatus, todo, client, told, exiting>>

MonitorEnds(m) ==
  /\ pc[m] = "loop" /\ m_stopped
  /\ m_stopped_lock' = NULL
  /\ thread' = [thread EXCEPT ![m] = "ended"]
  /\ Goto(m, "idle")
  /\ UNCHANGED <<m_observers, m_status, m_stopped, m_monitor_func, m_lock,
                 newStatus, todo, client, told, exiting>>

-----------------------------------------------------------------------------
(* PageletServer::Restart() and Stop().  Their calls of the dispatcher are *)
(* left to JobQueueDispatcher.                                             *)
Create(c) ==
  /\ client[c] = "none"
  /\ client' = [client EXCEPT ![c] = "created"]
  /\ UNCHANGED <<m_observers, m_status, monitorVars, m_lock, pc, newStatus, todo, told, exiting>>

Subscribe(c) ==
  /\ client[c] = "created" /\ m_lock = NULL
  /\ m_observers' = m_observers \cup {c}
  /\ client' = [client EXCEPT ![c] = "subscribed"]
  /\ UNCHANGED <<m_status, monitorVars, m_lock, pc, newStatus, todo, told, exiting>>

(* Slip: the observer is erased without m_lock.                            *)
Unsubscribe_NoLock(c) ==
  /\ client[c] = "subscribed"
  /\ m_observers' = m_observers \ {c}
  /\ client' = [client EXCEPT ![c] = "unsubscribed"]
  /\ UNCHANGED <<m_status, monitorVars, m_lock, pc, newStatus, todo, told, exiting>>

Unsubscribe(c) ==
  /\ client[c] = "subscribed" /\ m_lock = NULL
  /\ m_observers' = m_observers \ {c}
  /\ client' = [client EXCEPT ![c] = "unsubscribed"]
  /\ UNCHANGED <<m_status, monitorVars, m_lock, pc, newStatus, todo, told, exiting>>

Delete(c) ==
  /\ client[c] = "unsubscribed"
  /\ client' = [client EXCEPT ![c] = "none"]
  /\ told' = [told EXCEPT ![c] = NULL]
  /\ UNCHANGED <<m_observers, m_status, monitorVars, m_lock, pc, newStatus, todo, exiting>>

NotifyObservers(p) ==
  CompareStatus(p) \/ LockObservers(p) \/ TellObserver(p) \/ SetStatus(p)

Server == NotifyObservers("server") \/ SetStopped \/ Joined

Monitor(m) ==
  \/ MonitorBegins(m) \/ Evaluate(m) \/ NotifyObservers(m)
  \/ MonitorWaits(m) \/ MonitorWakes(m) \/ MonitorEnds(m)

Next ==
  \/ Start \/ Stop \/ WaitForEnd
  \/ Server
  \/ \E m \in Monitors : Monitor(m)
  \/ \E c \in Clients : Create(c) \/ Subscribe(c) \/ Unsubscribe(c) \/ Delete(c)

Spec == Init /\ [][Next]_vars

(* All threads go on; a mutex that is free again and again is obtained.    *)
FairSpec ==
  Spec /\ SF_vars(Server) /\ \A m \in Monitors : SF_vars(Monitor(m))

-----------------------------------------------------------------------------
(* An observer is told the health level only while it exists: it leaves    *)
(* m_observers before it is deleted, and not in the middle of a round of   *)
(* notifications.                                                          *)
NoDeadObserver == \A c \in todo : client[c] = "subscribed"

(* Between two rounds of notifications every observer that was told        *)
(* anything since it was created knows m_status, although stop() and the   *)
(* monitor both compare m_status before they take the lock.                *)
ObserversAgree ==
  m_lock = NULL => \A c \in m_observers : told[c] \in {NULL, m_status}

(* A stop ends every monitor that has begun, those an early start() has    *)
(* left behind too, of which notify_one() wakes one at most: unless a      *)
(* thread is started that has yet to clear m_stopped.                      *)
StopEndsMonitors ==
  LET Waiting == \E m \in Monitors : thread[m] = "started"
      Running == \E m \in Monitors : thread[m] = "running"
  IN (m_stopped /\ ~Waiting) ~> (Waiting \/ ~Running)

(* The comment in start(): "Make sure the thread is gone after             *)
(* hphp_process_exit()".  A server that waits for the end gets there.  A   *)
(* stop before monitor() begins is lost.                                   *)
ThreadIsGone == (pc["server"] = "join") ~> (m_monitor_func = NULL)

(* The assert of ~AsyncFuncImpl, which start() calls when it replaces      *)
(* m_monitor_func: the thread of an AsyncFunc ends before the AsyncFunc.   *)
ThreadOutlivedByFunc ==
  \A m \in Monitors : thread[m] \in {"started", "running"} => m_monitor_func = m

(* stop() tells the observers Bold; whoever was told is left with it when  *)
(* the monitor has ended.                                                  *)
StopLeavesBold ==
  pc["server"] = "join" /\ (\A m \in Monitors : thread[m] \in {"none", "ended"})
    => m_status = Bold

(* An observer knows the health level once it has subscribed.              *)
SubscriberKnowsStatus ==
  m_lock = NULL => \A c \in m_observers : told[c] = NULL => m_status = Bold
=============================================================================
