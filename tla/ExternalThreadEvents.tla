------------------------ MODULE ExternalThreadEvents ------------------------
(***************************************************************************)
(* hphp/runtime/ext/asio: external thread events.  A web request creates   *)
(* an event with its wait handle and gives it to a processing thread.  The *)
(* processing thread finishes it and sends the wait handle back through    *)
(* the request's AsioExternalThreadEventQueue, a lock-free list that also  *)
(* records that the request thread sleeps.  The request may cancel events, *)
(* and sweeps those that are left when it ends.  Whoever owns an event     *)
(* releases it.                                                            *)
(*                                                                         *)
(* The list that starts at an atomic pointer is a sequence of events; the  *)
(* pointer itself is Ptr of the sequence.                                  *)
(***************************************************************************)
EXTENDS Integers, Sequences

CONSTANTS
  Events,              \* each with its wait handle and its processing thread
  NULL, NoEvent,       \* model values
  CONSUMER_WAITING,    \* the pointer value 1
  Consumer,            \* the request thread, as an owner of m_queueMutex
  SweepTimesOut        \* TRUE: receiveSome() may reach its wake time

\* The pointers and the threads are told apart.
ASSUME EventsAssumption ==
  /\ {NULL, NoEvent, CONSUMER_WAITING, Consumer} \cap Events = {}
  /\ NULL # CONSUMER_WAITING
  /\ NULL # Consumer
  /\ SweepTimesOut \in BOOLEAN

VARIABLES
  m_queue,         \* list of sent wait handles, or K_CONSUMER_WAITING
  m_received,      \* list of received wait handles
  m_queueMutex,    \* NULL or Consumer; senders hold it within one step
  notified,        \* the request thread's condition wait was signalled
  m_state,         \* of each event
  whState,         \* of each event's wait handle
  sweepable,       \* events whose wait handle is registered for sweep
  releases,        \* how often each event has been released
  rpc,             \* where the request thread is
  target,          \* the event being created or swept, or NoEvent
  spc,             \* where each processing thread is
  next             \* send()'s local, per processing thread

queueVars == <<m_queue, m_received, m_queueMutex, notified>>
eventVars == <<m_state, whState, sweepable, releases>>
requestVars == <<rpc, target>>
senderVars == <<spc, next>>
vars == <<queueVars, eventVars, requestVars, senderVars>>

K_CONSUMER_WAITING == <<CONSUMER_WAITING>>
Ptr(list) == IF list = <<>> THEN NULL ELSE Head(list)
Elements(list) == {list[i] : i \in 1..Len(list)}

Init ==
  /\ m_queue = <<>> /\ m_received = <<>>
  /\ m_queueMutex = NULL
  /\ notified = FALSE
  /\ m_state = [e \in Events |-> "None"]
  /\ whState = [e \in Events |-> "none"]
  /\ sweepable = {}
  /\ releases = [e \in Events |-> 0]
  /\ rpc = "run" /\ target = NoEvent
  /\ spc = [e \in Events |-> "idle"]
  /\ next = [e \in Events |-> NULL]

\* release(), for each event of a set.
Release(es) ==
  releases' = [e \in Events |-> IF e \in es THEN releases[e] + 1 ELSE releases[e]]

\* destroyEvent(): the wait handle's event goes, and its place on the sweep list.
DestroyEvent(es) ==
  /\ Release(es)
  /\ sweepable' = sweepable \ es

\* The wait handle's abandon(), for each event of a set.
AbandonHandles(es) ==
  /\ whState' = [e \in Events |-> IF e \in es THEN "gone" ELSE whState[e]]
  /\ DestroyEvent(es)

-----------------------------------------------------------------------------
(* The request thread: events.                                             *)

\* The wait handle's initialize().
Initialize(e) ==
  /\ whState' = [whState EXCEPT ![e] = "waiting"]
  /\ sweepable' = sweepable \cup {e}

\* AsioExternalThreadEvent's constructor.
Create(e) ==
  /\ rpc = "run" /\ m_state[e] = "None"
  /\ m_state' = [m_state EXCEPT ![e] = "Waiting"]
  /\ Initialize(e)
  /\ rpc' = "created" /\ target' = e
  /\ UNCHANGED <<queueVars, releases, senderVars>>

\* The extension gives the event to a processing thread.
Schedule ==
  /\ rpc = "created"
  /\ spc' = [spc EXCEPT ![target] = "working"]
  /\ rpc' = "run" /\ target' = NoEvent
  /\ UNCHANGED <<queueVars, eventVars, next>>

\* The event's abandon(): the extension could not give it away.
Abandon ==
  /\ rpc = "created"
  /\ m_state' = [m_state EXCEPT ![target] = "Abandoned"]
  /\ AbandonHandles({target})
  /\ rpc' = "run" /\ target' = NoEvent
  /\ UNCHANGED <<queueVars, senderVars>>

\* The event's cancel() returns true: it has won against markAsFinished().
EventCancel(e) ==
  /\ m_state[e] = "Waiting"
  /\ m_state' = [m_state EXCEPT ![e] = "Canceled"]

\* The wait handle's cancel(exception), by the program.
Cancel(e) ==
  /\ rpc = "run" /\ whState[e] = "waiting"
  /\ EventCancel(e)
  /\ whState' = [whState EXCEPT ![e] = "failed"]
  /\ sweepable' = sweepable \ {e}
  /\ UNCHANGED <<queueVars, releases, requestVars, senderVars>>

\* process(): the result is unserialized, which may fail with a PHP or a C++
\* exception, and the event is destroyed.
ProcessHandle(e) ==
  /\ \E outcome \in {"succeeded", "failed"} :
       whState' = [whState EXCEPT ![e] = outcome]
  /\ DestroyEvent({e})

\* Slip: a C++ exception leaves the wait handle linked.
ProcessAllReceived_LateUnlink ==
  /\ rpc = "run" /\ m_received # <<>>
  /\ ProcessHandle(Head(m_received))
  /\ m_received' \in {m_received, Tail(m_received)}
  /\ UNCHANGED <<m_queue, m_queueMutex, notified, m_state, requestVars, senderVars>>

\* One turn of processAllReceived().  The PHP callbacks of process() may do
\* anything the program can, and may run the rest of the list themselves; what
\* a C++ exception leaves in m_received is processed later.
ProcessAllReceived ==
  /\ rpc = "run" /\ m_received # <<>>
  /\ ProcessHandle(Head(m_received))
  /\ m_received' = Tail(m_received)
  /\ UNCHANGED <<m_queue, m_queueMutex, notified, m_state, requestVars, senderVars>>

-----------------------------------------------------------------------------
(* The request thread: receiving.                                          *)

\* What the thread goes on with when the receive calls return.
Resume == IF target = NoEvent THEN "run" ELSE "abandoning"

\* m_received = m_queue.exchange(nullptr).
Exchange ==
  /\ m_received' = m_queue
  /\ m_queue' = <<>>

\* tryReceiveSome(), from runUntil.
TryReceiveSome ==
  /\ rpc = "run" /\ m_received = <<>>
  /\ Exchange
  /\ UNCHANGED <<m_queueMutex, notified, eventVars, requestVars, senderVars>>

\* receiveSomeUntil(), without the lock: from runUntil while events are
\* pending, or from receiveSome().
ReceiveSomeUntil ==
  /\ m_received = <<>>
  /\ \/ rpc = "run" /\ \E e \in Events : whState[e] = "waiting"
     \/ rpc = "abandoning"
  /\ Exchange
  /\ rpc' = IF m_queue = <<>> THEN "locking" ELSE Resume
  /\ UNCHANGED <<m_queueMutex, notified, eventVars, target, senderVars>>

\* The lock, and the transition from empty to WAITING.
StartWaiting ==
  /\ rpc = "locking" /\ m_queueMutex = NULL
  /\ m_queueMutex' = Consumer
  /\ IF Ptr(m_queue) = NULL
     THEN m_queue' = K_CONSUMER_WAITING /\ rpc' = "waitEnter"
     ELSE m_queue' = m_queue /\ rpc' = "taking"
  /\ UNCHANGED <<m_received, notified, eventVars, target, senderVars>>

\* wait_until() starts, and releases the lock.
WaitUntil ==
  /\ rpc = "waitEnter"
  /\ rpc' = "waiting" /\ m_queueMutex' = NULL /\ notified' = FALSE
  /\ UNCHANGED <<m_queue, m_received, eventVars, target, senderVars>>

\* Slip: any wake-up is taken for a send.
Awake_NoLoop ==
  /\ m_queueMutex' = Consumer
  /\ rpc' = "taking"
  /\ UNCHANGED <<m_queue, m_received, notified, eventVars, target, senderVars>>

\* wait_until() returns with the lock, and the loop condition is tested.
Awake ==
  /\ m_queueMutex' = Consumer
  /\ rpc' = IF m_queue = K_CONSUMER_WAITING THEN "waitEnter" ELSE "taking"
  /\ UNCHANGED <<m_queue, m_received, notified, eventVars, target, senderVars>>

WakeUp ==
  /\ rpc = "waiting" /\ notified /\ m_queueMutex = NULL
  /\ Awake

SpuriousWakeUp ==
  /\ rpc = "waiting" /\ ~notified /\ m_queueMutex = NULL
  /\ Awake

\* Slip: a timed-out receive returns without looking at the queue.
Timeout_Drops ==
  /\ rpc = "waiting" /\ m_queueMutex = NULL
  /\ target # NoEvent => SweepTimesOut
  /\ m_queue' = <<>> /\ m_received' = <<>>
  /\ rpc' = IF target = NoEvent THEN "run" ELSE "nothingReceived"
  /\ UNCHANGED <<m_queueMutex, notified, eventVars, target, senderVars>>

\* The wake time is reached: events sent meanwhile are received all the same.
Timeout ==
  /\ rpc = "waiting" /\ m_queueMutex = NULL
  /\ target # NoEvent => SweepTimesOut
  /\ m_queue' = <<>>
  /\ IF m_queue = K_CONSUMER_WAITING
     THEN /\ m_received' = <<>>
          /\ rpc' = IF target = NoEvent THEN "run" ELSE "nothingReceived"
     ELSE m_received' = m_queue /\ rpc' = Resume
  /\ UNCHANGED <<m_queueMutex, notified, eventVars, target, senderVars>>

\* The exchange at the end, and the return.
Take ==
  /\ rpc = "taking"
  /\ Exchange
  /\ m_queueMutex' = NULL
  /\ rpc' = Resume
  /\ UNCHANGED <<notified, eventVars, target, senderVars>>

-----------------------------------------------------------------------------
(* The request thread: the end of the request.                             *)

\* The heap is swept, possibly with received events unprocessed.
Die ==
  /\ rpc = "run"
  /\ rpc' = "sweeping"
  /\ UNCHANGED <<queueVars, eventVars, target, senderVars>>

\* Slip: a finished event is left to its processing thread.
Sweep_NoWait(e) ==
  /\ rpc = "sweeping" /\ e \in sweepable
  /\ sweepable' = sweepable \ {e}
  /\ m_state' = [m_state EXCEPT ![e] = IF @ = "Waiting" THEN "Canceled" ELSE @]
  /\ whState' = [whState EXCEPT ![e] = "gone"]
  /\ UNCHANGED <<queueVars, releases, requestVars, senderVars>>

\* sweep() of a wait handle, which SweepAll has taken off its list: cancel the
\* event, or else wait for it.
Sweep(e) ==
  /\ rpc = "sweeping" /\ e \in sweepable
  /\ sweepable' = sweepable \ {e}
  /\ \/ /\ EventCancel(e)
        /\ whState' = [whState EXCEPT ![e] = "gone"]
        /\ UNCHANGED requestVars
     \/ /\ m_state[e] # "Waiting"
        /\ rpc' = "abandoning" /\ target' = e
        /\ UNCHANGED <<m_state, whState>>
  /\ UNCHANGED <<queueVars, releases, senderVars>>

\* abandonAllReceived(target): abandon(true) for each.
AbandonAllReceived ==
  LET es == Elements(m_received)
  IN /\ rpc = "abandoning" /\ m_received # <<>>
     /\ AbandonHandles(es)
     /\ m_received' = <<>>
     /\ IF target \in es
        THEN rpc' = "sweeping" /\ target' = NoEvent
        ELSE UNCHANGED requestVars
     /\ UNCHANGED <<m_queue, m_queueMutex, notified, m_state, senderVars>>

\* Everything is swept: the request's heap, and the queue in it, are gone.
EndRequest ==
  /\ rpc = "sweeping" /\ sweepable = {}
  /\ rpc' = "ended"
  /\ UNCHANGED <<queueVars, eventVars, target, senderVars>>

-----------------------------------------------------------------------------
(* The processing threads.                                                 *)

\* markAsFinished(): the event is sent, or released if it was canceled.
MarkAsFinished(e) ==
  /\ spc[e] = "working"
  /\ IF m_state[e] = "Waiting"
     THEN /\ m_state' = [m_state EXCEPT ![e] = "Finished"]
          /\ spc' = [spc EXCEPT ![e] = "send"]
          /\ UNCHANGED releases
     ELSE /\ Release({e})
          /\ spc' = [spc EXCEPT ![e] = "done"]
          /\ UNCHANGED m_state
  /\ UNCHANGED <<queueVars, whState, sweepable, requestVars, next>>

\* send(): next = m_queue.load().
SendLoad(e) ==
  /\ spc[e] = "send"
  /\ next' = [next EXCEPT ![e] = Ptr(m_queue)]
  /\ spc' = [spc EXCEPT ![e] = "cas"]
  /\ UNCHANGED <<queueVars, eventVars, requestVars>>

\* setNextToProcess() and the compare-and-exchange.  When this fails, next is
\* what it has seen; a spurious failure of the weak form changes nothing.
SendCas(e) ==
  /\ spc[e] = "cas"
  /\ IF Ptr(m_queue) # next[e]
     THEN /\ next' = [next EXCEPT ![e] = Ptr(m_queue)]
          /\ UNCHANGED <<m_queue, spc>>
     ELSE /\ IF next[e] = CONSUMER_WAITING
             THEN m_queue' = <<e>> /\ spc' = [spc EXCEPT ![e] = "notify"]
             ELSE m_queue' = <<e>> \o m_queue /\ spc' = [spc EXCEPT ![e] = "done"]
          /\ UNCHANGED next
  /\ UNCHANGED <<m_received, m_queueMutex, notified, eventVars, requestVars>>

\* Slip: the condition is notified without the lock.
SendNotify_NoLock(e) ==
  /\ spc[e] = "notify"
  /\ notified' = (notified \/ rpc = "waiting")
  /\ spc' = [spc EXCEPT ![e] = "done"]
  /\ UNCHANGED <<m_queue, m_received, m_queueMutex, eventVars, requestVars, next>>

\* notify_one() under the lock: it reaches the request thread if that waits.
SendNotify(e) ==
  /\ spc[e] = "notify" /\ m_queueMutex = NULL
  /\ notified' = (notified \/ rpc = "waiting")
  /\ spc' = [spc EXCEPT ![e] = "done"]
  /\ UNCHANGED <<m_queue, m_received, m_queueMutex, eventVars, requestVars, next>>

-----------------------------------------------------------------------------
ReceiveStep == \/ TryReceiveSome \/ ReceiveSomeUntil \/ StartWaiting
               \/ WaitUntil \/ WakeUp \/ SpuriousWakeUp \/ Timeout \/ Take

SendStep(e) == SendLoad(e) \/ SendCas(e) \/ SendNotify(e)

Next ==
  \/ Schedule \/ Abandon \/ ProcessAllReceived
  \/ ReceiveStep
  \/ Die \/ AbandonAllReceived \/ EndRequest
  \/ \E e \in Events :
       Create(e) \/ Cancel(e) \/ Sweep(e) \/ MarkAsFinished(e) \/ SendStep(e)

Spec == Init /\ [][Next]_vars

-----------------------------------------------------------------------------
(* Properties.                                                             *)

EventStates == {"None", "Waiting", "Finished", "Canceled", "Abandoned"}
HandleStates == {"none", "waiting", "succeeded", "failed", "gone"}
RequestPlaces == {"run", "created", "locking", "waitEnter", "waiting", "taking",
                  "sweeping", "abandoning", "nothingReceived", "ended"}
SenderPlaces == {"idle", "working", "send", "cas", "notify", "done"}

\* Every variable has its type.
TypeOK ==
  /\ m_queue \in Seq(Events) \cup {K_CONSUMER_WAITING}
  /\ m_received \in Seq(Events)
  /\ m_queueMutex \in {NULL, Consumer}
  /\ notified \in BOOLEAN
  /\ m_state \in [Events -> EventStates]
  /\ whState \in [Events -> HandleStates]
  /\ sweepable \in SUBSET Events
  /\ releases \in [Events -> Nat]
  /\ rpc \in RequestPlaces
  /\ target \in Events \cup {NoEvent}
  /\ spc \in [Events -> SenderPlaces]
  /\ next \in [Events -> Events \cup {NULL, CONSUMER_WAITING}]

\* An event is released at most once, and not while its processing thread or
\* one of the lists still leads to it: the ownership that state_t documents.
ReleasedOnce ==
  \A e \in Events :
    /\ releases[e] <= 1
    /\ releases[e] = 1 =>
         /\ spc[e] \notin {"working", "send", "cas"}
         /\ e \notin Elements(m_queue) \cup Elements(m_received)
         /\ whState[e] # "waiting"

\* The asserts of the queue and of the event: of cancel() and markAsFinished()
\* on the state they find, of the receive calls on what they take off m_queue,
\* and of setNextToProcess() and getNextToProcess() on the wait handle.  Not
\* that a wait of the sweep receives something, assert(received) and with it
\* assert(m_received) of abandonAllReceived(): ReceiveSomeReceives is about it.
AssertsHold ==
  /\ \A e \in Events :
       /\ spc[e] = "working" => m_state[e] \in {"Waiting", "Canceled"}
       /\ e \in sweepable => m_state[e] \in {"Waiting", "Finished"}
       /\ e \in sweepable \cup Elements(m_received) \/ spc[e] \in {"send", "cas"}
            => whState[e] = "waiting"
  /\ rpc \in {"run", "locking", "abandoning"} => m_queue # K_CONSUMER_WAITING
  /\ rpc \in {"waitEnter", "waiting"} => m_queue # <<>>
  /\ rpc = "taking" => m_queue \notin {<<>>, K_CONSUMER_WAITING}

\* No lost wake-up: if something was sent to a request thread that waits, it
\* has been notified or a sender is about to notify it.
NoLostWakeUp ==
  rpc = "waiting" /\ m_queue # K_CONSUMER_WAITING =>
    notified \/ \E e \in Events : spc[e] = "notify"

\* No event is dropped: one that is finished and not yet released is being
\* sent, or is in exactly one of the lists, exactly once.
FinishedIsKept ==
  \A e \in Events :
    LET places == {<<"q", i>> : i \in {j \in 1..Len(m_queue) : m_queue[j] = e}}
             \cup {<<"r", i>> : i \in {j \in 1..Len(m_received) : m_received[j] = e}}
    IN m_state[e] = "Finished" /\ releases[e] = 0 =>
         IF spc[e] \in {"send", "cas"} THEN places = {}
         ELSE \E p \in places : places = {p}

\* asio-external-thread-event-queue.cpp of receiveSome(): "Receive at least one
\* finished event."  It and abandonAllReceived(), which follows, assert it.  This
\* does not hold when a sender is held up until the wait has timed out.
ReceiveSomeReceives == rpc # "nothingReceived"

\* asio-external-thread-event.h: "never store pointers to any data owned by PHP
\* as the PHP thread may die at any time"; send() uses the request's queue.
QueueOutlivesSend ==
  rpc = "ended" => \A e \in Events : spc[e] \notin {"send", "cas", "notify"}

\* The request ends some day (its timeout sees to it) and goes through with
\* its sweep; processing threads eventually finish their events, as
\* asio-external-thread-event.h demands, and are scheduled.
FairSpec ==
  /\ Spec
  /\ WF_vars(Schedule) /\ SF_vars(Die) /\ WF_vars(EndRequest)
  /\ WF_vars(AbandonAllReceived)
  /\ WF_vars(rpc = "abandoning" /\ ReceiveSomeUntil)
  /\ WF_vars(StartWaiting) /\ WF_vars(WaitUntil) /\ WF_vars(WakeUp) /\ WF_vars(Take)
  /\ \A e \in Events : /\ WF_vars(Sweep(e))
                       /\ WF_vars(MarkAsFinished(e))
                       /\ WF_vars(SendStep(e))

\* A request thread that waits while something has been sent wakes up, even if
\* its wake time is never reached.
WaitEnds ==
  (rpc = "waiting" /\ m_queue # K_CONSUMER_WAITING) ~> (rpc # "waiting")

\* No event leaks, whichever of the request and the processing thread is first,
\* unless the sweep gives up: its wait for the event reaches its wake time.
EventsAreReleased ==
  \A e \in Events :
    (m_state[e] # "None") ~> (releases[e] = 1 \/ rpc = "nothingReceived")
=============================================================================
