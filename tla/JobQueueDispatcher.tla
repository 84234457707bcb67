------------------------- MODULE JobQueueDispatcher -------------------------
(***************************************************************************)
(* hphp/util/job-queue.h: JobQueueDispatcher, which owns a JobQueue and    *)
(* creates and joins the threads that work on it.  One thread, the owner,  *)
(* starts the dispatcher, may wait until it is empty, and stops it; others *)
(* enqueue jobs, raise the limit on workers and change the health level.   *)
(* Workers count themselves while they are active (CountActive).           *)
(***************************************************************************)
EXTENDS JobQueue

CONSTANTS
  InitThreadCount,        \* initThreadCount, already within its bounds
  QueueToWorkerRatio,
  WorkersToAdd            \* the arguments addWorkers() is called with

ASSUME DispatcherAssumption ==
  /\ InitThreadCount \in 0..MaxThreadCount
  /\ QueueToWorkerRatio \in Nat \ {0}
  /\ WorkersToAdd \subseteq Nat

ASSUME DispatcherNull == NULL \notin Threads /\ NULL \notin {"addWorkers", "start"}

VARIABLES
  dispatcherStopped,      \* the dispatcher's own m_stopped
  m_workers,              \* how many workers there are: 0 .. m_workers - 1
  m_funcs,                \* the threads stop() has yet to join
  m_reaperFunc,           \* the reaper is one of them
  m_currThreadCountLimit,
  m_mutex,                \* NULL or who holds it between steps
  epc, target,            \* per job: where its enqueue() is, and its target
  opc, ownerTarget,       \* where the owner is, and the target of its start()
  joining,                \* the thread stop() waits for, or NULL
  newStatus,              \* of the notifyNewStatus() in progress, or NULL
  enqueuedBefore          \* jobs whose enqueue() returned before stop() began

poolVars == <<m_workers, m_funcs, m_reaperFunc, m_currThreadCountLimit>>
ownerVars == <<dispatcherStopped, opc, ownerTarget, joining, enqueuedBefore>>
producerVars == <<epc, target>>
dispatcherVars == <<poolVars, ownerVars, producerVars, m_mutex, newStatus>>
dvars == <<vars, dispatcherVars>>

DInit ==
  /\ Init
  /\ dispatcherStopped = TRUE
  /\ m_workers = 0 /\ m_funcs = {} /\ m_reaperFunc = FALSE
  /\ m_currThreadCountLimit = InitThreadCount
  /\ m_mutex = NULL
  /\ epc = [j \in Jobs |-> "idle"]
  /\ target = [j \in Jobs |-> 0]
  /\ opc = "new" /\ ownerTarget = 0
  /\ joining = NULL
  /\ newStatus = NULL
  /\ enqueuedBefore = {}

-----------------------------------------------------------------------------
(* The pool of workers.                                                    *)

\* Mutant: always rounds down.
TargetNumWorkers_RoundsDown(active) ==
  LET wanted == active + m_jobCount \div QueueToWorkerRatio
  IN  IF wanted > m_currThreadCountLimit THEN m_currThreadCountLimit ELSE wanted

\* getTargetNumWorkers(), given the number of active workers it read first.
TargetNumWorkers(active) ==
  LET r == QueueToWorkerRatio
      wanted == active + (IF active = 0 THEN (m_jobCount + r - 1) \div r
                                        ELSE m_jobCount \div r)
  IN  IF wanted > m_currThreadCountLimit THEN m_currThreadCountLimit ELSE wanted

\* addWorkerImpl(): the new worker has the next id.
AddWorkerImpl(start) ==
  \/ /\ m_workers >= MaxThreadCount
     /\ UNCHANGED <<m_workers, m_funcs, vars>>
  \/ /\ m_workers < MaxThreadCount
     /\ m_workers' = m_workers + 1
     /\ m_funcs' = m_funcs \cup {m_workers}
     /\ IF start THEN StartThread(m_workers) ELSE UNCHANGED vars

-----------------------------------------------------------------------------
(* enqueue(): the queue's, then a worker more if there are too few.  The   *)
(* numbers it compares are read one by one, without m_mutex.               *)

EnqueueJob(j) ==
  /\ epc[j] = "idle"
  /\ Enqueue(j)
  /\ epc' = [epc EXCEPT ![j] = "active"]
  /\ UNCHANGED <<poolVars, ownerVars, target, m_mutex, newStatus>>

ReadActive(j) ==
  /\ epc[j] = "active"
  /\ target' = [target EXCEPT ![j] = m_workerCount]
  /\ epc' = [epc EXCEPT ![j] = "queued"]
  /\ UNCHANGED <<vars, poolVars, ownerVars, m_mutex, newStatus>>

ReadQueued(j) ==
  /\ epc[j] = "queued"
  /\ target' = [target EXCEPT ![j] = TargetNumWorkers(@)]
  /\ epc' = [epc EXCEPT ![j] = "size"]
  /\ UNCHANGED <<vars, poolVars, ownerVars, m_mutex, newStatus>>

ReadSize(j) ==
  /\ epc[j] = "size"
  /\ epc' = [epc EXCEPT ![j] = IF m_workers < target[j] THEN "add" ELSE "returned"]
  /\ target' = [target EXCEPT ![j] = 0]
  /\ UNCHANGED <<vars, poolVars, ownerVars, m_mutex, newStatus>>

\* Mutant: m_stopped is not tested.
AddWorker_NoStopTest(j) ==
  /\ epc[j] = "add" /\ m_mutex = NULL
  /\ AddWorkerImpl(TRUE)
  /\ epc' = [epc EXCEPT ![j] = "returned"]
  /\ UNCHANGED <<m_reaperFunc, m_currThreadCountLimit, ownerVars, target, m_mutex, newStatus>>

AddWorker(j) ==
  /\ epc[j] = "add" /\ m_mutex = NULL
  /\ IF dispatcherStopped THEN UNCHANGED <<m_workers, m_funcs, vars>>
                          ELSE AddWorkerImpl(TRUE)
  /\ epc' = [epc EXCEPT ![j] = "returned"]
  /\ UNCHANGED <<m_reaperFunc, m_currThreadCountLimit, ownerVars, target, m_mutex, newStatus>>

-----------------------------------------------------------------------------
(* addWorkers(): raises the limit, then adds workers under m_mutex.        *)

AddWorkers(n) ==
  /\ m_mutex = NULL /\ ~dispatcherStopped
  /\ LET limit == MaxThreadCount - m_currThreadCountLimit
     IN  m_currThreadCountLimit' = m_currThreadCountLimit + (IF n > limit THEN limit ELSE n)
  /\ m_mutex' = "addWorkers"
  /\ UNCHANGED <<vars, m_workers, m_funcs, m_reaperFunc, ownerVars, producerVars, newStatus>>

AddWorkersLoop ==
  /\ m_mutex = "addWorkers"
  /\ \/ /\ m_workers < TargetNumWorkers(m_workerCount)
        /\ AddWorkerImpl(TRUE)
        /\ UNCHANGED m_mutex
     \/ /\ m_workers >= TargetNumWorkers(m_workerCount)
        /\ m_mutex' = NULL
        /\ UNCHANGED <<vars, m_workers, m_funcs>>
  /\ UNCHANGED <<m_reaperFunc, m_currThreadCountLimit, ownerVars, producerVars, newStatus>>

-----------------------------------------------------------------------------
(* The owner: start(), all of it under m_mutex.                            *)

\* Mutant: start() makes no worker for the jobs that wait.
Start_NoneQueued ==
  /\ opc = "new" /\ m_mutex = NULL
  /\ m_mutex' = "start"
  /\ ownerTarget' = m_workerCount
  /\ opc' = "starting"
  /\ UNCHANGED <<vars, poolVars, producerVars, dispatcherStopped, joining, newStatus, enqueuedBefore>>

Start ==
  /\ opc = "new" /\ m_mutex = NULL
  /\ m_mutex' = "start"
  /\ ownerTarget' = TargetNumWorkers(m_workerCount)
  /\ opc' = "starting"
  /\ UNCHANGED <<vars, poolVars, producerVars, dispatcherStopped, joining, newStatus, enqueuedBefore>>

StartAdd ==
  /\ opc = "starting" /\ m_workers < ownerTarget
  /\ AddWorkerImpl(FALSE)
  /\ UNCHANGED <<m_reaperFunc, m_currThreadCountLimit, ownerVars, producerVars, m_mutex, newStatus>>

StartFunc(t) ==
  /\ opc = "starting" /\ m_workers >= ownerTarget
  /\ t \in m_funcs
  /\ StartThread(t)
  /\ UNCHANGED <<poolVars, ownerVars, producerVars, m_mutex, newStatus>>

\* m_stopped is cleared and the reaper added once all workers run.
StartReaper ==
  /\ opc = "starting" /\ m_workers >= ownerTarget
  /\ \A t \in m_funcs : pc[t] # "none"
  /\ IF MaxJobQueuing > 0 THEN StartThread(m_jobReaperId) ELSE UNCHANGED vars
  /\ m_reaperFunc' = (MaxJobQueuing > 0)
  /\ dispatcherStopped' = FALSE
  /\ opc' = "running" /\ ownerTarget' = 0
  /\ m_mutex' = NULL
  /\ UNCHANGED <<m_workers, m_funcs, m_currThreadCountLimit, producerVars, joining, newStatus, enqueuedBefore>>

-----------------------------------------------------------------------------
(* The owner: waitEmpty(), which stops the dispatcher after it, and stop().*)

\* m_stopped is written without m_mutex, before the queue is stopped.
BeginStop ==
  /\ dispatcherStopped' = TRUE
  /\ opc' = "stopQueue"
  /\ enqueuedBefore' = {j \in Jobs : epc[j] = "returned"}

WaitUntilEmpty ==
  /\ opc = "running"
  /\ WaitEmpty
  /\ opc' = "empty"
  /\ UNCHANGED <<poolVars, producerVars, m_mutex, dispatcherStopped, ownerTarget, joining,
                 newStatus, enqueuedBefore>>

StopAfterEmpty ==
  /\ opc = "empty" /\ waiter = "idle"
  /\ BeginStop
  /\ UNCHANGED <<vars, poolVars, producerVars, m_mutex, ownerTarget, joining, newStatus>>

StopDispatcher ==
  /\ opc = "running"
  /\ BeginStop
  /\ UNCHANGED <<vars, poolVars, producerVars, m_mutex, ownerTarget, joining, newStatus>>

StopQueue ==
  /\ opc = "stopQueue"
  /\ Stop
  /\ opc' = "join"
  /\ UNCHANGED <<poolVars, producerVars, m_mutex, dispatcherStopped, ownerTarget, joining,
                 newStatus, enqueuedBefore>>

\* The next function to wait for: any of m_funcs, ordered by address, then
\* the reaper's; with none left stop() returns.
PickFunc ==
  /\ opc = "join" /\ joining = NULL /\ m_mutex = NULL
  /\ \/ \E t \in m_funcs :
          /\ joining' = t /\ m_funcs' = m_funcs \ {t}
          /\ UNCHANGED <<m_reaperFunc, opc>>
     \/ /\ m_funcs = {} /\ m_reaperFunc
        /\ joining' = m_jobReaperId /\ m_reaperFunc' = FALSE
        /\ UNCHANGED <<m_funcs, opc>>
     \/ /\ m_funcs = {} /\ ~m_reaperFunc
        /\ opc' = "stopped"
        /\ UNCHANGED <<m_funcs, m_reaperFunc, joining>>
  /\ UNCHANGED <<vars, m_workers, m_currThreadCountLimit, producerVars, m_mutex,
                 dispatcherStopped, ownerTarget, newStatus, enqueuedBefore>>

\* waitForEnd(): the thread has left its function.
WaitForEnd ==
  /\ joining # NULL
  /\ pc[joining] = "ended"
  /\ joining' = NULL
  /\ UNCHANGED <<vars, poolVars, producerVars, m_mutex, dispatcherStopped, opc, ownerTarget,
                 newStatus, enqueuedBefore>>

-----------------------------------------------------------------------------
(* notifyNewStatus(): the queued jobs are released before the new level is *)
(* stored.                                                                 *)

NotifyNewStatus(level) ==
  /\ newStatus = NULL /\ level # m_healthStatus
  /\ newStatus' = level
  /\ \/ level = "BackOff" /\ UNCHANGED vars
     \/ level # "BackOff" /\ ReleaseQueuedJobs
     \/ level # "BackOff" /\ ReleaseRate <= 0 /\ UNCHANGED vars
  /\ UNCHANGED <<poolVars, ownerVars, producerVars, m_mutex>>

StoreStatus ==
  /\ newStatus # NULL
  /\ SetHealth(newStatus)
  /\ newStatus' = NULL
  /\ UNCHANGED <<poolVars, ownerVars, producerVars, m_mutex>>

-----------------------------------------------------------------------------

\* The queue's own threads and callers, and the clock.
ThreadStep(t) == Step(t) /\ UNCHANGED dispatcherVars

ThreadUnprompted(t) == Unprompted(t) /\ UNCHANGED dispatcherVars

WaiterWake == WaitEmptyWake /\ UNCHANGED dispatcherVars

WaiterSpuriousWake == WaitEmptySpuriousWake /\ UNCHANGED dispatcherVars

ReadEnqueueTime(j) == ReadTime(j) /\ UNCHANGED dispatcherVars

ClockTick == Tick /\ UNCHANGED dispatcherVars

\* The rest of an enqueue() that has begun.
Producer(j) ==
  ReadActive(j) \/ ReadQueued(j) \/ ReadSize(j) \/ AddWorker(j)

\* The rest of the owner's call.
Owner ==
  \/ StartAdd \/ (\E t \in Workers : StartFunc(t)) \/ StartReaper
  \/ StopAfterEmpty \/ StopQueue \/ PickFunc \/ WaitForEnd

DNext ==
  \/ \E t \in Threads : ThreadStep(t) \/ ThreadUnprompted(t)
  \/ WaiterWake \/ WaiterSpuriousWake \/ ClockTick
  \/ \E j \in Jobs : ReadEnqueueTime(j) \/ EnqueueJob(j) \/ Producer(j)
  \/ \E n \in WorkersToAdd : AddWorkers(n)
  \/ AddWorkersLoop
  \/ Start \/ WaitUntilEmpty \/ StopDispatcher
  \/ Owner
  \/ \E level \in HealthLevels : NotifyNewStatus(level)
  \/ StoreStatus

DSpec == DInit /\ [][DNext]_dvars

\* Threads run: a worker goes on while it can, a call that has begun goes on,
\* and a mutex that is free again and again is got in the end.  Nobody need
\* call enqueue(), addWorkers(), start(), waitEmpty() or stop().
DFairSpec ==
  /\ DSpec
  /\ \A t \in Threads : WF_dvars(ThreadStep(t))
  /\ \A j \in Jobs : SF_dvars(Producer(j))
  /\ WF_dvars(AddWorkersLoop)
  /\ WF_dvars(WaiterWake)
  /\ WF_dvars(Owner)
  /\ WF_dvars(StoreStatus)

-----------------------------------------------------------------------------
(* Properties.                                                             *)

\* When stop() has returned no worker or reaper runs, whatever enqueue() or
\* addWorkers() were doing at the time: the destructor may free them all.
StopJoinsAll ==
  opc = "stopped" => \A t \in Threads : pc[t] \in {"none", "ended"}

\* stop() ends the workers after all jobs are processed: those whose
\* enqueue() had returned when stop() was called.
StopDrains ==
  opc = "stopped" => \A j \in enqueuedBefore : outcome[j] \in {"done", "aborted"}

\* The number of workers stays within the limit that addWorkers() raises.
WorkersWithinLimit == m_workers <= m_currThreadCountLimit

\* While a job is queued in a running dispatcher and its enqueue() has returned,
\* some worker runs: start() counts the jobs that came before it, and enqueue()
\* adds a worker where there is none, although the numbers it compares may have
\* changed since it read them and start() may hold m_mutex.  (Jobs do not throw.)
QueuedJobsHaveWorkers ==
  \A j \in Jobs : ~dispatcherStopped /\ epc[j] = "returned" /\ QueuePlaces(j) # {}
                    => \E t \in Workers : Running(t)

\* A job given to a running dispatcher is done, even when stop() follows.
JobsGetDone ==
  \A j \in Jobs : (epc[j] = "returned" /\ ~dispatcherStopped) ~> outcome[j] # "in"

\* stop() returns.
StopEnds == (opc = "stopQueue") ~> (opc = "stopped")

=============================================================================
