---------------------- MODULE JobQueueDispatcherProofs ----------------------
(***************************************************************************)
(* The dispatcher uses its queue as JobQueue allows, so that what is       *)
(* proved of every queue holds of its own; stop() joins every thread,      *)
(* and the jobs that were given to the dispatcher before are processed.    *)
(***************************************************************************)
EXTENDS JobQueueDispatcher, JobQueueProofs

USE SMTT(15), ZenonT(15)

-----------------------------------------------------------------------------
(* Invariants.                                                             *)

Stopping == {"stopQueue", "join", "stopped"}

PoolOK ==
  /\ m_workers \in 0..MaxThreadCount /\ m_funcs \subseteq 0 .. m_workers - 1
  /\ newStatus \in HealthLevels \cup {NULL}

\* A running thread is yet to be joined; when none is left nobody can add one.
JoinInv ==
  /\ \A t \in Threads : Running(t) => \/ t \in m_funcs \/ joining = t
                                      \/ t = m_jobReaperId /\ m_reaperFunc
  /\ Running(m_jobReaperId) => MaxJobQueuing > 0
  /\ opc \in {"new", "starting"} \cup Stopping => dispatcherStopped
  /\ opc = "stopped" => /\ m_funcs = {} /\ ~m_reaperFunc /\ joining = NULL
                        /\ m_mutex # "addWorkers"

\* The producers: a job is queued before its enqueue() looks at the pool.
ProducerInv ==
  /\ target \in [Jobs -> Nat]
  /\ epc \in [Jobs -> {"idle", "active", "queued", "size", "add", "returned"}]
  /\ \A j \in Jobs : /\ epc[j] # "idle" => outcome[j] # "new"
                     /\ outcome[j] # "threw"
                     /\ epc[j] = "size" /\ InQueue(j) => target[j] > 0
  /\ m_currThreadCountLimit \in 1..MaxThreadCount
  /\ enqueuedBefore \subseteq {j \in Jobs : epc[j] = "returned"}

\* The owner: the stages of start() and stop().
OwnerInv ==
  /\ opc \in {"new", "starting", "running", "empty"} \cup Stopping
  /\ ownerTarget \in Nat
  /\ opc = "starting" => m_mutex = "start"
  /\ dispatcherStopped => opc \in {"new", "starting"} \cup Stopping
  /\ m_stopped => opc \in {"join", "stopped"}
  /\ \A t \in Workers : t < m_workers => IF opc \in {"new", "starting"} THEN t \in m_funcs
                                                                       ELSE pc[t] # "none"
  /\ \A t \in Threads : pc[t] = "ended" => m_stopped

\* Who is left with a queued job whose enqueue() has returned.
Served(j) ==
  \/ m_workers > 0
  \/ opc = "new"
  \/ opc = "starting" /\ ownerTarget > 0
  \/ opc \in Stopping /\ j \notin enqueuedBefore

\* A worker ends when the queues are empty, and only later jobs come after.
DrainInv ==
  /\ \A j \in Jobs : epc[j] = "returned" /\ InQueue(j) => Served(j)
  /\ (\E t \in Workers : pc[t] = "ended") => \A j \in enqueuedBefore : ~InQueue(j)

-----------------------------------------------------------------------------
(* What threads do to their pc.                                            *)

LEMMA LoopMoves ==
  ASSUME NEW t \in Threads, NEW s, NEW able, NEW isFlushed, WorkerLoop(t, s, able, isFlushed)
  PROVE  /\ UNCHANGED <<m_stopped, m_healthStatus>>
         /\ \/ pc' = [pc EXCEPT ![t] = "job"] \/ pc' = [pc EXCEPT ![t] = "wait"]
            \/ pc' = [pc EXCEPT ![t] = "ended"] /\ m_stopped /\ ~MayDequeue(able)
BY Zenon DEF WorkerLoop, Dequeue, TakeJob, ThrowStopSignal, Block, envVars

LEMMA ReaperMoves ==
  ASSUME NEW t \in Threads, NEW s, ReaperLoop(t, s)
  PROVE  /\ UNCHANGED <<m_stopped, m_healthStatus>>
         /\ \/ pc' = [pc EXCEPT ![t] = "job"] \/ pc' = [pc EXCEPT ![t] = "wait"]
            \/ pc' = [pc EXCEPT ![t] = "ended"] /\ m_stopped
BY Zenon DEF ReaperLoop, ReaperWait, TakeJob, ThrowStopSignal, Block, envVars

\* A thread moves only once it runs, and ends only in a stopped queue without
\* jobs for it, unless its job throws.
Ends(t) ==
  MayThrow \/ (m_stopped /\ (t \in Workers /\ m_healthStatus # "BackOff" => m_jobCount = 0))

LEMMA ThreadMoves ==
  ASSUME TypeOK, NEW t \in Threads, Step(t) \/ Unprompted(t)
  PROVE  /\ Running(t) /\ UNCHANGED <<m_stopped, m_healthStatus>>
         /\ \A u \in Threads \ {t} : pc'[u] = pc[u]
         /\ pc'[t] # "none"
         /\ pc'[t] = "ended" => Ends(t)
<1>1. pc \in [Threads -> PCs] /\ \A u \in signalled : pc[u] = "wait"
  BY Zenon DEF TypeOK, Waiting, PCs
<1>2. ASSUME NEW s, NEW able, NEW isFlushed, WorkerLoop(t, s, able, isFlushed),
             m_healthStatus # "BackOff" => able
      PROVE  /\ UNCHANGED <<m_stopped, m_healthStatus>>
             /\ \A u \in Threads \ {t} : pc'[u] = pc[u]
             /\ pc'[t] # "none" /\ (pc'[t] = "ended" => Ends(t))
  <2>1. /\ UNCHANGED <<m_stopped, m_healthStatus>>
        /\ \/ pc' = [pc EXCEPT ![t] = "job"] \/ pc' = [pc EXCEPT ![t] = "wait"]
           \/ pc' = [pc EXCEPT ![t] = "ended"] /\ m_stopped /\ ~MayDequeue(able)
    BY <1>2, LoopMoves, Zenon
  <2>2. CASE pc' = [pc EXCEPT ![t] = "job"] \/ pc' = [pc EXCEPT ![t] = "wait"]
    BY <1>1, <2>1, <2>2, Zenon
  <2>3. CASE pc' = [pc EXCEPT ![t] = "ended"] /\ m_stopped /\ ~MayDequeue(able)
    BY <1>1, <1>2, <2>1, <2>3, Zenon DEF Ends, MayDequeue
  <2> QED
    BY <2>1, <2>2, <2>3, Zenon
<1>3. ASSUME NEW s, t = m_jobReaperId, ReaperLoop(t, s)
      PROVE  /\ UNCHANGED <<m_stopped, m_healthStatus>>
             /\ \A u \in Threads \ {t} : pc'[u] = pc[u]
             /\ pc'[t] # "none" /\ (pc'[t] = "ended" => Ends(t))
  BY <1>1, <1>3, ReaperMoves, ThreadSets, Zenon DEF Ends
<1>4. CASE EnterDequeue(t) \/ Wake(t) \/ SpuriousWake(t) \/ Flushed(t)
  BY <1>1, <1>2, <1>4, Zenon DEF EnterDequeue, Wake, SpuriousWake, Flushed, Able, Running
<1>5. CASE TimeOut(t)
  BY <1>1, <1>2, <1>5, Zenon DEF TimeOut, Able, Running, envVars
<1>6. CASE ReaperEnter(t) \/ ReaperWake(t) \/ ReaperSpuriousWake(t) \/ ReaperTimeOut(t)
  BY <1>1, <1>3, <1>6, Zenon DEF ReaperEnter, ReaperWake, ReaperSpuriousWake, ReaperTimeOut, Running
<1>7. CASE ReadNow(t) \/ SignalEmpty(t)
  BY <1>1, <1>7, Zenon DEF ReadNow, SignalEmpty, Running, envVars
<1>8. CASE DoJob(t) \/ DoJobThrows(t)
  BY <1>1, <1>8, Zenon DEF DoJob, DoJobThrows, FinishJob, Running, envVars, Ends
<1> QED
  BY <1>4, <1>5, <1>6, <1>7, <1>8, Zenon DEF Step, Unprompted

-----------------------------------------------------------------------------
(* The dispatcher uses its queue as JobQueue allows.                       *)

LEMMA PoolFacts ==
  /\ MaxThreadCount \in Nat \ {0} /\ NULL \notin Threads
  /\ NULL # "addWorkers" /\ NULL # "start"
  /\ \A n \in 0..MaxThreadCount : n < MaxThreadCount => n \in Workers /\ n \in Threads
  /\ Workers \subseteq Threads /\ m_jobReaperId \in Threads \ Workers
BY JobQueueAssumption, DispatcherNull DEF Workers, Threads, m_jobReaperId

\* addWorkerImpl() adds at most one worker, which stop() will join.
LEMMA AddImpl ==
  ASSUME PoolOK, NEW start \in BOOLEAN, AddWorkerImpl(start)
  PROVE  /\ [Next]_vars
         /\ m_workers' \in 0..MaxThreadCount /\ m_workers' > 0 /\ m_workers' >= m_workers
         /\ m_funcs \subseteq m_funcs' /\ m_funcs' \subseteq 0 .. m_workers' - 1
         /\ \A t \in Workers : t < m_workers' => t < m_workers \/ t \in m_funcs'
         /\ \/ UNCHANGED vars /\ (start => UNCHANGED m_workers)
            \/ /\ start /\ m_workers \in Workers /\ m_workers \in m_funcs'
               /\ StartThread(m_workers)
<1>1. m_workers \in 0..MaxThreadCount /\ m_funcs \subseteq 0 .. m_workers - 1
  BY Zenon DEF PoolOK
<1>2. CASE m_workers >= MaxThreadCount /\ UNCHANGED <<m_workers, m_funcs, vars>>
  BY <1>1, <1>2, PoolFacts
<1>3. CASE /\ m_workers < MaxThreadCount
           /\ m_workers' = m_workers + 1
           /\ m_funcs' = m_funcs \cup {m_workers}
           /\ IF start THEN StartThread(m_workers) ELSE UNCHANGED vars
  <2>1. m_workers \in Workers /\ m_workers \in Threads
    BY <1>1, <1>3, PoolFacts, Zenon
  <2>2. /\ m_workers' \in 0..MaxThreadCount /\ m_workers' > 0 /\ m_workers' >= m_workers
        /\ m_funcs \subseteq m_funcs' /\ m_funcs' \subseteq 0 .. m_workers' - 1
    BY <1>1, <1>3, PoolFacts
  <2>3. \A t \in Workers : t < m_workers' => t < m_workers \/ t \in m_funcs'
    BY <1>1, <1>3 DEF Workers
  <2>4. [Next]_vars
    BY <1>3, <2>1, Zenon DEF Next
  <2> QED
    BY <1>3, <2>1, <2>2, <2>3, <2>4, Zenon
<1> QED
  BY <1>2, <1>3, Zenon DEF AddWorkerImpl

LEMMA QueueStep == ASSUME PoolOK, [DNext]_dvars PROVE [Next]_vars
<1>1. CASE \E t \in Threads : ThreadStep(t) \/ ThreadUnprompted(t)
  BY <1>1, Zenon DEF ThreadStep, ThreadUnprompted, Next
<1>2. CASE WaiterWake \/ WaiterSpuriousWake \/ ClockTick
  BY <1>2, Zenon DEF WaiterWake, WaiterSpuriousWake, ClockTick, Next
<1>3. ASSUME NEW j \in Jobs, ReadEnqueueTime(j) \/ EnqueueJob(j) \/ Producer(j) PROVE [Next]_vars
  <2>1. CASE ReadEnqueueTime(j) \/ EnqueueJob(j)
    BY <2>1, Zenon DEF ReadEnqueueTime, EnqueueJob, Next
  <2>2. CASE ReadActive(j) \/ ReadQueued(j) \/ ReadSize(j)
    BY <2>2, Zenon DEF ReadActive, ReadQueued, ReadSize
  <2>3. CASE AddWorker(j)
    BY <2>3, AddImpl, Zenon DEF AddWorker
  <2> QED
    BY <1>3, <2>1, <2>2, <2>3, Zenon DEF Producer
<1>4. CASE AddWorkersLoop \/ \E n \in WorkersToAdd : AddWorkers(n)
  BY <1>4, AddImpl, Zenon DEF AddWorkersLoop, AddWorkers
<1>5. CASE Start \/ WaitUntilEmpty \/ StopDispatcher
  BY <1>5, Zenon DEF Start, WaitUntilEmpty, StopDispatcher, Next
<1>6. CASE Owner
  <2>1. CASE StartAdd
    BY <2>1, AddImpl, Zenon DEF StartAdd
  <2>2. CASE StartReaper \/ \E t \in Workers : StartFunc(t)
    BY <2>2, PoolFacts, Zenon DEF StartFunc, StartReaper, Next
  <2>3. CASE StopAfterEmpty \/ StopQueue \/ PickFunc \/ WaitForEnd
    BY <2>3, Zenon DEF StopAfterEmpty, StopQueue, PickFunc, WaitForEnd, Next
  <2> QED
    BY <1>6, <2>1, <2>2, <2>3, Zenon DEF Owner
<1>7. CASE \E level \in HealthLevels : NotifyNewStatus(level)
  BY <1>7, Zenon DEF NotifyNewStatus, Next
<1>8. CASE StoreStatus
  BY <1>8, Zenon DEF StoreStatus, Next, PoolOK
<1>9. CASE UNCHANGED dvars
  BY <1>9, Zenon DEF dvars
<1> QED
  BY <1>1, <1>2, <1>3, <1>4, <1>5, <1>6, <1>7, <1>8, <1>9, Zenon DEF DNext

LEMMA PoolInit == DInit => PoolOK
BY PoolFacts DEF DInit, PoolOK

LEMMA PoolNext == ASSUME PoolOK, [DNext]_dvars PROVE PoolOK'
<1>1. CASE UNCHANGED <<m_workers, m_funcs, newStatus>>
  BY <1>1, Zenon DEF PoolOK
<1>2. ASSUME NEW start \in BOOLEAN, AddWorkerImpl(start), UNCHANGED newStatus PROVE PoolOK'
  BY <1>2, AddImpl, Zenon DEF PoolOK
<1>3. CASE \E t \in Threads : ThreadStep(t) \/ ThreadUnprompted(t)
  BY <1>1, <1>3, Zenon DEF ThreadStep, ThreadUnprompted, dispatcherVars, poolVars
<1>4. CASE WaiterWake \/ WaiterSpuriousWake \/ ClockTick
  BY <1>1, <1>4, Zenon DEF WaiterWake, WaiterSpuriousWake, ClockTick, dispatcherVars, poolVars
<1>5. ASSUME NEW j \in Jobs, ReadEnqueueTime(j) \/ EnqueueJob(j) \/ Producer(j) PROVE PoolOK'
  <2>1. CASE ReadEnqueueTime(j) \/ EnqueueJob(j) \/ ReadActive(j) \/ ReadQueued(j) \/ ReadSize(j)
    BY <1>1, <2>1, Zenon
    DEF ReadEnqueueTime, EnqueueJob, ReadActive, ReadQueued, ReadSize, dispatcherVars, poolVars
  <2>2. CASE AddWorker(j)
    BY <1>1, <1>2, <2>2, Zenon DEF AddWorker
  <2> QED
    BY <1>5, <2>1, <2>2, Zenon DEF Producer
<1>6. CASE AddWorkersLoop \/ \E n \in WorkersToAdd : AddWorkers(n)
  BY <1>1, <1>2, <1>6, Zenon DEF AddWorkersLoop, AddWorkers
<1>7. CASE Start \/ WaitUntilEmpty \/ StopDispatcher
  BY <1>1, <1>7, Zenon DEF Start, WaitUntilEmpty, StopDispatcher, poolVars
<1>8. CASE Owner
  <2>1. CASE StartAdd
    BY <1>2, <2>1, Zenon DEF StartAdd
  <2>2. CASE StartReaper \/ StopAfterEmpty \/ StopQueue \/ WaitForEnd \/ \E t \in Workers : StartFunc(t)
    BY <1>1, <2>2, Zenon DEF StartFunc, StartReaper, StopAfterEmpty, StopQueue, WaitForEnd, poolVars
  <2>3. CASE PickFunc
    <3>1. m_funcs' \subseteq m_funcs /\ UNCHANGED <<m_workers, newStatus>>
      BY <2>3, Zenon DEF PickFunc
    <3> QED
      BY <3>1, Zenon DEF PoolOK
  <2> QED
    BY <1>8, <2>1, <2>2, <2>3, Zenon DEF Owner
<1>9. CASE StoreStatus \/ \E level \in HealthLevels : NotifyNewStatus(level)
  BY <1>9, Zenon DEF NotifyNewStatus, StoreStatus, PoolOK, poolVars
<1>10. CASE UNCHANGED dvars
  BY <1>1, <1>10, Zenon DEF dvars, dispatcherVars, poolVars
<1> QED
  BY <1>3, <1>4, <1>5, <1>6, <1>7, <1>8, <1>9, <1>10, Zenon DEF DNext

\* The dispatcher uses its queue the way JobQueue allows: it starts a thread
\* once and gives each thread one id.
LEMMA DispatcherIsJobQueue == DSpec => Spec
<1>1. DInit => Init
  BY Zenon DEF DInit
<1>2. PoolOK /\ [DNext]_dvars => PoolOK' /\ [Next]_vars
  BY PoolNext, QueueStep, Zenon
<1> QED
  BY <1>1, <1>2, PoolInit, PTL DEF DSpec, Spec

LEMMA DQueues == DSpec => []QueuesOK
BY DispatcherIsJobQueue, QueuesAlways, PTL

\* Whatever start(), stop(), enqueue() and addWorkers() do to the pool, an
\* enqueued job is in one queue or in the hands of one thread until it is done.
THEOREM DispatcherConservesJobs == DSpec => []JobsAreConserved
BY DispatcherIsJobQueue, JobsConserved, PTL

-----------------------------------------------------------------------------
(* stop() joins every thread.                                              *)

\* No thread begins to run.
Quiet == \A u \in Threads : Running(u)' => Running(u)

LEMMA QuietSteps ==
  ASSUME TypeOK, UNCHANGED threadVars \/ \E t \in Threads : Step(t) \/ Unprompted(t)
  PROVE  Quiet
<1>1. CASE UNCHANGED threadVars
  BY <1>1, Zenon DEF threadVars, Quiet, Running
<1>2. ASSUME NEW t \in Threads, Step(t) \/ Unprompted(t) PROVE Quiet
  <2>1. Running(t) /\ \A u \in Threads \ {t} : pc'[u] = pc[u]
    BY <1>2, ThreadMoves, Zenon
  <2> QED
    BY <2>1, Zenon DEF Quiet, Running
<1> QED
  BY <1>1, <1>2, Zenon

\* What the owner has yet to join, and its stage.
LEMMA JoinKept ==
  ASSUME JoinInv, Quiet, UNCHANGED <<m_funcs, m_reaperFunc, joining, opc, dispatcherStopped>>,
         m_mutex' = m_mutex \/ m_mutex' = NULL
  PROVE  JoinInv'
BY PoolFacts, Zenon DEF JoinInv, Quiet

\* A new worker.
LEMMA JoinAdded ==
  ASSUME TypeOK, PoolOK, JoinInv, opc # "stopped", NEW start \in BOOLEAN, AddWorkerImpl(start),
         UNCHANGED <<m_reaperFunc, joining, opc, dispatcherStopped>>
  PROVE  JoinInv'
<1>1. m_funcs \subseteq m_funcs'
  BY AddImpl, Zenon
<1>2. ASSUME NEW u \in Threads, Running(u)' PROVE Running(u) \/ (u \in m_funcs' /\ u \in Workers)
  <2>1. CASE UNCHANGED vars
    BY <1>2, <2>1, Zenon DEF vars, threadVars, Running
  <2>2. CASE m_workers \in Workers /\ m_workers \in m_funcs' /\ StartThread(m_workers)
    <3>1. pc \in [Threads -> PCs] /\ pc' = [pc EXCEPT ![m_workers] = "loop"]
      BY <2>2, Zenon DEF StartThread, TypeOK, PCs
    <3> QED
      BY <1>2, <2>2, <3>1, Zenon DEF Running
  <2> QED
    BY <2>1, <2>2, AddImpl, Zenon
<1> QED
  BY <1>1, <1>2, PoolFacts, Zenon DEF JoinInv

LEMMA JoinInit == DInit => JoinInv
BY PoolFacts, Zenon DEF DInit, Init, JoinInv, Running, Stopping

\* The owner's steps.
LEMMA OwnerJoins ==
  ASSUME TypeOK, PoolOK, JoinInv, Start \/ WaitUntilEmpty \/ StopDispatcher \/ Owner
  PROVE  JoinInv'
<1>1. /\ \A t \in Threads : Running(t) => t \in m_funcs \/ joining = t \/ (t = m_jobReaperId /\ m_reaperFunc)
      /\ opc = "stopped" => joining = NULL
  BY Zenon DEF JoinInv
<1>2. CASE Start \/ WaitUntilEmpty \/ StopDispatcher \/ StopAfterEmpty \/ StopQueue
  <2>1. UNCHANGED <<m_funcs, m_reaperFunc, joining, threadVars>>
    BY <1>2, Zenon
    DEF Start, WaitUntilEmpty, StopDispatcher, StopAfterEmpty, StopQueue, WaitEmpty, WaitEmptyLoop,
        Stop, vars, poolVars
  <2>2. opc' # "stopped" /\ (opc' \in {"new", "starting"} \cup Stopping => dispatcherStopped')
    BY <1>2, Zenon
    DEF Start, WaitUntilEmpty, StopDispatcher, StopAfterEmpty, StopQueue, BeginStop, Stopping, JoinInv
  <2>3. Quiet
    BY <2>1, QuietSteps, Zenon
  <2> QED
    BY <1>1, <2>1, <2>2, <2>3, PoolFacts, Zenon DEF JoinInv, Quiet
<1>3. CASE StartAdd
  BY <1>3, JoinAdded, Zenon DEF StartAdd, ownerVars
<1>4. ASSUME NEW t \in Workers, StartFunc(t) PROVE JoinInv'
  <2>1. /\ pc \in [Threads -> PCs] /\ pc' = [pc EXCEPT ![t] = "loop"]
        /\ t \in m_funcs /\ opc = "starting"
        /\ UNCHANGED <<m_funcs, m_reaperFunc, joining, opc, dispatcherStopped, m_mutex>>
    BY <1>4, Zenon DEF StartFunc, StartThread, TypeOK, PCs, poolVars, ownerVars
  <2>2. \A u \in Threads : Running(u)' => Running(u) \/ (u \in m_funcs /\ u \in Workers)
    BY <2>1, Zenon DEF Running
  <2> QED
    BY <1>1, <2>1, <2>2, PoolFacts, Zenon DEF JoinInv, Stopping
<1>5. CASE StartReaper
  <2>1. /\ opc' = "running" /\ UNCHANGED <<m_funcs, joining>>
    BY <1>5, Zenon DEF StartReaper
  <2>2. CASE MaxJobQueuing > 0
    <3>1. /\ pc \in [Threads -> PCs] /\ pc' = [pc EXCEPT ![m_jobReaperId] = "loop"] /\ m_reaperFunc'
      BY <1>5, <2>2, Zenon DEF StartReaper, StartThread, TypeOK, PCs
    <3>2. \A u \in Threads : Running(u)' => Running(u) \/ u = m_jobReaperId
      BY <3>1, Zenon DEF Running
    <3> QED
      BY <1>1, <2>1, <2>2, <3>1, <3>2, Zenon DEF JoinInv, Stopping
  <2>3. CASE ~(MaxJobQueuing > 0)
    <3>1. UNCHANGED vars
      BY <1>5, <2>3, Zenon DEF StartReaper
    <3>2. \A u \in Threads : Running(u)' => Running(u) /\ u # m_jobReaperId
      BY <2>3, <3>1, Zenon DEF JoinInv, vars, threadVars, Running
    <3> QED
      BY <1>1, <2>1, <3>2, PoolFacts, Zenon DEF JoinInv, Stopping
  <2> QED
    BY <2>2, <2>3, Zenon
<1>6. CASE PickFunc
  <2>1. /\ opc = "join" /\ joining = NULL /\ m_mutex = NULL
        /\ UNCHANGED <<vars, m_mutex, dispatcherStopped>>
    BY <1>6, Zenon DEF PickFunc
  <2>2. Quiet /\ opc \in Stopping
    BY <2>1, QuietSteps, Zenon DEF vars, Stopping
  <2>3. ASSUME NEW t \in m_funcs, joining' = t, m_funcs' = m_funcs \ {t}, UNCHANGED <<m_reaperFunc, opc>>
        PROVE  JoinInv'
    BY <1>1, <2>1, <2>2, <2>3, PoolFacts, Zenon DEF JoinInv, Quiet
  <2>4. CASE m_funcs = {} /\ m_reaperFunc /\ joining' = m_jobReaperId /\ UNCHANGED <<m_funcs, opc>>
    BY <1>1, <2>1, <2>2, <2>4, PoolFacts, Zenon DEF JoinInv, Quiet
  <2>5. CASE m_funcs = {} /\ ~m_reaperFunc /\ opc' = "stopped" /\ UNCHANGED <<m_funcs, m_reaperFunc, joining>>
    BY <1>1, <2>1, <2>2, <2>5, PoolFacts, Zenon DEF JoinInv, Quiet, Stopping
  <2> QED
    BY <1>6, <2>3, <2>4, <2>5, Zenon DEF PickFunc
<1>7. CASE WaitForEnd
  <2>1. /\ joining # NULL /\ pc[joining] = "ended" /\ joining' = NULL
        /\ UNCHANGED <<vars, m_funcs, m_reaperFunc, opc, dispatcherStopped, m_mutex>>
    BY <1>7, Zenon DEF WaitForEnd, poolVars
  <2>2. Quiet /\ ~Running(joining)
    BY <2>1, QuietSteps, Zenon DEF vars, Running
  <2> QED
    BY <1>1, <2>1, <2>2, PoolFacts, Zenon DEF JoinInv, Quiet
<1> QED
  BY <1>2, <1>3, <1>4, <1>5, <1>6, <1>7, Zenon DEF Owner

LEMMA JoinNext == ASSUME TypeOK, PoolOK, JoinInv, [DNext]_dvars PROVE JoinInv'
<1>1. CASE Quiet /\ UNCHANGED <<m_funcs, m_reaperFunc, joining, opc, dispatcherStopped, m_mutex>>
  BY <1>1, JoinKept, Zenon
<1>2. CASE \E t \in Threads : ThreadStep(t) \/ ThreadUnprompted(t)
  BY <1>1, <1>2, QuietSteps, Zenon DEF ThreadStep, ThreadUnprompted, dispatcherVars, poolVars, ownerVars
<1>3. CASE WaiterWake \/ WaiterSpuriousWake \/ ClockTick
  BY <1>1, <1>3, QuietSteps, Zenon
  DEF WaiterWake, WaiterSpuriousWake, ClockTick, dispatcherVars, poolVars, ownerVars, WaitEmptyWake,
      WaitEmptySpuriousWake, WaitEmptyLoop, Tick
<1>4. ASSUME NEW j \in Jobs, ReadEnqueueTime(j) \/ EnqueueJob(j) \/ Producer(j) PROVE JoinInv'
  <2>1. CASE ReadEnqueueTime(j) \/ EnqueueJob(j)
    BY <1>1, <2>1, QuietSteps, Zenon
    DEF ReadEnqueueTime, EnqueueJob, ReadTime, Enqueue, dispatcherVars, poolVars, ownerVars
  <2>2. CASE ReadActive(j) \/ ReadQueued(j) \/ ReadSize(j)
    BY <1>1, <2>2, QuietSteps, Zenon DEF ReadActive, ReadQueued, ReadSize, vars, poolVars, ownerVars
  <2>3. CASE AddWorker(j)
    <3>1. CASE dispatcherStopped
      BY <1>1, <2>3, <3>1, QuietSteps, Zenon DEF AddWorker, vars, ownerVars
    <3>2. CASE ~dispatcherStopped
      <4>1. opc # "stopped"
        BY <3>2, Zenon DEF JoinInv, Stopping
      <4> QED
        BY <2>3, <3>2, <4>1, JoinAdded, Zenon DEF AddWorker, ownerVars
    <3> QED
      BY <3>1, <3>2, Zenon
  <2> QED
    BY <1>4, <2>1, <2>2, <2>3, Zenon DEF Producer
<1>5. ASSUME NEW n \in WorkersToAdd, AddWorkers(n) PROVE JoinInv'
  <2>1. /\ ~dispatcherStopped
        /\ UNCHANGED <<vars, m_funcs, m_reaperFunc, joining, opc, dispatcherStopped>>
    BY <1>5, Zenon DEF AddWorkers, ownerVars
  <2>2. Quiet /\ opc # "stopped"
    BY <2>1, QuietSteps, Zenon DEF vars, JoinInv, Stopping
  <2> QED
    BY <2>1, <2>2, PoolFacts, Zenon DEF JoinInv, Quiet
<1>6. CASE AddWorkersLoop
  <2>1. m_mutex = "addWorkers" /\ opc # "stopped"
    BY <1>6, Zenon DEF AddWorkersLoop, JoinInv
  <2>2. CASE AddWorkerImpl(TRUE)
    BY <1>6, <2>1, <2>2, JoinAdded, Zenon DEF AddWorkersLoop, ownerVars
  <2>3. CASE m_mutex' = NULL /\ UNCHANGED <<vars, m_workers, m_funcs>>
    BY <1>6, <2>3, JoinKept, QuietSteps, Zenon DEF AddWorkersLoop, ownerVars, vars
  <2> QED
    BY <1>6, <2>2, <2>3, Zenon DEF AddWorkersLoop
<1>7. CASE Start \/ WaitUntilEmpty \/ StopDispatcher \/ Owner
  BY <1>7, OwnerJoins, Zenon
<1>8. CASE StoreStatus \/ \E level \in HealthLevels : NotifyNewStatus(level)
  BY <1>1, <1>8, QuietSteps, Zenon
  DEF NotifyNewStatus, StoreStatus, poolVars, ownerVars, ReleaseQueuedJobs, SetHealth, vars
<1>9. CASE UNCHANGED dvars
  BY <1>1, <1>9, QuietSteps, Zenon DEF dvars, dispatcherVars, poolVars, ownerVars, vars
<1> QED
  BY <1>2, <1>3, <1>4, <1>5, <1>6, <1>7, <1>8, <1>9, Zenon DEF DNext

LEMMA AllJoined == JoinInv => StopJoinsAll
BY PoolFacts, Zenon DEF JoinInv, StopJoinsAll, Running

\* When stop() has returned no worker and no reaper runs.
THEOREM StopJoins == DSpec => []StopJoinsAll
<1>1. QueuesOK => TypeOK
  BY Zenon DEF QueuesOK
<1>2. TypeOK /\ PoolOK /\ JoinInv /\ [DNext]_dvars => PoolOK' /\ JoinInv'
  BY PoolNext, JoinNext, Zenon
<1> QED
  BY <1>1, <1>2, AllJoined, DQueues, PoolInit, JoinInit, PTL DEF DSpec

-----------------------------------------------------------------------------
(* stop() ends the workers after all jobs are processed.                   *)

Steady == ~MayThrow /\ "BackOff" \notin HealthLevels /\ InitThreadCount > 0

\* Nobody but enqueue() puts a job into the queues.
LEMMA QueuedBefore ==
  ASSUME QueuesOK, [Next]_vars, NEW k \in Jobs, outcome[k] # "new", InQueue(k)'
  PROVE  InQueue(k)
<1>1. JobStep /\ m_jobQueues \in [Priorities -> Seq(Jobs)]
  BY StepTyped, Zenon DEF QueuesOK, TypeOK
<1>2. PICK p \in Priorities : \E i \in 1..Len(m_jobQueues'[p]) : m_jobQueues'[p][i] = k
  BY Zenon DEF InQueue
<1>3. PICK i \in 1..Len(m_jobQueues'[p]) : m_jobQueues'[p][i] = k
  BY <1>2, Zenon
<1>4. ASSUME NEW j \in Jobs, EnqueueStep(j) PROVE InQueue(k)
  <2>1. j # k /\ m_jobQueues' = [m_jobQueues EXCEPT ![Priority[j]] = Append(@, j)]
    BY <1>4, Zenon DEF EnqueueStep
  <2>2. CASE p = Priority[j]
    <3>1. m_jobQueues'[p] = Append(m_jobQueues[p], j) /\ m_jobQueues[p] \in Seq(Jobs)
      BY <1>1, <2>1, <2>2, Zenon
    <3>2. i \in 1..Len(m_jobQueues[p]) /\ m_jobQueues[p][i] = k
      BY <1>3, <2>1, <3>1
    <3> QED
      BY <3>2, Zenon DEF InQueue
  <2>3. CASE p # Priority[j]
    <3>1. m_jobQueues'[p] = m_jobQueues[p]
      BY <1>1, <2>1, <2>3, Zenon
    <3> QED
      BY <1>3, <3>1, Zenon DEF InQueue
  <2> QED
    BY <2>2, <2>3, Zenon
<1>5. ASSUME NEW t \in Threads, NEW q \in Priorities, NEW last \in BOOLEAN, NEW old \in BOOLEAN,
             TakeStep(t, q, last, old)
      PROVE  InQueue(k)
  <2>1. /\ m_jobQueues[q] \in Seq(Jobs) /\ m_jobQueues[q] # <<>>
        /\ m_jobQueues' = [m_jobQueues EXCEPT ![q] = Rest(m_jobQueues[q], last)]
    BY <1>1, <1>5, Zenon DEF TakeStep, TakeJob, Rest
  <2>2. CASE p = q
    <3>1. m_jobQueues'[p] = Rest(m_jobQueues[p], last)
      BY <1>1, <2>1, <2>2, Zenon
    <3>2. m_jobQueues[p] \in Seq(Jobs) /\ m_jobQueues[p] # <<>>
      BY <2>1, <2>2, Zenon
    <3>3. \A x \in 1..Len(Rest(m_jobQueues[p], last)) :
            /\ x + By(last) \in 1..Len(m_jobQueues[p]) \ {At(m_jobQueues[p], last)}
            /\ Rest(m_jobQueues[p], last)[x] = m_jobQueues[p][x + By(last)]
      BY <3>2, TakenSeq, Zenon
    <3>4. i + By(last) \in 1..Len(m_jobQueues[p]) /\ m_jobQueues[p][i + By(last)] = k
      BY <1>3, <3>1, <3>3, Zenon
    <3> QED
      BY <3>4, Zenon DEF InQueue
  <2>3. CASE p # q
    <3>1. m_jobQueues'[p] = m_jobQueues[p]
      BY <1>1, <2>1, <2>3, Zenon
    <3> QED
      BY <1>3, <3>1, Zenon DEF InQueue
  <2> QED
    BY <2>2, <2>3, Zenon
<1>6. CASE UNCHANGED m_jobQueues
  BY <1>3, <1>6, Zenon DEF InQueue
<1> QED
  BY <1>1, <1>4, <1>5, <1>6, Zenon DEF JobStep, FinishStep, OtherStep

LEMMA QueuedCounts ==
  ASSUME QueuesOK, NEW k \in Jobs, InQueue(k)
  PROVE  m_jobCount \in Nat /\ m_jobCount > 0
<1>1. PICK p \in Priorities : \E i \in 1..Len(m_jobQueues[p]) : m_jobQueues[p][i] = k
  BY Zenon DEF InQueue
<1>2. PICK i \in 1..Len(m_jobQueues[p]) : m_jobQueues[p][i] = k
  BY <1>1, Zenon
<1>3. m_jobCount \in Nat /\ m_jobQueues \in [Priorities -> Seq(Jobs)]
  BY Zenon DEF QueuesOK, TypeOK
<1>4. Len(m_jobQueues[p]) \in Nat
  BY <1>3
<1>5. <<p, i>> \in Places(m_jobQueues)
  BY <1>2, <1>4 DEF Places
<1>6. IsFiniteSet(Places(m_jobQueues)) /\ m_jobCount = Cardinality(Places(m_jobQueues))
  BY Zenon DEF QueuesOK, JobsInv, CountInv
<1>7. m_jobCount # 0
  BY <1>5, <1>6, FS_EmptySet, Zenon
<1> QED
  BY <1>3, <1>7

\* An outcome is for good, and without exceptions none has thrown.
LEMMA OutcomeStep ==
  ASSUME QueuesOK, ~MayThrow, [Next]_vars, NEW k \in Jobs
  PROVE  /\ outcome[k] # "new" => outcome'[k] # "new"
         /\ outcome[k] # "threw" => outcome'[k] # "threw"
<1>1. outcome \in [Jobs -> {"new", "in", "done", "aborted", "threw"}]
  BY Zenon DEF QueuesOK, TypeOK
<1>2. CASE UNCHANGED outcome
  BY <1>2, Zenon
<1>3. ASSUME NEW j \in Jobs, ReadTime(j) \/ Enqueue(j)
      PROVE  /\ outcome[k] # "new" => outcome'[k] # "new"
             /\ outcome[k] # "threw" => outcome'[k] # "threw"
  BY <1>1, <1>3, Zenon DEF ReadTime, Enqueue
<1>4. ASSUME NEW t \in Threads, DoJob(t)
      PROVE  /\ outcome[k] # "new" => outcome'[k] # "new"
             /\ outcome[k] # "threw" => outcome'[k] # "threw"
  BY <1>1, <1>4, Zenon DEF DoJob, FinishJob
<1>5. ASSUME NEW t \in Threads,
             EnterDequeue(t) \/ Wake(t) \/ SpuriousWake(t) \/ TimeOut(t) \/ Flushed(t)
      PROVE  UNCHANGED outcome
  BY <1>5, Zenon DEF EnterDequeue, Wake, SpuriousWake, TimeOut, Flushed, WorkerLoop, jobVars
<1>6. ASSUME NEW t \in Threads,
             ReaperEnter(t) \/ ReaperWake(t) \/ ReaperSpuriousWake(t) \/ ReaperTimeOut(t)
      PROVE  UNCHANGED outcome
  BY <1>6, Zenon DEF ReaperEnter, ReaperWake, ReaperSpuriousWake, ReaperTimeOut, ReaperLoop, jobVars
<1>7. ASSUME NEW t \in Threads, StartThread(t) \/ ReadNow(t) \/ SignalEmpty(t)
      PROVE  UNCHANGED outcome
  BY <1>7, Zenon DEF StartThread, ReadNow, SignalEmpty, jobVars
<1>8. CASE \/ WaitEmpty \/ WaitEmptyWake \/ WaitEmptySpuriousWake \/ ReleaseQueuedJobs \/ Stop
           \/ \E level \in HealthLevels : SetHealth(level)
           \/ Tick \/ UNCHANGED vars
  BY <1>2, <1>8, Zenon
  DEF WaitEmpty, WaitEmptyWake, WaitEmptySpuriousWake, WaitEmptyLoop, ReleaseQueuedJobs, Stop, SetHealth,
      Tick, vars, jobVars
<1>9. ASSUME NEW t \in Threads, StartThread(t) \/ Step(t) \/ Unprompted(t)
      PROVE  UNCHANGED outcome \/ DoJob(t)
  BY <1>5, <1>6, <1>7, <1>9, Zenon DEF Step, Unprompted, DoJobThrows
<1> QED
  BY <1>2, <1>3, <1>4, <1>8, <1>9, Zenon DEF Next

\* With a job in the queue and a limit above zero a worker is wanted.
LEMMA TargetFacts ==
  ASSUME NEW active \in Nat, m_jobCount \in Nat, m_currThreadCountLimit \in Nat \ {0}
  PROVE  /\ TargetNumWorkers(active) \in Nat
         /\ m_jobCount > 0 => TargetNumWorkers(active) > 0
<1> DEFINE r == QueueToWorkerRatio
<1>1. r \in Nat \ {0}
  BY DispatcherAssumption, Zenon
<1> HIDE DEF r
<1>2. /\ (m_jobCount + r - 1) \div r \in Nat /\ m_jobCount \div r \in Nat
      /\ m_jobCount > 0 => (m_jobCount + r - 1) \div r > 0
  BY <1>1
<1> QED
  BY <1>1, <1>2 DEF TargetNumWorkers, r

LEMMA ProducerInit == ASSUME Steady, DInit PROVE ProducerInv
<1>1. InitThreadCount \in 1..MaxThreadCount
  BY DispatcherAssumption, JobQueueAssumption DEF Steady
<1> QED
  BY <1>1, Zenon DEF DInit, Init, ProducerInv

LEMMA ProducerKept ==
  ASSUME Steady, QueuesOK, ProducerInv, [Next]_vars,
         UNCHANGED <<epc, target, m_currThreadCountLimit, enqueuedBefore>>
  PROVE  ProducerInv'
<1>1. ASSUME NEW j \in Jobs
      PROVE  /\ epc'[j] # "idle" => outcome'[j] # "new"
             /\ outcome'[j] # "threw"
             /\ epc'[j] = "size" /\ InQueue(j)' => target'[j] > 0
  BY OutcomeStep, QueuedBefore, Zenon DEF Steady, ProducerInv
<1> QED
  BY <1>1, Zenon DEF ProducerInv

\* enqueue() from its first read of the pool on.
LEMMA ProducerReads ==
  ASSUME Steady, QueuesOK, ProducerInv, NEW j \in Jobs, [Next]_vars,
         NEW next \in {"queued", "size", "add", "returned"}, NEW n \in Nat,
         epc[j] # "idle", epc' = [epc EXCEPT ![j] = next], target' = [target EXCEPT ![j] = n],
         next = "size" /\ InQueue(j) => n > 0,
         epc[j] = "returned" => next = "returned",
         UNCHANGED <<m_currThreadCountLimit, enqueuedBefore>>
  PROVE  ProducerInv'
<1>1. /\ target \in [Jobs -> Nat]
      /\ epc \in [Jobs -> {"idle", "active", "queued", "size", "add", "returned"}]
  BY Zenon DEF ProducerInv
<1>2. /\ target' \in [Jobs -> Nat]
      /\ epc' \in [Jobs -> {"idle", "active", "queued", "size", "add", "returned"}]
  BY <1>1, Zenon
<1>3. /\ epc'[j] = next /\ target'[j] = n
      /\ \A k \in Jobs \ {j} : epc'[k] = epc[k] /\ target'[k] = target[k]
  BY <1>1, Zenon
<1>4. ASSUME NEW k \in Jobs
      PROVE  /\ epc'[k] # "idle" => outcome'[k] # "new"
             /\ outcome'[k] # "threw"
             /\ epc'[k] = "size" /\ InQueue(k)' => target'[k] > 0
             /\ epc[k] = "returned" => epc'[k] = "returned"
  <2>1. /\ epc[k] # "idle" => outcome[k] # "new"
        /\ outcome[k] # "threw"
        /\ epc[k] = "size" /\ InQueue(k) => target[k] > 0
    BY Zenon DEF ProducerInv
  <2>2. /\ outcome[k] # "new" => outcome'[k] # "new"
        /\ outcome'[k] # "threw"
        /\ outcome[k] # "new" /\ InQueue(k)' => InQueue(k)
    BY <2>1, OutcomeStep, QueuedBefore, Zenon DEF Steady
  <2> QED
    BY <1>3, <2>1, <2>2, Zenon
<1> QED
  BY <1>2, <1>4, Zenon DEF ProducerInv

LEMMA ProducerNext ==
  ASSUME Steady, QueuesOK, PoolOK, ProducerInv, [DNext]_dvars
  PROVE  ProducerInv'
<1>1. [Next]_vars
  BY QueueStep, Zenon
<1>2. /\ m_jobCount \in Nat /\ m_workerCount \in Nat
      /\ m_currThreadCountLimit \in Nat \ {0} /\ target \in [Jobs -> Nat]
  BY PoolFacts DEF QueuesOK, TypeOK, ProducerInv
<1>3. CASE UNCHANGED <<epc, target, m_currThreadCountLimit, enqueuedBefore>>
  BY <1>1, <1>3, ProducerKept, Zenon
<1>4. ASSUME NEW j \in Jobs, EnqueueJob(j) PROVE ProducerInv'
  <2>1. /\ epc[j] = "idle" /\ epc' = [epc EXCEPT ![j] = "active"]
        /\ outcome' = [outcome EXCEPT ![j] = "in"]
        /\ UNCHANGED <<target, m_currThreadCountLimit, enqueuedBefore>>
    BY <1>4, Zenon DEF EnqueueJob, Enqueue, poolVars, ownerVars
  <2>2. /\ epc \in [Jobs -> {"idle", "active", "queued", "size", "add", "returned"}]
        /\ outcome \in [Jobs -> {"new", "in", "done", "aborted", "threw"}]
    BY Zenon DEF ProducerInv, QueuesOK, TypeOK
  <2>3. /\ epc' \in [Jobs -> {"idle", "active", "queued", "size", "add", "returned"}]
        /\ epc'[j] = "active" /\ outcome'[j] = "in"
        /\ \A k \in Jobs \ {j} : epc'[k] = epc[k] /\ outcome'[k] = outcome[k]
    BY <2>1, <2>2, Zenon
  <2>4. ASSUME NEW k \in Jobs
        PROVE  /\ epc'[k] # "idle" => outcome'[k] # "new"
               /\ outcome'[k] # "threw"
               /\ epc'[k] = "size" /\ InQueue(k)' => target'[k] > 0
               /\ epc[k] = "returned" => epc'[k] = "returned"
    <3>1. /\ epc[k] # "idle" => outcome[k] # "new"
          /\ outcome[k] # "threw"
          /\ epc[k] = "size" /\ InQueue(k) => target[k] > 0
      BY Zenon DEF ProducerInv
    <3>2. outcome[k] # "new" /\ InQueue(k)' => InQueue(k)
      BY <1>1, QueuedBefore, Zenon
    <3> QED
      BY <2>1, <2>3, <3>1, <3>2, Zenon
  <2> QED
    BY <2>1, <2>3, <2>4, Zenon DEF ProducerInv
<1>5. ASSUME NEW j \in Jobs, Producer(j) PROVE ProducerInv'
  <2>1. UNCHANGED <<m_currThreadCountLimit, enqueuedBefore>>
    BY <1>5, Zenon DEF Producer, ReadActive, ReadQueued, ReadSize, AddWorker, poolVars, ownerVars
  <2>2. CASE ReadActive(j)
    BY <1>1, <1>2, <2>1, <2>2, ProducerReads, Zenon DEF ReadActive
  <2>3. CASE ReadQueued(j)
    <3>1. /\ TargetNumWorkers(target[j]) \in Nat
          /\ InQueue(j) => TargetNumWorkers(target[j]) > 0
      BY <1>2, TargetFacts, QueuedCounts, Zenon
    <3>2. /\ epc[j] = "queued" /\ epc' = [epc EXCEPT ![j] = "size"]
          /\ target' = [target EXCEPT ![j] = TargetNumWorkers(target[j])]
      BY <2>3, Zenon DEF ReadQueued
    <3> QED
      BY <1>1, <2>1, <3>1, <3>2, ProducerReads, Zenon
  <2>4. CASE ReadSize(j)
    BY <1>1, <2>1, <2>4, ProducerReads, Zenon DEF ReadSize
  <2>5. CASE AddWorker(j)
    <3>1. target' = [target EXCEPT ![j] = target[j]] /\ target[j] \in Nat
      BY <1>2, <2>5, Zenon DEF AddWorker
    <3>2. epc[j] = "add" /\ epc' = [epc EXCEPT ![j] = "returned"]
      BY <2>5, Zenon DEF AddWorker
    <3> QED
      BY <1>1, <2>1, <3>1, <3>2, ProducerReads, Zenon
  <2> QED
    BY <1>5, <2>2, <2>3, <2>4, <2>5, Zenon DEF Producer
<1>6. ASSUME NEW n \in WorkersToAdd, AddWorkers(n) PROVE ProducerInv'
  <2>1. m_currThreadCountLimit' \in 1..MaxThreadCount
    BY <1>6, DispatcherAssumption, PoolFacts DEF AddWorkers, ProducerInv
  <2>2. UNCHANGED <<vars, epc, target, enqueuedBefore>>
    BY <1>6, Zenon DEF AddWorkers, ownerVars, producerVars
  <2>3. \A j \in Jobs : InQueue(j)' <=> InQueue(j)
    BY <2>2, Zenon DEF InQueue, vars, queueVars
  <2> QED
    BY <2>1, <2>2, <2>3, Zenon DEF ProducerInv, vars, jobVars
<1>7. CASE StopDispatcher \/ StopAfterEmpty
  <2>1. /\ UNCHANGED <<vars, epc, target, m_currThreadCountLimit>>
        /\ enqueuedBefore' = {j \in Jobs : epc[j] = "returned"}
    BY <1>7, Zenon DEF StopDispatcher, StopAfterEmpty, BeginStop, poolVars, producerVars
  <2>2. \A j \in Jobs : InQueue(j)' <=> InQueue(j)
    BY <2>1, Zenon DEF InQueue, vars, queueVars
  <2> QED
    BY <2>1, <2>2, Zenon DEF ProducerInv, vars, jobVars
<1>8. CASE \/ \E t \in Threads : ThreadStep(t) \/ ThreadUnprompted(t)
           \/ WaiterWake \/ WaiterSpuriousWake \/ ClockTick
           \/ \E j \in Jobs : ReadEnqueueTime(j)
           \/ UNCHANGED dvars
  BY <1>3, <1>8, Zenon
  DEF ThreadStep, ThreadUnprompted, WaiterWake, WaiterSpuriousWake, ClockTick, ReadEnqueueTime, dvars,
      dispatcherVars, poolVars, ownerVars, producerVars
<1>9. CASE \/ AddWorkersLoop \/ Start \/ WaitUntilEmpty \/ StoreStatus
           \/ \E level \in HealthLevels : NotifyNewStatus(level)
  BY <1>3, <1>9, Zenon
  DEF AddWorkersLoop, Start, WaitUntilEmpty, StoreStatus, NotifyNewStatus, poolVars, ownerVars, producerVars
<1>10. CASE \/ StartAdd \/ (\E t \in Workers : StartFunc(t)) \/ StartReaper
            \/ StopQueue \/ PickFunc \/ WaitForEnd
  BY <1>3, <1>10, Zenon
  DEF StartAdd, StartFunc, StartReaper, StopQueue, PickFunc, WaitForEnd, poolVars, ownerVars, producerVars
<1> QED
  BY <1>4, <1>5, <1>6, <1>7, <1>8, <1>9, <1>10, Zenon DEF DNext, Owner

LEMMA OwnerInit == DInit => OwnerInv
<1>1. \A t \in Workers : t >= 0
  BY DEF Workers
<1>2. DInit => /\ opc = "new" /\ ownerTarget = 0 /\ ~m_stopped /\ m_workers = 0
               /\ \A t \in Threads : pc[t] = "none"
  BY Zenon DEF DInit, Init
<1>3. DInit => \A t \in Workers : ~(t < m_workers)
  BY <1>2 DEF Workers
<1> QED
  BY <1>2, <1>3 DEF OwnerInv

\* The owner and the pool stay.
LEMMA OwnerKept ==
  ASSUME OwnerInv, UNCHANGED <<opc, ownerTarget, dispatcherStopped, m_workers, m_funcs, m_stopped>>,
         opc = "starting" => m_mutex' = "start",
         \A t \in Threads : /\ pc[t] # "none" => pc'[t] # "none"
                            /\ pc'[t] = "ended" => pc[t] = "ended" \/ m_stopped
  PROVE  OwnerInv'
<1>1. Workers \subseteq Threads
  BY PoolFacts, Zenon
<1>2. ASSUME NEW t \in Workers, t < m_workers
      PROVE  IF opc \in {"new", "starting"} THEN t \in m_funcs ELSE pc'[t] # "none"
  BY <1>1, <1>2, Zenon DEF OwnerInv
<1> QED
  BY <1>2, Zenon DEF OwnerInv

\* A worker more.
LEMMA OwnerAdds ==
  ASSUME TypeOK, PoolOK, OwnerInv, NEW start \in BOOLEAN, AddWorkerImpl(start),
         start \/ opc = "starting",
         UNCHANGED <<opc, ownerTarget, dispatcherStopped>>,
         opc = "starting" => m_mutex' = "start"
  PROVE  OwnerInv'
<1>1. /\ m_funcs \subseteq m_funcs'
      /\ \A t \in Workers : t < m_workers' => t < m_workers \/ t \in m_funcs'
      /\ \/ UNCHANGED vars /\ (start => UNCHANGED m_workers)
         \/ /\ start /\ m_workers \in Workers /\ m_workers \in m_funcs'
            /\ StartThread(m_workers)
  BY AddImpl, Zenon
<1>2. pc \in [Threads -> PCs] /\ Workers \subseteq Threads
  BY PoolFacts, Zenon DEF TypeOK, PCs
<1>3. CASE UNCHANGED vars /\ (start => UNCHANGED m_workers)
  <2>1. UNCHANGED <<pc, m_stopped>>
    BY <1>3, Zenon DEF vars, threadVars, envVars
  <2>2. ASSUME NEW t \in Workers, t < m_workers'
        PROVE  IF opc \in {"new", "starting"} THEN t \in m_funcs' ELSE pc'[t] # "none"
    BY <1>1, <1>3, <2>1, <2>2, Zenon DEF OwnerInv
  <2> QED
    BY <1>2, <2>1, <2>2, Zenon DEF OwnerInv
<1>4. CASE start /\ m_workers \in Workers /\ m_workers \in m_funcs' /\ StartThread(m_workers)
  <2>1. pc' = [pc EXCEPT ![m_workers] = "loop"] /\ UNCHANGED m_stopped
    BY <1>4, Zenon DEF StartThread, envVars
  <2>2. pc'[m_workers] = "loop" /\ \A t \in Threads \ {m_workers} : pc'[t] = pc[t]
    BY <1>2, <1>4, <2>1, Zenon
  <2>3. \A t \in Workers : t < m_workers' => t < m_workers \/ t = m_workers
    BY <1>4 DEF AddWorkerImpl, PoolOK, Workers
  <2>4. ASSUME NEW t \in Workers, t < m_workers'
        PROVE  IF opc \in {"new", "starting"} THEN t \in m_funcs' ELSE pc'[t] # "none"
    BY <1>1, <1>2, <2>2, <2>3, <2>4, Zenon DEF OwnerInv
  <2>5. \A t \in Threads : pc'[t] = "ended" => m_stopped
    BY <2>2, Zenon DEF OwnerInv
  <2> QED
    BY <1>2, <2>1, <2>4, <2>5, Zenon DEF OwnerInv
<1> QED
  BY <1>1, <1>3, <1>4, Zenon

\* A thread of the queue that ends finds it stopped, and a worker finds no job.
LEMMA SteadyMoves ==
  ASSUME Steady, QueuesOK, NEW t \in Threads, Step(t) \/ Unprompted(t)
  PROVE  /\ UNCHANGED m_stopped /\ pc'[t] # "none"
         /\ \A u \in Threads \ {t} : pc'[u] = pc[u]
         /\ pc'[t] = "ended" => m_stopped /\ (t \in Workers => m_jobCount = 0)
<1>1. TypeOK /\ m_healthStatus # "BackOff"
  BY Zenon DEF QueuesOK, TypeOK, Steady
<1> QED
  BY <1>1, ThreadMoves, Zenon DEF Steady, Ends

LEMMA OwnerNext ==
  ASSUME Steady, QueuesOK, PoolOK, ProducerInv, OwnerInv, [DNext]_dvars
  PROVE  OwnerInv'
<1>1. TypeOK /\ pc \in [Threads -> PCs] /\ (opc = "starting" => m_mutex = "start")
  BY Zenon DEF QueuesOK, TypeOK, PCs, OwnerInv
<1>2. CASE UNCHANGED <<pc, m_stopped, opc, ownerTarget, dispatcherStopped, m_workers, m_funcs, m_mutex>>
  BY <1>1, <1>2, OwnerKept, Zenon
<1>3. ASSUME NEW t \in Threads, ThreadStep(t) \/ ThreadUnprompted(t) PROVE OwnerInv'
  <2>1. /\ Step(t) \/ Unprompted(t)
        /\ UNCHANGED <<opc, ownerTarget, dispatcherStopped, m_workers, m_funcs, m_mutex>>
    BY <1>3, Zenon DEF ThreadStep, ThreadUnprompted, dispatcherVars, poolVars, ownerVars
  <2>2. /\ UNCHANGED m_stopped /\ pc'[t] # "none"
        /\ \A u \in Threads \ {t} : pc'[u] = pc[u]
        /\ pc'[t] = "ended" => m_stopped
    BY <2>1, SteadyMoves, Zenon
  <2>3. \A u \in Threads : /\ pc[u] # "none" => pc'[u] # "none"
                           /\ pc'[u] = "ended" => pc[u] = "ended" \/ m_stopped
    BY <2>2, Zenon
  <2> QED
    BY <1>1, <2>1, <2>2, <2>3, OwnerKept, Zenon
<1>4. CASE WaiterWake \/ WaiterSpuriousWake \/ ClockTick \/ \E j \in Jobs : ReadEnqueueTime(j)
  BY <1>2, <1>4, Zenon
  DEF WaiterWake, WaiterSpuriousWake, ClockTick, ReadEnqueueTime, WaitEmptyWake, WaitEmptySpuriousWake,
      WaitEmptyLoop, Tick, ReadTime, threadVars, envVars, dispatcherVars, poolVars, ownerVars
<1>5. ASSUME NEW j \in Jobs, EnqueueJob(j) \/ Producer(j) PROVE OwnerInv'
  <2>1. CASE EnqueueJob(j)
    BY <1>2, <2>1, Zenon DEF EnqueueJob, Enqueue, threadVars, envVars, poolVars, ownerVars
  <2>2. CASE ReadActive(j) \/ ReadQueued(j) \/ ReadSize(j)
    BY <1>2, <2>2, Zenon DEF ReadActive, ReadQueued, ReadSize, vars, threadVars, envVars, poolVars, ownerVars
  <2>3. CASE AddWorker(j)
    <3>1. UNCHANGED <<opc, ownerTarget, dispatcherStopped, m_mutex>>
      BY <2>3, Zenon DEF AddWorker, ownerVars
    <3>2. CASE dispatcherStopped
      BY <1>2, <2>3, <3>1, <3>2, Zenon DEF AddWorker, vars, threadVars, envVars
    <3>3. CASE AddWorkerImpl(TRUE)
      BY <1>1, <3>1, <3>3, OwnerAdds, Zenon
    <3> QED
      BY <2>3, <3>2, <3>3, Zenon DEF AddWorker
  <2> QED
    BY <1>5, <2>1, <2>2, <2>3, Zenon DEF Producer
<1>6. ASSUME NEW n \in WorkersToAdd, AddWorkers(n) PROVE OwnerInv'
  <2>1. /\ m_mutex = NULL /\ UNCHANGED <<vars, opc, ownerTarget, dispatcherStopped, m_workers, m_funcs>>
    BY <1>6, Zenon DEF AddWorkers, ownerVars
  <2>2. opc # "starting" /\ UNCHANGED <<pc, m_stopped>>
    BY <1>1, <2>1, PoolFacts, Zenon DEF vars, threadVars, envVars
  <2> QED
    BY <2>1, <2>2, OwnerKept, Zenon
<1>7. CASE AddWorkersLoop
  <2>1. m_mutex = "addWorkers" /\ UNCHANGED <<opc, ownerTarget, dispatcherStopped>>
    BY <1>7, Zenon DEF AddWorkersLoop, ownerVars
  <2>2. opc # "starting"
    BY <1>1, <2>1, Zenon
  <2>3. CASE AddWorkerImpl(TRUE)
    BY <1>1, <2>1, <2>2, <2>3, OwnerAdds, Zenon
  <2>4. CASE UNCHANGED <<vars, m_workers, m_funcs>>
    <3>1. UNCHANGED <<pc, m_stopped>>
      BY <2>4, Zenon DEF vars, threadVars, envVars
    <3> QED
      BY <2>1, <2>2, <2>4, <3>1, OwnerKept, Zenon
  <2> QED
    BY <1>7, <2>3, <2>4, Zenon DEF AddWorkersLoop
<1>8. CASE Start
  <2>1. ownerTarget' \in Nat
    <3>1. m_workerCount \in Nat /\ m_jobCount \in Nat /\ m_currThreadCountLimit \in Nat \ {0}
      BY <1>1, PoolFacts DEF TypeOK, ProducerInv
    <3> QED
      BY <1>8, <3>1, TargetFacts, Zenon DEF Start
  <2>2. /\ opc = "new" /\ opc' = "starting" /\ m_mutex' = "start"
        /\ UNCHANGED <<pc, m_stopped, dispatcherStopped, m_workers, m_funcs>>
    BY <1>8, Zenon DEF Start, vars, threadVars, envVars, poolVars
  <2> QED
    BY <2>1, <2>2, Zenon DEF OwnerInv
<1>9. CASE StartAdd
  BY <1>1, <1>9, OwnerAdds, Zenon DEF StartAdd, ownerVars
<1>10. ASSUME NEW t \in Workers, StartFunc(t) PROVE OwnerInv'
  <2>1. /\ pc' = [pc EXCEPT ![t] = "loop"]
        /\ UNCHANGED <<opc, ownerTarget, dispatcherStopped, m_workers, m_funcs, m_mutex, m_stopped>>
    BY <1>10, Zenon DEF StartFunc, StartThread, envVars, poolVars, ownerVars
  <2>2. \A u \in Threads : /\ pc[u] # "none" => pc'[u] # "none"
                           /\ pc'[u] = "ended" => pc[u] = "ended" \/ m_stopped
    BY <1>1, <2>1, Zenon
  <2> QED
    BY <1>1, <2>1, <2>2, OwnerKept, Zenon
<1>11. CASE StartReaper
  <2>1. /\ opc = "starting" /\ (\A t \in m_funcs : pc[t] # "none")
        /\ opc' = "running" /\ ownerTarget' = 0 /\ dispatcherStopped' = FALSE
        /\ UNCHANGED <<m_workers, m_funcs>>
    BY <1>11, Zenon DEF StartReaper
  <2>2. UNCHANGED m_stopped /\ \A t \in Threads : /\ pc[t] # "none" => pc'[t] # "none"
                                                  /\ pc'[t] = "ended" => pc[t] = "ended"
    <3>1. CASE StartThread(m_jobReaperId)
      <4>1. pc' = [pc EXCEPT ![m_jobReaperId] = "loop"] /\ UNCHANGED m_stopped
        BY <3>1, Zenon DEF StartThread, envVars
      <4> QED
        BY <1>1, <4>1, Zenon
    <3>2. CASE UNCHANGED vars
      BY <3>2, Zenon DEF vars, threadVars, envVars
    <3> QED
      BY <1>11, <3>1, <3>2, Zenon DEF StartReaper
  <2>3. \A t \in Workers : t < m_workers => pc'[t] # "none"
    BY <2>1, <2>2, PoolFacts, Zenon DEF OwnerInv
  <2>4. ~m_stopped
    BY <2>1, Zenon DEF OwnerInv
  <2> QED
    BY <2>1, <2>2, <2>3, <2>4, Zenon DEF OwnerInv
<1>12. CASE WaitUntilEmpty \/ StopDispatcher \/ StopAfterEmpty \/ StopQueue
  <2>1. /\ opc \in {"running", "empty", "stopQueue"} /\ opc' \in {"empty", "stopQueue", "join"}
        /\ UNCHANGED <<pc, ownerTarget, m_workers, m_funcs>>
        /\ opc' = "empty" => opc = "running" /\ UNCHANGED dispatcherStopped
        /\ m_stopped' # m_stopped => opc' = "join"
    BY <1>12, Zenon
    DEF WaitUntilEmpty, StopDispatcher, StopAfterEmpty, StopQueue, BeginStop, WaitEmpty, WaitEmptyLoop, Stop,
        vars, threadVars, envVars, poolVars
  <2>2. /\ ~m_stopped /\ ownerTarget \in Nat /\ \A t \in Threads : pc[t] # "ended"
        /\ \A t \in Workers : t < m_workers => pc[t] # "none"
    BY <2>1, Zenon DEF OwnerInv
  <2>3. dispatcherStopped' => opc' \in Stopping
    BY <2>1, Zenon DEF OwnerInv, Stopping
  <2>4. m_stopped' => opc' = "join"
    BY <2>1, <2>2, Zenon
  <2> QED
    BY <2>1, <2>2, <2>3, <2>4, Zenon DEF OwnerInv, Stopping
<1>13. CASE PickFunc
  <2>1. /\ opc = "join" /\ opc' \in {"join", "stopped"}
        /\ UNCHANGED <<pc, m_stopped, ownerTarget, dispatcherStopped, m_workers, m_mutex>>
    BY <1>13, Zenon DEF PickFunc, vars, threadVars, envVars
  <2> QED
    BY <2>1, Zenon DEF OwnerInv, Stopping
<1>14. CASE WaitForEnd
  BY <1>2, <1>14, Zenon DEF WaitForEnd, vars, threadVars, envVars, poolVars
<1>15. CASE StoreStatus \/ \E level \in HealthLevels : NotifyNewStatus(level)
  BY <1>2, <1>15, Zenon
  DEF StoreStatus, NotifyNewStatus, SetHealth, ReleaseQueuedJobs, vars, threadVars, envVars, poolVars, ownerVars
<1>16. CASE UNCHANGED dvars
  BY <1>2, <1>16, Zenon DEF dvars, vars, threadVars, envVars, dispatcherVars, poolVars, ownerVars
<1> QED
  BY <1>3, <1>4, <1>5, <1>6, <1>7, <1>8, <1>9, <1>10, <1>11, <1>12, <1>13, <1>14, <1>15, <1>16, Zenon
  DEF DNext, Owner

\* The queue's steps, and those that make the pool larger.
LEMMA DrainKept ==
  ASSUME QueuesOK, [Next]_vars, ProducerInv, DrainInv, m_workers \in Nat,
         UNCHANGED <<opc, ownerTarget, enqueuedBefore>>,
         m_workers' \in Nat, m_workers' >= m_workers,
         \A j \in Jobs : epc'[j] = "returned" =>
           epc[j] = "returned" \/ (epc[j] # "idle" /\ (InQueue(j) => Served(j)')),
         \A t \in Workers : pc'[t] = "ended" => pc[t] = "ended" \/ m_jobCount = 0
  PROVE  DrainInv'
<1>1. m_workers > 0 => m_workers' > 0
  OBVIOUS
<1>2. \A j \in Jobs : epc[j] # "idle" /\ InQueue(j)' => InQueue(j) /\ m_jobCount # 0
  <2> SUFFICES ASSUME NEW j \in Jobs, epc[j] # "idle", InQueue(j)' PROVE InQueue(j) /\ m_jobCount # 0
    BY Zenon
  <2>1. outcome[j] # "new"
    BY Zenon DEF ProducerInv
  <2>2. InQueue(j)
    BY <2>1, QueuedBefore, Zenon
  <2> QED
    BY <2>2, QueuedCounts
<1>3. ASSUME NEW j \in Jobs, epc'[j] = "returned", InQueue(j)' PROVE Served(j)'
  BY <1>1, <1>2, <1>3, Zenon DEF DrainInv, Served
<1>4. ASSUME NEW t \in Workers, pc'[t] = "ended", NEW j \in enqueuedBefore, InQueue(j)' PROVE FALSE
  <2>1. j \in Jobs /\ epc[j] # "idle"
    BY Zenon DEF ProducerInv
  <2> QED
    BY <1>2, <1>4, <2>1, Zenon DEF DrainInv
<1> QED
  BY <1>3, <1>4, Zenon DEF DrainInv

\* The steps of the owner.
LEMMA DrainMoved ==
  ASSUME DrainInv, UNCHANGED <<m_jobQueues, epc>>,
         \A j \in Jobs : epc[j] = "returned" /\ InQueue(j) /\ Served(j) => Served(j)',
         \A t \in Workers : pc'[t] = "ended" => pc[t] = "ended" /\ UNCHANGED enqueuedBefore
  PROVE  DrainInv'
<1>1. \A j : InQueue(j)' <=> InQueue(j)
  BY Zenon DEF InQueue
<1> QED
  BY <1>1, Zenon DEF DrainInv

LEMMA DrainNext ==
  ASSUME Steady, QueuesOK, PoolOK, ProducerInv, OwnerInv, DrainInv, [DNext]_dvars
  PROVE  DrainInv'
<1>1. /\ [Next]_vars /\ m_workers \in Nat /\ m_workers >= m_workers /\ pc \in [Threads -> PCs]
      /\ opc = "starting" => m_mutex = "start"
      /\ Workers \subseteq Threads
  <2>1. m_workers \in Nat /\ m_workers >= m_workers
    BY DEF PoolOK
  <2> QED
    BY <2>1, QueueStep, PoolFacts, Zenon DEF OwnerInv, QueuesOK, TypeOK, PCs
<1>2. ASSUME \A j \in Jobs : epc'[j] = "returned" => epc[j] = "returned" \/ (epc[j] # "idle" /\ (InQueue(j) => Served(j)')),
             UNCHANGED <<pc, m_workers, opc, ownerTarget, enqueuedBefore>>
      PROVE  DrainInv'
  BY <1>1, <1>2, DrainKept, Zenon
<1>3. ASSUME NEW t \in Threads, ThreadStep(t) \/ ThreadUnprompted(t) PROVE DrainInv'
  <2>1. /\ Step(t) \/ Unprompted(t)
        /\ UNCHANGED <<m_workers, opc, ownerTarget, enqueuedBefore, epc>>
    BY <1>3, Zenon DEF ThreadStep, ThreadUnprompted, dispatcherVars, poolVars, ownerVars, producerVars
  <2>2. \A u \in Workers : pc'[u] = "ended" => pc[u] = "ended" \/ m_jobCount = 0
    BY <1>1, <2>1, SteadyMoves, Zenon
  <2> QED
    BY <1>1, <2>1, <2>2, DrainKept, Zenon
<1>4. CASE WaiterWake \/ WaiterSpuriousWake \/ ClockTick \/ \E j \in Jobs : ReadEnqueueTime(j)
  BY <1>2, <1>4, Zenon
  DEF WaiterWake, WaiterSpuriousWake, ClockTick, ReadEnqueueTime, WaitEmptyWake, WaitEmptySpuriousWake,
      WaitEmptyLoop, Tick, ReadTime, threadVars, dispatcherVars, poolVars, ownerVars, producerVars
<1>5. ASSUME NEW start \in BOOLEAN, AddWorkerImpl(start), UNCHANGED <<opc, ownerTarget, enqueuedBefore>>,
             \A j \in Jobs : epc'[j] = "returned" => epc[j] \in {"add", "returned"}
      PROVE  DrainInv'
  <2>1. /\ m_workers' \in 0..MaxThreadCount /\ m_workers' > 0 /\ m_workers' >= m_workers
        /\ UNCHANGED vars \/ (m_workers \in Workers /\ StartThread(m_workers))
    BY <1>5, AddImpl, Zenon
  <2>2. m_workers' \in Nat
    BY <2>1
  <2>3. \A u \in Workers : pc'[u] = "ended" => pc[u] = "ended"
    <3>1. CASE UNCHANGED vars
      BY <3>1, Zenon DEF vars, threadVars
    <3>2. CASE m_workers \in Workers /\ StartThread(m_workers)
      <4>1. pc' = [pc EXCEPT ![m_workers] = "loop"]
        BY <3>2, Zenon DEF StartThread
      <4> QED
        BY <1>1, <4>1, Zenon
    <3> QED
      BY <2>1, <3>1, <3>2, Zenon
  <2>4. \A j \in Jobs : Served(j)'
    BY <2>1, Zenon DEF Served
  <2> QED
    BY <1>1, <1>5, <2>1, <2>2, <2>3, <2>4, DrainKept, Zenon
<1>6. ASSUME NEW j \in Jobs, EnqueueJob(j) \/ Producer(j) PROVE DrainInv'
  <2>1. epc \in [Jobs -> {"idle", "active", "queued", "size", "add", "returned"}]
    BY Zenon DEF ProducerInv
  <2>2. CASE EnqueueJob(j) \/ ReadActive(j) \/ ReadQueued(j)
    <3>1. /\ epc' = [epc EXCEPT ![j] = "active"] \/ epc' = [epc EXCEPT ![j] = "queued"]
                 \/ epc' = [epc EXCEPT ![j] = "size"]
          /\ UNCHANGED <<pc, m_workers, opc, ownerTarget, enqueuedBefore>>
      BY <2>2, Zenon
      DEF EnqueueJob, Enqueue, ReadActive, ReadQueued, vars, threadVars, poolVars, ownerVars
    <3>2. \A k \in Jobs : epc'[k] = "returned" => epc[k] = "returned"
      BY <2>1, <3>1, Zenon
    <3> QED
      BY <1>2, <3>1, <3>2, Zenon
  <2>3. CASE ReadSize(j)
    <3>1. /\ epc[j] = "size" /\ UNCHANGED <<pc, m_workers, opc, ownerTarget, enqueuedBefore>>
          /\ epc' = [epc EXCEPT ![j] = IF m_workers < target[j] THEN "add" ELSE "returned"]
      BY <2>3, Zenon DEF ReadSize, vars, threadVars, poolVars, ownerVars
    <3>2. epc'[j] = "returned" /\ InQueue(j) => m_workers > 0
      <4>1. target[j] \in Nat /\ (InQueue(j) => target[j] > 0)
        BY <3>1, Zenon DEF ProducerInv
      <4>2. epc'[j] = "returned" => ~(m_workers < target[j])
        BY <2>1, <3>1, Zenon
      <4> QED
        BY <1>1, <4>1, <4>2
    <3>3. \A k \in Jobs \ {j} : epc'[k] = epc[k]
      BY <2>1, <3>1, Zenon
    <3> QED
      BY <1>2, <3>1, <3>2, <3>3, Zenon DEF Served
  <2>4. CASE AddWorker(j)
    <3>1. /\ epc[j] = "add" /\ m_mutex = NULL /\ epc' = [epc EXCEPT ![j] = "returned"]
          /\ UNCHANGED <<opc, ownerTarget, enqueuedBefore>>
      BY <2>4, Zenon DEF AddWorker, ownerVars
    <3>2. CASE AddWorkerImpl(TRUE)
      <4>1. \A k \in Jobs : epc'[k] = "returned" => epc[k] \in {"add", "returned"}
        BY <2>1, <3>1, Zenon
      <4> QED
        BY <1>5, <3>1, <3>2, <4>1, Zenon
    <3>3. CASE dispatcherStopped /\ UNCHANGED <<m_workers, m_funcs, vars>>
      <4>1. j \notin enqueuedBefore
        BY <3>1, Zenon DEF ProducerInv
      <4>2. opc \in {"new"} \cup Stopping
        BY <1>1, <3>1, <3>3, PoolFacts, Zenon DEF OwnerInv
      <4>3. Served(j)'
        BY <3>1, <4>1, <4>2, Zenon DEF Served
      <4>4. \A k \in Jobs \ {j} : epc'[k] = epc[k]
        BY <2>1, <3>1, Zenon
      <4>5. UNCHANGED <<pc, m_workers>>
        BY <3>3, Zenon DEF vars, threadVars
      <4> QED
        BY <1>2, <3>1, <4>3, <4>4, <4>5, Zenon
    <3> QED
      BY <2>4, <3>2, <3>3, Zenon DEF AddWorker
  <2> QED
    BY <1>6, <2>2, <2>3, <2>4, Zenon DEF Producer
<1>7. CASE \E n \in WorkersToAdd : AddWorkers(n)
  BY <1>2, <1>7, Zenon DEF AddWorkers, vars, threadVars, ownerVars, producerVars
<1>8. CASE AddWorkersLoop \/ StartAdd
  <2>1. UNCHANGED <<opc, ownerTarget, enqueuedBefore, epc>>
    BY <1>8, Zenon DEF AddWorkersLoop, StartAdd, ownerVars, producerVars
  <2>2. CASE AddWorkerImpl(TRUE) \/ AddWorkerImpl(FALSE)
    BY <1>5, <2>1, <2>2, Zenon
  <2>3. CASE UNCHANGED <<vars, m_workers>>
    BY <1>2, <2>1, <2>3, Zenon DEF vars, threadVars
  <2> QED
    BY <1>8, <2>2, <2>3, Zenon DEF AddWorkersLoop, StartAdd
<1>9. CASE Start
  <2>1. /\ opc' = "starting" /\ ownerTarget' = TargetNumWorkers(m_workerCount)
        /\ UNCHANGED <<m_jobQueues, epc, pc, enqueuedBefore, m_workers>>
    BY <1>9, Zenon DEF Start, vars, queueVars, threadVars, producerVars, poolVars
  <2>2. ASSUME NEW j \in Jobs, InQueue(j) PROVE ownerTarget' > 0
    <3>1. m_workerCount \in Nat /\ m_jobCount \in Nat /\ m_currThreadCountLimit \in Nat \ {0}
      BY PoolFacts DEF QueuesOK, TypeOK, ProducerInv
    <3>2. m_jobCount > 0
      BY <2>2, QueuedCounts, Zenon
    <3> QED
      BY <2>1, <3>1, <3>2, TargetFacts, Zenon
  <2> QED
    BY <2>1, <2>2, DrainMoved, Zenon DEF Served
<1>10. ASSUME NEW t \in Workers, StartFunc(t) PROVE DrainInv'
  <2>1. /\ pc' = [pc EXCEPT ![t] = "loop"]
        /\ UNCHANGED <<m_jobQueues, epc, opc, ownerTarget, enqueuedBefore, m_workers>>
    BY <1>10, Zenon DEF StartFunc, StartThread, queueVars, poolVars, ownerVars, producerVars
  <2>2. \A u \in Workers : pc'[u] = "ended" => pc[u] = "ended"
    BY <1>1, <2>1, Zenon
  <2> QED
    BY <2>1, <2>2, DrainMoved, Zenon DEF Served
<1>11. CASE StartReaper
  <2>1. /\ opc = "starting" /\ m_workers >= ownerTarget
        /\ UNCHANGED <<m_jobQueues, epc, enqueuedBefore, m_workers>>
    BY <1>11, Zenon DEF StartReaper, StartThread, vars, queueVars, producerVars
  <2>2. \A u \in Workers : pc'[u] = "ended" => pc[u] = "ended"
    <3>1. CASE StartThread(m_jobReaperId)
      <4>1. pc' = [pc EXCEPT ![m_jobReaperId] = "loop"]
        BY <3>1, Zenon DEF StartThread
      <4> QED
        BY <1>1, <4>1, Zenon
    <3>2. CASE UNCHANGED vars
      BY <3>2, Zenon DEF vars, threadVars
    <3> QED
      BY <1>11, <3>1, <3>2, Zenon DEF StartReaper
  <2>3. ownerTarget > 0 => m_workers > 0
    BY <1>1, <2>1 DEF OwnerInv
  <2>4. \A j \in Jobs : Served(j) => Served(j)'
    BY <2>1, <2>3, Zenon DEF Served, Stopping
  <2> QED
    BY <2>1, <2>2, <2>4, DrainMoved, Zenon
<1>12. CASE WaitUntilEmpty \/ StopDispatcher \/ StopAfterEmpty \/ StopQueue
  <2>1. /\ opc \in {"running", "empty", "stopQueue"}
        /\ opc' \in Stopping /\ opc = "stopQueue" => UNCHANGED enqueuedBefore
        /\ opc = "stopQueue" => opc' = "join" /\ UNCHANGED enqueuedBefore
        /\ UNCHANGED <<m_jobQueues, epc, pc, m_workers>>
    BY <1>12, Zenon
    DEF WaitUntilEmpty, StopDispatcher, StopAfterEmpty, StopQueue, BeginStop, WaitEmpty, WaitEmptyLoop, Stop,
        vars, queueVars, threadVars, poolVars, producerVars
  <2>2. \A t \in Threads : pc[t] # "ended"
    BY <2>1, Zenon DEF OwnerInv
  <2>3. \A j \in Jobs : Served(j) => Served(j)'
    BY <2>1, Zenon DEF Served, Stopping
  <2> QED
    BY <1>1, <2>1, <2>2, <2>3, DrainMoved, Zenon
<1>13. CASE PickFunc
  <2>1. /\ opc = "join" /\ opc' \in {"join", "stopped"}
        /\ UNCHANGED <<m_jobQueues, epc, pc, enqueuedBefore, m_workers>>
    BY <1>13, Zenon DEF PickFunc, vars, queueVars, threadVars, producerVars
  <2>2. \A j \in Jobs : Served(j) => Served(j)'
    BY <2>1, Zenon DEF Served, Stopping
  <2> QED
    BY <2>1, <2>2, DrainMoved, Zenon
<1>14. CASE WaitForEnd
  BY <1>2, <1>14, Zenon DEF WaitForEnd, vars, threadVars, poolVars, producerVars
<1>15. CASE StoreStatus \/ \E level \in HealthLevels : NotifyNewStatus(level)
  BY <1>2, <1>15, Zenon
  DEF StoreStatus, NotifyNewStatus, SetHealth, ReleaseQueuedJobs, vars, threadVars, poolVars, ownerVars,
      producerVars
<1>16. CASE UNCHANGED dvars
  BY <1>2, <1>16, Zenon DEF dvars, vars, threadVars, dispatcherVars, poolVars, ownerVars, producerVars
<1> QED
  BY <1>3, <1>4, <1>6, <1>7, <1>8, <1>9, <1>10, <1>11, <1>12, <1>13, <1>14, <1>15, <1>16, Zenon
  DEF DNext, Owner

LEMMA Drained ==
  ASSUME QueuesOK, PoolOK, JoinInv, ProducerInv, OwnerInv, DrainInv
  PROVE  StopDrains
<1> SUFFICES ASSUME opc = "stopped", NEW j \in enqueuedBefore PROVE outcome[j] \in {"done", "aborted"}
  BY Zenon DEF StopDrains
<1>1. /\ j \in Jobs /\ epc[j] = "returned" /\ outcome[j] \notin {"new", "threw"}
      /\ outcome[j] \in {"new", "in", "done", "aborted", "threw"}
  BY Zenon DEF ProducerInv, QueuesOK, TypeOK
<1>2. \A t \in Threads : pc[t] \in {"none", "ended"}
  BY AllJoined, Zenon DEF StopJoinsAll
<1>3. ~InQueue(j)
  <2> SUFFICES ASSUME InQueue(j) PROVE FALSE
    BY Zenon
  <2>1. m_workers > 0
    BY <1>1, Zenon DEF DrainInv, Served
  <2>2. 0 \in Workers /\ 0 < m_workers
    BY <2>1, PoolFacts DEF PoolOK, Workers
  <2>3. pc[0] = "ended"
    BY <1>2, <2>2, PoolFacts, Zenon DEF OwnerInv
  <2> QED
    BY <2>2, <2>3, Zenon DEF DrainInv
<1>4. \A t \in Threads : job[t] # j
  BY <1>1, <1>2, JobQueueAssumption, Zenon DEF QueuesOK, JobsInv, HeldInv
<1>5. outcome[j] # "in"
  BY <1>1, <1>3, <1>4, Zenon DEF QueuesOK, JobsInv, SomewhereInv
<1> QED
  BY <1>1, <1>5, Zenon

LEMMA DrainInit == DInit => DrainInv
BY PoolFacts, Zenon DEF DInit, Init, DrainInv

LEMMA HaveWorkers ==
  ASSUME QueuesOK, PoolOK, JoinInv, OwnerInv, DrainInv
  PROVE  QueuedJobsHaveWorkers
<1> SUFFICES ASSUME NEW j \in Jobs, ~dispatcherStopped, epc[j] = "returned", QueuePlaces(j) # {}
             PROVE  \E t \in Workers : Running(t)
  BY Zenon DEF QueuedJobsHaveWorkers
<1>1. InQueue(j)
  BY Zenon DEF QueuePlaces, InQueue
<1>2. opc \in {"running", "empty"}
  BY Zenon DEF JoinInv, OwnerInv
<1>3. m_workers > 0
  BY <1>1, <1>2, Zenon DEF DrainInv, Served, Stopping
<1>4. 0 \in Workers /\ 0 < m_workers
  BY <1>3, PoolFacts DEF PoolOK, Workers
<1>5. pc[0] # "none" /\ pc[0] # "ended"
  BY <1>2, <1>4, PoolFacts, Zenon DEF OwnerInv
<1> QED
  BY <1>4, <1>5, Zenon DEF Running

\* The invariants hold always, for jobs that do not throw and workers that are
\* not held back, if there may be a worker at all.
LEMMA SteadyAlways ==
  ASSUME Steady
  PROVE  DSpec => [](QueuesOK /\ PoolOK /\ JoinInv /\ ProducerInv /\ OwnerInv /\ DrainInv)
<1>1. DInit => PoolOK /\ JoinInv /\ ProducerInv /\ OwnerInv /\ DrainInv
  BY PoolInit, JoinInit, ProducerInit, OwnerInit, DrainInit, Zenon
<1>2. QueuesOK /\ PoolOK /\ JoinInv /\ ProducerInv /\ OwnerInv /\ DrainInv /\ [DNext]_dvars
        => PoolOK' /\ JoinInv' /\ ProducerInv' /\ OwnerInv' /\ DrainInv'
  <2>1. QueuesOK => TypeOK
    BY Zenon DEF QueuesOK
  <2> QED
    BY <2>1, PoolNext, JoinNext, ProducerNext, OwnerNext, DrainNext, Zenon
<1> QED
  BY <1>1, <1>2, DQueues, PTL DEF DSpec

\* stop() ends the workers after all jobs are processed that were given to the
\* dispatcher before, for jobs that do not throw and workers that are not held
\* back, if there may be a worker at all.
THEOREM StopProcessesAll ==
  ASSUME ~MayThrow, "BackOff" \notin HealthLevels, InitThreadCount > 0
  PROVE  DSpec => []StopDrains
<1>1. Steady
  BY Zenon DEF Steady
<1>2. QueuesOK /\ PoolOK /\ JoinInv /\ ProducerInv /\ OwnerInv /\ DrainInv => StopDrains
  BY Drained, Zenon
<1> QED
  BY <1>1, <1>2, SteadyAlways, PTL

\* A running dispatcher has a running worker while a job waits whose enqueue()
\* has returned, under the same assumptions.
THEOREM QueuedJobsServed ==
  ASSUME ~MayThrow, "BackOff" \notin HealthLevels, InitThreadCount > 0
  PROVE  DSpec => []QueuedJobsHaveWorkers
<1>1. Steady
  BY Zenon DEF Steady
<1>2. QueuesOK /\ PoolOK /\ JoinInv /\ ProducerInv /\ OwnerInv /\ DrainInv => QueuedJobsHaveWorkers
  BY HaveWorkers, Zenon
<1> QED
  BY <1>1, <1>2, SteadyAlways, PTL

=============================================================================
