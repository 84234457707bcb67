------------------------------ MODULE JobQueue ------------------------------
(***************************************************************************)
(* hphp/util/job-queue.h: JobQueue and the loop of JobQueueWorker, over    *)
(* hphp/util/synchronizable-multi.  Any thread may enqueue a job at a      *)
(* priority.  Each worker dequeues a job and does it, or aborts it when it *)
(* was queued for too long; the job reaper only aborts.  Every thread has  *)
(* a condition variable of its own, kept in a list while it waits, so that *)
(* notify() chooses whom to wake.                                          *)
(*                                                                         *)
(* One step is what a thread does between two moments at which it holds    *)
(* no lock.  Which threads exist, and who changes the health level or      *)
(* stops the queue, is left open here; module JobQueueDispatcher says.     *)
(***************************************************************************)
EXTENDS Integers, Sequences, FiniteSets

CONSTANTS
  MaxThreadCount,        \* workers are 0 .. MaxThreadCount - 1
  HugeCount,             \* the first workers, which run on huge pages
  NumGroups,             \* num_numa_nodes()
  NumPriorities,
  Jobs,
  Priority,              \* the priority each job is enqueued at
  DropCache,             \* TRUE: m_dropCacheTimeout > 0
  LifoSwitchThreshold,
  MaxJobQueuing,         \* m_maxJobQueuingMs, in ticks; 0 for none, and no reaper
  ReleaseRate,           \* numOfJobsToRelease()
  HealthLevels,          \* "BackOff" and the levels that let workers dequeue
  Waitable,
  MayThrow,              \* TRUE: doJob() may throw
  MaxTime,               \* bound on the clock
  NULL

Workers == 0 .. MaxThreadCount - 1
m_jobReaperId == MaxThreadCount
Threads == 0 .. MaxThreadCount
Groups == 0 .. NumGroups - 1
Priorities == 0 .. NumPriorities - 1

ASSUME JobQueueAssumption ==
  /\ MaxThreadCount \in Nat \ {0} /\ HugeCount \in Nat
  /\ NumGroups \in Nat \ {0} /\ NumPriorities \in Nat \ {0}
  /\ IsFiniteSet(Jobs) /\ NULL \notin Jobs
  /\ Priority \in [Jobs -> Priorities]
  /\ LifoSwitchThreshold \in Nat /\ MaxJobQueuing \in Nat
  /\ ReleaseRate \in Int /\ MaxTime \in Nat
  /\ "Bold" \in HealthLevels
  /\ {DropCache, Waitable, MayThrow} \subseteq BOOLEAN

VARIABLES
  m_jobCount, m_jobQueues, m_stopped, m_workerCount,
  m_cond_list_vec,  \* per group, the condition variables waited on
  m_group,          \* the group notify() looks at first
  signalled,        \* waiting threads whose condition variable was signalled
  m_healthStatus,   \* what getHealthLevel() returns
  clock,            \* the monotonic clock
  enqueueTime,      \* per job, or NULL before enqueue()
  outcome,          \* per job: "new", "in", "done", "aborted" or "threw"
  pc,               \* per thread
  ableToDeque, flushed, now, job, expired,   \* locals, per thread
  waiter            \* the thread in waitEmpty(): "idle", "wait" or "signalled"

queueVars == <<m_jobCount, m_jobQueues, m_workerCount>>
syncVars == <<m_cond_list_vec, m_group, signalled>>
jobVars == <<enqueueTime, outcome>>
threadVars == <<pc, ableToDeque, flushed, now, job, expired>>
envVars == <<m_stopped, m_healthStatus, clock, waiter>>
vars == <<queueVars, syncVars, jobVars, threadVars, envVars>>

Init ==
  /\ m_jobCount = 0 /\ m_workerCount = 0
  /\ m_jobQueues = [p \in Priorities |-> <<>>]
  /\ m_stopped = FALSE
  /\ m_cond_list_vec = [g \in Groups |-> [high |-> <<>>, midLow |-> <<>>]]
  /\ m_group = 0
  /\ signalled = {}
  /\ m_healthStatus = "Bold"
  /\ clock = 0
  /\ enqueueTime = [j \in Jobs |-> NULL]
  /\ outcome = [j \in Jobs |-> "new"]
  /\ pc = [t \in Threads |-> "none"]
  /\ ableToDeque = [t \in Threads |-> FALSE]
  /\ flushed = [t \in Threads |-> FALSE]
  /\ now = [t \in Threads |-> 0]
  /\ job = [t \in Threads |-> NULL]
  /\ expired = [t \in Threads |-> FALSE]
  /\ waiter = "idle"

-----------------------------------------------------------------------------
(* SynchronizableMulti, as functions of the record Sync.                   *)

Waiting == {t \in Threads : pc[t] = "wait"}

Sync == [lists |-> m_cond_list_vec, group |-> m_group, signalled |-> signalled]

SetSync(s) ==
  /\ m_cond_list_vec' = s.lists
  /\ m_group' = s.group
  /\ signalled' = s.signalled

\* The node a thread binds to when it starts: nodes are handed out in turn.
NumaNode(t) == t % NumGroups

Empty(list) == list.high = <<>> /\ list.midLow = <<>>

Front(list) == IF list.high # <<>> THEN Head(list.high) ELSE Head(list.midLow)

PopFront(list) ==
  IF list.high # <<>> THEN [list EXCEPT !.high = Tail(@)]
                      ELSE [list EXCEPT !.midLow = Tail(@)]

\* A list has a condition variable at one place at most.
Without(seq, t) ==
  LET at == {i \in 1..Len(seq) : seq[i] = t}
      first == CHOOSE i \in at : TRUE
  IN  IF at = {} THEN seq
      ELSE [i \in 1 .. Len(seq) - 1 |-> IF i < first THEN seq[i] ELSE seq[i + 1]]

\* Takes t's condition variable out of whatever list it is in.
Unlink(s, t) ==
  [s EXCEPT !.lists = [g \in Groups |-> [high |-> Without(@[g].high, t),
                                         midLow |-> Without(@[g].midLow, t)]]]

Push(list, t, pri) ==
  CASE pri = "Highest" -> [list EXCEPT !.high = <<t>> \o @]
    [] pri = "High"    -> [list EXCEPT !.high = @ \o <<t>>]
    [] pri = "Normal"  -> [list EXCEPT !.midLow = <<t>> \o @]
    [] pri = "Low"     -> [list EXCEPT !.midLow = @ \o <<t>>]

\* waitImpl() up to the wait.
StartWait(s, t, pri) ==
  [Unlink(s, t) EXCEPT !.lists[NumaNode(t)] = Push(@, t, pri)]

\* The signal is lost on a thread that is not waiting.
Signal(s, t, waiting) == [s EXCEPT !.signalled = @ \cup ({t} \cap waiting)]

\* notify(): wakes the first thread of the first group that has one.
Notify(s, waiting) ==
  LET at(i) == (s.group + i) % NumGroups
      found == {i \in Groups : ~Empty(s.lists[at(i)])}
      g == at(CHOOSE i \in found : \A k \in found : i <= k)
  IN  IF found = {} THEN s
      ELSE [Signal(s, Front(s.lists[g]), waiting)
              EXCEPT !.lists[g] = PopFront(@), !.group = (g + 1) % NumGroups]

\* notifyAll(): every listed condition variable is signalled and unlinked.
NotifyAll(s, waiting) ==
  LET listed == {t \in Threads : \E g \in Groups :
                   \/ \E i \in 1..Len(s.lists[g].high) : s.lists[g].high[i] = t
                   \/ \E i \in 1..Len(s.lists[g].midLow) : s.lists[g].midLow[i] = t}
  IN  [s EXCEPT !.lists = [g \in Groups |-> [high |-> <<>>, midLow |-> <<>>]],
                !.signalled = @ \cup (listed \cap waiting)]

\* A return from the wait: the signal, if any, is used up; a wait that failed
\* or timed out also unlinks the condition variable.
Returned(t) == [Sync EXCEPT !.signalled = @ \ {t}]

NotifyMany(s, waiting, n) ==
  LET after[k \in 0..n] == IF k = 0 THEN s ELSE Notify(after[k - 1], waiting)
  IN  after[n]

-----------------------------------------------------------------------------
(* Producers: enqueue(), which reads the clock before it takes the lock.   *)

ReadTime(j) ==
  /\ outcome[j] = "new" /\ enqueueTime[j] = NULL
  /\ enqueueTime' = [enqueueTime EXCEPT ![j] = clock]
  /\ UNCHANGED <<queueVars, syncVars, outcome, threadVars, envVars>>

Enqueue(j) ==
  /\ outcome[j] = "new" /\ enqueueTime[j] # NULL
  /\ outcome' = [outcome EXCEPT ![j] = "in"]
  /\ m_jobQueues' = [m_jobQueues EXCEPT ![Priority[j]] = Append(@, j)]
  /\ m_jobCount' = m_jobCount + 1
  /\ SetSync(Notify(Sync, Waiting))
  /\ UNCHANGED <<m_workerCount, enqueueTime, threadVars, envVars>>

-----------------------------------------------------------------------------
(* Taking a job off the queues.                                            *)

\* The job has been queued for longer than m_maxJobQueuingMs.
TooOld(j, time) == MaxJobQueuing > 0 /\ time - enqueueTime[j] > MaxJobQueuing

\* The first of a set of queues that the reversed loop over them meets.
Highest(ps) == CHOOSE p \in ps : \A q \in ps : q <= p

\* Mutant: the last job is read and the first one removed.
TakeJob_PopsFront(t, p, last, old) ==
  LET jobs == m_jobQueues[p]
  IN  /\ m_workerCount' = m_workerCount + 1
      /\ m_jobCount' = m_jobCount - 1
      /\ job' = [job EXCEPT ![t] = IF last THEN jobs[Len(jobs)] ELSE Head(jobs)]
      /\ m_jobQueues' = [m_jobQueues EXCEPT ![p] = Tail(jobs)]
      /\ expired' = [expired EXCEPT ![t] = old]
      /\ pc' = [pc EXCEPT ![t] = "job"]

\* t leaves with the first or the last job of queue p.  The locals of the
\* dequeue end with it.
TakeJob(t, p, last, old) ==
  LET jobs == m_jobQueues[p]
  IN  /\ m_workerCount' = m_workerCount + 1
      /\ m_jobCount' = m_jobCount - 1
      /\ job' = [job EXCEPT ![t] = IF last THEN jobs[Len(jobs)] ELSE Head(jobs)]
      /\ m_jobQueues' = [m_jobQueues EXCEPT ![p] =
                           IF last THEN SubSeq(jobs, 1, Len(jobs) - 1) ELSE Tail(jobs)]
      /\ expired' = [expired EXCEPT ![t] = old]
      /\ pc' = [pc EXCEPT ![t] = "job"]

\* StopSignal is thrown: start() leaves its loop.
ThrowStopSignal(t) ==
  /\ pc' = [pc EXCEPT ![t] = "ended"]
  /\ UNCHANGED <<queueVars, job, expired>>

\* t waits in the queue's lock; s is the state of the condition variables.
Block(t, s, pri) ==
  /\ SetSync(StartWait(s, t, pri))
  /\ pc' = [pc EXCEPT ![t] = "wait"]
  /\ UNCHANGED <<queueVars, job, expired>>

\* Leaves dequeueMaybeExpiredImpl(): its locals end.
DropLocals(t) ==
  /\ ableToDeque' = [ableToDeque EXCEPT ![t] = FALSE]
  /\ flushed' = [flushed EXCEPT ![t] = FALSE]
  /\ now' = [now EXCEPT ![t] = 0]

KeepLocals(t, able, isFlushed) ==
  /\ ableToDeque' = [ableToDeque EXCEPT ![t] = able]
  /\ flushed' = [flushed EXCEPT ![t] = isFlushed]
  /\ UNCHANGED now

-----------------------------------------------------------------------------
(* A worker in dequeueMaybeExpiredImpl().                                  *)

\* Jobs of the highest priority are not held back.
MayDequeue(able) ==
  (m_jobCount # 0 /\ able) \/ m_jobQueues[NumPriorities - 1] # <<>>

\* Mutant: the LIFO test comes before the test for expiry.
Dequeue_LifoFirst(t) ==
  LET p == Highest({q \in Priorities : m_jobQueues[q] # <<>>})
  IN  TakeJob(t, p, m_jobCount - 1 >= LifoSwitchThreshold, TooOld(Head(m_jobQueues[p]), now[t]))

\* An expired job leaves from the front, others from either end.
Dequeue(t) ==
  LET p == Highest({q \in Priorities : m_jobQueues[q] # <<>>})
      old == TooOld(Head(m_jobQueues[p]), now[t])
  IN  TakeJob(t, p, ~old /\ m_jobCount - 1 >= LifoSwitchThreshold, old)

WaitPriority(t, isFlushed) ==
  CASE t < HugeCount /\ ~isFlushed -> "Highest"
    [] t < HugeCount /\ isFlushed  -> "High"
    [] ~(t < HugeCount) /\ ~isFlushed -> "Normal"
    [] ~(t < HugeCount) /\ isFlushed  -> "Low"

\* Mutant: a stopped queue is left before it is empty.
WorkerLoop_StopFirst(t, s, able, isFlushed) ==
  /\ \/ /\ m_stopped
        /\ ThrowStopSignal(t) /\ DropLocals(t) /\ SetSync(s)
     \/ /\ ~m_stopped /\ MayDequeue(able)
        /\ Dequeue(t) /\ DropLocals(t) /\ SetSync(s)
     \/ /\ ~m_stopped /\ ~MayDequeue(able)
        /\ Block(t, s, WaitPriority(t, isFlushed))
        /\ KeepLocals(t, able, isFlushed)
  /\ UNCHANGED <<jobVars, envVars>>

\* From the loop's condition to a return, a throw or the next wait.
WorkerLoop(t, s, able, isFlushed) ==
  /\ \/ /\ MayDequeue(able)
        /\ Dequeue(t) /\ DropLocals(t) /\ SetSync(s)
     \/ /\ ~MayDequeue(able) /\ m_stopped
        /\ ThrowStopSignal(t) /\ DropLocals(t) /\ SetSync(s)
     \/ /\ ~MayDequeue(able) /\ ~m_stopped
        /\ Block(t, s, WaitPriority(t, isFlushed))
        /\ KeepLocals(t, able, isFlushed)
  /\ UNCHANGED <<jobVars, envVars>>

\* Once set, ableToDeque is not looked at again.
Able(t) == ableToDeque[t] \/ m_healthStatus # "BackOff"

\* dequeueMaybeExpired() reads the clock before it takes the lock.
ReadNow(t) ==
  /\ pc[t] = "loop" /\ t \in Workers
  /\ now' = [now EXCEPT ![t] = clock]
  /\ pc' = [pc EXCEPT ![t] = "lock"]
  /\ UNCHANGED <<queueVars, syncVars, jobVars, envVars, ableToDeque, flushed, job, expired>>

EnterDequeue(t) ==
  /\ pc[t] = "lock"
  /\ WorkerLoop(t, Sync, m_healthStatus # "BackOff", FALSE)

Wake(t) ==
  /\ t \in signalled /\ t \in Workers
  /\ WorkerLoop(t, Returned(t), Able(t), flushed[t])

\* The condition variable stays in its list.
SpuriousWake(t) ==
  /\ pc[t] = "wait" /\ t \notin signalled /\ t \in Workers
  /\ WorkerLoop(t, Sync, Able(t), flushed[t])

\* Mutant: a worker that timed out waits again without looking at the queue.
TimeOut_WaitsAgain(t) ==
  /\ pc[t] = "wait" /\ t \in Workers
  /\ DropCache /\ ~flushed[t]
  /\ Block(t, Unlink(Returned(t), t), WaitPriority(t, TRUE))
  /\ KeepLocals(t, Able(t), TRUE)
  /\ UNCHANGED <<jobVars, envVars>>

\* The timed wait ends, whether or not a signal came late; with nothing to do
\* the lock is given up for the flush.
TimeOut(t) ==
  /\ pc[t] = "wait" /\ t \in Workers
  /\ DropCache /\ ~flushed[t]
  /\ LET s == Unlink(Returned(t), t)
     IN  \/ m_jobCount # 0 /\ WorkerLoop(t, s, Able(t), FALSE)
         \/ /\ m_jobCount = 0
            /\ SetSync(s)
            /\ pc' = [pc EXCEPT ![t] = "flush"]
            /\ UNCHANGED <<queueVars, jobVars, envVars, ableToDeque, flushed, now, job, expired>>

\* Mutant: the queue is not looked at again after the flush.
Flushed_NoRecheck(t) ==
  /\ pc[t] = "flush"
  /\ Block(t, Sync, WaitPriority(t, TRUE))
  /\ KeepLocals(t, Able(t), TRUE)
  /\ UNCHANGED <<jobVars, envVars>>

Flushed(t) ==
  /\ pc[t] = "flush"
  /\ WorkerLoop(t, Sync, Able(t), TRUE)

-----------------------------------------------------------------------------
(* The job reaper in dequeueOnlyExpiredImpl().                             *)

\* Waits until the oldest job expires.  wait() adds the microseconds to the
\* nanoseconds of the deadline without a carry, so the wait may fail at once,
\* any number of times, each taken for a notification and passed on.
ReaperWait(t, s) ==
  \E failures \in Threads :
    Block(t, NotifyMany(Unlink(s, t), Waiting \ {t}, failures), "Low")

ReaperLoop(t, s) ==
  LET old == {p \in Priorities : m_jobQueues[p] # <<>> /\ TooOld(Head(m_jobQueues[p]), clock)}
  IN  /\ \/ m_stopped /\ ThrowStopSignal(t) /\ SetSync(s)
         \/ /\ ~m_stopped /\ old # {}
            /\ TakeJob(t, Highest(old), FALSE, TRUE) /\ SetSync(s)
         \/ ~m_stopped /\ old = {} /\ ReaperWait(t, s)
      /\ UNCHANGED <<jobVars, envVars, ableToDeque, flushed, now>>

ReaperEnter(t) ==
  /\ pc[t] = "loop" /\ t = m_jobReaperId
  /\ ReaperLoop(t, Sync)

\* Woken by a notification, which is passed on.
ReaperWake(t) ==
  /\ t \in signalled /\ t = m_jobReaperId
  /\ ReaperLoop(t, Notify(Returned(t), Waiting \ {t}))

ReaperSpuriousWake(t) ==
  /\ pc[t] = "wait" /\ t \notin signalled /\ t = m_jobReaperId
  /\ ReaperLoop(t, Notify(Sync, Waiting \ {t}))

\* The wait times out, whether or not a signal came late.
ReaperTimeOut(t) ==
  /\ pc[t] = "wait" /\ t = m_jobReaperId
  /\ ReaperLoop(t, Unlink(Returned(t), t))

-----------------------------------------------------------------------------
(* JobQueueWorker::start() outside the dequeue.                            *)

StartThread(t) ==
  /\ pc[t] = "none"
  /\ t = m_jobReaperId => MaxJobQueuing > 0
  /\ pc' = [pc EXCEPT ![t] = "loop"]
  /\ UNCHANGED <<queueVars, syncVars, jobVars, envVars, ableToDeque, flushed, now, job, expired>>

FinishJob(t, how) ==
  /\ outcome' = [outcome EXCEPT ![job[t]] = how]
  /\ job' = [job EXCEPT ![t] = NULL]
  /\ expired' = [expired EXCEPT ![t] = FALSE]
  /\ UNCHANGED <<m_jobCount, m_jobQueues, syncVars, enqueueTime, envVars, ableToDeque, flushed, now>>

\* Mutant: the count is tested before it is decremented.
DoJob_TestsBefore(t) ==
  /\ pc[t] = "job"
  /\ FinishJob(t, IF expired[t] THEN "aborted" ELSE "done")
  /\ m_workerCount' = m_workerCount - 1
  /\ pc' = [pc EXCEPT ![t] = IF m_workerCount = 0 /\ Waitable THEN "signal" ELSE "loop"]

\* doJob() or abortJob(), then decActiveWorker().
DoJob(t) ==
  /\ pc[t] = "job"
  /\ FinishJob(t, IF expired[t] THEN "aborted" ELSE "done")
  /\ m_workerCount' = m_workerCount - 1
  /\ pc' = [pc EXCEPT ![t] = IF m_workerCount - 1 = 0 /\ Waitable THEN "signal" ELSE "loop"]

\* Mutant: the job is put down but the worker still counted, without a throw.
DoJobThrows_Loops(t) ==
  /\ MayThrow
  /\ pc[t] = "job"
  /\ FinishJob(t, "done")
  /\ pc' = [pc EXCEPT ![t] = "loop"]
  /\ UNCHANGED m_workerCount

\* The exception leaves start() and is kept by the thread's AsyncFunc.
DoJobThrows(t) ==
  /\ MayThrow
  /\ pc[t] = "job"
  /\ FinishJob(t, "threw")
  /\ pc' = [pc EXCEPT ![t] = "ended"]
  /\ UNCHANGED m_workerCount

SignalEmpty(t) ==
  /\ pc[t] = "signal"
  /\ waiter' = IF m_workerCount = 0 /\ m_jobCount = 0 /\ waiter = "wait"
               THEN "signalled" ELSE waiter
  /\ pc' = [pc EXCEPT ![t] = "loop"]
  /\ UNCHANGED <<queueVars, syncVars, jobVars, m_stopped, m_healthStatus, clock,
                 ableToDeque, flushed, now, job, expired>>

-----------------------------------------------------------------------------
(* waitEmpty(), releaseQueuedJobs(), stop() and what the queue looks at.   *)

\* Mutant: only queued jobs count.
Busy_QueueOnly == m_jobCount # 0

Busy == m_workerCount # 0 \/ m_jobCount # 0

WaitEmptyLoop ==
  /\ waiter' = IF Busy THEN "wait" ELSE "idle"
  /\ UNCHANGED <<queueVars, syncVars, jobVars, threadVars, m_stopped, m_healthStatus, clock>>

WaitEmpty == Waitable /\ waiter = "idle" /\ WaitEmptyLoop

WaitEmptyWake == waiter = "signalled" /\ WaitEmptyLoop

WaitEmptySpuriousWake == waiter = "wait" /\ WaitEmptyLoop

ReleaseQueuedJobs ==
  /\ ReleaseRate > 0
  /\ SetSync(NotifyMany(Sync, Waiting, IF ReleaseRate < m_jobCount THEN ReleaseRate ELSE m_jobCount))
  /\ UNCHANGED <<queueVars, jobVars, threadVars, envVars>>

\* Mutant: waiting threads are not told that the queue is stopped.
Stop_NoNotify ==
  /\ m_stopped' = TRUE
  /\ UNCHANGED <<queueVars, syncVars, jobVars, threadVars, m_healthStatus, clock, waiter>>

Stop ==
  /\ m_stopped' = TRUE
  /\ SetSync(NotifyAll(Sync, Waiting))
  /\ UNCHANGED <<queueVars, jobVars, threadVars, m_healthStatus, clock, waiter>>

SetHealth(level) ==
  /\ m_healthStatus' = level
  /\ UNCHANGED <<queueVars, syncVars, jobVars, threadVars, m_stopped, clock, waiter>>

Tick ==
  /\ clock < MaxTime
  /\ clock' = clock + 1
  /\ UNCHANGED <<queueVars, syncVars, jobVars, threadVars, m_stopped, m_healthStatus, waiter>>

\* What threads do by themselves once they are started.
Step(t) ==
  \/ ReadNow(t) \/ EnterDequeue(t) \/ Wake(t) \/ Flushed(t)
  \/ ReaperEnter(t) \/ ReaperWake(t)
  \/ DoJob(t) \/ SignalEmpty(t)

\* What need not happen: wake-ups nobody sent, and exceptions.
Unprompted(t) ==
  \/ SpuriousWake(t) \/ TimeOut(t)
  \/ ReaperSpuriousWake(t) \/ ReaperTimeOut(t)
  \/ DoJobThrows(t)

Next ==
  \/ \E j \in Jobs : ReadTime(j) \/ Enqueue(j)
  \/ \E t \in Threads : StartThread(t) \/ Step(t) \/ Unprompted(t)
  \/ WaitEmpty \/ WaitEmptyWake \/ WaitEmptySpuriousWake
  \/ ReleaseQueuedJobs \/ Stop
  \/ \E level \in HealthLevels : SetHealth(level)
  \/ Tick

Spec == Init /\ [][Next]_vars

\* Threads run and jobs end; a wait ends when its condition is signalled.
FairSpec ==
  /\ Spec
  /\ \A t \in Threads : WF_vars(Step(t))
  /\ WF_vars(WaitEmptyWake)

-----------------------------------------------------------------------------
(* Properties.                                                             *)

\* Every variable has its type; a signalled thread waits.
TypeOK ==
  /\ m_jobCount \in Nat /\ m_workerCount \in Nat
  /\ m_jobQueues \in [Priorities -> Seq(Jobs)]
  /\ m_stopped \in BOOLEAN
  /\ m_cond_list_vec \in [Groups -> [high : Seq(Threads), midLow : Seq(Threads)]]
  /\ m_group \in Groups
  /\ signalled \subseteq Waiting
  /\ m_healthStatus \in HealthLevels
  /\ clock \in Nat
  /\ enqueueTime \in [Jobs -> Nat \cup {NULL}]
  /\ outcome \in [Jobs -> {"new", "in", "done", "aborted", "threw"}]
  /\ pc \in [Threads -> {"none", "loop", "lock", "wait", "flush", "job", "signal", "ended"}]
  /\ ableToDeque \in [Threads -> BOOLEAN]
  /\ flushed \in [Threads -> BOOLEAN]
  /\ now \in [Threads -> Nat]
  /\ job \in [Threads -> Jobs \cup {NULL}]
  /\ expired \in [Threads -> BOOLEAN]
  /\ waiter \in {"idle", "wait", "signalled"}

QueuePlaces(j) ==
  UNION {{<<p, i>> : i \in {k \in 1..Len(m_jobQueues[p]) : m_jobQueues[p][k] = j}} :
           p \in Priorities}

\* A job that was enqueued and is not finished is in exactly one place: one
\* position of one queue, or the hands of one thread.  Workers and the reaper
\* take from both ends of the queues without losing a job or doing one twice.
JobsAreConserved ==
  \A j \in Jobs :
    Cardinality(QueuePlaces(j)) + Cardinality({t \in Threads : job[t] = j})
      = IF outcome[j] = "in" THEN 1 ELSE 0

\* m_jobCount counts the queued jobs of all priorities, so that the loop over
\* the queues always finds one and assert(false) is not reached; m_workerCount
\* counts the threads with a job, and those that an exception ended.
CountsAreExact ==
  /\ m_jobCount = Cardinality(UNION {QueuePlaces(j) : j \in Jobs})
  /\ m_workerCount = Cardinality({t \in Threads : pc[t] = "job"})
                       + Cardinality({j \in Jobs : outcome[j] = "threw"})

\* A worker that has yet to look at the queues again before it waits, or the
\* reaper on its way to pass a notification on.
OnItsWay(t) ==
  \/ t \in signalled
  \/ t \in Workers /\ pc[t] \in {"loop", "lock", "flush", "job", "signal"}

\* No wake-up is lost: while there is a job that a worker may take, either
\* some worker is on its way to the queues or none is waiting for a job.
NoStrandedJobs ==
  MayDequeue(m_healthStatus # "BackOff") /\ Waiting \cap Workers # {}
    => \E t \in Threads : OnItsWay(t)

\* When waitEmpty() returns, every job enqueued so far has been finished by
\* its worker, not merely taken.
EmptyMeansDone ==
  [][waiter # "idle" /\ waiter' = "idle" => \A j \in Jobs : outcome[j] # "in"]_vars

Takes(t) == pc[t] # "job" /\ pc'[t] = "job"

\* Only jobs that were queued for too long are aborted, from whichever end
\* jobs are taken and whenever the thread read the clock.
OnlyOldJobsAborted ==
  [][\A t \in Threads : Takes(t) /\ expired'[t] => TooOld(job'[t], clock)]_vars

\* While the health level is BackOff a worker takes only jobs of the highest
\* priority; the others stay blocked.
BackOffBlocks ==
  [][\A t \in Threads : Takes(t) /\ ~expired'[t] /\ m_healthStatus = "BackOff"
       => Priority[job'[t]] = NumPriorities - 1]_vars

Running(t) == pc[t] \notin {"none", "ended"}

\* A queued job is finished in the end if a worker runs, even when the queue
\* is stopped meanwhile: no order of notifications, time-outs and spurious
\* wake-ups leaves it behind.
QueuedJobsFinish ==
  \A j \in Jobs : (outcome[j] = "in" /\ \E t \in Workers : Running(t)) ~> outcome[j] # "in"

\* Unless the queue is stopped meanwhile, waitEmpty() returns once the jobs
\* are finished: the worker that brings the
\* count of active workers to zero signals, or leaves that to a later one.
WaitEmptyReturns ==
  (waiter = "wait" /\ \E t \in Workers : Running(t)) ~> (waiter = "idle" \/ m_stopped)

=============================================================================
