------------------------------ MODULE Treadmill ------------------------------
(***************************************************************************)
(* hphp/runtime/vm/treadmill.{h,cpp}: work is deferred until every request *)
(* that was in flight when it was enqueued has finished.  Requests and     *)
(* work items draw generation counts from one counter, kept increasing     *)
(* under s_genLock although the wall clock it is read from need not be.    *)
(*                                                                         *)
(* The clients are one object table: a running request may pick up any     *)
(* reachable object, any thread may unlink an object and enqueue the work  *)
(* item that frees it.                                                     *)
(***************************************************************************)
EXTENDS Integers, Sequences, FiniteSets

CONSTANTS
  Threads,              \* threads that use the treadmill
  Objects,              \* what work items free
  NoThread, NoObject,   \* model values
  ONE_SEC_IN_MICROSEC,  \* clock units in a second
  MaxRequestAge,        \* MaxRequestAgeFactor * RequestTimeoutSeconds
  GcRetryLimit,         \* the bound on finishRequest's status loop
  ClockMonotone,        \* TRUE: gettimeofday() never steps back
  MaxCalls,             \* bound: calls of enqueue and visits of the GC trigger
  MaxTime,              \* bound: latest wall-clock value
  MaxRequests           \* bound: requests started

ASSUME TreadmillAssumption ==
  /\ IsFiniteSet(Threads) /\ IsFiniteSet(Objects)
  /\ NoThread \notin Threads
  /\ NoObject \notin Objects
  /\ ONE_SEC_IN_MICROSEC \in Nat \ {0}
  /\ MaxRequestAge \in Nat
  /\ GcRetryLimit \in Nat
  /\ ClockMonotone \in BOOLEAN
  /\ MaxCalls \in Nat
  /\ MaxTime \in Nat
  /\ MaxRequests \in Nat

VARIABLES
  now,                      \* what gettimeofday() returns
  g_nextThreadIdx,
  tl_thisThreadIdx,         \* per thread
  s_genLock,                \* the thread inside a GenCountGuard, or NoThread
  s_latestCount,
  s_inflightRequests,       \* threadIdx -> RequestInfo
  s_oldestRequestInFlight,
  s_tq,                     \* pending work items, oldest first
  s_destroyed,
  m_globalGCStatus,         \* per thread
  PendingGCFlag,            \* per thread: the surprise flag
  gcCalls,                  \* calls of the GC trigger so far
  gcVisit,                  \* threads the running trigger has yet to visit
  gcTarget,                 \* the thread whose flag the trigger sets next
  aborted,                  \* how checkOldest ended the process, if it did
  pc,                       \* where each thread is in start/finishRequest
  requests,                 \* requests started so far, for the bound
  startTime,                \* startRequest's local, per thread
  enq,                      \* enqueueInternal's locals, per thread
  toFire,                   \* finishRequest's local, per thread
  gcTries,                  \* finishRequest's loop counter, per thread
  reachable,                \* objects a request can still find
  held,                     \* objects each request holds a pointer to
  freed                     \* objects whose work item has run

clientVars == <<reachable, held, freed>>
triggerVars == <<gcCalls, gcVisit, gcTarget>>
gcVars == <<m_globalGCStatus, PendingGCFlag, triggerVars, gcTries>>
idxVars == <<g_nextThreadIdx, tl_thisThreadIdx>>
startVars == <<requests, startTime>>
genVars == <<s_latestCount, s_inflightRequests, s_oldestRequestInFlight, s_tq>>
vars == <<now, idxVars, s_genLock, genVars, s_destroyed, gcVars, aborted, pc,
          startVars, enq, toFire, clientVars>>

kInvalidThreadIdx == -1
kIdleGenCount == 0
RequestInfo == [startTime : Nat, pthreadId : Threads \cup {NoThread}]
WorkItem == [obj : Objects, m_gen : Nat]
GlobalGCStatus == {"Idle", "OnRequestWithNoPendingExecution",
                   "OnRequestWithPendingExecution"}
NoEnqueue == [obj |-> NoObject, time |-> 0]

Init ==
  /\ now \in 1..MaxTime
  /\ g_nextThreadIdx = 0
  /\ tl_thisThreadIdx = [t \in Threads |-> kInvalidThreadIdx]
  /\ s_genLock = NoThread
  /\ s_latestCount = 0
  /\ s_inflightRequests = [i \in {} |-> [startTime |-> kIdleGenCount,
                                         pthreadId |-> NoThread]]
  /\ s_oldestRequestInFlight = 0
  /\ s_tq = <<>>
  /\ s_destroyed = FALSE
  /\ m_globalGCStatus = [t \in Threads |-> "Idle"]
  /\ PendingGCFlag = [t \in Threads |-> FALSE]
  /\ gcCalls = 0
  /\ gcVisit = {}
  /\ gcTarget = NoThread
  /\ aborted = "no"
  /\ pc = [t \in Threads |-> "idle"]
  /\ requests = 0
  /\ startTime = [t \in Threads |-> 0]
  /\ enq = [t \in Threads |-> NoEnqueue]
  /\ toFire = [t \in Threads |-> <<>>]
  /\ gcTries = [t \in Threads |-> 0]
  /\ reachable = Objects
  /\ held = [t \in Threads |-> {}]
  /\ freed = {}

-----------------------------------------------------------------------------
(* Time.                                                                   *)

\* Slip: a reading equal to the latest count is let through.
correctTime_Equal(time) == IF time < s_latestCount THEN s_latestCount + 1 ELSE time

\* correctTime: the value s_latestCount takes, and the count handed out.
correctTime(time) == IF time <= s_latestCount THEN s_latestCount + 1 ELSE time

\* int64_t division truncates towards zero.
TruncDiv(a, b) == IF a >= 0 THEN a \div b ELSE -((-a) \div b)

\* getOldestStartTime, in seconds.
getOldestStartTime ==
  TruncDiv(s_oldestRequestInFlight - g_nextThreadIdx, ONE_SEC_IN_MICROSEC) + 1

\* getAgeOldestRequest, in seconds.
getAgeOldestRequest ==
  IF s_oldestRequestInFlight = 0 THEN 0
  ELSE TruncDiv(now - s_oldestRequestInFlight, ONE_SEC_IN_MICROSEC)

\* getOldestRequestThreadId: some slot has the oldest start time, or the code
\* runs into not_reached().
getOldestRequestThreadId ==
  IF \E i \in DOMAIN s_inflightRequests :
       s_inflightRequests[i].startTime = s_oldestRequestInFlight
  THEN "SIGABRT" ELSE "not_reached"

\* checkOldest: what becomes of the process.
checkOldest ==
  IF MaxRequestAge # 0 /\ getAgeOldestRequest > MaxRequestAge
  THEN getOldestRequestThreadId ELSE aborted

\* The wall clock moves on, or is stepped back by an adjustment.
Tick ==
  /\ aborted = "no"
  /\ \E c \in 1..MaxTime : (ClockMonotone => c > now) /\ now' = c
  /\ UNCHANGED <<idxVars, s_genLock, genVars, s_destroyed, gcVars, aborted, pc,
                 startVars, enq, toFire, clientVars>>

-----------------------------------------------------------------------------
(* Requests.                                                               *)

\* Where a thread is, while the process has not been aborted.
At(t, places) == aborted = "no" /\ pc[t] \in places

\* The bound on calls has room for n more; a GC trigger visits every thread.
CallsLeft(n) ==
  n + gcCalls * Cardinality(Threads) + Cardinality(Objects \ reachable) <= MaxCalls

\* A thread that is inside enqueueInternal does nothing else meanwhile.
Free(t) == enq[t] = NoEnqueue

\* startRequest up to the lock: threadIdx() and getTime().  Its caller,
\* hphp_session_init, has just cleared the thread's surprise flags.
StartRequest(t) ==
  /\ At(t, {"idle"}) /\ Free(t) /\ ~s_destroyed
  /\ requests < MaxRequests /\ requests' = requests + 1
  /\ IF tl_thisThreadIdx[t] = kInvalidThreadIdx
     THEN /\ tl_thisThreadIdx' = [tl_thisThreadIdx EXCEPT ![t] = g_nextThreadIdx]
          /\ g_nextThreadIdx' = g_nextThreadIdx + 1
     ELSE UNCHANGED idxVars
  /\ startTime' = [startTime EXCEPT ![t] = now]
  /\ PendingGCFlag' = [PendingGCFlag EXCEPT ![t] = FALSE]
  /\ pc' = [pc EXCEPT ![t] = "starting"]
  /\ UNCHANGED <<now, s_genLock, genVars, s_destroyed, m_globalGCStatus,
                 triggerVars, gcTries, aborted, enq, toFire, clientVars>>

\* s_inflightRequests.resize(idx + 1), when idx is past the end.
Resized(idx) ==
  IF idx \in DOMAIN s_inflightRequests THEN s_inflightRequests
  ELSE [i \in 0..idx |->
          IF i \in DOMAIN s_inflightRequests THEN s_inflightRequests[i]
          ELSE [startTime |-> kIdleGenCount, pthreadId |-> NoThread]]

\* startRequest under the lock.
StartRequestLocked(t) ==
  LET idx == tl_thisThreadIdx[t]
      gen == correctTime(startTime[t])
  IN /\ At(t, {"starting"}) /\ s_genLock = NoThread
     /\ aborted' = checkOldest
     /\ s_latestCount' = gen
     /\ s_inflightRequests' =
          [Resized(idx) EXCEPT ![idx] = [startTime |-> gen, pthreadId |-> t]]
     /\ s_oldestRequestInFlight' =
          IF s_oldestRequestInFlight = 0 THEN gen ELSE s_oldestRequestInFlight
     /\ m_globalGCStatus' =
          [m_globalGCStatus EXCEPT ![t] =
             IF @ = "Idle" THEN "OnRequestWithNoPendingExecution" ELSE @]
     /\ startTime' = [startTime EXCEPT ![t] = 0]  \* out of scope
     /\ pc' = [pc EXCEPT ![t] = "running"]
     /\ UNCHANGED <<now, idxVars, s_genLock, s_tq, s_destroyed, PendingGCFlag,
                    triggerVars, gcTries, requests, enq, toFire, clientVars>>

\* The start times of the requests in flight according to `reqs'.
StartTimes(reqs) ==
  {reqs[i].startTime : i \in DOMAIN reqs} \ {kIdleGenCount}

\* Slip: the requests still in flight are not looked at.
IsLimit_NoScan(limit, reqs) == limit = s_latestCount + 1

\* limit: the oldest start time left, or s_latestCount + 1 if there is none.
IsLimit(limit, reqs) ==
  /\ limit \in StartTimes(reqs) \cup {s_latestCount + 1}
  /\ \A s \in StartTimes(reqs) : limit <= s

\* Slip: the limit is one too low.
IsFirePrefix_OffByOne(n, limit) ==
  /\ \A i \in 1..n : s_tq[i].m_gen + 1 < limit
  /\ n < Len(s_tq) => s_tq[n + 1].m_gen + 1 >= limit

\* The loop over s_tq stops at the first item whose count is not below limit.
IsFirePrefix(n, limit) ==
  /\ \A i \in 1..n : s_tq[i].m_gen < limit
  /\ n < Len(s_tq) => s_tq[n + 1].m_gen >= limit

\* The request that finished was the oldest: work items may have become due.
CollectWork(t, reqs) ==
  \E limit \in StartTimes(reqs) \cup {s_latestCount + 1}, n \in 0..Len(s_tq) :
    /\ IsLimit(limit, reqs)
    /\ IsFirePrefix(n, limit)
    /\ s_oldestRequestInFlight' = IF limit = s_latestCount + 1 THEN 0 ELSE limit
    /\ toFire' = [toFire EXCEPT ![t] = SubSeq(s_tq, 1, n)]
    /\ s_tq' = SubSeq(s_tq, n + 1, Len(s_tq))

\* finishRequest under the lock, up to the GC status loop.  The request's own
\* pointers died before hphp_session_exit called it.
FinishRequest(t) ==
  LET idx == tl_thisThreadIdx[t]
      reqs == [s_inflightRequests EXCEPT ![idx].startTime = kIdleGenCount]
  IN /\ At(t, {"running"}) /\ Free(t) /\ s_genLock = NoThread
     /\ s_inflightRequests' = reqs
     /\ IF s_oldestRequestInFlight = s_inflightRequests[idx].startTime
        THEN CollectWork(t, reqs)
        ELSE UNCHANGED <<s_oldestRequestInFlight, toFire, s_tq>>
     /\ held' = [held EXCEPT ![t] = {}]
     /\ gcTries' = [gcTries EXCEPT ![t] = 0]
     /\ s_genLock' = t
     /\ pc' = [pc EXCEPT ![t] = "casPending"]
     /\ UNCHANGED <<now, idxVars, s_latestCount, s_destroyed, m_globalGCStatus,
                    PendingGCFlag, triggerVars, aborted, startVars, enq,
                    reachable, freed>>

\* changeGlobalGCStatus(from, Idle) in the status loop; the lock is released
\* when the loop is left.
ChangeToIdle(t, from, otherwise, tries) ==
  /\ IF m_globalGCStatus[t] = from
     THEN /\ m_globalGCStatus' = [m_globalGCStatus EXCEPT ![t] = "Idle"]
          /\ gcTries' = [gcTries EXCEPT ![t] = 0]
          /\ s_genLock' = NoThread
          /\ pc' = [pc EXCEPT ![t] = "firing"]
     ELSE /\ gcTries' = [gcTries EXCEPT ![t] = tries]
          /\ IF tries < GcRetryLimit
             THEN s_genLock' = s_genLock /\ pc' = [pc EXCEPT ![t] = otherwise]
             ELSE s_genLock' = NoThread /\ pc' = [pc EXCEPT ![t] = "firing"]
          /\ m_globalGCStatus' = m_globalGCStatus
  /\ UNCHANGED <<now, idxVars, genVars, s_destroyed, PendingGCFlag, triggerVars,
                 aborted, startVars, enq, toFire, clientVars>>

CasPendingToIdle(t) ==
  /\ At(t, {"casPending"})
  /\ ChangeToIdle(t, "OnRequestWithPendingExecution", "casNoPending", gcTries[t])

CasNoPendingToIdle(t) ==
  /\ At(t, {"casNoPending"})
  /\ ChangeToIdle(t, "OnRequestWithNoPendingExecution", "casPending",
                  gcTries[t] + 1)

\* toFire[i]->run(), outside the lock.
RunItem(t) ==
  /\ At(t, {"firing"}) /\ Free(t) /\ toFire[t] # <<>>
  /\ freed' = freed \cup {Head(toFire[t]).obj}
  /\ toFire' = [toFire EXCEPT ![t] = Tail(@)]
  /\ UNCHANGED <<now, idxVars, s_genLock, genVars, s_destroyed, gcVars, aborted,
                 pc, startVars, enq, reachable, held>>

\* finishRequest returns.
FinishReturn(t) ==
  /\ At(t, {"firing"}) /\ Free(t) /\ toFire[t] = <<>>
  /\ pc' = [pc EXCEPT ![t] = "idle"]
  /\ UNCHANGED <<now, idxVars, s_genLock, genVars, s_destroyed, gcVars, aborted,
                 startVars, enq, toFire, clientVars>>

-----------------------------------------------------------------------------
(* Work items and their clients.                                           *)

\* A running request finds a reachable object and keeps a pointer to it.
Acquire(t, o) ==
  /\ At(t, {"running"}) /\ Free(t)
  /\ o \in reachable \ held[t]
  /\ held' = [held EXCEPT ![t] = @ \cup {o}]
  /\ UNCHANGED <<now, idxVars, s_genLock, genVars, s_destroyed, gcVars, aborted,
                 pc, startVars, enq, toFire, reachable, freed>>

\* A thread unlinks an object and calls enqueue, which reads the clock before
\* it takes the lock, or drops the item once the queue has been destroyed.
Enqueue(t, o) ==
  /\ At(t, {"idle", "running", "firing"}) /\ Free(t)
  /\ o \in reachable /\ CallsLeft(1)
  /\ reachable' = reachable \ {o}
  /\ enq' = [enq EXCEPT ![t] =
               IF s_destroyed THEN @ ELSE [obj |-> o, time |-> now]]
  /\ UNCHANGED <<now, idxVars, s_genLock, genVars, s_destroyed, gcVars, aborted,
                 pc, startVars, toFire, held, freed>>

\* enqueueInternal under the lock.
EnqueueLocked(t) ==
  LET gen == correctTime(enq[t].time)
  IN /\ aborted = "no" /\ ~Free(t) /\ s_genLock = NoThread
     /\ s_latestCount' = gen
     /\ s_tq' = Append(s_tq, [obj |-> enq[t].obj, m_gen |-> gen])
     /\ enq' = [enq EXCEPT ![t] = NoEnqueue]
     /\ UNCHANGED <<now, idxVars, s_genLock, s_inflightRequests,
                    s_oldestRequestInFlight, s_destroyed, gcVars, aborted, pc,
                    startVars, toFire, clientVars>>

\* ~PendingTriggers at process exit, when no thread is in the treadmill.
DestroyQueue ==
  /\ aborted = "no" /\ ~s_destroyed
  /\ \A t \in Threads : pc[t] = "idle" /\ Free(t)
  /\ s_destroyed' = TRUE
  /\ s_tq' = <<>>
  /\ UNCHANGED <<now, idxVars, s_genLock, s_latestCount, s_inflightRequests,
                 s_oldestRequestInFlight, gcVars, aborted, pc, startVars, enq,
                 toFire, clientVars>>

-----------------------------------------------------------------------------
(* The global GC trigger: SetPendingGCForAllOnRequestThread visits the     *)
(* threads one at a time, a status CAS and then the surprise flag.         *)

\* ExecutePerThread takes s_thread_info_mutex: one trigger at a time.
TriggerGC ==
  /\ aborted = "no" /\ gcVisit = {} /\ gcTarget = NoThread
  /\ CallsLeft(Cardinality(Threads))
  /\ gcCalls' = gcCalls + 1
  /\ gcVisit' = Threads
  /\ UNCHANGED <<now, idxVars, s_genLock, genVars, s_destroyed, gcTarget,
                 m_globalGCStatus, PendingGCFlag, gcTries, aborted, pc,
                 startVars, enq, toFire, clientVars>>

\* Slip: the status is stored, not compared and exchanged.
SetPendingGCStatus_Store(t) ==
  /\ aborted = "no" /\ t \in gcVisit /\ gcTarget = NoThread
  /\ gcVisit' = gcVisit \ {t}
  /\ m_globalGCStatus' = [m_globalGCStatus EXCEPT ![t] =
                            "OnRequestWithPendingExecution"]
  /\ gcTarget' = t
  /\ UNCHANGED <<now, idxVars, s_genLock, genVars, s_destroyed, PendingGCFlag,
                 gcCalls, gcTries, aborted, pc, startVars, enq, toFire,
                 clientVars>>

SetPendingGCStatus(t) ==
  /\ aborted = "no" /\ t \in gcVisit /\ gcTarget = NoThread
  /\ gcVisit' = gcVisit \ {t}
  /\ IF m_globalGCStatus[t] = "OnRequestWithNoPendingExecution"
     THEN /\ m_globalGCStatus' = [m_globalGCStatus EXCEPT ![t] =
                                    "OnRequestWithPendingExecution"]
          /\ gcTarget' = t
     ELSE UNCHANGED <<m_globalGCStatus, gcTarget>>
  /\ UNCHANGED <<now, idxVars, s_genLock, genVars, s_destroyed, PendingGCFlag,
                 gcCalls, gcTries, aborted, pc, startVars, enq, toFire,
                 clientVars>>

SetPendingGCFlag(t) ==
  /\ aborted = "no" /\ gcTarget = t
  /\ PendingGCFlag' = [PendingGCFlag EXCEPT ![t] = TRUE]
  /\ gcTarget' = NoThread
  /\ UNCHANGED <<now, idxVars, s_genLock, genVars, s_destroyed,
                 m_globalGCStatus, gcCalls, gcVisit, gcTries, aborted, pc,
                 startVars, enq, toFire, clientVars>>

\* handle_request_surprise at a safe point of the request collects the heap.
HandlePendingGC(t) ==
  /\ At(t, {"running"}) /\ Free(t) /\ PendingGCFlag[t]
  /\ PendingGCFlag' = [PendingGCFlag EXCEPT ![t] = FALSE]
  /\ UNCHANGED <<now, idxVars, s_genLock, genVars, s_destroyed,
                 m_globalGCStatus, triggerVars, gcTries, aborted, pc, startVars,
                 enq, toFire, clientVars>>

ThreadStep(t) ==
  \/ StartRequest(t) \/ StartRequestLocked(t)
  \/ FinishRequest(t) \/ CasPendingToIdle(t) \/ CasNoPendingToIdle(t)
  \/ RunItem(t) \/ FinishReturn(t)
  \/ EnqueueLocked(t)
  \/ \E o \in Objects : Acquire(t, o) \/ Enqueue(t, o)
  \/ SetPendingGCStatus(t) \/ SetPendingGCFlag(t) \/ HandlePendingGC(t)

Next ==
  \/ Tick \/ DestroyQueue \/ TriggerGC
  \/ \E t \in Threads : ThreadStep(t)

Spec == Init /\ [][Next]_vars

-----------------------------------------------------------------------------
(* Properties.                                                             *)

\* The thread's slot of s_inflightRequests, kIdleGenCount when it has none.
GenOf(t) ==
  IF tl_thisThreadIdx[t] \in DOMAIN s_inflightRequests
  THEN s_inflightRequests[tl_thisThreadIdx[t]].startTime ELSE kIdleGenCount

InFlight == {t \in Threads : GenOf(t) # kIdleGenCount}

PcValues == {"idle", "starting", "running", "casPending", "casNoPending", "firing"}

\* Every variable has its type.
TypeOK ==
  /\ now \in Nat
  /\ g_nextThreadIdx \in Nat
  /\ tl_thisThreadIdx \in [Threads -> Nat \cup {kInvalidThreadIdx}]
  /\ s_genLock \in Threads \cup {NoThread}
  /\ s_latestCount \in Nat
  /\ DOMAIN s_inflightRequests \in SUBSET Nat
  /\ \A i \in DOMAIN s_inflightRequests : 0..i \subseteq DOMAIN s_inflightRequests
  /\ s_inflightRequests \in [DOMAIN s_inflightRequests -> RequestInfo]
  /\ s_oldestRequestInFlight \in Nat
  /\ s_tq \in Seq(WorkItem)
  /\ s_destroyed \in BOOLEAN
  /\ m_globalGCStatus \in [Threads -> GlobalGCStatus]
  /\ PendingGCFlag \in [Threads -> BOOLEAN]
  /\ gcCalls \in Nat
  /\ gcVisit \in SUBSET Threads
  /\ gcTarget \in Threads \cup {NoThread}
  /\ aborted \in {"no", "SIGABRT", "not_reached"}
  /\ pc \in [Threads -> PcValues]
  /\ requests \in Nat
  /\ startTime \in [Threads -> Nat]
  /\ enq \in [Threads -> [obj : Objects, time : Nat] \cup {NoEnqueue}]
  /\ toFire \in [Threads -> Seq(WorkItem)]
  /\ gcTries \in [Threads -> Nat]
  /\ reachable \in SUBSET Objects
  /\ held \in [Threads -> SUBSET Objects]
  /\ freed \in SUBSET Objects

\* What the treadmill is for: a request never holds a pointer to an object
\* whose work item has run, although items run outside the lock, on other
\* threads, and the clock they are stamped from may repeat or step back.
NoUseAfterFree == \A t \in Threads : held[t] \cap freed = {}

\* s_oldestRequestInFlight, which getAgeOldestRequest and getOldestStartTime
\* read without the lock, is the least start time in flight or 0 for none.
OldestIsLeastInFlight ==
  IF InFlight = {} THEN s_oldestRequestInFlight = 0
  ELSE /\ \E t \in InFlight : GenOf(t) = s_oldestRequestInFlight
       /\ \A t \in InFlight : s_oldestRequestInFlight <= GenOf(t)

\* checkOldest never runs into getOldestRequestThreadId's not_reached().
AbortFindsOldest == aborted # "not_reached"

\* "That pattern guarantees a monotonically increasing counter": s_tq is in
\* strictly increasing order, which the prefix scan of finishRequest needs,
\* and no item shares its count with a request in flight.
CountsAreUnique ==
  /\ \A i, j \in 1..Len(s_tq) : i < j => s_tq[i].m_gen < s_tq[j].m_gen
  /\ \A i \in 1..Len(s_tq), t \in InFlight : s_tq[i].m_gen # GenOf(t)
  /\ \A t, u \in InFlight : GenOf(t) = GenOf(u) => t = u

\* finishRequest's assert(i < limit): a concurrent trigger can make the loop
\* go round, never so often that the status is left on "on request".
GcStatusLoopEnds ==
  \A t \in Threads :
    /\ gcTries[t] < GcRetryLimit
    /\ pc[t] \in {"idle", "firing"} => m_globalGCStatus[t] = "Idle"

-----------------------------------------------------------------------------
(* What comments of the code say and the code does not do.                 *)

\* treadmill.h of getOldestStartTime: "If there are no requests in flight the
\* return value is 0."
OldestStartTimeZeroWhenIdle == InFlight = {} => getOldestStartTime = 0

\* treadmill.cpp of getOldestStartTime: "rounded such that time(nullptr) >=
\* getOldestStartTime() is guaranteed to be true."
OldestStartTimeNotInFuture ==
  InFlight # {} => now \div ONE_SEC_IN_MICROSEC >= getOldestStartTime

\* thread-info.h of SetPendingGCForAllOnRequestThread: "Only on-request threads
\* should set up PendingGCFlag": the thread about to be flagged is on a request.
PendingGCOnlyOnRequest ==
  gcTarget # NoThread => m_globalGCStatus[gcTarget] # "Idle"

-----------------------------------------------------------------------------
(* The abstract specification, and progress.                               *)

Queued(o) == \E i \in 1..Len(s_tq) : s_tq[i].obj = o
Due(o) == \E t \in Threads : \E i \in 1..Len(toFire[t]) : toFire[t][i].obj = o
BeingEnqueued(o) == \E t \in Threads : enq[t].obj = o

\* How far an object's work item has come.
StateOf(o) ==
  CASE o \in freed -> "done"
    [] o \notin freed /\ Due(o) -> "due"
    [] o \notin freed /\ ~Due(o) /\ Queued(o) -> "queued"
    [] o \notin freed /\ ~Due(o) /\ ~Queued(o)
         /\ (o \in reachable \/ BeingEnqueued(o)) -> "live"
    [] OTHER -> "discarded"

\* The requests a queued item waits for are those with a smaller count.
WaitsOf(o) ==
  {t \in InFlight : \E i \in 1..Len(s_tq) :
                      s_tq[i].obj = o /\ GenOf(t) < s_tq[i].m_gen}

Deferred == INSTANCE DeferredWork WITH
  inFlight <- InFlight,
  waits <- [o \in Objects |-> WaitsOf(o)],
  state <- [o \in Objects |-> StateOf(o)]

\* Comparing counts implements remembering requests: treadmill.h's "defer work
\* until all currently outstanding requests have finished".
DefersWork == Deferred!DeferredSpec

\* Every request ends (RequestTimeoutSeconds sees to it), and a thread that
\* has work left in the treadmill is scheduled.
FairSpec ==
  /\ Spec
  /\ \A t \in Threads :
       WF_vars(\/ FinishRequest(t) \/ EnqueueLocked(t)
               \/ CasPendingToIdle(t) \/ CasNoPendingToIdle(t) \/ RunItem(t))

\* No lost work: an item that is queued while a request is in flight is run,
\* though only the finish of the oldest request looks at the queue, unless the
\* age check aborts the process.
QueuedWorkRuns ==
  \A o \in Objects :
    (Queued(o) /\ InFlight # {}) ~> (o \in freed \/ aborted # "no")
=============================================================================
