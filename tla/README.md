# Formal models of HHVM's request concurrency

TLA+ models, model-checking runs and machine-checked proofs for the parts of
HHVM (`src/hphp`) in which threads meet: what keeps memory alive while requests
look at it, how events come back to a request from other threads and wake the
async code that waits for them, how jobs reach workers and when they are held
back, and who may write translations. The rest of HHVM is either sequential within
a request or too data-heavy for these methods; the last section lists it.

## The system and its parts

HHVM serves web requests on a pool of worker threads. The parts that share state
between threads are:

| part | source | role | here |
|---|---|---|---|
| Treadmill | `runtime/vm/treadmill.*` | runs deferred work (frees) once every request that was outstanding has ended | `Treadmill`, `DeferredWork`, `TreadmillProofs` |
| External thread events | `runtime/ext/asio/asio-external-thread-event*`, `ext_external-thread-event-wait-handle.*` | events that other threads finish for a request | `ExternalThreadEvents`, `ExternalThreadEventsProofs` |
| Job queue | `util/job-queue.h` (`JobQueue`, `JobQueueWorker`), `util/synchronizable-multi.*` | prioritised jobs, workers that sleep on condition variables of their own | `JobQueue`, `JobQueueInvariant`, `JobQueueProofs` |
| Dispatcher | `util/job-queue.h` (`JobQueueDispatcher`), `util/async-func.cpp` | starts, adds and joins workers | `JobQueueDispatcher`, `JobQueueDispatcherProofs` |
| Write leases | `runtime/vm/jit/write-lease.*` | who may write translations | `WriteLease`, `WriteLeaseProofs` |
| Single JIT requests | `runtime/vm/type-profile.cpp` | which requests may take leases while the server warms up | `SingleJitRequests`, `SingleJitProofs` |
| Asio scheduler | `runtime/ext/asio/asio-{context,session,blockable}.*`, `ext_*-wait-handle.*` | runs the wait handles of a request | `AsioScheduler` |
| Host health monitor | `runtime/server/host-health-monitor.*` | tells dispatchers to hold requests back | `HealthMonitor`, `HealthMonitorProofs` |

How they interact: the dispatcher owns the worker threads, and each worker runs
requests. A request enters and leaves the treadmill (`startRequest`,
`finishRequest`), runs its async functions in an asio session, which waits for
external thread events and sleeps when nothing else can run, and takes write leases
when it meets code that has no translation yet and its start found that it may.
Translation data, APC values and units that are replaced go to the treadmill to be
freed. The health monitor tells the dispatcher when to hold requests back.

The components, with the reason for each one that is left out, are also in
`PROJECT.json`, as are the hazards that guided the choice of properties.

## Modules

Every module names the source it models in its header; `PROJECT.json` maps each
definition to source lines. Common conventions: variables and operators have the
names of the code where TLA+ allows; a step is what a thread does between two
points at which another thread can see or change the state it uses; a program
counter is a string per thread; operators whose comment begins with "Slip" or
"Mutant" are wrong variants of the definition that follows, used to confirm that
the properties notice; no other definition refers to them.

**`Treadmill`** — `s_latestCount`, `s_inflightRequests`, `s_oldestRequestInFlight` and
`s_tq` are the code's. `StartRequest`/`StartRequestLocked`,
`FinishRequest`/`CasPendingToIdle`/`CasNoPendingToIdle`/`RunItem`/`FinishReturn` and
`Enqueue`/`EnqueueLocked` split the three operations where the lock is taken or given
up; the time is read before the lock, as in the code. `Tick` lets the wall clock jump,
repeat or step back. `TriggerGC`, `SetPendingGCStatus`, `SetPendingGCFlag` are
`SetPendingGCForAllOnRequestThread` (`thread-info.cpp`), which has no caller in the tree
yet but races `finishRequest`. Clients are abstracted to a table of objects: a request
may pick up (`Acquire`) what is still `reachable`, any thread may unlink an object and
enqueue the item that frees it.

**`DeferredWork`** — what `treadmill.h` promises, with sets of requests instead of
counts. `Treadmill` maps to it through `InFlight`, `WaitsOf` and `StateOf`.

**`ExternalThreadEvents`** — one request thread (`rpc`), one processing thread per
event (`spc`). The atomic `m_queue` is the sequence it leads to, or the mark
`K_CONSUMER_WAITING`; `Ptr` of it is what a compare-and-exchange sees.
`ReceiveStep` follows `receiveSomeUntil()` through the mark, the mutex, the wait,
its time-out and spurious wake-ups; `SendStep` follows `send()`. `Sweep`,
`AbandonAllReceived` and `EndRequest` are the end of a request whose events may be
in any state.

**`JobQueue`** — all of `JobQueue` and of `JobQueueWorker::start()`, over
`SynchronizableMulti`: per-thread condition variables in lists by group (NUMA node)
and wait priority, where a spurious wake-up leaves the variable listed and a
time-out unlinks it. `WorkerLoop` is the loop of `dequeueMaybeExpiredImpl()` from one
wait to the next, `ReaperLoop` that of `dequeueOnlyExpiredImpl()`. The reaper's
deadline is computed from microseconds taken as nanoseconds, without a carry; the
model lets its wait fail or end at any time (`ReaperWait`, `ReaperTimeOut`).
Which threads exist and who stops the queue is left open.

**`JobQueueDispatcher`** — extends `JobQueue` with the dispatcher: `start()`,
`enqueue()` with its decision to add a worker read in several steps without the
mutex, `addWorkers()`, `waitEmpty()`, `stop()` joining one thread after the other,
and `notifyNewStatus()`. Its steps are written with those of `JobQueue`, so that what
is proved of every job queue holds for the dispatcher's.

**`WriteLease`** — `Lease` (`m_lock`, `m_owner`, `m_held`, the hint) and the
constructor, `checkKind()` and destructor of `LeaseHolder`, one shared access per
step. Each thread has a stack of holders, because translations nest. The prologue
kinds of `TransKind` lock as the kinds they belong to; the time of a hint is the
flag `hinted`, which `Expire` clears.

**`SingleJitRequests`** — extends `WriteLease` with the request each thread serves:
`profileRequestStart()` sets the two permissions that a holder reads
(`threadCanAcquire`, `threadCanAcquireConcurrent`), `profileRequestEnd()` gives back
`singleJitLock` and the place in `singleJitConcurrentCount`, one atomic access per
step. The steps of holders are `Translate`. Both lease runs check this composition;
`MCSingleJitRequests` is the `MC` module of `WriteLease` too.

**`AsioScheduler`** — the handles of one request (`wh`: state, context, children,
parent chain, references) and the stack of contexts that nested joins open (`cx`:
queues, registered sleeps and events, where `runUntil()` is). `Php` is what PHP code
can do at the top level, in a resumed function and in a callback; `EndOfFunction` the
return of a resumed function, with the direct switch to its parent; `Loop` the
iterations of `runUntil()`; `Environment` the external threads and the clock.
Entering and leaving a context, `unblockChain()`, the move of a subtree into a
context and the test for a cycle are operators on the pair of handles and contexts,
with recursion over the parent chains. The handles of one request are used by one
thread, so the interleaving here is that of callbacks, nested contexts and arriving
events.

**`HealthMonitor`** — the server (`Start`, `Stop` and, at process exit, `WaitForEnd`),
the monitor threads and the clients that own observers, with `m_lock` and
`m_stopped_lock`. `Start` asks for `m_stopped` alone, as `start()` does: a start after a
stop makes a second thread and replaces `m_monitor_func`, whether the first thread has
ended or not. A call of `notifyObservers()` compares the status, takes the lock, tells
one observer after the other and stores the status in steps of their own.

The `MC*` modules give the model values and symmetry sets for TLC.

## What the runs check

`tlc -config <cfg> <module>`; each run takes less than a minute on two cores. Deadlock
checking is off where the system may rightly stop (all bounded work is done, the
process was aborted, the dispatcher is stopped) and on for the leases and the health
monitor, whose threads can always go on.

| run | question | distinct states | result |
|---|---|---|---|
| `treadmill` | two threads, two objects, a clock that steps back, a GC trigger: is anything freed while held, is the published oldest start time exact, does the status loop end within its bound; does it implement `DeferredWork`, is queued work run in the end? | 71,856 | holds |
| `events` | sweeps, cancels and time-outs at any point: is an event released once, does an assert on the state of an event, a handle or the queue fail (all but those on what a wait of the sweep received, see below), is a wake-up lost or a finished event dropped; does a waiting request thread wake up when something was sent, is every event released? | 3,836 | holds |
| `queue_safety` | three jobs, a worker and the reaper, expiry, LIFO, exceptions, health changes: is a job lost, done twice or aborted too early, are the counts exact? | 352,568 | holds |
| `queue_progress` | two workers in two NUMA groups, flushes, spurious wake-ups: can a job be left waiting while a worker sleeps, does `waitEmpty()` return only when all is done, and does it return? | 6,284 | holds |
| `queue_reaper_swallows` | the same absence of stranded jobs with the reaper on | | **violated**, see below |
| `dispatcher_safety` | does `stop()` return with every thread joined, whatever `enqueue()`, `addWorkers()`, the reaper, exceptions and changes of the health level are doing? | 117,100 | holds |
| `dispatcher_progress` | two jobs, two workers: does a worker run while a job waits whose `enqueue()` has returned, is every job of a running dispatcher done, does `stop()` return, is everything processed when it has returned? | 48,916 | holds |
| `lease_requests` | requests of two threads through and after the warm-up, holders nested two deep: does a holder keep its locks, do translations exclude each other as documented, are the limits on threads kept, is everything given back; are `singleJitLock` and the count exact, does the warm-up let one request at a time lock a lease? | 299,731 | holds |
| `lease_global` | one translation at a time with a blocking global lease: does a blocked thread get it? | 17,184 | holds |
| `asio_blocking` | up to four handles that block on each other in two nested contexts: does an assert fail, does the loop run dry, can a handle be left unwoken or woken twice or a cycle be closed, do references leak? | 173,049 | holds |
| `asio_callbacks` | sleeps, events and PHP callbacks in the middle of the loop, three nested contexts: does an assert fail, is every handle found in the queues of its context, does every join return? | 52,601 | holds |
| `health` | start and stop, twice and without waiting in between, and the join at exit, while two clients subscribe and delete observers: is a deleted observer told, do observers agree, does a stop end every monitor that has begun? | 340,690 | holds |

### Bounds and why they are enough

- *Threads.* Two threads interleave in every way that a pair can: exclusion, the
  limits and the clock readings are about pairs. Three contexts, of which the
  middle one is entered and left while others are open, stand for all depths.
- *Objects, events, jobs, handles.* Two objects or events show every order of two in a
  queue, and an object retired while the other waits. `MaxCalls` 2 of the treadmill
  counts calls of `enqueue()` and, per thread it visits, of the GC trigger: both
  objects are retired, or the trigger visits both threads. Three jobs show a middle element, and jobs of two priorities on both sides of the
  LIFO threshold. Four handles let a chain of three block on a fourth, two chains
  share a child, and a cycle be attempted through an `AwaitAllWaitHandle`.
- *Time.* `MaxTime` 2 for the treadmill lets a clock reading be older than, equal to
  and newer than the latest count; the age check needs a longer time, and what it
  relies on is proved (`AbortNeverLost`). `MaxTime` 2 with `MaxJobQueuing` 1 lets a job expire between the reading of the clock and
  the dequeue. Runs that do not ask about time have `MaxTime` 0 or 1.
- *Limits at their edge.* `EvalJitThreads` 1 with two threads, one interpreted and
  one single JIT request before the rest, `LifoSwitchThreshold` 1, `MaxThreadCount` 1
  or 2, `GcRetryLimit` 2 (the code has 100: fewer rounds are the harder case).
- *Health level.* `queue_progress` and `dispatcher_progress` keep it at Bold: in
  BackOff jobs wait for as long as the level lasts. In this tree the one observed
  dispatcher (the pagelet server's) has a single priority.
- *Symmetry* is used in `lease_requests` only, which checks safety, over threads and
  Funcs, which no definition tells apart.

The properties were also checked once on larger instances, too slow to keep: the
treadmill with `MaxTime` 3 (253,755 states, with `CountsAreUnique` and
`AbortFindsOldest` in addition); the
dispatcher of `dispatcher_safety` with two jobs and `QueueToWorkerRatio` 2 (5,305,528);
the leases with all three kinds of translation (3,472,864); the scheduler's safety with
three handles of all seven kinds and the callbacks of I/O waits (2,067,386), with four
handles that include events (844,330), with an `AwaitAll` of three children among four
handles (142,633); its joins with three handles, all three callbacks and conditions,
sleeps and events at once (1,514,177).

### Fairness

- Treadmill: weak fairness for each thread: a request ends (`RequestTimeoutSeconds`
  sees to it) and a thread inside the treadmill is scheduled. Nothing makes anyone start a request, so the progress
  property is about work queued while a request is in flight.
- Events: processing threads finish their events, as
  `asio-external-thread-event.h` requires of them; the request's sweep goes on; the
  request ends some day, by its time-out at the latest. A wake-up is fair only if it
  was notified; time-outs and spurious wake-ups are never relied on.
- Job queue: a thread that can run runs, a job ends. Time-outs, spurious wake-ups
  and exceptions are not fair.
- Dispatcher: in addition a call that has begun goes on, and strong fairness for the
  mutex of `enqueue()`'s caller. Nobody need call `stop()`.
- Leases: strong fairness for a thread's steps (a mutex that is free again and
  again is obtained in the end) and for the end of a translation at each depth.
- Scheduler: the request's thread takes a step of the loop, or ends the function it
  runs, again and again while it can (a function that never ends is stopped by the
  request's time-out); events finish and time passes. These are weak fairness with
  the enabling condition written out (`ThreadCanStep`), because only steps that are
  not PHP's choice count.
- Health monitor: strong fairness for the steps of the server's call and for those of
  each monitor, which compete for two mutexes. Clients need do nothing.

## What is proved

With TLAPS, for any set of threads, objects, events, jobs, clients, Funcs and nested
holders, any clock and any bounds. The assumptions are those on constants
(`TreadmillAssumption`, `EventsAssumption`, `JobQueueAssumption`,
`DispatcherAssumption`, `DispatcherNull`, `HealthAssumption`, `HealthThreads`,
`WriteLeaseAssumption`, `LeaseNull`, `SingleJitAssumption`), which say that model
values differ, that numbers are naturals (and a number of threads, groups or
priorities is not 0), that there are finitely many threads and
objects of the treadmill and finitely many jobs and, for the requests, that
`WriteLease`'s permissions are unrestricted. Four theorems assume more, in their
statement: `GcLoopEnds`, `NoJobIsStranded`, `StopProcessesAll` and `QueuedJobsServed`.

**Treadmill** (`TreadmillProofs`): `TypeCorrect`, `RequestsAreSafe`
(`NoUseAfterFree`), `OldestIsExact` (`OldestIsLeastInFlight`),
`GcLoopEnds` (`GcStatusLoopEnds`), `TreadmillDefersWork` (`DefersWork`), and, for which
there is no run, `CountsAreHandedOutOnce` (`CountsAreUnique`, without which `DefersWork`
fails) and `AbortNeverLost` (`AbortFindsOldest`).
`NoUseAfterFree` alone is not inductive: an item that is in `toFire` or at the head
of the queue with a count below that of a request holding its object would break
it in the next step. The invariant `SafetyInv` adds

- `SlotInv`: indexes are unique, every used slot belongs to a thread, and a slot is
  in use exactly while its thread is running a request;
- `CountInv`: all counts are at most `s_latestCount`, the queue is strictly
  increasing and no request shares a count with an item or another request. This is
  where `correctTime` matters, and nothing about the clock is needed;
- `OldestInv`: the published oldest is the least start time in flight or 0;
- `HeldInv`: an object held by a request is neither freed nor due, and if its item
  is queued its count is above the request's start;
- `ReachableInv`: an object that can be found has no item anywhere.

`StartRequest`, `FinishRequest` and the enqueue are the steps that disturb it; each
has a lemma about `Gens`, the start time of each thread's request, and one about the
invariant. All other steps leave the relevant variables alone (`QuietStep`).

`GcLoopEnds` is for every `GcRetryLimit` above 1. `GcInv` says why one retry is enough:
a trigger can move the status only from one non-pending value to its pending one and
nothing but the request's own thread moves it back, so the first compare-and-exchange
of the second round must succeed. `TreadmillDefersWork` is the refinement: each step of
the treadmill is a step of `DeferredWork` or leaves its view unchanged. A request that
is in flight when an item is enqueued has a lower count (`CountInv`), one that starts
later a higher one, so "in flight with a lower count" (`WaitsOf`) is the set of requests
the abstract item remembers; `FinishRequestMoves` shows that nobody is left to wait for
among the items a request takes along when it ends. `PlaceInv` adds that an object has at
most one item and that it is at one place: with a thread, in the queue or in `toFire`.

**External thread events** (`ExternalThreadEventsProofs`): `TypeCorrect`,
`EventsReleasedOnce`, `AssertsNeverFail`, `NoWakeUpIsLost`, `FinishedEventsAreKept`.
The invariant `Inv` adds to the types: `ListInv` (no list has a wait handle twice, no
handle is in both), `EventInv` (who owns an event, by the place of its processing
thread: the request, the processing thread, a list, nobody), `ModeInv` (what
`m_queue` can be while the request thread is in each place of a receive call; the
mark appears only while it waits) and `WakeInv` (a sender that replaced the mark
cannot have notified before the wait began, because it needs the mutex). Lists are
handled by lemmas on pushing, popping and exchanging sequences.

**Job queue** (`JobQueueInvariant`, `JobQueueProofs`): `JobQueueTyped`, `JobsConserved`
(`JobsAreConserved`), `JobCountsExact` (`CountsAreExact`), `WaitEmptyMeansDone`
(`EmptyMeansDone`), `AbortsOnlyOld` (`OnlyOldJobsAborted`), `NoJobIsStranded`
(`NoStrandedJobs`). A job that a thread is about to take must be nowhere else in
the queues and with nobody else, and a count above 0 must mean that there is one to
take. So `JobsInv` relates queues, counts, threads and outcomes:

- `CountInv`: `m_jobCount` is the number of places in all queues, `m_workerCount` that
  of threads doing a job and of jobs that threw;
- `PlacesDiffer`, `QueuedInv`: no job is at two places of the queues, and a queued one
  is unfinished and with no thread;
- `HeldInv`: a thread has a job exactly while it is doing one, and it alone;
- `SomewhereInv`: an unfinished job is in a queue or with a thread;
- `TimeInv` (with `JobsInv` in `QueuesOK`): a job has its time before it is queued and no
  thread's reading is ahead of the clock, so that a job found too old by an earlier
  reading is too old.

Every action is one of four kinds for the jobs (`EnqueueStep`, `TakeStep` from either
end of a queue, `FinishStep`, `OtherStep`), and each kind has one lemma. What
`SynchronizableMulti` does to the lists of condition variables is a set of lemmas too:
nobody enters a list through a notification, a waiting thread leaves its list only with
a signal, and a notification reaches a listed thread if there is one, whatever the
number of groups and for any number of notifications in a row (`NotifySync`,
`NotifyManySync`).

`NoJobIsStranded` is proved from `WakeInv`, which adds `ListsInv` to `NoStrandedJobs`: a
waiting thread is listed or was signalled, and whoever is listed is a running worker,
which looks at the queues again. It assumes that there is no reaper, that jobs do not
throw and that the level is never BackOff, and each is needed: the reaper swallows a
notification (see below), a worker that a spurious wake-up left listed and an exception
has ended gets a notification meant for others, and in BackOff a notified worker sleeps
again.

**Dispatcher** (`JobQueueDispatcherProofs`): the lemma `DispatcherIsJobQueue` (`DSpec =>
Spec`) carries the theorems about every job queue over to the dispatcher's own, as in
`DispatcherConservesJobs` (`JobsAreConserved`). It needs `PoolOK`, that the workers are
those with the numbers below `m_workers`, so that no number is given out twice.
`StopJoins` (`StopJoinsAll`) rests on `JoinInv`: a running thread is still among the
functions to be joined or the one being joined. `stop()` sets `m_stopped` without the
mutex, but before it takes the mutex for the first time; when it finds, with the mutex,
that no function is left, whoever was adding workers is done, and `addWorker()` and
`addWorkers()`, which test `m_stopped` with the mutex, add none after it.

`StopProcessesAll` (`StopDrains`) is the promise of `stop()`, and `QueuedJobsServed`
(`QueuedJobsHaveWorkers`) what it needs of a running dispatcher, for jobs that do not
throw, no BackOff and `InitThreadCount` above 0 (the section on comments says what the
first two are for; without the last there may be no worker at all). The danger is a job
that was queued when no worker was there to take it, since `enqueue()` reads the load in
three steps without the mutex. `ProducerInv` says that the job is queued before the
first of them, so the target number of workers that is then computed is not 0 while the
job is still queued; `OwnerInv` has the stages of `start()` and `stop()`, and `DrainInv`
that a queued job whose `enqueue()` returned is `Served`: there is a worker, or
`start()` will come to one, or the job was late for `stop()`. In a running dispatcher
only the first is left, and that worker runs. A worker ends only when
the queues are empty, and after `stop()` has begun only jobs enter them that came later.

**Write leases** (`WriteLeaseProofs`): `LocksKept` (`HoldersKeepTheirLocks`),
`Exclusion` (`TranslationsExclude`) and `NothingLeaks` (`LocksAreReturned`). A holder
need not own a lock it relies on: it may have found that an outer holder of its thread
does. So `HoldersKeepTheirLocks` says too little about who will release what. The
invariant `IInv` adds

- `ThreadOK`: in a thread's stack of holders no lock was acquired twice, every lock a
  holder needs was acquired by it or by one below it, and only the last holder can be
  without a level; and what the last one may have acquired at each label;
- `Linked`: a Func's owner and a Lease's mutex belong to the thread exactly when one
  of its holders acquired them, or is between the mutex and noting it. `amOwner()`
  reads `m_held` and `m_owner` in two steps; the clause for `"owner"` says why it is
  right about its own thread all the same;
- `HeldInv`: `m_held` implies that the owner noted has the mutex.

**Limits on translating** (`SingleJitProofs`): `ThreadsLimited`
(`JittingThreadsAreLimited`) is about the leases alone. It rests on `LimitInv`:
`s_jittingThreads` is the number of holders that added themselves (`Slots`), more than
the limit between `fetch_add` and `fetch_sub`, but at most `EvalJitThreads` of them
passed the second test (`Granted`).

For single JIT requests, `RequestsUseLeases` (`SSpec => Spec`) shows that each step of
the composition is a step of `WriteLease` or leaves the leases alone. It needs
`IdleInv`, that only a request that translates has holders, because `WriteLease` lets
the permissions change only of a thread without holders. All theorems about the leases
so hold for requests. `SingleJitExact` (`SingleJitIsExact`) rests on `LockInv` and
`CountInv`: which stages of a request can have the lock or a place, and that a
compare-and-exchange about to be tried saw a count below the limit. `WarmUpLimited`
(`WarmUpIsLimited`) adds `GrantInv`, that a Lease's mutex is only with a thread that was
permitted to acquire it, and `WarmInv`, that during the warm-up a permission is backed
by the lock or by a place; `++singleJitRequests` comes before the lock is released,
which is why it holds to the end.

**Health monitor** (`HealthMonitorProofs`): `ObserversOutliveRounds` (`NoDeadObserver`)
and `ObserversKnowStatus` (`ObserversAgree`), for any number of monitors that calls of
`start()` leave behind. All threads compare `m_status` before they take `m_lock`, so the invariant says what holds in the middle of a round: `LockInv` (who
tells has the lock), `ObserverInv` (`m_observers` is what the clients believe, and a
round meets only its members) and `ToldInv` (those told so far know the level to come);
`ThreadInv` keeps a thread that has not begun out of all this.

Only model-checked: everything about the scheduler, which has recursive definitions
over the graph of handles, about which TLAPS can prove nothing by induction; and all
liveness (`QueuedWorkRuns`, `WaitEnds`, `EventsAreReleased`,
`QueuedJobsFinish`, `WaitEmptyReturns`, `JobsGetDone`, `StopEnds`,
`BlockedAcquireReturns`, `JoinReturns`, `StopEndsMonitors`), since TLAPS cannot reason
about fairness.

## Where the code and its comments part

`queue_reaper_swallows` keeps one counterexample as a run. The reaper waits at the
lowest priority, but a worker that has flushed its caches waits behind it. If the
reaper's wait times out just when `enqueue()` has signalled it, it returns as timed
out and does not pass the notification on (`job-queue.h:340`); the worker sleeps on
with a job in the queue until another one comes, or until the job expires and the
reaper aborts it.

The modules state further sentences of comments as properties that the code does
not keep. Each can be reproduced by stating the property in a configuration of the
module's `MC` module with the constants given:

| property | constants | what happens |
|---|---|---|
| `Treadmill!OldestStartTimeZeroWhenIdle`, `OldestStartTimeNotInFuture` | 2 threads, `ONE_SEC_IN_MICROSEC` 4, `ClockMonotone`, `MaxTime` 8, `MaxRequestAge` 0 | `getOldestStartTime()` adds 1 after its division: it is 1, not 0, without requests (`treadmill.h:43`), and up to a second ahead of `time(nullptr)` with one (`treadmill.cpp:272`) |
| `Treadmill!PendingGCOnlyOnRequest` | as in `treadmill` | the trigger changes the status and sets the flag in two steps; the request can finish in between, so an idle thread is flagged (`thread-info.h:60`) |
| `ExternalThreadEvents!ReceiveSomeReceives` | 2 events, `SweepTimesOut` | if a sender is held up between `markAsFinished()` and its push for all the time the request has left, `receiveSome()` returns with nothing, which it asserts not to happen, and `abandonAllReceived()` finds a null list (`asio-external-thread-event-queue.cpp:132`, asserts at `:136` and `:53`) |
| `ExternalThreadEvents!QueueOutlivesSend` | 2 events, no `SweepTimesOut` | a sender that replaced the mark has yet to lock the request's mutex when the request, woken otherwise, ends (`asio-external-thread-event.h:114`) |
| `JobQueue!BackOffBlocks` | 1 job, 1 worker, `DropCache`, Bold and BackOff | `ableToDeque` is not read again once true, so a worker that began to wait in Bold takes any job in BackOff (`job-queue.h:234`); needs two priorities |
| `JobQueueDispatcher!StopDrains` | Bold and BackOff, or `MayThrow` | in BackOff the test for stop is reached with jobs in the queues (`job-queue.h:663`); needs two priorities. An exception of a job has its worker end early too |
| `JobQueue!NoStrandedJobs`, under `DSpec` | 1 job, 1 worker, `WorkersToAdd` {}, Bold and BackOff | `notifyNewStatus()` releases workers before it stores the level; one that is quick sees BackOff again and sleeps (`job-queue.h:712`) |
| `JobQueueDispatcher!WorkersWithinLimit` | 2 jobs, 2 workers | `enqueue()` compares with the limit without the mutex, and `addWorker()` does not compare again; `m_maxThreadCount` is always kept (`job-queue.h:625`) |
| `WriteLease!FuncLevelIsLimited` | `EvalJitConcurrently` 2, `EvalJitThreads` 1, 1 holder, Profile and Live | `checkKind()` moves a holder from Kind to Func without counting it (`write-lease.cpp:246`) |
| `WriteLease!HintKeepsOthersOut` | `EvalJitConcurrently` 1, 1 holder | `acquire()` reads the hint before it tries the lock; a drop in between is missed (`write-lease.cpp:35`) |
| `AsioScheduler!SleepsAreProcessedOnce` | `Hooks` {"slept"}, `Kinds` {"Sleep"}, 2 handles, depth 2 | `processSleepEvents()` runs a sleep's callback before it takes the sleep off the heap; a callback that joins another sleep processes the first one again (`asio-session.cpp:358`, assert at `ext_sleep-wait-handle.cpp:110`) |
| `HealthMonitor!ThreadIsGone` | as in `health` | a `waitForEnd()` before `monitor()` has begun finds `m_stopped` set, and `monitor()` then clears it: the join waits for a thread that nobody stops (`host-health-monitor.cpp:69`, `:95`) |
| `HealthMonitor!ThreadOutlivedByFunc` | as in `health` | a `start()` soon after a `stop()` destroys the `AsyncFunc` of a thread that has not ended (`host-health-monitor.cpp:64`, assert of `~AsyncFuncImpl`) |
| `HealthMonitor!StopLeavesBold` | as in `health` | `stop()` tells the observers Bold before it takes `m_stopped_lock`; a round of the monitor in between tells them something else, for good (`host-health-monitor.cpp:78`) |
| `HealthMonitor!SubscriberKnowsStatus` | as in `health` | `subscribe()` does not tell the observer the present level: it believes in Bold until the level changes (`host-health-monitor.h:34`) |

None of these is a property of a passing run with the constants of that run:
`StopDrains` and `NoStrandedJobs` hold there without exceptions, BackOff and the reaper,
and the `AssertsHold` of `ExternalThreadEvents` and `AsioScheduler` leave out the asserts
that `ReceiveSomeReceives` and `SleepsAreProcessedOnce` are about.

## Abstractions to keep in mind

- Memory is sequentially consistent, except that the reads and writes of different
  shared variables are separate steps. The plain `m_owner` of a lease is read in a
  step of its own.
- What a work item, a job or a translation does is abstracted to its end (and, for
  jobs, an exception). PHP code run by `process()` may do anything a request can.
- The program keeps a reference to every wait handle; `refs` counts those the
  scheduler takes. The callbacks on creation, await, success and failure of a handle
  are left out, with them the callback of `AwaitAllWaitHandle::initialize()` that runs
  before the handle has counted its own reference; so are Xenon and backtraces.
- What the health metrics measure is a choice of a level at each evaluation.
- Starting a thread and joining it are one step each; `AsyncFunc`'s own state is not
  modelled.
- Left out: statistics and logging; `couldAcquire()` and its kin, which only give a
  hint to emitted code; stack and huge page placement of threads (but the wait
  priority that depends on it is modelled); workers that do not count themselves as
  active, which one offline tool uses; `isWorker` of a lease holder, which no caller
  passes.

## Not modelled, and why

- *APC store, unit cache, concurrent LRU caches*: each entry is guarded by an accessor
  of tbb's concurrent hash map, which is outside the repository; the code under an
  accessor is sequential. What they retire goes through the treadmill, as objects of
  `Treadmill`.
- *APC garbage collection*: a search of APC's heap under one mutex; its frees go
  through the treadmill too.
- *Lock-free maps* (`TreadHashMap`, `AtomicVector`, `FixedStringMap`): one writer, and
  readers that follow a published pointer; a replaced table is an object of
  `Treadmill`. What remains to go wrong is memory order, which a model of
  interleavings does not show.
- *Surprise flags and request timers*: one atomic operation per flag; the one flag that
  is part of a protocol, `PendingGCFlag`, is in `Treadmill`.
- *Pagelet and Xbox servers*: reference-counted tasks on top of `JobQueueDispatcher`;
  the lifetime of the pagelet server's dispatcher as an observer is in
  `HealthMonitor`.
- *Retranslate-all*: a user of the leases; the order of its work is sequential.
- *JIT compiler, interpreter, bytecode emitter, hhbbc, PHP compiler*: sequential
  transformations of large structures, out of reach of an explicit-state checker
  and better served by tests and by their own verifiers.
- *PHP values, request heap, classes and units*: sequential within a request; their
  correctness is about memory layout and copy on write.
- *HTTP, CLI and takeover servers, light processes, the repo*: most of the control
  is in sockets, child processes, SQLite and libraries outside the repository.
- *Hack type checker*: a separate program in OCaml.
- *Other extensions, debugger*: bindings to external libraries, and interactive tools.
