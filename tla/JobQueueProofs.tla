--------------------------- MODULE JobQueueProofs ---------------------------
(***************************************************************************)
(* Every action of JobQueue moves jobs as JobQueueInvariant says and keeps *)
(* the types, and what follows for every number of workers, jobs,          *)
(* priorities and groups: no job is lost or done twice, the counts are     *)
(* exact, and no wake-up is lost in a queue without a reaper.              *)
(***************************************************************************)
EXTENDS JobQueueInvariant

USE SMTT(15), ZenonT(15)

-----------------------------------------------------------------------------
(* Every action does one of those to the jobs, and keeps the types.        *)

JobStep ==
  \/ \E j \in Jobs : EnqueueStep(j)
  \/ \E t \in Threads, p \in Priorities, last \in BOOLEAN, old \in BOOLEAN : TakeStep(t, p, last, old)
  \/ \E t \in Threads, how \in {"done", "aborted", "threw"}, next \in {"loop", "signal", "ended"} :
       FinishStep(t, how, next)
  \/ OtherStep

PCs == {"none", "loop", "lock", "wait", "flush", "job", "signal", "ended"}

SyncOK ==
  /\ m_cond_list_vec \in [Groups -> CondLists] /\ m_group \in Groups
  /\ signalled \subseteq Waiting
  /\ pc \in [Threads -> PCs]

DataOK ==
  /\ m_jobCount \in Nat /\ m_workerCount \in Nat
  /\ m_jobQueues \in [Priorities -> Seq(Jobs)]
  /\ m_stopped \in BOOLEAN /\ m_healthStatus \in HealthLevels /\ clock \in Nat
  /\ enqueueTime \in [Jobs -> Nat \cup {NULL}]
  /\ outcome \in [Jobs -> {"new", "in", "done", "aborted", "threw"}]
  /\ job \in [Threads -> Jobs \cup {NULL}]
  /\ waiter \in {"idle", "wait", "signalled"}

LocalsOK ==
  /\ ableToDeque \in [Threads -> BOOLEAN] /\ flushed \in [Threads -> BOOLEAN]
  /\ now \in [Threads -> Nat] /\ expired \in [Threads -> BOOLEAN]

LEMMA TypeParts == TypeOK <=> SyncOK /\ DataOK /\ LocalsOK
BY Zenon DEF TypeOK, SyncOK, DataOK, LocalsOK, CondLists, PCs

LEMMA SyncFacts ==
  ASSUME SyncOK, NEW t
  PROVE  /\ Sync \in Syncs /\ Sync.signalled = signalled
         /\ Returned(t) \in Syncs /\ Returned(t).signalled = signalled \ {t}
         /\ Waiting \in SUBSET Threads
         /\ \A u : Listed(Returned(t), u) <=> Listed(Sync, u)
<1>1. Sync \in Syncs /\ Sync.signalled = signalled /\ Waiting \in SUBSET Threads
  BY Zenon DEF SyncOK, Sync, Syncs, Waiting
<1>2. /\ Returned(t) \in Syncs /\ Returned(t).signalled = signalled \ {t}
      /\ Returned(t).lists = Sync.lists
  BY <1>1, Zenon DEF Syncs, Returned
<1> QED
  BY <1>1, <1>2, Zenon DEF Listed

\* One thread moves on and the condition variables change with it.
LEMMA SyncStep ==
  ASSUME SyncOK, NEW t \in Threads, NEW v \in PCs, NEW n \in Syncs,
         n.signalled \subseteq Waiting, v = "wait" \/ t \notin n.signalled,
         pc' = [pc EXCEPT ![t] = v], SetSync(n)
  PROVE  SyncOK' /\ \A u \in Threads : pc'[u] = IF u = t THEN v ELSE pc[u]
<1>1. /\ pc' \in [Threads -> PCs]
      /\ \A u \in Threads : pc'[u] = IF u = t THEN v ELSE pc[u]
  BY Zenon DEF SyncOK
<1>2. m_cond_list_vec' \in [Groups -> CondLists] /\ m_group' \in Groups
  BY Zenon DEF SetSync, Syncs
<1>3. signalled' \subseteq Waiting'
  BY <1>1, Zenon DEF SetSync, Waiting
<1> QED
  BY <1>1, <1>2, <1>3, Zenon DEF SyncOK

LEMMA PriorityFacts ==
  ASSUME NEW t, NEW isFlushed \in BOOLEAN
  PROVE  WaitPriority(t, isFlushed) \in WaitPriorities
BY Zenon DEF WaitPriority, WaitPriorities

\* t takes a job.
LEMMA TakeTyped ==
  ASSUME TypeOK, JobsInv, NEW t \in Threads, NEW p \in Priorities,
         NEW last \in BOOLEAN, NEW old \in BOOLEAN, TakeStep(t, p, last, old),
         NEW n \in Syncs, n.signalled \subseteq Waiting \ {t}, SetSync(n), UNCHANGED envVars
  PROVE  /\ SyncOK' /\ DataOK' /\ JobStep /\ expired' \in [Threads -> BOOLEAN]
         /\ \A u \in Threads : pc'[u] = IF u = t THEN "job" ELSE pc[u]
<1>1. SyncOK /\ DataOK /\ LocalsOK
  BY TypeParts, Zenon
<1>2. /\ pc' = [pc EXCEPT ![t] = "job"] /\ expired' = [expired EXCEPT ![t] = old]
      /\ \E x : job' = [job EXCEPT ![t] = x]
      /\ UNCHANGED <<outcome, enqueueTime>>
  BY Zenon DEF TakeStep, TakeJob
<1>3. SyncOK' /\ \A u \in Threads : pc'[u] = IF u = t THEN "job" ELSE pc[u]
  BY <1>1, <1>2, SyncStep, Zenon DEF PCs
<1>4. /\ job'[t] \in Jobs /\ m_jobCount' \in Nat /\ m_workerCount' \in Nat
      /\ m_jobQueues' \in [Priorities -> Seq(Jobs)]
  BY TakeKeeps, Zenon
<1>5. DataOK'
  BY <1>1, <1>2, <1>4, Zenon DEF DataOK, envVars
<1> QED
  BY <1>1, <1>2, <1>3, <1>5 DEF JobStep, LocalsOK

\* t waits or ends.
LEMMA PauseTyped ==
  ASSUME TypeOK, NEW t \in Threads, NEW v \in PCs, NEW n \in Syncs,
         n.signalled \subseteq Waiting, v = "wait" \/ t \notin n.signalled, v # "job", pc[t] # "job",
         pc' = [pc EXCEPT ![t] = v], SetSync(n), UNCHANGED <<queueVars, jobVars, job, envVars>>
  PROVE  /\ SyncOK' /\ DataOK' /\ JobStep
         /\ \A u \in Threads : pc'[u] = IF u = t THEN v ELSE pc[u]
<1>1. SyncOK /\ DataOK
  BY TypeParts, Zenon
<1>2. SyncOK' /\ \A u \in Threads : pc'[u] = IF u = t THEN v ELSE pc[u]
  BY <1>1, SyncStep, Zenon
<1>3. DataOK'
  BY <1>1, Zenon DEF DataOK, queueVars, jobVars, envVars
<1>4. OtherStep
  BY <1>2, Zenon DEF OtherStep, queueVars, jobVars
<1> QED
  BY <1>2, <1>3, <1>4, Zenon DEF JobStep

\* The locals of a dequeue, in which now is never ahead of the clock.
NowOK == LocalsOK /\ \A t \in Threads : now[t] <= clock

LEMMA LocalsFacts ==
  ASSUME TypeOK, NowOK, UNCHANGED envVars, expired' \in [Threads -> BOOLEAN], NEW t \in Threads
  PROVE  /\ DropLocals(t) => NowOK'
         /\ \A able \in BOOLEAN, isFlushed \in BOOLEAN : KeepLocals(t, able, isFlushed) => NowOK'
         /\ UNCHANGED <<ableToDeque, flushed, now>> => NowOK'
<1>1. clock \in Nat /\ clock' = clock
  BY Zenon DEF TypeOK, envVars
<1>2. DropLocals(t) => NowOK'
  BY <1>1 DEF NowOK, LocalsOK, DropLocals
<1>3. ASSUME NEW able \in BOOLEAN, NEW isFlushed \in BOOLEAN, KeepLocals(t, able, isFlushed)
      PROVE  NowOK'
  BY <1>1, <1>3, Zenon DEF NowOK, LocalsOK, KeepLocals
<1>4. UNCHANGED <<ableToDeque, flushed, now>> => NowOK'
  BY <1>1, Zenon DEF NowOK, LocalsOK
<1> QED
  BY <1>2, <1>3, <1>4, Zenon

QueuesOK == TypeOK /\ JobsInv /\ TimeInv

Good == SyncOK /\ DataOK /\ NowOK

LEMMA Typed == (TypeOK /\ \A t \in Threads : now[t] <= clock) <=> Good
BY TypeParts, Zenon DEF Good, NowOK

\* The oldest job of a queue is no younger by the clock than by an earlier time.
LEMMA OldByNow ==
  ASSUME QueuesOK, NEW p \in Priorities, m_jobQueues[p] # <<>>, NEW t \in Threads,
         TooOld(Head(m_jobQueues[p]), now[t])
  PROVE  TooOld(Head(m_jobQueues[p]), clock)
<1> DEFINE j == Head(m_jobQueues[p])
<1>1. j = m_jobQueues[p][1] /\ 1 \in 1..Len(m_jobQueues[p]) /\ j \in Jobs
  BY DEF QueuesOK, TypeOK
<1>2. outcome[j] = "in"
  BY <1>1 DEF QueuesOK, JobsInv, QueuedInv
<1> HIDE DEF j
<1>3. enqueueTime[j] \in Nat
  BY <1>1, <1>2, Zenon DEF QueuesOK, TypeOK, TimeInv
<1>4. now[t] \in Nat /\ clock \in Nat /\ now[t] <= clock /\ MaxJobQueuing \in Nat
  BY JobQueueAssumption, Zenon DEF QueuesOK, TypeOK, TimeInv
<1> QED
  BY <1>3, <1>4 DEF TooOld, j

LEMMA DequeueTakes ==
  ASSUME QueuesOK, NEW t \in Threads, pc[t] # "job", NEW able, MayDequeue(able), Dequeue(t),
         UNCHANGED jobVars
  PROVE  \E p \in Priorities, last \in BOOLEAN, old \in BOOLEAN : TakeStep(t, p, last, old)
<1> DEFINE full == {q \in Priorities : m_jobQueues[q] # <<>>}
           p == Highest(full)
           old == TooOld(Head(m_jobQueues[p]), now[t])
           last == ~old /\ m_jobCount - 1 >= LifoSwitchThreshold
<1>1. full # {}
  <2>1. CASE m_jobCount # 0
    BY <2>1, NoPlaces, Zenon DEF QueuesOK, TypeOK, JobsInv, CountInv
  <2>2. CASE m_jobQueues[NumPriorities - 1] # <<>>
    BY <2>2, JobQueueAssumption DEF Priorities
  <2> QED
    BY <2>1, <2>2, Zenon DEF MayDequeue
<1>2. p \in full
  BY <1>1, Greatest, Zenon
<1>3. TakeJob(t, p, last, old)
  BY Zenon DEF Dequeue
<1>4. old \in BOOLEAN
  BY Zenon DEF TooOld
<1> HIDE DEF p, old
<1>5. p \in Priorities /\ m_jobQueues[p] # <<>>
  BY <1>2, Zenon
<1>6. old => TooOld(Head(m_jobQueues[p]), clock)
  BY <1>5, OldByNow, Zenon DEF old
<1> HIDE DEF full
<1>7. last \in BOOLEAN /\ (old => ~last)
  BY <1>4, Zenon
<1> HIDE DEF last
<1>8. TakeStep(t, p, last, old)
  BY <1>3, <1>5, <1>6, <1>7, Zenon DEF TakeStep, jobVars
<1> QED
  BY <1>4, <1>5, <1>7, <1>8, Zenon

\* From the loop's condition to a return, a throw or the next wait.
LEMMA WorkerLoopTyped ==
  ASSUME QueuesOK, NEW t \in Threads, pc[t] # "job", NEW s \in Syncs,
         s.signalled \subseteq Waiting \ {t}, NEW able \in BOOLEAN, NEW isFlushed \in BOOLEAN,
         WorkerLoop(t, s, able, isFlushed)
  PROVE  Good' /\ JobStep
<1>1. TypeOK /\ JobsInv /\ NowOK /\ UNCHANGED <<jobVars, envVars>> /\ "ended" \in PCs /\ "wait" \in PCs
  BY Typed, Zenon DEF QueuesOK, TimeInv, Good, WorkerLoop, PCs
<1>2. CASE MayDequeue(able) /\ Dequeue(t) /\ DropLocals(t) /\ SetSync(s)
  <2>1. PICK p \in Priorities, last \in BOOLEAN, old \in BOOLEAN : TakeStep(t, p, last, old)
    BY <1>1, <1>2, DequeueTakes, Zenon
  <2>2. SyncOK' /\ DataOK' /\ JobStep /\ expired' \in [Threads -> BOOLEAN]
    BY <1>1, <1>2, <2>1, TakeTyped, Zenon
  <2> QED
    BY <1>1, <1>2, <2>2, LocalsFacts, Zenon DEF Good
<1>3. CASE ThrowStopSignal(t) /\ DropLocals(t) /\ SetSync(s)
  <2>1. /\ pc' = [pc EXCEPT ![t] = "ended"] /\ UNCHANGED <<queueVars, job, expired>>
        /\ t \notin s.signalled /\ s.signalled \subseteq Waiting
    BY <1>3, Zenon DEF ThrowStopSignal
  <2>2. SyncOK' /\ DataOK' /\ JobStep
    BY <1>1, <1>3, <2>1, PauseTyped, Zenon
  <2>3. expired' \in [Threads -> BOOLEAN]
    BY <1>1, <2>1, Zenon DEF TypeOK
  <2> QED
    BY <1>1, <1>3, <2>2, <2>3, LocalsFacts, Zenon DEF Good
<1>4. CASE Block(t, s, WaitPriority(t, isFlushed)) /\ KeepLocals(t, able, isFlushed)
  <2> DEFINE n == StartWait(s, t, WaitPriority(t, isFlushed))
  <2>1. /\ pc' = [pc EXCEPT ![t] = "wait"] /\ UNCHANGED <<queueVars, job, expired>>
        /\ SetSync(n)
    BY <1>4, Zenon DEF Block
  <2>2. n \in Syncs /\ n.signalled = s.signalled
    BY PriorityFacts, StartWaitSync, Zenon
  <2> HIDE DEF n
  <2>3. SyncOK' /\ DataOK' /\ JobStep
    BY <1>1, <2>1, <2>2, PauseTyped, Zenon
  <2>4. expired' \in [Threads -> BOOLEAN]
    BY <1>1, <2>1, Zenon DEF TypeOK
  <2> QED
    BY <1>1, <1>4, <2>3, <2>4, LocalsFacts, Zenon DEF Good
<1> QED
  BY <1>2, <1>3, <1>4, Zenon DEF WorkerLoop

LEMMA ReaperLoopTyped ==
  ASSUME QueuesOK, NEW t \in Threads, pc[t] # "job", NEW s \in Syncs,
         s.signalled \subseteq Waiting \ {t}, ReaperLoop(t, s)
  PROVE  Good' /\ JobStep
<1> DEFINE old == {p \in Priorities : m_jobQueues[p] # <<>> /\ TooOld(Head(m_jobQueues[p]), clock)}
<1>1. /\ TypeOK /\ JobsInv /\ NowOK /\ UNCHANGED <<jobVars, envVars, ableToDeque, flushed, now>>
      /\ "ended" \in PCs /\ "wait" \in PCs
  BY Typed, Zenon DEF QueuesOK, TimeInv, Good, ReaperLoop, PCs
<1>2. CASE old # {} /\ TakeJob(t, Highest(old), FALSE, TRUE) /\ SetSync(s)
  <2>1. Highest(old) \in old
    BY <1>2, Greatest, Zenon
  <2>2. TakeStep(t, Highest(old), FALSE, TRUE)
    BY <1>1, <1>2, <2>1, Zenon DEF TakeStep, jobVars
  <2>3. SyncOK' /\ DataOK' /\ JobStep /\ expired' \in [Threads -> BOOLEAN]
    BY <1>1, <1>2, <2>1, <2>2, TakeTyped, Zenon
  <2> QED
    BY <1>1, <2>3, LocalsFacts, Zenon DEF Good
<1>3. CASE ThrowStopSignal(t) /\ SetSync(s)
  <2>1. /\ pc' = [pc EXCEPT ![t] = "ended"] /\ UNCHANGED <<queueVars, job, expired>>
        /\ t \notin s.signalled /\ s.signalled \subseteq Waiting
    BY <1>3, Zenon DEF ThrowStopSignal
  <2>2. SyncOK' /\ DataOK' /\ JobStep
    BY <1>1, <1>3, <2>1, PauseTyped, Zenon
  <2>3. expired' \in [Threads -> BOOLEAN]
    BY <1>1, <2>1, Zenon DEF TypeOK
  <2> QED
    BY <1>1, <2>2, <2>3, LocalsFacts, Zenon DEF Good
<1>4. CASE ReaperWait(t, s)
  <2>1. PICK failures \in Threads :
               Block(t, NotifyMany(Unlink(s, t), Waiting \ {t}, failures), "Low")
    BY <1>4, Zenon DEF ReaperWait
  <2> DEFINE m == NotifyMany(Unlink(s, t), Waiting \ {t}, failures)
             n == StartWait(m, t, "Low")
  <2>2. /\ pc' = [pc EXCEPT ![t] = "wait"] /\ UNCHANGED <<queueVars, job, expired>>
        /\ SetSync(n)
    BY <2>1, Zenon DEF Block
  <2>3. Unlink(s, t) \in Syncs /\ Unlink(s, t).signalled = s.signalled
    BY UnlinkSync, Zenon
  <2>4. Waiting \ {t} \in SUBSET Threads /\ failures \in Nat
    BY JobQueueAssumption DEF Waiting, Threads
  <2>5. m \in Syncs /\ m.signalled \subseteq Waiting
    <3>1. Notified(Unlink(s, t), m, Waiting \ {t})
      BY <2>3, <2>4, NotifyManySync, Zenon
    <3> QED
      BY <2>3, <3>1, Zenon DEF Notified
  <2> HIDE DEF m
  <2>6. n \in Syncs /\ n.signalled \subseteq Waiting
    BY <2>5, StartWaitSync, Zenon DEF WaitPriorities
  <2> HIDE DEF n
  <2>7. SyncOK' /\ DataOK' /\ JobStep
    BY <1>1, <2>2, <2>6, PauseTyped, Zenon
  <2>8. expired' \in [Threads -> BOOLEAN]
    BY <1>1, <2>2, Zenon DEF TypeOK
  <2> QED
    BY <1>1, <2>7, <2>8, LocalsFacts, Zenon DEF Good
<1> QED
  BY <1>2, <1>3, <1>4, Zenon DEF ReaperLoop

\* The workers' steps.
LEMMA WorkerTyped ==
  ASSUME QueuesOK, NEW t \in Threads,
         EnterDequeue(t) \/ Wake(t) \/ SpuriousWake(t) \/ TimeOut(t) \/ Flushed(t)
  PROVE  Good' /\ JobStep
<1>1. SyncOK /\ (m_healthStatus # "BackOff") \in BOOLEAN /\ Able(t) \in BOOLEAN /\ flushed[t] \in BOOLEAN
  BY TypeParts, Zenon DEF QueuesOK, LocalsOK, Able
<1>2. /\ Sync \in Syncs /\ Sync.signalled = signalled
      /\ Returned(t) \in Syncs /\ Returned(t).signalled = signalled \ {t}
      /\ signalled \subseteq Waiting
      /\ signalled \ {t} \subseteq Waiting \ {t}
      /\ t \in signalled => pc[t] = "wait"
  BY <1>1, SyncFacts, Zenon DEF SyncOK, Waiting
<1>3. CASE EnterDequeue(t)
  <2>1. pc[t] # "job" /\ signalled \subseteq Waiting \ {t} /\ WorkerLoop(t, Sync, m_healthStatus # "BackOff", FALSE)
    BY <1>2, <1>3, Zenon DEF EnterDequeue
  <2> QED
    BY <1>1, <1>2, <2>1, WorkerLoopTyped, Zenon
<1>4. CASE Wake(t)
  <2>1. pc[t] # "job" /\ WorkerLoop(t, Returned(t), Able(t), flushed[t])
    BY <1>2, <1>4, Zenon DEF Wake
  <2> QED
    BY <1>1, <1>2, <2>1, WorkerLoopTyped
<1>5. CASE SpuriousWake(t)
  <2>1. pc[t] # "job" /\ signalled \subseteq Waiting \ {t} /\ WorkerLoop(t, Sync, Able(t), flushed[t])
    BY <1>2, <1>5, Zenon DEF SpuriousWake
  <2> QED
    BY <1>1, <1>2, <2>1, WorkerLoopTyped
<1>6. CASE TimeOut(t)
  <2> DEFINE s == Unlink(Returned(t), t)
  <2>1. s \in Syncs /\ s.signalled = signalled \ {t}
    BY <1>2, UnlinkSync, Zenon
  <2>2. pc[t] # "job"
    BY <1>6, Zenon DEF TimeOut
  <2>3. CASE WorkerLoop(t, s, Able(t), FALSE)
    <3> HIDE DEF s
    <3> QED
      BY <1>1, <1>2, <2>1, <2>2, <2>3, WorkerLoopTyped, Zenon
  <2>4. CASE /\ SetSync(s) /\ pc' = [pc EXCEPT ![t] = "flush"]
             /\ UNCHANGED <<queueVars, jobVars, envVars, ableToDeque, flushed, now, job, expired>>
    <3> HIDE DEF s
    <3>1. SyncOK' /\ DataOK' /\ JobStep
      <4>1. "flush" \in PCs /\ s.signalled \subseteq Waiting /\ t \notin s.signalled /\ TypeOK
        BY <1>2, <2>1, Zenon DEF PCs, QueuesOK
      <4> QED
        BY <2>1, <2>2, <2>4, <4>1, PauseTyped, Zenon
    <3>2. expired' \in [Threads -> BOOLEAN] /\ TypeOK /\ NowOK
      BY <2>4, Typed, Zenon DEF QueuesOK, TypeOK, TimeInv, Good
    <3> QED
      BY <2>4, <3>1, <3>2, LocalsFacts, Zenon DEF Good
  <2> QED
    BY <1>6, <2>3, <2>4, Zenon DEF TimeOut
<1>7. CASE Flushed(t)
  <2>1. pc[t] # "job" /\ signalled \subseteq Waiting \ {t} /\ WorkerLoop(t, Sync, Able(t), TRUE)
    BY <1>2, <1>7, Zenon DEF Flushed
  <2> QED
    BY <1>1, <1>2, <2>1, WorkerLoopTyped, Zenon
<1> QED
  BY <1>3, <1>4, <1>5, <1>6, <1>7, Zenon

\* The reaper's steps.
LEMMA ReaperTyped ==
  ASSUME QueuesOK, NEW t \in Threads,
         ReaperEnter(t) \/ ReaperWake(t) \/ ReaperSpuriousWake(t) \/ ReaperTimeOut(t)
  PROVE  Good' /\ JobStep
<1>1. /\ Sync \in Syncs /\ Sync.signalled = signalled
      /\ Returned(t) \in Syncs /\ Returned(t).signalled = signalled \ {t}
      /\ signalled \subseteq Waiting /\ signalled \ {t} \subseteq Waiting \ {t}
      /\ t \in signalled => pc[t] = "wait"
      /\ Waiting \ {t} \in SUBSET Threads
  BY TypeParts, SyncFacts, Zenon DEF QueuesOK, SyncOK, Waiting
<1>2. CASE ReaperEnter(t)
  <2>1. pc[t] # "job" /\ signalled \subseteq Waiting \ {t} /\ ReaperLoop(t, Sync)
    BY <1>1, <1>2, Zenon DEF ReaperEnter, Waiting
  <2> QED
    BY <1>1, <2>1, ReaperLoopTyped, Zenon
<1>3. CASE ReaperWake(t)
  <2> DEFINE s == Notify(Returned(t), Waiting \ {t})
  <2>1. Notified(Returned(t), s, Waiting \ {t})
    BY <1>1, NotifySync, Zenon
  <2>2. pc[t] # "job" /\ ReaperLoop(t, s)
    BY <1>1, <1>3, Zenon DEF ReaperWake
  <2> HIDE DEF s
  <2>3. s \in Syncs /\ s.signalled \subseteq Waiting \ {t}
    BY <1>1, <2>1, Zenon DEF Notified
  <2> QED
    BY <2>2, <2>3, ReaperLoopTyped, Zenon
<1>4. CASE ReaperSpuriousWake(t)
  <2> DEFINE s == Notify(Sync, Waiting \ {t})
  <2>1. Notified(Sync, s, Waiting \ {t})
    BY <1>1, NotifySync, Zenon
  <2>2. pc[t] # "job" /\ ReaperLoop(t, s) /\ t \notin signalled
    BY <1>4, Zenon DEF ReaperSpuriousWake
  <2> HIDE DEF s
  <2>3. s \in Syncs /\ s.signalled \subseteq Waiting \ {t}
    BY <1>1, <2>1, <2>2, Zenon DEF Notified
  <2> QED
    BY <2>2, <2>3, ReaperLoopTyped, Zenon
<1>5. CASE ReaperTimeOut(t)
  <2> DEFINE s == Unlink(Returned(t), t)
  <2>1. s \in Syncs /\ s.signalled = signalled \ {t}
    BY <1>1, UnlinkSync, Zenon
  <2>2. pc[t] # "job" /\ ReaperLoop(t, s)
    BY <1>5, Zenon DEF ReaperTimeOut
  <2> HIDE DEF s
  <2>3. s.signalled \subseteq Waiting \ {t}
    BY <1>1, <2>1, Zenon
  <2> QED
    BY <2>1, <2>2, <2>3, ReaperLoopTyped, Zenon
<1> QED
  BY <1>2, <1>3, <1>4, <1>5, Zenon

LEMMA FinishTyped ==
  ASSUME QueuesOK, NEW t \in Threads, DoJob(t) \/ DoJobThrows(t)
  PROVE  Good' /\ JobStep
<1>1. TypeOK /\ JobsInv /\ Good /\ UNCHANGED <<syncVars, m_jobCount, m_jobQueues, enqueueTime, envVars, ableToDeque, flushed, now>>
  BY Typed, Zenon DEF QueuesOK, TimeInv, DoJob, DoJobThrows, FinishJob
<1>2. PICK how \in {"done", "aborted", "threw"}, next \in {"loop", "signal", "ended"} :
             FinishStep(t, how, next)
  <2>1. CASE DoJob(t)
    <3> DEFINE how == IF expired[t] THEN "aborted" ELSE "done"
               next == IF m_workerCount - 1 = 0 /\ Waitable THEN "signal" ELSE "loop"
    <3>1. FinishStep(t, how, next)
      BY <2>1, Zenon DEF DoJob, FinishJob, FinishStep
    <3> QED
      BY <3>1, Zenon
  <2>2. CASE DoJobThrows(t)
    BY <2>2, Zenon DEF DoJobThrows, FinishJob, FinishStep
  <2> QED
    BY <2>1, <2>2, Zenon
<1>3. m_workerCount' \in Nat /\ job[t] \in Jobs /\ expired' = [expired EXCEPT ![t] = FALSE]
  BY <1>1, <1>2, FinishKeeps DEF DoJob, DoJobThrows, FinishJob
<1>4. SyncOK'
  <2>1. pc' = [pc EXCEPT ![t] = next] /\ pc[t] = "job" /\ next \in PCs
    BY <1>2, Zenon DEF FinishStep, PCs
  <2> QED
    BY <1>1, <2>1, Zenon DEF Good, SyncOK, syncVars, Waiting
<1>5. DataOK'
  BY <1>1, <1>2, <1>3, Zenon DEF Good, DataOK, FinishStep, envVars
<1>6. NowOK'
  BY <1>1, <1>3, Zenon DEF Good, NowOK, LocalsOK, envVars
<1> QED
  BY <1>2, <1>4, <1>5, <1>6, Zenon DEF Good, JobStep

LEMMA EnqueueTyped ==
  ASSUME QueuesOK, NEW j \in Jobs, Enqueue(j)
  PROVE  Good' /\ JobStep
<1>1. Good /\ Priority[j] \in Priorities
  BY Typed, JobQueueAssumption, Zenon DEF QueuesOK, TimeInv
<1>2. Notified(Sync, Notify(Sync, Waiting), Waiting) /\ Sync.signalled = signalled
  BY <1>1, SyncFacts, NotifySync, Zenon DEF Good
<1>3. SetSync(Notify(Sync, Waiting)) /\ UNCHANGED <<threadVars, envVars>>
  BY Zenon DEF Enqueue
<1>4. SyncOK'
  BY <1>1, <1>2, <1>3, Zenon DEF Notified, SetSync, Good, SyncOK, Syncs, Waiting, threadVars
<1>5. DataOK' /\ EnqueueStep(j)
  BY <1>1 DEF Enqueue, EnqueueStep, Good, DataOK, threadVars, envVars
<1>6. NowOK'
  BY <1>1, <1>3, Zenon DEF Good, NowOK, LocalsOK, threadVars, envVars
<1> QED
  BY <1>4, <1>5, <1>6, Zenon DEF Good, JobStep

\* Steps that leave the queues and the jobs alone.
LEMMA OtherTyped ==
  ASSUME QueuesOK,
         \/ \E j \in Jobs : ReadTime(j)
         \/ \E t \in Threads : StartThread(t) \/ ReadNow(t) \/ SignalEmpty(t)
         \/ WaitEmpty \/ WaitEmptyWake \/ WaitEmptySpuriousWake
         \/ ReleaseQueuedJobs \/ Stop
         \/ \E level \in HealthLevels : SetHealth(level)
         \/ Tick
         \/ UNCHANGED vars
  PROVE  Good' /\ OtherStep
<1>1. Good
  BY Typed, Zenon DEF QueuesOK, TimeInv
<1>2. ASSUME NEW j \in Jobs, ReadTime(j) PROVE Good' /\ OtherStep
  BY <1>1, <1>2, Zenon DEF ReadTime, Good, SyncOK, DataOK, NowOK, LocalsOK, OtherStep,
     Waiting, queueVars, syncVars, threadVars, envVars
<1>3. ASSUME NEW t \in Threads, StartThread(t) \/ ReadNow(t) \/ SignalEmpty(t)
      PROVE  Good' /\ OtherStep
  <2>1. /\ \E v \in {"loop", "lock"} : pc' = [pc EXCEPT ![t] = v]
        /\ pc[t] \in {"none", "loop", "signal"}
        /\ UNCHANGED <<queueVars, syncVars, jobVars, m_stopped, m_healthStatus, clock,
                       ableToDeque, flushed, job, expired>>
    BY <1>3, Zenon DEF StartThread, ReadNow, SignalEmpty, envVars
  <2>2. now' = now \/ now' = [now EXCEPT ![t] = clock]
    BY <1>3, Zenon DEF StartThread, ReadNow, SignalEmpty
  <2>3. waiter' \in {waiter, "signalled"}
    BY <1>3, Zenon DEF StartThread, ReadNow, SignalEmpty, envVars
  <2>4. SyncOK'
    BY <1>1, <2>1, Zenon DEF Good, SyncOK, Waiting, PCs, syncVars
  <2>5. DataOK'
    BY <1>1, <2>1, <2>3, Zenon DEF Good, DataOK, queueVars, jobVars
  <2>6. NowOK'
    <3>1. clock \in Nat /\ clock' = clock /\ now \in [Threads -> Nat] /\ \A u \in Threads : now[u] <= clock
      BY <1>1, <2>1, Zenon DEF Good, DataOK, NowOK, LocalsOK
    <3>2. now' \in [Threads -> Nat] /\ \A u \in Threads : now'[u] <= clock
      BY <2>2, <3>1
    <3> QED
      BY <1>1, <2>1, <3>1, <3>2, Zenon DEF Good, NowOK, LocalsOK
  <2>7. OtherStep
    BY <1>1, <2>1, Zenon DEF Good, SyncOK, OtherStep, queueVars, jobVars
  <2> QED
    BY <2>4, <2>5, <2>6, <2>7, Zenon DEF Good
<1>4. CASE WaitEmpty \/ WaitEmptyWake \/ WaitEmptySpuriousWake
  <2>1. waiter' \in {"wait", "idle"} /\ UNCHANGED <<queueVars, syncVars, jobVars, threadVars, m_stopped, m_healthStatus, clock>>
    BY <1>4, Zenon DEF WaitEmpty, WaitEmptyWake, WaitEmptySpuriousWake, WaitEmptyLoop
  <2> QED
    BY <1>1, <2>1, Zenon DEF Good, SyncOK, DataOK, NowOK, LocalsOK, OtherStep, Waiting,
       queueVars, syncVars, jobVars, threadVars
<1>5. CASE ReleaseQueuedJobs \/ Stop
  <2>1. PICK n : /\ Notified(Sync, n, Waiting) /\ SetSync(n)
                 /\ m_stopped' \in BOOLEAN
                 /\ UNCHANGED <<queueVars, jobVars, threadVars, m_healthStatus, clock, waiter>>
    <3>1. Sync \in Syncs /\ Waiting \in SUBSET Threads
      BY <1>1, SyncFacts, Zenon DEF Good
    <3>2. CASE ReleaseQueuedJobs
      <4> DEFINE k == IF ReleaseRate < m_jobCount THEN ReleaseRate ELSE m_jobCount
      <4>1. /\ ReleaseRate > 0 /\ SetSync(NotifyMany(Sync, Waiting, k))
            /\ UNCHANGED <<queueVars, jobVars, threadVars, envVars>>
        BY <3>2, Zenon DEF ReleaseQueuedJobs
      <4>2. k \in Nat
        BY <1>1, <4>1, JobQueueAssumption DEF Good, DataOK
      <4>3. m_stopped' \in BOOLEAN
        BY <1>1, <4>1, Zenon DEF Good, DataOK, envVars
      <4> HIDE DEF k
      <4>4. Notified(Sync, NotifyMany(Sync, Waiting, k), Waiting)
        BY <3>1, <4>2, NotifyManySync, Zenon
      <4> QED
        BY <4>1, <4>3, <4>4, Zenon DEF envVars
    <3>3. CASE Stop
      <4>1. Notified(Sync, NotifyAll(Sync, Waiting), Waiting)
        BY <3>1, NotifyAllSync, Zenon
      <4> QED
        BY <3>3, <4>1, Zenon DEF Stop
    <3> QED
      BY <1>5, <3>2, <3>3, Zenon
  <2>2. SyncOK'
    BY <1>1, <2>1, SyncFacts, Zenon DEF Notified, SetSync, Good, SyncOK, Syncs, Waiting,
       threadVars
  <2>3. DataOK' /\ NowOK' /\ OtherStep
    BY <1>1, <2>1, Zenon DEF Good, DataOK, NowOK, LocalsOK, OtherStep, queueVars, jobVars,
       threadVars
  <2> QED
    BY <2>2, <2>3, Zenon DEF Good
<1>6. CASE (\E level \in HealthLevels : SetHealth(level)) \/ Tick \/ UNCHANGED vars
  <2>1. /\ UNCHANGED <<queueVars, syncVars, jobVars, threadVars, m_stopped, waiter>>
        /\ m_healthStatus' \in HealthLevels /\ clock' \in {clock, clock + 1}
    BY <1>1, <1>6, Zenon DEF SetHealth, Tick, vars, envVars, Good, DataOK
  <2> QED
    BY <1>1, <2>1 DEF Good, SyncOK, DataOK, NowOK, LocalsOK, OtherStep, Waiting,
         queueVars, syncVars, jobVars, threadVars
<1> QED
  BY <1>2, <1>3, <1>4, <1>5, <1>6, Zenon

LEMMA StepTyped ==
  ASSUME QueuesOK, [Next]_vars
  PROVE  Good' /\ JobStep
<1>1. ASSUME NEW t \in Threads, StartThread(t) \/ Step(t) \/ Unprompted(t)
      PROVE  Good' /\ JobStep
  <2>1. CASE StartThread(t) \/ ReadNow(t) \/ SignalEmpty(t)
    BY <2>1, OtherTyped, Zenon DEF JobStep
  <2>2. CASE EnterDequeue(t) \/ Wake(t) \/ SpuriousWake(t) \/ TimeOut(t) \/ Flushed(t)
    BY <2>2, WorkerTyped, Zenon
  <2>3. CASE ReaperEnter(t) \/ ReaperWake(t) \/ ReaperSpuriousWake(t) \/ ReaperTimeOut(t)
    BY <2>3, ReaperTyped, Zenon
  <2>4. CASE DoJob(t) \/ DoJobThrows(t)
    BY <2>4, FinishTyped, Zenon
  <2> QED
    BY <1>1, <2>1, <2>2, <2>3, <2>4, Zenon DEF Step, Unprompted
<1>2. ASSUME NEW j \in Jobs, ReadTime(j) \/ Enqueue(j) PROVE Good' /\ JobStep
  BY <1>2, OtherTyped, EnqueueTyped, Zenon DEF JobStep
<1>3. CASE \/ WaitEmpty \/ WaitEmptyWake \/ WaitEmptySpuriousWake
           \/ ReleaseQueuedJobs \/ Stop
           \/ \E level \in HealthLevels : SetHealth(level)
           \/ Tick
           \/ UNCHANGED vars
  BY <1>3, OtherTyped, Zenon DEF JobStep
<1> QED
  BY <1>1, <1>2, <1>3, Zenon DEF Next

-----------------------------------------------------------------------------
(* The theorems on jobs.                                                   *)

LEMMA QueuesInit == Init => QueuesOK
<1> SUFFICES ASSUME Init PROVE QueuesOK
  BY Zenon
<1>1. TypeOK
  <2>1. SyncOK
    <3>1. [g \in Groups |-> [high |-> <<>>, midLow |-> <<>>]] \in [Groups -> CondLists]
      BY DEF CondLists
    <3>2. 0 \in Groups
      BY JobQueueAssumption DEF Groups
    <3> QED
      BY <3>1, <3>2, Zenon DEF Init, SyncOK, PCs
  <2>2. DataOK
    <3>1. m_jobQueues \in [Priorities -> Seq(Jobs)]
      BY DEF Init
    <3>2. "Bold" \in HealthLevels
      BY JobQueueAssumption, Zenon
    <3> QED
      BY <3>1, <3>2, Zenon DEF Init, DataOK
  <2>3. LocalsOK
    BY Zenon DEF Init, LocalsOK
  <2> QED
    BY <2>1, <2>2, <2>3, TypeParts, Zenon
<1>2. /\ \A p \in Priorities : m_jobQueues[p] = <<>>
      /\ \A t \in Threads : job[t] = NULL /\ pc[t] = "none" /\ now[t] = 0
      /\ \A j \in Jobs : outcome[j] = "new"
      /\ m_jobCount = 0 /\ m_workerCount = 0 /\ clock = 0
  BY Zenon DEF Init
<1>3. CountInv
  <2>1. Places(m_jobQueues) = {} /\ Doing(pc) = {} /\ Threw(outcome) = {}
    BY <1>2 DEF Places, Doing, Threw
  <2>2. IsFiniteSet({}) /\ Cardinality({}) = 0
    BY FS_EmptySet, Zenon
  <2> QED
    BY <1>2, <2>1, <2>2 DEF CountInv
<1>4. PlacesDiffer /\ QueuedInv /\ HeldInv /\ SomewhereInv /\ TimeInv
  BY <1>2 DEF PlacesDiffer, QueuedInv, HeldInv, SomewhereInv, TimeInv
<1> QED
  BY <1>1, <1>3, <1>4, Zenon DEF QueuesOK, JobsInv

LEMMA QueuesNext == QueuesOK /\ [Next]_vars => QueuesOK'
<1> SUFFICES ASSUME QueuesOK, [Next]_vars PROVE QueuesOK'
  BY Zenon
<1>1. Good' /\ JobStep /\ TypeOK /\ JobsInv
  BY StepTyped, Zenon DEF QueuesOK
<1>2. TypeOK' /\ \A t \in Threads : now'[t] <= clock'
  <2>1. (TypeOK /\ \A t \in Threads : now[t] <= clock)'
    BY <1>1, Typed, PTL
  <2> QED
    BY <2>1, Zenon
<1>3. JobsInv'
  BY <1>1, EnqueueKeeps, TakeKeeps, FinishKeeps, OtherKeeps, Zenon DEF JobStep
<1>4. \A j \in Jobs : outcome'[j] # "new" => enqueueTime'[j] # NULL
  <2>1. /\ outcome \in [Jobs -> {"new", "in", "done", "aborted", "threw"}]
        /\ \A j \in Jobs : outcome[j] # "new" => enqueueTime[j] # NULL
    BY Zenon DEF QueuesOK, TypeOK, TimeInv
  <2>2. ASSUME NEW j \in Jobs, EnqueueStep(j) PROVE \A k \in Jobs : outcome'[k] # "new" => enqueueTime'[k] # NULL
    BY <2>1, <2>2, Zenon DEF EnqueueStep
  <2>3. ASSUME NEW t \in Threads, NEW how \in {"done", "aborted", "threw"}, NEW next, FinishStep(t, how, next)
        PROVE  \A k \in Jobs : outcome'[k] # "new" => enqueueTime'[k] # NULL
    <3>1. job[t] \in Jobs
      BY <1>1, <2>3, FinishKeeps, Zenon
    <3>2. outcome[job[t]] = "in"
      BY <1>1, <3>1, JobQueueAssumption, Zenon DEF JobsInv, HeldInv
    <3> QED
      BY <2>1, <2>3, <3>1, <3>2, Zenon DEF FinishStep
  <2>4. CASE OtherStep
    BY <2>1, <2>4, Zenon DEF OtherStep
  <2> QED
    BY <1>1, <2>1, <2>2, <2>3, <2>4, Zenon DEF JobStep, TakeStep
<1> QED
  BY <1>2, <1>3, <1>4, Zenon DEF QueuesOK, TimeInv

LEMMA QueuesAlways == Spec => []QueuesOK
BY QueuesInit, QueuesNext, PTL DEF Spec

\* Type correctness.
THEOREM JobQueueTyped == Spec => []TypeOK
<1>1. QueuesOK => TypeOK
  BY Zenon DEF QueuesOK
<1> QED
  BY <1>1, QueuesAlways, PTL

LEMMA Conserved == QueuesOK => JobsAreConserved
<1> SUFFICES ASSUME QueuesOK, NEW j \in Jobs
             PROVE  Cardinality(QueuePlaces(j)) + Cardinality({t \in Threads : job[t] = j})
                      = IF outcome[j] = "in" THEN 1 ELSE 0
  BY Zenon DEF JobsAreConserved
<1> DEFINE held == {t \in Threads : job[t] = j}
<1>1. PlacesDiffer /\ QueuedInv /\ HeldInv /\ SomewhereInv /\ j # NULL
  BY JobQueueAssumption, Zenon DEF QueuesOK, JobsInv
<1>2. \A x : x \in QueuePlaces(j) <=>
        \E p \in Priorities : \E i \in 1..Len(m_jobQueues[p]) : x = <<p, i>> /\ m_jobQueues[p][i] = j
  BY DEF QueuePlaces
<1>3. CASE InQueue(j)
  <2>1. PICK p \in Priorities : \E i \in 1..Len(m_jobQueues[p]) : m_jobQueues[p][i] = j
    BY <1>3, Zenon DEF InQueue
  <2>2. PICK i \in 1..Len(m_jobQueues[p]) : m_jobQueues[p][i] = j
    BY <2>1, Zenon
  <2>3. QueuePlaces(j) = {<<p, i>>}
    <3>1. <<p, i>> \in QueuePlaces(j)
      BY <1>2, <2>2, Zenon
    <3>2. ASSUME NEW x \in QueuePlaces(j) PROVE x = <<p, i>>
      <4>1. PICK q \in Priorities : \E k \in 1..Len(m_jobQueues[q]) : x = <<q, k>> /\ m_jobQueues[q][k] = j
        BY <1>2, Zenon
      <4>2. PICK k \in 1..Len(m_jobQueues[q]) : x = <<q, k>> /\ m_jobQueues[q][k] = j
        BY <4>1, Zenon
      <4> QED
        BY <1>1, <2>2, <4>2 DEF PlacesDiffer
    <3> QED
      BY <3>1, <3>2, Zenon
  <2>4. held = {} /\ outcome[j] = "in"
    BY <1>1, <2>2, Zenon DEF QueuedInv
  <2> HIDE DEF held
  <2>5. Cardinality(QueuePlaces(j)) = 1 /\ Cardinality(held) = 0
    BY <2>3, <2>4, FS_Singleton, FS_EmptySet, Zenon
  <2> QED
    BY <2>4, <2>5 DEF held
<1>4. CASE ~InQueue(j)
  <2>1. QueuePlaces(j) = {}
    BY <1>2, <1>4, Zenon DEF InQueue
  <2>2. CASE \E t \in Threads : job[t] = j
    <3>1. PICK t \in Threads : job[t] = j
      BY <2>2, Zenon
    <3>2. held = {t} /\ outcome[j] = "in"
      BY <1>1, <3>1 DEF HeldInv
    <3> HIDE DEF held
    <3>3. Cardinality(QueuePlaces(j)) = 0 /\ Cardinality(held) = 1
      BY <2>1, <3>2, FS_Singleton, FS_EmptySet, Zenon
    <3> QED
      BY <3>2, <3>3 DEF held
  <2>3. CASE ~ \E t \in Threads : job[t] = j
    <3>1. held = {} /\ outcome[j] # "in"
      BY <1>1, <1>4, <2>3, Zenon DEF SomewhereInv
    <3> HIDE DEF held
    <3>2. Cardinality(QueuePlaces(j)) = 0 /\ Cardinality(held) = 0
      BY <2>1, <3>1, FS_EmptySet, Zenon
    <3> QED
      BY <3>1, <3>2 DEF held
  <2> QED
    BY <2>2, <2>3, Zenon
<1> QED
  BY <1>3, <1>4, Zenon

\* No job is lost, doubled or given to two threads, whichever ends of the
\* queues workers and reaper take from.
THEOREM JobsConserved == Spec => []JobsAreConserved
BY QueuesAlways, Conserved, PTL

LEMMA CountsExact == QueuesOK => CountsAreExact
<1> SUFFICES ASSUME QueuesOK PROVE CountsAreExact
  BY Zenon
<1> DEFINE all == UNION {QueuePlaces(j) : j \in Jobs}
<1>1. ASSUME NEW x PROVE x \in all <=> x \in Places(m_jobQueues)
  <2>1. x \in all <=> \E j \in Jobs : \E p \in Priorities : \E i \in 1..Len(m_jobQueues[p]) :
                        x = <<p, i>> /\ m_jobQueues[p][i] = j
    BY DEF QueuePlaces
  <2>2. \A p \in Priorities : /\ Len(m_jobQueues[p]) \in Nat
                              /\ \A i \in 1..Len(m_jobQueues[p]) : m_jobQueues[p][i] \in Jobs
    BY DEF QueuesOK, TypeOK
  <2>3. x \in Places(m_jobQueues) <=> \E p \in Priorities : \E i \in 1..Len(m_jobQueues[p]) : x = <<p, i>>
    BY <2>2 DEF Places
  <2> HIDE DEF all
  <2> QED
    BY <2>1, <2>2, <2>3, Zenon
<1>2. all = Places(m_jobQueues)
  <2> HIDE DEF all
  <2> QED
    BY <1>1, Zenon
<1> QED
  BY <1>2, Zenon DEF QueuesOK, JobsInv, CountInv, CountsAreExact, Doing, Threw

\* The counts are exact: a worker that finds m_jobCount above zero finds a job.
THEOREM JobCountsExact == Spec => []CountsAreExact
BY QueuesAlways, CountsExact, PTL

LEMMA NothingLeft ==
  ASSUME QueuesOK, m_workerCount = 0, m_jobCount = 0
  PROVE  \A j \in Jobs : outcome[j] # "in"
<1>1. IsFiniteSet(Doing(pc)) /\ IsFiniteSet(Threw(outcome))
  BY Threads_Finite, FS_Subset, JobQueueAssumption, Zenon DEF Doing, Threw
<1>2. Cardinality(Doing(pc)) \in Nat /\ Cardinality(Threw(outcome)) \in Nat
  BY <1>1, FS_CardinalityType, Zenon
<1>3. Cardinality(Doing(pc)) = 0 /\ Cardinality(Places(m_jobQueues)) = 0
  BY <1>2 DEF QueuesOK, JobsInv, CountInv
<1>4. Doing(pc) = {}
  BY <1>1, <1>3, FS_EmptySet, Zenon
<1>5. \A p \in Priorities : m_jobQueues[p] = <<>>
  BY <1>3, NoPlaces, Zenon DEF QueuesOK, TypeOK, JobsInv, CountInv
<1>6. \A j \in Jobs : ~InQueue(j) /\ \A t \in Threads : job[t] # j
  BY <1>4, <1>5, JobQueueAssumption DEF InQueue, Doing, QueuesOK, JobsInv, HeldInv
<1> QED
  BY <1>6, Zenon DEF QueuesOK, JobsInv, SomewhereInv

\* The thread in waitEmpty() moves in its own steps and when it is signalled.
LEMMA WaiterSteps ==
  ASSUME [Next]_vars, waiter # "idle", waiter' = "idle"
  PROVE  WaitEmptyLoop
BY Zenon DEF Next, vars, envVars, ReadTime, Enqueue, StartThread, Step, Unprompted, ReadNow,
     EnterDequeue, Wake, SpuriousWake, TimeOut, Flushed, WorkerLoop, ReaperEnter, ReaperWake,
     ReaperSpuriousWake, ReaperTimeOut, ReaperLoop, DoJob, DoJobThrows, FinishJob, SignalEmpty,
     WaitEmpty, WaitEmptyWake, WaitEmptySpuriousWake, ReleaseQueuedJobs, Stop, SetHealth, Tick

\* waitEmpty() returns only when every job enqueued so far is finished.
THEOREM WaitEmptyMeansDone == Spec => EmptyMeansDone
<1>1. ASSUME QueuesOK, [Next]_vars
      PROVE  [waiter # "idle" /\ waiter' = "idle" => \A j \in Jobs : outcome[j] # "in"]_vars
  <2>1. ASSUME waiter # "idle", waiter' = "idle" PROVE \A j \in Jobs : outcome[j] # "in"
    <3>1. ~Busy
      BY <1>1, <2>1, WaiterSteps, Zenon DEF WaitEmptyLoop
    <3> QED
      BY <1>1, <3>1, NothingLeft, Zenon DEF Busy
  <2> QED
    BY <2>1, Zenon
<1> QED
  BY <1>1, QueuesAlways, PTL DEF Spec, EmptyMeansDone

\* Only jobs that were queued for too long are aborted.
THEOREM AbortsOnlyOld == Spec => OnlyOldJobsAborted
<1>1. ASSUME QueuesOK, [Next]_vars
      PROVE  [\A t \in Threads : Takes(t) /\ expired'[t] => TooOld(job'[t], clock)]_vars
  <2>1. ASSUME NEW t \in Threads, Takes(t), expired'[t] PROVE TooOld(job'[t], clock)
    <3>1. JobStep /\ TypeOK
      BY <1>1, StepTyped, Zenon DEF QueuesOK
    <3>2. pc[t] # "job" /\ pc'[t] = "job" /\ pc \in [Threads -> PCs]
      BY <2>1, <3>1, TypeParts, Zenon DEF Takes, SyncOK
    <3>3. PICK u \in Threads, p \in Priorities, last \in BOOLEAN, old \in BOOLEAN :
                 TakeStep(u, p, last, old)
      BY <3>1, <3>2, Zenon DEF JobStep, EnqueueStep, FinishStep, OtherStep
    <3>4. u = t /\ old
      BY <2>1, <3>1, <3>2, <3>3 DEF TakeStep, TakeJob, TypeOK
    <3>5. job'[t] = Head(m_jobQueues[p])
      BY <3>1, <3>3, <3>4, Zenon DEF TakeStep, TakeJob, TypeOK
    <3>6. TooOld(Head(m_jobQueues[p]), clock)
      BY <3>3, <3>4, Zenon DEF TakeStep
    <3> QED
      BY <3>5, <3>6, Zenon
  <2> QED
    BY <2>1, Zenon
<1> QED
  BY <1>1, QueuesAlways, PTL DEF Spec, OnlyOldJobsAborted

-----------------------------------------------------------------------------
(* No wake-up is lost, for a queue without a reaper whose jobs do not      *)
(* throw and whose workers are not held back.                              *)

Undisturbed == MaxJobQueuing = 0 /\ ~MayThrow /\ "BackOff" \notin HealthLevels

\* A waiting thread has its condition variable in a list or was signalled,
\* and who is in a list will look at the queues again.
ListsInv ==
  /\ \A t \in Waiting : t \in signalled \/ Listed(Sync, t)
  /\ \A t : Listed(Sync, t) => t \in Workers /\ Running(t) /\ ~m_stopped
  /\ pc[m_jobReaperId] = "none"
  /\ \A t \in Threads : pc[t] = "ended" => m_stopped

WakeInv == ListsInv /\ NoStrandedJobs

LEMMA ListedNext ==
  ASSUME NEW n, SetSync(n) PROVE \A u : Listed(Sync, u)' <=> Listed(n, u)
BY Zenon DEF SetSync, Sync, Listed

LEMMA RunningWorker ==
  ASSUME TypeOK, WakeInv, NEW t \in Threads, pc[t] # "none"
  PROVE  t \in Workers
BY JobQueueAssumption DEF WakeInv, ListsInv, Workers, Threads, m_jobReaperId

LEMMA LoopWakes ==
  ASSUME QueuesOK, Undisturbed, WakeInv, NEW t \in Workers, pc[t] \in {"lock", "wait", "flush"},
         NEW s \in Syncs, s.signalled = signalled \ {t}, \A u : Listed(s, u) => Listed(Sync, u),
         \A u : u # t /\ Listed(Sync, u) => Listed(s, u),
         NEW able, able, NEW isFlushed \in BOOLEAN, WorkerLoop(t, s, able, isFlushed)
  PROVE  WakeInv'
<1>1. /\ t \in Threads /\ t # m_jobReaperId
      /\ pc \in [Threads -> PCs] /\ UNCHANGED <<m_stopped, m_healthStatus>>
  BY ThreadSets, TypeParts, Zenon DEF QueuesOK, SyncOK, WorkerLoop, envVars
<1>2. CASE Dequeue(t) /\ SetSync(s)
  <2>1. \A u \in Threads : pc'[u] = IF u = t THEN "job" ELSE pc[u]
    BY <1>1, <1>2, Zenon DEF Dequeue, TakeJob
  <2>2. signalled' = signalled \ {t} /\ \A u : Listed(Sync, u)' <=> Listed(s, u)
    BY <1>2, ListedNext, Zenon DEF SetSync
  <2>3. ListsInv'
    BY <1>1, <2>1, <2>2, ThreadSets, Zenon DEF WakeInv, ListsInv, Waiting, Running
  <2>4. NoStrandedJobs'
    BY <1>1, <2>1, Zenon DEF NoStrandedJobs, OnItsWay
  <2> QED
    BY <2>3, <2>4, Zenon DEF WakeInv
<1>3. CASE m_stopped /\ ThrowStopSignal(t) /\ SetSync(s)
  <2>1. \A u \in Threads : pc'[u] = IF u = t THEN "ended" ELSE pc[u]
    BY <1>1, <1>3, Zenon DEF ThrowStopSignal
  <2>2. signalled' = signalled \ {t} /\ \A u : Listed(Sync, u)' <=> Listed(s, u)
    BY <1>3, ListedNext, Zenon DEF SetSync
  <2>3. ListsInv'
    BY <1>1, <1>3, <2>1, <2>2, ThreadSets, Zenon DEF WakeInv, ListsInv, Waiting, Running
  <2>4. ASSUME NEW u \in Threads, pc'[u] = "wait" PROVE u \in signalled'
    BY <1>1, <1>3, <2>1, <2>2, <2>4, Zenon DEF WakeInv, ListsInv, Waiting
  <2>5. NoStrandedJobs'
    BY <2>4, Zenon DEF NoStrandedJobs, OnItsWay, Waiting
  <2> QED
    BY <2>3, <2>5, Zenon DEF WakeInv
<1>4. CASE ~MayDequeue(able) /\ ~m_stopped /\ Block(t, s, WaitPriority(t, isFlushed))
  <2> DEFINE n == StartWait(s, t, WaitPriority(t, isFlushed))
  <2>1. SetSync(n) /\ UNCHANGED queueVars /\ \A u \in Threads : pc'[u] = IF u = t THEN "wait" ELSE pc[u]
    BY <1>1, <1>4, Zenon DEF Block
  <2>2. n.signalled = s.signalled /\ \A u : Listed(n, u) <=> u = t \/ Listed(s, u)
    BY <1>1, PriorityFacts, StartWaitSync, Zenon
  <2> HIDE DEF n
  <2>3. signalled' = signalled \ {t} /\ \A u : Listed(Sync, u)' <=> u = t \/ Listed(s, u)
    BY <2>1, <2>2, ListedNext, Zenon DEF SetSync
  <2>4. ListsInv'
    BY <1>1, <1>4, <2>1, <2>3, ThreadSets DEF WakeInv, ListsInv, Waiting, Running
  <2>5. NoStrandedJobs'
    BY <1>4, <2>1, Zenon DEF NoStrandedJobs, MayDequeue, queueVars
  <2> QED
    BY <2>4, <2>5, Zenon DEF WakeInv
<1> QED
  BY <1>2, <1>3, <1>4, Zenon DEF WorkerLoop

\* A worker on its way to the queues goes on.
LEMMA MoveWakes ==
  ASSUME TypeOK, WakeInv, NEW t \in Workers, NEW v \in {"loop", "lock", "signal", "flush"},
         pc' = [pc EXCEPT ![t] = v], UNCHANGED m_stopped,
         NEW s \in Syncs, SetSync(s), s.signalled = signalled \ {t},
         \A u : Listed(s, u) => Listed(Sync, u), \A u : u # t /\ Listed(Sync, u) => Listed(s, u)
  PROVE  WakeInv'
<1>1. /\ t \in Threads /\ t # m_jobReaperId
      /\ \A u \in Threads : pc'[u] = IF u = t THEN v ELSE pc[u]
  BY ThreadSets, TypeParts, Zenon DEF SyncOK
<1>2. signalled' = signalled \ {t} /\ \A u : Listed(Sync, u)' <=> Listed(s, u)
  BY ListedNext, Zenon DEF SetSync
<1>3. ListsInv'
  BY <1>1, <1>2, ThreadSets, Zenon DEF WakeInv, ListsInv, Waiting, Running
<1>4. NoStrandedJobs'
  BY <1>1, Zenon DEF NoStrandedJobs, OnItsWay
<1> QED
  BY <1>3, <1>4, Zenon DEF WakeInv

\* Notifications wake waiting threads.
LEMMA NotifyWakes ==
  ASSUME TypeOK, WakeInv, UNCHANGED <<queueVars, pc, m_stopped>>, m_healthStatus # "BackOff",
         NEW n, Notified(Sync, n, Waiting), SetSync(n)
  PROVE  WakeInv'
<1>1. /\ signalled \subseteq signalled' /\ \A u : Listed(Sync, u)' => Listed(Sync, u)
      /\ \A u \in Waiting : Listed(Sync, u) => Listed(Sync, u)' \/ u \in signalled'
  BY ListedNext, Zenon DEF SetSync, Notified, Sync
<1>2. Waiting' = Waiting /\ \A t : Running(t)' <=> Running(t)
  BY Zenon DEF Waiting, Running
<1>3. ListsInv'
  BY <1>1, <1>2, Zenon DEF WakeInv, ListsInv
<1>4. NoStrandedJobs'
  BY <1>1, <1>2, Zenon DEF WakeInv, NoStrandedJobs, MayDequeue, OnItsWay, queueVars
<1> QED
  BY <1>3, <1>4, Zenon DEF WakeInv

\* Nothing the queue's threads look at changes.
LEMMA StayWakes ==
  ASSUME WakeInv, UNCHANGED <<queueVars, syncVars, pc, m_stopped>>, m_healthStatus # "BackOff"
  PROVE  WakeInv'
<1>1. Sync' = Sync /\ Waiting' = Waiting
  BY Zenon DEF Sync, Waiting, syncVars
<1>2. ListsInv'
  BY <1>1, Zenon DEF WakeInv, ListsInv, Listed, Running, syncVars
<1>3. NoStrandedJobs'
  BY <1>1, Zenon DEF WakeInv, NoStrandedJobs, MayDequeue, OnItsWay, queueVars, syncVars
<1> QED
  BY <1>2, <1>3, Zenon DEF WakeInv

\* enqueue() wakes a waiting worker, or takes the condition variable of one
\* that is on its way.
LEMMA EnqueueWakes ==
  ASSUME TypeOK, WakeInv, NEW j \in Jobs, Enqueue(j)
  PROVE  WakeInv'
<1> DEFINE n == Notify(Sync, Waiting)
<1>1. Sync \in Syncs /\ Waiting \in SUBSET Threads /\ pc \in [Threads -> PCs]
  BY TypeParts, SyncFacts, Zenon DEF SyncOK
<1>2. /\ Notified(Sync, n, Waiting)
      /\ (\E u : Listed(Sync, u)) => \E u : Listed(Sync, u) /\ (u \in Waiting => u \in n.signalled)
  BY <1>1, NotifySync, Zenon
<1>3. SetSync(n) /\ UNCHANGED <<pc, m_stopped>>
  BY Zenon DEF Enqueue, threadVars, envVars
<1> HIDE DEF n
<1>4. /\ signalled \subseteq signalled' /\ signalled' = n.signalled
      /\ \A u : Listed(Sync, u)' => Listed(Sync, u)
      /\ \A u \in Waiting : Listed(Sync, u) => Listed(Sync, u)' \/ u \in signalled'
  BY <1>2, <1>3, ListedNext, Zenon DEF SetSync, Notified, Sync
<1>5. Waiting' = Waiting /\ \A t : Running(t)' <=> Running(t)
  BY <1>3, Zenon DEF Waiting, Running
<1>6. ListsInv'
  BY <1>3, <1>4, <1>5, Zenon DEF WakeInv, ListsInv
<1>7. ASSUME Waiting # {} PROVE \E t \in Threads : OnItsWay(t)'
  <2>1. CASE \E u : Listed(Sync, u)
    <3>1. PICK u : Listed(Sync, u) /\ (u \in Waiting => u \in n.signalled)
      BY <1>2, <2>1, Zenon
    <3>2. u \in Workers /\ u \in Threads /\ Running(u)
      BY <3>1, ThreadSets, Zenon DEF WakeInv, ListsInv
    <3>3. CASE u \in Waiting
      BY <1>4, <3>1, <3>2, <3>3, Zenon DEF OnItsWay
    <3>4. CASE u \notin Waiting
      <4>1. pc[u] \in {"loop", "lock", "flush", "job", "signal"}
        BY <1>1, <3>2, <3>4, Zenon DEF PCs, Running, Waiting
      <4> QED
        BY <1>3, <3>2, <4>1, Zenon DEF OnItsWay
    <3> QED
      BY <3>3, <3>4, Zenon
  <2>2. CASE ~ \E u : Listed(Sync, u)
    BY <1>1, <1>4, <1>7, <2>2, Zenon DEF WakeInv, ListsInv, OnItsWay
  <2> QED
    BY <2>1, <2>2, Zenon
<1>8. NoStrandedJobs'
  BY <1>5, <1>7, Zenon DEF NoStrandedJobs
<1> QED
  BY <1>6, <1>8, Zenon DEF WakeInv

LEMMA StopWakes ==
  ASSUME TypeOK, WakeInv, Stop
  PROVE  WakeInv'
<1> DEFINE n == NotifyAll(Sync, Waiting)
<1>1. Sync \in Syncs /\ Waiting \in SUBSET Threads
  BY TypeParts, SyncFacts, Zenon
<1>2. Notified(Sync, n, Waiting) /\ \A u : ~Listed(n, u)
  BY <1>1, NotifyAllSync, Zenon
<1>3. SetSync(n) /\ m_stopped' /\ UNCHANGED pc
  BY Zenon DEF Stop, threadVars
<1> HIDE DEF n
<1>4. /\ \A u : ~Listed(Sync, u)'
      /\ \A u \in Waiting : u \in signalled'
  BY <1>2, <1>3, ListedNext, Zenon DEF WakeInv, ListsInv, SetSync, Notified, Sync
<1>5. Waiting' = Waiting
  BY <1>3, Zenon DEF Waiting
<1>6. ListsInv'
  BY <1>3, <1>4, <1>5, Zenon DEF WakeInv, ListsInv
<1>7. NoStrandedJobs'
  BY <1>1, <1>4, <1>5, Zenon DEF NoStrandedJobs, OnItsWay
<1> QED
  BY <1>6, <1>7, Zenon DEF WakeInv

\* A worker's steps.
LEMMA WorkerWakes ==
  ASSUME QueuesOK, Undisturbed, WakeInv, NEW t \in Threads,
         EnterDequeue(t) \/ Wake(t) \/ SpuriousWake(t) \/ TimeOut(t) \/ Flushed(t)
  PROVE  WakeInv'
<1>1. /\ SyncOK /\ m_healthStatus # "BackOff" /\ Able(t) /\ flushed[t] \in BOOLEAN
  BY TypeParts, Zenon DEF QueuesOK, DataOK, LocalsOK, Able, Undisturbed
<1>2. /\ Sync \in Syncs /\ Sync.signalled = signalled /\ signalled \subseteq Waiting
      /\ Returned(t) \in Syncs /\ Returned(t).signalled = signalled \ {t}
      /\ \A u : Listed(Returned(t), u) <=> Listed(Sync, u)
      /\ t \in signalled => pc[t] = "wait"
  BY <1>1, SyncFacts, Zenon DEF SyncOK, Waiting
<1>3. t \in Workers
  <2>1. pc[t] # "none"
    BY <1>2, Zenon DEF EnterDequeue, Wake, SpuriousWake, TimeOut, Flushed
  <2> QED
    BY <2>1, RunningWorker, Zenon DEF QueuesOK
<1>4. CASE EnterDequeue(t) \/ SpuriousWake(t) \/ Flushed(t)
  <2>1. PICK able \in BOOLEAN, isFlushed \in BOOLEAN : able /\ WorkerLoop(t, Sync, able, isFlushed)
    BY <1>1, <1>4, Zenon DEF EnterDequeue, SpuriousWake, Flushed
  <2>2. pc[t] \in {"lock", "wait", "flush"} /\ t \notin signalled
    BY <1>2, <1>4, Zenon DEF EnterDequeue, SpuriousWake, Flushed
  <2>3. Sync \in Syncs /\ Sync.signalled = signalled \ {t}
    BY <1>2, <2>2, Zenon
  <2>4. /\ \A u : Listed(Sync, u) => Listed(Sync, u)
        /\ \A u : u # t /\ Listed(Sync, u) => Listed(Sync, u)
    BY Zenon
  <2> QED
    BY <1>3, <2>1, <2>2, <2>3, <2>4, LoopWakes, Zenon
<1>5. CASE Wake(t)
  <2>1. WorkerLoop(t, Returned(t), Able(t), flushed[t]) /\ pc[t] \in {"lock", "wait", "flush"}
    BY <1>2, <1>5, Zenon DEF Wake
  <2>2. /\ Returned(t) \in Syncs /\ Returned(t).signalled = signalled \ {t}
        /\ \A u : Listed(Returned(t), u) => Listed(Sync, u)
        /\ \A u : u # t /\ Listed(Sync, u) => Listed(Returned(t), u)
    BY <1>2, Zenon
  <2> QED
    BY <1>1, <1>3, <2>1, <2>2, LoopWakes, Zenon
<1>6. CASE TimeOut(t)
  <2> DEFINE s == Unlink(Returned(t), t)
  <2>1. /\ s \in Syncs /\ s.signalled = signalled \ {t}
        /\ \A u : Listed(s, u) => Listed(Sync, u)
        /\ \A u : u # t /\ Listed(Sync, u) => Listed(s, u)
    BY <1>2, UnlinkSync, Zenon
  <2>2. pc[t] \in {"lock", "wait", "flush"}
    BY <1>6, Zenon DEF TimeOut
  <2>3. CASE WorkerLoop(t, s, Able(t), FALSE)
    <3> HIDE DEF s
    <3> QED
      BY <1>1, <1>3, <2>1, <2>2, <2>3, LoopWakes, Zenon
  <2>4. CASE SetSync(s) /\ pc' = [pc EXCEPT ![t] = "flush"] /\ UNCHANGED envVars
    <3> HIDE DEF s
    <3>1. UNCHANGED m_stopped /\ TypeOK
      BY <2>4, Zenon DEF envVars, QueuesOK
    <3> QED
      BY <1>3, <2>1, <2>4, <3>1, MoveWakes, Zenon
  <2> QED
    BY <1>6, <2>3, <2>4, Zenon DEF TimeOut
<1> QED
  BY <1>4, <1>5, <1>6, Zenon

LEMMA WakeNext == QueuesOK /\ Undisturbed /\ WakeInv /\ [Next]_vars => WakeInv'
<1> SUFFICES ASSUME QueuesOK, Undisturbed, WakeInv, [Next]_vars PROVE WakeInv'
  BY Zenon
<1>1. /\ TypeOK /\ SyncOK /\ m_healthStatus # "BackOff"
      /\ Sync \in Syncs /\ Sync.signalled = signalled /\ Waiting \in SUBSET Threads
  BY TypeParts, SyncFacts, Zenon DEF QueuesOK, DataOK, Undisturbed
<1>2. ASSUME NEW t \in Threads, StartThread(t) \/ ReadNow(t) \/ SignalEmpty(t) \/ DoJob(t)
      PROVE  WakeInv'
  <2>1. t \in Workers
    BY <1>1, <1>2, RunningWorker, JobQueueAssumption
      DEF StartThread, ReadNow, SignalEmpty, DoJob, Undisturbed, Workers, Threads, m_jobReaperId
  <2>2. /\ \E v \in {"loop", "lock", "signal", "flush"} : pc' = [pc EXCEPT ![t] = v]
        /\ UNCHANGED <<syncVars, m_stopped>> /\ pc[t] # "wait"
    BY <1>2, Zenon DEF StartThread, ReadNow, SignalEmpty, DoJob, FinishJob, envVars
  <2>3. SetSync(Sync) /\ t \notin signalled
    BY <1>1, <2>2, Zenon DEF SetSync, Sync, syncVars, SyncOK, Waiting
  <2>4. Sync.signalled = signalled \ {t}
    BY <1>1, <2>3, Zenon
  <2> QED
    BY <1>1, <2>1, <2>2, <2>3, <2>4, MoveWakes, Zenon
<1>3. ASSUME NEW t \in Threads,
             ReaperEnter(t) \/ ReaperWake(t) \/ ReaperSpuriousWake(t) \/ ReaperTimeOut(t) \/ DoJobThrows(t)
      PROVE  FALSE
  BY <1>1, <1>3, Zenon DEF ReaperEnter, ReaperWake, ReaperSpuriousWake, ReaperTimeOut, DoJobThrows,
       WakeInv, ListsInv, SyncOK, Waiting, Undisturbed
<1>4. ASSUME NEW t \in Threads, StartThread(t) \/ Step(t) \/ Unprompted(t) PROVE WakeInv'
  BY <1>2, <1>3, <1>4, WorkerWakes, Zenon DEF Step, Unprompted
<1>5. ASSUME NEW j \in Jobs, ReadTime(j) PROVE WakeInv'
  BY <1>1, <1>5, StayWakes, Zenon DEF ReadTime, threadVars, envVars
<1>6. CASE \/ WaitEmpty \/ WaitEmptyWake \/ WaitEmptySpuriousWake
           \/ \E level \in HealthLevels : SetHealth(level)
           \/ Tick \/ UNCHANGED vars
  BY <1>1, <1>6, StayWakes, Zenon DEF WaitEmpty, WaitEmptyWake, WaitEmptySpuriousWake,
     WaitEmptyLoop, SetHealth, Tick, vars, threadVars, envVars
<1>7. CASE ReleaseQueuedJobs
  <2> DEFINE k == IF ReleaseRate < m_jobCount THEN ReleaseRate ELSE m_jobCount
  <2>1. /\ ReleaseRate > 0 /\ SetSync(NotifyMany(Sync, Waiting, k))
        /\ UNCHANGED <<queueVars, pc, m_stopped>>
    BY <1>7, Zenon DEF ReleaseQueuedJobs, threadVars, envVars
  <2>2. k \in Nat
    <3>1. m_jobCount \in Nat /\ ReleaseRate \in Int
      BY <1>1, JobQueueAssumption, Zenon DEF TypeOK
    <3> QED
      BY <2>1, <3>1
  <2> HIDE DEF k
  <2>3. Notified(Sync, NotifyMany(Sync, Waiting, k), Waiting)
    BY <1>1, <2>2, NotifyManySync, Zenon
  <2> QED
    BY <1>1, <2>1, <2>3, NotifyWakes, Zenon
<1> QED
  BY <1>1, <1>4, <1>5, <1>6, <1>7, EnqueueWakes, StopWakes, Zenon DEF Next

\* No wake-up is lost: while there is a job that a worker may take, some
\* worker is on its way to the queues or none waits for a job.
THEOREM NoJobIsStranded ==
  ASSUME MaxJobQueuing = 0, ~MayThrow, "BackOff" \notin HealthLevels
  PROVE  Spec => []NoStrandedJobs
<1>1. Undisturbed
  BY Zenon DEF Undisturbed
<1>2. Init => WakeInv
  <2> SUFFICES ASSUME Init PROVE WakeInv
    BY Zenon
  <2>1. Waiting = {} /\ \A u : ~Listed(Sync, u)
    BY DEF Init, Waiting, Sync, Listed, Holds, Has
  <2> QED
    BY <2>1, ThreadSets, Zenon DEF Init, WakeInv, ListsInv, NoStrandedJobs
<1>3. QueuesOK /\ WakeInv /\ [Next]_vars => WakeInv'
  BY <1>1, WakeNext, Zenon
<1>4. WakeInv => NoStrandedJobs
  BY Zenon DEF WakeInv
<1> QED
  BY <1>2, <1>3, <1>4, QueuesAlways, PTL DEF Spec

=============================================================================
