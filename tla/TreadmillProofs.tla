--------------------------- MODULE TreadmillProofs ---------------------------
(***************************************************************************)
(* Theorems about Treadmill, for any threads, objects, clock and bounds:   *)
(* its safety properties, and that it implements DeferredWork.             *)
(***************************************************************************)
EXTENDS Treadmill, TLAPS

\* A thread gets its index before it waits for s_genLock.
HasIdx ==
  \A t \in Threads : pc[t] # "idle" => tl_thisThreadIdx[t] # kInvalidThreadIdx

TypeInv == TypeOK /\ HasIdx

USE TreadmillAssumption, SMTT(15), ZenonT(15)

-----------------------------------------------------------------------------
(* Sequences.                                                              *)

LEMMA SeqFacts ==
  ASSUME NEW S, NEW s \in Seq(S)
  PROVE  Len(s) \in Nat /\ \A i \in 1..Len(s) : s[i] \in S
OBVIOUS

LEMMA EmptyFacts == Len(<<>>) = 0 /\ \A S : <<>> \in Seq(S)
OBVIOUS

LEMMA AppendFacts ==
  ASSUME NEW S, NEW s \in Seq(S), NEW e \in S
  PROVE  /\ Append(s, e) \in Seq(S)
         /\ Len(Append(s, e)) = Len(s) + 1
         /\ Append(s, e)[Len(s) + 1] = e
         /\ \A i \in 1..Len(s) : Append(s, e)[i] = s[i]
OBVIOUS

LEMMA HeadTailFacts ==
  ASSUME NEW S, NEW s \in Seq(S), s # <<>>
  PROVE  /\ Len(s) \in Nat \ {0}
         /\ Head(s) \in S /\ Head(s) = s[1]
         /\ Tail(s) \in Seq(S)
         /\ Len(Tail(s)) = Len(s) - 1
         /\ \A i \in 1..(Len(s) - 1) : Tail(s)[i] = s[i + 1]
OBVIOUS

\* Work items move between sequences of work items.
LEMMA PrefixAndRest ==
  ASSUME NEW S, NEW s \in Seq(S), NEW n \in 0..Len(s)
  PROVE  /\ SubSeq(s, 1, n) \in Seq(S)
         /\ Len(SubSeq(s, 1, n)) = n
         /\ \A i \in 1..n : SubSeq(s, 1, n)[i] = s[i]
         /\ SubSeq(s, n + 1, Len(s)) \in Seq(S)
         /\ Len(SubSeq(s, n + 1, Len(s))) = Len(s) - n
         /\ \A i \in 1..(Len(s) - n) : SubSeq(s, n + 1, Len(s))[i] = s[n + i]
OBVIOUS

-----------------------------------------------------------------------------
\* correctTime hands out a count above every earlier one.
LEMMA CorrectTimeGrows ==
  ASSUME s_latestCount \in Nat, NEW time \in Nat
  PROVE  correctTime(time) \in Nat /\ correctTime(time) > s_latestCount
BY DEF correctTime

LEMMA ResizedType ==
  ASSUME TypeOK, NEW idx \in Nat
  PROVE  /\ DOMAIN Resized(idx) \in SUBSET Nat
         /\ idx \in DOMAIN Resized(idx)
         /\ \A i \in DOMAIN Resized(idx) : 0..i \subseteq DOMAIN Resized(idx)
         /\ DOMAIN s_inflightRequests \subseteq DOMAIN Resized(idx)
         /\ Resized(idx) \in [DOMAIN Resized(idx) -> RequestInfo]
         /\ \A i \in DOMAIN Resized(idx) :
              Resized(idx)[i] = IF i \in DOMAIN s_inflightRequests
                                THEN s_inflightRequests[i]
                                ELSE [startTime |-> kIdleGenCount, pthreadId |-> NoThread]
<1>1. CASE idx \in DOMAIN s_inflightRequests
  BY <1>1, Zenon DEF Resized, TypeOK
<1>2. CASE idx \notin DOMAIN s_inflightRequests
  <2>2. DOMAIN s_inflightRequests \subseteq 0..idx
    <3> SUFFICES ASSUME NEW i \in DOMAIN s_inflightRequests, i > idx PROVE FALSE
      BY DEF TypeOK
    <3> QED
      BY <1>2 DEF TypeOK
  <2>4. Resized(idx) \in [0..idx -> RequestInfo]
    BY <1>2, Zenon DEF Resized, TypeOK, RequestInfo, kIdleGenCount
  <2> QED
    BY <1>2, <2>2, <2>4 DEF Resized
<1> QED
  BY <1>1, <1>2, Zenon

LEMMA TypeInit == Init => TypeInv
<1> SUFFICES ASSUME Init PROVE TypeInv
  BY Zenon
<1> USE DEF Init
<1>1. DOMAIN s_inflightRequests = {}
  BY Zenon
<1>2. s_inflightRequests \in [DOMAIN s_inflightRequests -> RequestInfo]
  BY <1>1, Zenon
<1>3. s_tq \in Seq(WorkItem) /\ toFire \in [Threads -> Seq(WorkItem)]
  BY EmptyFacts, Zenon
<1>4. now \in Nat /\ tl_thisThreadIdx \in [Threads -> Nat \cup {kInvalidThreadIdx}]
  OBVIOUS
<1>5. /\ s_genLock \in Threads \cup {NoThread}
      /\ m_globalGCStatus \in [Threads -> GlobalGCStatus]
      /\ PendingGCFlag \in [Threads -> BOOLEAN]
      /\ pc \in [Threads -> PcValues]
      /\ enq \in [Threads -> [obj : Objects, time : Nat] \cup {NoEnqueue}]
  BY Zenon DEF GlobalGCStatus, PcValues
<1>6. HasIdx
  BY Zenon DEF HasIdx
<1> QED
  BY <1>1, <1>2, <1>3, <1>4, <1>5, <1>6, Zenon DEF TypeInv, TypeOK

LEMMA TypeStep == TypeInv /\ [Next]_vars => TypeInv'
<1> SUFFICES ASSUME TypeInv, [Next]_vars PROVE TypeInv'
  BY Zenon
<1> USE DEF vars, idxVars, startVars, genVars, gcVars,
            triggerVars, clientVars
<1>1. CASE Tick
  <2>1. now' \in Nat
    BY <1>1 DEF Tick
  <2>2. UNCHANGED <<idxVars, s_genLock, genVars, s_destroyed, gcVars, aborted, pc,
                    startVars, enq, toFire, clientVars>>
    BY <1>1, Zenon DEF TypeInv, TypeOK, HasIdx, Tick
  <2> QED
    BY <2>1, <2>2, Zenon DEF TypeInv, TypeOK, HasIdx
<1>2. CASE DestroyQueue
  BY <1>2, EmptyFacts, Zenon DEF TypeInv, TypeOK, HasIdx, DestroyQueue
<1>3. CASE TriggerGC
  <2>1. gcCalls \in Nat /\ gcCalls' = gcCalls + 1
    BY <1>3, Zenon DEF TypeInv, TypeOK, TriggerGC
  <2>2. /\ gcVisit' = Threads
        /\ UNCHANGED <<now, idxVars, s_genLock, genVars, s_destroyed, gcTarget,
                       m_globalGCStatus, PendingGCFlag, gcTries, aborted, pc,
                       startVars, enq, toFire, clientVars>>
    BY <1>3, Zenon DEF TriggerGC
  <2>3. gcCalls' \in Nat
    BY <2>1
  <2> QED
    BY <2>2, <2>3, Zenon DEF TypeInv, TypeOK, HasIdx
<1>4. ASSUME NEW t \in Threads, ThreadStep(t) PROVE TypeInv'
  <2>1. CASE StartRequest(t)
    <3>1. /\ g_nextThreadIdx' \in Nat
          /\ tl_thisThreadIdx' \in [Threads -> Nat \cup {kInvalidThreadIdx}]
          /\ tl_thisThreadIdx'[t] # kInvalidThreadIdx
          /\ \A u \in Threads \ {t} : tl_thisThreadIdx'[u] = tl_thisThreadIdx[u]
      <4>1. /\ g_nextThreadIdx \in Nat
            /\ tl_thisThreadIdx \in [Threads -> Nat \cup {kInvalidThreadIdx}]
        BY Zenon DEF TypeInv, TypeOK
      <4> QED
        BY <4>1, <2>1 DEF kInvalidThreadIdx, StartRequest
    <3>2. requests' \in Nat /\ startTime' \in [Threads -> Nat]
      <4>1. requests \in Nat /\ now \in Nat /\ startTime \in [Threads -> Nat]
        BY Zenon DEF TypeInv, TypeOK
      <4> QED
        BY <4>1, <2>1 DEF StartRequest
    <3>3. /\ pc' \in [Threads -> PcValues]
          /\ \A u \in Threads \ {t} : pc'[u] = pc[u]
      BY <2>1, Zenon DEF TypeInv, TypeOK, HasIdx, PcValues, StartRequest
    <3>6. PendingGCFlag' \in [Threads -> BOOLEAN]
      BY <2>1, Zenon DEF TypeInv, TypeOK, HasIdx, StartRequest
    <3>4. UNCHANGED <<now, s_genLock, genVars, s_destroyed, m_globalGCStatus,
                      triggerVars, gcTries, aborted, enq, toFire, clientVars>>
      BY <2>1, Zenon DEF StartRequest
    <3>5. HasIdx'
      BY <3>1, <3>3, Zenon DEF TypeInv, TypeOK, HasIdx
    <3> QED
      BY Zenon, <3>1, <3>2, <3>3, <3>4, <3>5, <3>6 DEF TypeInv, TypeOK
  <2>2. CASE StartRequestLocked(t)
    <3> DEFINE idx == tl_thisThreadIdx[t]
               gen == correctTime(startTime[t])
               reqs == [Resized(idx) EXCEPT ![idx] =
                          [startTime |-> gen, pthreadId |-> t]]
    <3>1. idx \in Nat
      BY <2>2, Zenon DEF TypeInv, TypeOK, HasIdx, StartRequestLocked, At, kInvalidThreadIdx
    <3>9. s_latestCount \in Nat /\ startTime[t] \in Nat
      BY Zenon DEF TypeInv, TypeOK
    <3>2. gen \in Nat
      BY <3>9, CorrectTimeGrows, Zenon
    <3>3. DOMAIN reqs \in SUBSET Nat /\ reqs \in [DOMAIN reqs -> RequestInfo]
      BY <3>1, <3>2, ResizedType, Zenon DEF TypeInv, TypeOK, HasIdx, RequestInfo
    <3>8. \A i \in DOMAIN reqs : 0..i \subseteq DOMAIN reqs
      BY <3>1, ResizedType, Zenon DEF TypeInv, TypeOK, HasIdx
    <3>4. /\ s_latestCount' \in Nat
          /\ DOMAIN s_inflightRequests' \in SUBSET Nat
          /\ s_inflightRequests' \in [DOMAIN s_inflightRequests' -> RequestInfo]
          /\ \A i \in DOMAIN s_inflightRequests' :
               0..i \subseteq DOMAIN s_inflightRequests'
          /\ s_oldestRequestInFlight' \in Nat
      BY <2>2, <3>2, <3>3, <3>8, Zenon DEF TypeInv, TypeOK, HasIdx, StartRequestLocked
    <3>5. /\ m_globalGCStatus' \in [Threads -> GlobalGCStatus]
          /\ pc' \in [Threads -> PcValues]
          /\ \A u \in Threads : pc'[u] # "idle" => pc[u] # "idle"
      BY <2>2, Zenon DEF TypeInv, TypeOK, StartRequestLocked, At, GlobalGCStatus, PcValues
    <3>6. aborted' \in {"no", "SIGABRT", "not_reached"}
      BY <2>2, Zenon DEF TypeInv, TypeOK, StartRequestLocked, checkOldest,
         getOldestRequestThreadId
    <3>7. UNCHANGED <<now, idxVars, s_genLock, s_tq, s_destroyed, PendingGCFlag,
                      triggerVars, gcTries, requests, enq, toFire, clientVars>>
      BY <2>2, Zenon DEF TypeInv, TypeOK, HasIdx, StartRequestLocked
    <3>10. startTime' \in [Threads -> Nat]
      <4>1. startTime' = [startTime EXCEPT ![t] = 0] /\ startTime \in [Threads -> Nat]
        BY <2>2, Zenon DEF TypeInv, TypeOK, StartRequestLocked
      <4> QED
        BY <4>1
    <3> QED
      BY <3>4, <3>5, <3>6, <3>7, <3>10, Zenon DEF TypeInv, TypeOK, HasIdx
  <2>3. CASE FinishRequest(t)
    <3>1. PICK idx : /\ idx = tl_thisThreadIdx[t]
                     /\ s_inflightRequests' =
                          [s_inflightRequests EXCEPT ![idx].startTime = kIdleGenCount]
      BY <2>3, Zenon DEF TypeInv, TypeOK, HasIdx, FinishRequest
    <3>2. /\ DOMAIN s_inflightRequests' = DOMAIN s_inflightRequests
          /\ s_inflightRequests' \in [DOMAIN s_inflightRequests -> RequestInfo]
      <4>1. DOMAIN s_inflightRequests' = DOMAIN s_inflightRequests
        BY <3>1, Zenon DEF TypeInv, TypeOK, HasIdx
      <4>2. ASSUME NEW i \in DOMAIN s_inflightRequests
            PROVE  s_inflightRequests'[i] \in RequestInfo
        <5>1. s_inflightRequests[i] \in RequestInfo
          BY Zenon DEF TypeInv, TypeOK, HasIdx
        <5>2. s_inflightRequests'[i] =
                IF i = idx THEN [s_inflightRequests[i] EXCEPT !.startTime = kIdleGenCount]
                ELSE s_inflightRequests[i]
          BY <3>1, Zenon DEF TypeInv, TypeOK, HasIdx
        <5> QED
          BY <5>1, <5>2 DEF RequestInfo, kIdleGenCount
      <4> QED
        BY <3>1, <4>1, <4>2, Zenon DEF TypeInv, TypeOK, HasIdx
    <3>3. /\ s_oldestRequestInFlight' \in Nat
          /\ toFire' \in [Threads -> Seq(WorkItem)]
          /\ s_tq' \in Seq(WorkItem)
      <4>1. CASE CollectWork(t, s_inflightRequests')
        <5>1. StartTimes(s_inflightRequests') \subseteq Nat
          BY <3>2, Zenon DEF RequestInfo, StartTimes
        <5>2. PICK limit \in StartTimes(s_inflightRequests') \cup {s_latestCount + 1},
                   n \in 0..Len(s_tq) :
                /\ s_oldestRequestInFlight' = IF limit = s_latestCount + 1 THEN 0 ELSE limit
                /\ toFire' = [toFire EXCEPT ![t] = SubSeq(s_tq, 1, n)]
                /\ s_tq' = SubSeq(s_tq, n + 1, Len(s_tq))
          BY <4>1, Zenon DEF CollectWork
        <5>3. SubSeq(s_tq, 1, n) \in Seq(WorkItem) /\ s_tq' \in Seq(WorkItem)
          BY <5>2, PrefixAndRest, Zenon DEF TypeInv, TypeOK, HasIdx
        <5> QED
          BY <5>1, <5>2, <5>3, Zenon DEF TypeInv, TypeOK, HasIdx
      <4>2. CASE UNCHANGED <<s_oldestRequestInFlight, toFire, s_tq>>
        BY <4>2, Zenon DEF TypeInv, TypeOK, HasIdx
      <4> QED
        BY <2>3, <4>1, <4>2, Zenon DEF FinishRequest
    <3>4. /\ held' \in [Threads -> SUBSET Objects]
          /\ s_genLock' \in Threads \cup {NoThread}
          /\ pc' \in [Threads -> PcValues]
          /\ \A u \in Threads : pc'[u] # "idle" => pc[u] # "idle"
      BY <2>3, Zenon DEF TypeInv, TypeOK, HasIdx, FinishRequest, At, PcValues
    <3>5. gcTries' \in [Threads -> Nat]
      BY <2>3, Zenon DEF TypeInv, TypeOK, HasIdx, FinishRequest
    <3>6. UNCHANGED <<now, idxVars, s_latestCount, s_destroyed, m_globalGCStatus,
                      PendingGCFlag, triggerVars, aborted, startVars, enq,
                      reachable, freed>>
      BY <2>3, Zenon DEF FinishRequest
    <3> QED
      BY <3>2, <3>3, <3>4, <3>5, <3>6, Zenon DEF TypeInv, TypeOK, HasIdx
  <2>4. CASE CasPendingToIdle(t)
    <3>1. /\ m_globalGCStatus' \in [Threads -> GlobalGCStatus]
          /\ s_genLock' \in Threads \cup {NoThread}
          /\ pc' \in [Threads -> PcValues]
          /\ \A u \in Threads : pc'[u] # "idle" => pc[u] # "idle"
      BY <2>4, Zenon DEF TypeInv, TypeOK, CasPendingToIdle, ChangeToIdle, At, PcValues,
                  GlobalGCStatus
    <3>2. gcTries' \in [Threads -> Nat]
      <4>1. gcTries \in [Threads -> Nat]
        BY Zenon DEF TypeInv, TypeOK
      <4>2. gcTries' \in {[gcTries EXCEPT ![t] = 0], [gcTries EXCEPT ![t] = gcTries[t]]}
        BY <2>4, Zenon DEF CasPendingToIdle, ChangeToIdle
      <4> QED
        BY <4>1, <4>2
    <3>3. UNCHANGED <<now, idxVars, genVars, s_destroyed, PendingGCFlag,
                      triggerVars, aborted, startVars, enq, toFire, clientVars>>
      BY <2>4, Zenon DEF TypeInv, TypeOK, HasIdx, CasPendingToIdle, ChangeToIdle
    <3> QED
      BY <3>1, <3>2, <3>3, Zenon DEF TypeInv, TypeOK, HasIdx
  <2>5. CASE CasNoPendingToIdle(t)
    <3>1. /\ m_globalGCStatus' \in [Threads -> GlobalGCStatus]
          /\ s_genLock' \in Threads \cup {NoThread}
          /\ pc' \in [Threads -> PcValues]
          /\ \A u \in Threads : pc'[u] # "idle" => pc[u] # "idle"
      BY <2>5, Zenon DEF TypeInv, TypeOK, CasNoPendingToIdle, ChangeToIdle, At, PcValues,
                  GlobalGCStatus
    <3>2. gcTries' \in [Threads -> Nat]
      <4>0. gcTries \in [Threads -> Nat]
        BY Zenon DEF TypeInv, TypeOK, HasIdx
      <4>2. gcTries' \in {[gcTries EXCEPT ![t] = 0],
                          [gcTries EXCEPT ![t] = gcTries[t] + 1]}
        BY <2>5, Zenon DEF TypeInv, TypeOK, HasIdx, CasNoPendingToIdle, ChangeToIdle
      <4> QED
        BY <4>0, <4>2
    <3>3. UNCHANGED <<now, idxVars, genVars, s_destroyed, PendingGCFlag,
                      triggerVars, aborted, startVars, enq, toFire, clientVars>>
      BY <2>5, Zenon DEF TypeInv, TypeOK, HasIdx, CasNoPendingToIdle, ChangeToIdle
    <3> QED
      BY <3>1, <3>2, <3>3, Zenon DEF TypeInv, TypeOK, HasIdx
  <2>6. CASE RunItem(t)
    <3>1. /\ Head(toFire[t]) \in WorkItem
          /\ Tail(toFire[t]) \in Seq(WorkItem)
      BY <2>6, HeadTailFacts, Zenon DEF TypeInv, TypeOK, HasIdx, RunItem
    <3> QED
      BY <2>6, <3>1, Zenon DEF TypeInv, TypeOK, HasIdx, RunItem, WorkItem
  <2>7. CASE FinishReturn(t)
    BY <2>7, Zenon DEF TypeInv, TypeOK, HasIdx, FinishReturn, At, PcValues
  <2>8. CASE EnqueueLocked(t)
    <3> DEFINE gen == correctTime(enq[t].time)
               item == [obj |-> enq[t].obj, m_gen |-> gen]
    <3>1. enq[t].obj \in Objects /\ enq[t].time \in Nat
      BY <2>8, Zenon DEF TypeInv, TypeOK, HasIdx, EnqueueLocked, Free
    <3>2. gen \in Nat
      BY <3>1, CorrectTimeGrows, Zenon DEF TypeInv, TypeOK, HasIdx
    <3>4. Append(s_tq, item) \in Seq(WorkItem)
      BY <3>1, <3>2, AppendFacts, Zenon DEF TypeInv, TypeOK, HasIdx, WorkItem
    <3>5. /\ s_latestCount' = gen
          /\ s_tq' = Append(s_tq, item)
          /\ enq' = [enq EXCEPT ![t] = NoEnqueue]
          /\ UNCHANGED <<now, idxVars, s_genLock, s_inflightRequests,
                         s_oldestRequestInFlight, s_destroyed, gcVars, aborted,
                         pc, startVars, toFire, clientVars>>
      BY <2>8, Zenon DEF TypeInv, TypeOK, HasIdx, EnqueueLocked
    <3> QED
      BY <3>2, <3>4, <3>5, Zenon DEF TypeInv, TypeOK, HasIdx
  <2>9. ASSUME NEW o \in Objects, Acquire(t, o) PROVE TypeInv'
    BY <2>9, Zenon DEF TypeInv, TypeOK, HasIdx, Acquire
  <2>10. ASSUME NEW o \in Objects, Enqueue(t, o) PROVE TypeInv'
    BY <2>10, Zenon DEF TypeInv, TypeOK, HasIdx, Enqueue
  <2>11. CASE SetPendingGCStatus(t)
    BY <2>11, Zenon DEF TypeInv, TypeOK, HasIdx, SetPendingGCStatus, GlobalGCStatus
  <2>12. CASE SetPendingGCFlag(t)
    BY <2>12, Zenon DEF TypeInv, TypeOK, HasIdx, SetPendingGCFlag
  <2>13. CASE HandlePendingGC(t)
    BY <2>13, Zenon DEF TypeInv, TypeOK, HasIdx, HandlePendingGC
  <2> QED
    BY <1>4, <2>1, <2>2, <2>3, <2>4, <2>5, <2>6, <2>7, <2>8, <2>9, <2>10, <2>11, <2>12,
       <2>13, Zenon DEF ThreadStep
<1>5. CASE UNCHANGED vars
  BY <1>5, Zenon DEF TypeInv, TypeOK, HasIdx
<1> QED
  BY <1>1, <1>2, <1>3, <1>4, <1>5, Zenon DEF Next

\* Every reachable state of the treadmill is well typed; in particular a
\* thread's slot exists by the time startRequest stores into it.
THEOREM TypeCorrect == Spec => []TypeOK
<1>1. TypeInv => TypeOK
  BY Zenon DEF TypeInv
<1> QED
  BY <1>1, TypeInit, TypeStep, PTL DEF Spec

-----------------------------------------------------------------------------
(* Slots of s_inflightRequests: each thread has its own.                   *)

\* The start time of each thread's request, kIdleGenCount outside requests.
Gens == [t \in Threads |-> GenOf(t)]

SlotInv ==
  /\ \A t \in Threads : tl_thisThreadIdx[t] < g_nextThreadIdx
  /\ \A t, u \in Threads :
       tl_thisThreadIdx[t] = tl_thisThreadIdx[u] /\ tl_thisThreadIdx[t] # kInvalidThreadIdx
         => t = u
  /\ \A i \in DOMAIN s_inflightRequests :
       s_inflightRequests[i].startTime # kIdleGenCount
         => \E t \in Threads : tl_thisThreadIdx[t] = i
  /\ \A t \in Threads : pc[t] = "running" <=> Gens[t] # kIdleGenCount

LEMMA GensType ==
  ASSUME TypeOK
  PROVE  Gens \in [Threads -> Nat] /\ InFlight = {t \in Threads : Gens[t] # kIdleGenCount}
BY Zenon DEF TypeOK, Gens, GenOf, InFlight, RequestInfo, kIdleGenCount

\* A fresh index has no slot in use yet.
LEMMA StartRequestSlots ==
  ASSUME TypeInv, SlotInv, NEW t \in Threads, StartRequest(t)
  PROVE  Gens' = Gens /\ SlotInv'
<1> USE DEF kInvalidThreadIdx, kIdleGenCount
<1>1. /\ g_nextThreadIdx \in Nat
      /\ tl_thisThreadIdx \in [Threads -> Nat \cup {kInvalidThreadIdx}]
      /\ DOMAIN s_inflightRequests \subseteq Nat
      /\ pc \in [Threads -> PcValues]
  BY Zenon DEF TypeInv, TypeOK
<1>2. /\ s_inflightRequests' = s_inflightRequests
      /\ pc[t] = "idle" /\ pc' = [pc EXCEPT ![t] = "starting"]
      /\ IF tl_thisThreadIdx[t] = kInvalidThreadIdx
         THEN /\ tl_thisThreadIdx' = [tl_thisThreadIdx EXCEPT ![t] = g_nextThreadIdx]
              /\ g_nextThreadIdx' = g_nextThreadIdx + 1
         ELSE UNCHANGED <<g_nextThreadIdx, tl_thisThreadIdx>>
  BY Zenon DEF StartRequest, At, genVars, idxVars
<1>3. CASE tl_thisThreadIdx[t] # kInvalidThreadIdx
  BY <1>2, <1>3, <1>1 DEF Gens, GenOf, SlotInv
<1>4. CASE tl_thisThreadIdx[t] = kInvalidThreadIdx
  BY <1>1, <1>2, <1>4 DEF Gens, GenOf, SlotInv
<1> QED
  BY <1>3, <1>4, Zenon

LEMMA StartRequestLockedSlots ==
  ASSUME TypeInv, SlotInv, NEW t \in Threads, StartRequestLocked(t)
  PROVE  Gens' = [Gens EXCEPT ![t] = correctTime(startTime[t])] /\ SlotInv'
<1> DEFINE idx == tl_thisThreadIdx[t]
           gen == correctTime(startTime[t])
<1> USE DEF kIdleGenCount
<1>1. /\ tl_thisThreadIdx \in [Threads -> Nat \cup {kInvalidThreadIdx}]
      /\ pc \in [Threads -> PcValues]
      /\ idx \in Nat
  BY Zenon DEF TypeInv, TypeOK, HasIdx, StartRequestLocked, At, kInvalidThreadIdx
<1>2. gen \in Nat /\ gen # 0
  <2>1. s_latestCount \in Nat /\ startTime[t] \in Nat
    BY Zenon DEF TypeInv, TypeOK
  <2> QED
    BY <2>1, CorrectTimeGrows
<1>3. /\ s_inflightRequests' = [Resized(idx) EXCEPT ![idx] =
                                  [startTime |-> gen, pthreadId |-> t]]
      /\ pc' = [pc EXCEPT ![t] = "running"]
      /\ UNCHANGED <<g_nextThreadIdx, tl_thisThreadIdx>>
  BY Zenon DEF StartRequestLocked, idxVars
<1>4. /\ DOMAIN s_inflightRequests' = DOMAIN Resized(idx)
      /\ idx \in DOMAIN Resized(idx)
      /\ s_inflightRequests'[idx].startTime = gen
      /\ \A i \in DOMAIN Resized(idx) \ {idx} :
           s_inflightRequests'[i].startTime =
             IF i \in DOMAIN s_inflightRequests
             THEN s_inflightRequests[i].startTime ELSE kIdleGenCount
      /\ DOMAIN s_inflightRequests \subseteq DOMAIN Resized(idx)
  BY <1>1, <1>3, ResizedType DEF TypeInv
<1>5. Gens'[t] = gen
  BY <1>3, <1>4, Zenon DEF Gens, GenOf
<1>6. ASSUME NEW u \in Threads \ {t} PROVE Gens'[u] = Gens[u]
  BY <1>1, <1>3, <1>4 DEF SlotInv, kInvalidThreadIdx, Gens, GenOf
<1>7. Gens' = [Gens EXCEPT ![t] = gen]
  BY <1>5, <1>6, Zenon DEF Gens
<1>8. \A i \in DOMAIN s_inflightRequests' :
        s_inflightRequests'[i].startTime # kIdleGenCount
          => \E u \in Threads : tl_thisThreadIdx'[u] = i
  BY <1>3, <1>4, Zenon DEF SlotInv
<1>9. \A u \in Threads : pc'[u] = "running" <=> Gens'[u] # kIdleGenCount
  BY <1>1, <1>2, <1>3, <1>5, <1>6, Zenon DEF SlotInv
<1> QED
  BY <1>3, <1>7, <1>8, <1>9, Zenon DEF SlotInv

LEMMA FinishRequestSlots ==
  ASSUME TypeInv, SlotInv, NEW t \in Threads, FinishRequest(t)
  PROVE  /\ Gens' = [Gens EXCEPT ![t] = kIdleGenCount]
         /\ Gens[t] = s_inflightRequests[tl_thisThreadIdx[t]].startTime
         /\ StartTimes(s_inflightRequests') =
              {Gens'[u] : u \in Threads} \ {kIdleGenCount}
         /\ SlotInv'
<1> DEFINE idx == tl_thisThreadIdx[t]
<1> USE DEF kIdleGenCount
<1>1. /\ tl_thisThreadIdx \in [Threads -> Nat \cup {kInvalidThreadIdx}]
      /\ pc \in [Threads -> PcValues]
      /\ pc[t] = "running"
      /\ \A i \in DOMAIN s_inflightRequests : s_inflightRequests[i] \in RequestInfo
      /\ DOMAIN s_inflightRequests \subseteq Nat
  BY Zenon DEF TypeInv, TypeOK, FinishRequest, At
<1>2. /\ s_inflightRequests' =
           [s_inflightRequests EXCEPT ![idx].startTime = kIdleGenCount]
      /\ pc' = [pc EXCEPT ![t] = "casPending"]
      /\ UNCHANGED <<g_nextThreadIdx, tl_thisThreadIdx>>
  BY Zenon DEF FinishRequest, idxVars
<1>3. idx \in DOMAIN s_inflightRequests /\ Gens[t] = s_inflightRequests[idx].startTime
  BY <1>1, Zenon DEF SlotInv, Gens, GenOf
<1>4. /\ DOMAIN s_inflightRequests' = DOMAIN s_inflightRequests
      /\ \A i \in DOMAIN s_inflightRequests :
           s_inflightRequests'[i].startTime =
             IF i = idx THEN kIdleGenCount ELSE s_inflightRequests[i].startTime
  BY <1>2, <1>1, Zenon DEF RequestInfo
<1>5. Gens'[t] = kIdleGenCount
  BY <1>2, <1>4, Zenon DEF Gens, GenOf
<1>6. ASSUME NEW u \in Threads \ {t} PROVE Gens'[u] = Gens[u]
  BY <1>1, <1>3, <1>2, <1>4 DEF SlotInv, kInvalidThreadIdx, Gens, GenOf
<1>7. Gens' = [Gens EXCEPT ![t] = kIdleGenCount]
  BY <1>5, <1>6, Zenon DEF Gens
<1>8. \A i \in DOMAIN s_inflightRequests' :
        s_inflightRequests'[i].startTime # kIdleGenCount
          => \E u \in Threads : tl_thisThreadIdx'[u] = i
  BY <1>2, <1>4, Zenon DEF SlotInv
<1>9. \A u \in Threads : pc'[u] = "running" <=> Gens'[u] # kIdleGenCount
  BY <1>1, <1>2, <1>5, <1>6, Zenon DEF SlotInv
<1>10. SlotInv'
  BY <1>2, <1>8, <1>9, Zenon DEF SlotInv
<1>11. StartTimes(s_inflightRequests') = {Gens'[u] : u \in Threads} \ {kIdleGenCount}
  BY <1>8 DEF Gens, GenOf, StartTimes
<1> QED
  BY <1>3, <1>7, <1>10, <1>11, Zenon

-----------------------------------------------------------------------------
(* The inductive invariant.                                                *)

\* Counts are handed out once, in increasing order.
CountInv ==
  /\ \A t \in Threads : Gens[t] <= s_latestCount
  /\ \A i \in 1..Len(s_tq) : s_tq[i].m_gen <= s_latestCount
  /\ \A i, j \in 1..Len(s_tq) : i < j => s_tq[i].m_gen < s_tq[j].m_gen
  /\ \A i \in 1..Len(s_tq), t \in Threads :
       Gens[t] # kIdleGenCount => s_tq[i].m_gen # Gens[t]
  /\ \A t, u \in Threads :
       Gens[t] # kIdleGenCount /\ Gens[t] = Gens[u] => t = u

OldestInv ==
  /\ (\A t \in Threads : Gens[t] = kIdleGenCount) => s_oldestRequestInFlight = 0
  /\ \A t \in Threads : Gens[t] # kIdleGenCount => s_oldestRequestInFlight <= Gens[t]
  /\ (\E t \in Threads : Gens[t] # kIdleGenCount) =>
       \E t \in Threads : Gens[t] # kIdleGenCount /\ Gens[t] = s_oldestRequestInFlight

\* An object a request holds is not on its way to be freed before the request
\* finishes; an object that can still be found is not on its way at all.
HeldInv ==
  \A t \in Threads : \A o \in held[t] :
    /\ Gens[t] # kIdleGenCount
    /\ o \notin freed
    /\ ~Due(o)
    /\ \A i \in 1..Len(s_tq) : s_tq[i].obj = o => Gens[t] < s_tq[i].m_gen

ReachableInv ==
  \A o \in reachable : o \notin freed /\ ~Due(o) /\ ~Queued(o) /\ ~BeingEnqueued(o)

SafetyInv == TypeInv /\ SlotInv /\ CountInv /\ OldestInv /\ HeldInv /\ ReachableInv

LEMMA SafetyInit == Init => SafetyInv
<1> SUFFICES ASSUME Init PROVE SafetyInv
  BY Zenon
<1> USE DEF kIdleGenCount, kInvalidThreadIdx
<1>1. TypeInv
  BY TypeInit, Zenon
<1>2. /\ tl_thisThreadIdx = [t \in Threads |-> -1]
      /\ g_nextThreadIdx = 0 /\ s_latestCount = 0 /\ s_oldestRequestInFlight = 0
      /\ DOMAIN s_inflightRequests = {}
      /\ pc = [t \in Threads |-> "idle"]
      /\ held = [t \in Threads |-> {}]
      /\ enq = [t \in Threads |-> NoEnqueue]
      /\ toFire = [t \in Threads |-> <<>>] /\ s_tq = <<>>
      /\ reachable = Objects /\ freed = {}
  BY Zenon DEF Init
<1>3. Gens = [t \in Threads |-> 0]
  BY <1>2, Zenon DEF Gens, GenOf
<1>4. SlotInv
  BY <1>2, <1>3 DEF SlotInv
<1>5. Len(s_tq) = 0 /\ \A t \in Threads : Len(toFire[t]) = 0
  BY <1>2, EmptyFacts, Zenon
<1>6. CountInv
  BY <1>2, <1>3, <1>5 DEF CountInv
<1>7. OldestInv /\ HeldInv
  BY <1>2, <1>3, Zenon DEF OldestInv, HeldInv
<1>8. ReachableInv
  BY <1>2, <1>5 DEF ReachableInv, Due, Queued, BeingEnqueued, NoEnqueue
<1> QED
  BY <1>1, <1>4, <1>6, <1>7, <1>8, Zenon DEF SafetyInv

\* A step that leaves the slots and the list of requests alone keeps what is
\* said of them; when it leaves the queue alone too, it keeps the order.
LEMMA CountsKept ==
  ASSUME SafetyInv,
         UNCHANGED <<g_nextThreadIdx, tl_thisThreadIdx, s_inflightRequests,
                     s_oldestRequestInFlight>>
  PROVE  /\ Gens' = Gens
         /\ OldestInv'
         /\ UNCHANGED pc => SlotInv'
         /\ UNCHANGED <<s_latestCount, s_tq>> => CountInv'
<1>1. Gens' = Gens
  BY Zenon DEF Gens, GenOf
<1>2. OldestInv'
  BY <1>1, Zenon DEF SafetyInv, OldestInv
<1>3. ASSUME UNCHANGED pc PROVE SlotInv'
  BY <1>1, <1>3, Zenon DEF SafetyInv, SlotInv
<1>4. ASSUME UNCHANGED <<s_latestCount, s_tq>> PROVE CountInv'
  BY <1>1, <1>4, Zenon DEF SafetyInv, CountInv
<1> QED
  BY <1>1, <1>2, <1>3, <1>4, Zenon

\* What a step that touches no count and no object preserves.
LEMMA QuietStep ==
  ASSUME SafetyInv, TypeInv',
         UNCHANGED <<g_nextThreadIdx, tl_thisThreadIdx, s_inflightRequests,
                     s_latestCount, s_oldestRequestInFlight, s_tq, toFire, enq,
                     reachable, held, freed>>,
         \A t \in Threads : pc'[t] = "running" <=> pc[t] = "running"
  PROVE  SafetyInv'
<1>1. Gens' = Gens
  BY Zenon DEF Gens, GenOf
<1>2. SlotInv'
  BY <1>1, Zenon DEF SafetyInv, SlotInv
<1>3. CountInv' /\ OldestInv'
  BY CountsKept, Zenon
<1>4. HeldInv' /\ ReachableInv'
  BY <1>1 DEF SafetyInv, HeldInv, ReachableInv, Due, Queued, BeingEnqueued
<1> QED
  BY <1>2, <1>3, <1>4, Zenon DEF SafetyInv

LEMMA QueueType ==
  ASSUME TypeInv
  PROVE  \A i \in 1..Len(s_tq) : s_tq[i] \in WorkItem /\ s_tq[i].m_gen \in Nat
<1>1. s_tq \in Seq(WorkItem)
  BY Zenon DEF TypeInv, TypeOK
<1>2. \A i \in 1..Len(s_tq) : s_tq[i] \in WorkItem
  BY <1>1, SeqFacts, Zenon
<1> QED
  BY <1>2, Zenon DEF WorkItem

LEMMA StartRequestSafe ==
  ASSUME SafetyInv, TypeInv', NEW t \in Threads, StartRequest(t)
  PROVE  SafetyInv'
<1>1. Gens' = Gens /\ SlotInv'
  BY StartRequestSlots, Zenon DEF SafetyInv
<1>2. UNCHANGED <<s_latestCount, s_oldestRequestInFlight, s_tq, toFire, enq,
                  reachable, held, freed>>
  BY Zenon DEF StartRequest, genVars, clientVars
<1>3. CountInv' /\ OldestInv'
  BY <1>1, <1>2, Zenon DEF SafetyInv, CountInv, OldestInv
<1>4. HeldInv' /\ ReachableInv'
  BY <1>1, <1>2 DEF SafetyInv, HeldInv, ReachableInv, Due, Queued, BeingEnqueued
<1> QED
  BY <1>1, <1>3, <1>4, Zenon DEF SafetyInv

\* The new request's count is above all counts: older work need not wait.
LEMMA StartRequestLockedSafe ==
  ASSUME SafetyInv, TypeInv', NEW t \in Threads, StartRequestLocked(t)
  PROVE  SafetyInv'
<1> DEFINE gen == correctTime(startTime[t])
<1> USE DEF kIdleGenCount
<1>1. Gens' = [Gens EXCEPT ![t] = gen] /\ SlotInv'
  BY StartRequestLockedSlots, Zenon DEF SafetyInv
<1>2. /\ s_latestCount \in Nat /\ startTime[t] \in Nat
      /\ s_oldestRequestInFlight \in Nat
      /\ s_tq \in Seq(WorkItem)
      /\ pc[t] = "starting"
  BY Zenon DEF SafetyInv, TypeInv, TypeOK, StartRequestLocked, At
<1>3. gen \in Nat /\ gen > s_latestCount
  BY <1>2, CorrectTimeGrows, Zenon
<1>4. Gens \in [Threads -> Nat] /\ Gens[t] = 0
  BY <1>2, GensType, Zenon DEF SafetyInv, TypeInv, SlotInv
<1>5. /\ s_latestCount' = gen
      /\ s_oldestRequestInFlight' =
           IF s_oldestRequestInFlight = 0 THEN gen ELSE s_oldestRequestInFlight
      /\ UNCHANGED <<s_tq, toFire, enq, reachable, held, freed>>
  BY Zenon DEF StartRequestLocked, clientVars
<1>6. \A i \in 1..Len(s_tq) : s_tq[i].m_gen \in Nat
  BY QueueType, Zenon DEF SafetyInv
<1> HIDE DEF gen
<1>7. CountInv'
  BY <1>1, <1>2, <1>3, <1>4, <1>5, <1>6 DEF SafetyInv, CountInv
<1>8. OldestInv'
  <2>1. OldestInv /\ CountInv
    BY Zenon DEF SafetyInv
  <2>2. CASE s_oldestRequestInFlight = 0
    BY <1>4, <2>1, <2>2, <1>1, <1>3, <1>5 DEF OldestInv
  <2>3. CASE s_oldestRequestInFlight # 0
    BY <1>4, <2>1, <2>3, <1>2, <1>3, <1>1, <1>5 DEF OldestInv, CountInv
  <2> QED
    BY <2>2, <2>3, Zenon
<1>9. HeldInv'
  <2>1. held[t] = {}
    BY <1>4, Zenon DEF SafetyInv, HeldInv
  <2> QED
    BY <1>1, <1>4, <1>5, <2>1 DEF SafetyInv, HeldInv, Due
<1>10. ReachableInv'
  BY <1>5, Zenon DEF SafetyInv, ReachableInv, Due, Queued, BeingEnqueued
<1> QED
  BY <1>1, <1>7, <1>8, <1>9, <1>10, Zenon DEF SafetyInv

\* The items that become due have counts below every request left in flight,
\* hence none of these requests can hold their objects.
LEMMA FinishRequestSafe ==
  ASSUME SafetyInv, TypeInv', NEW t \in Threads, FinishRequest(t)
  PROVE  SafetyInv'
<1> USE DEF kIdleGenCount
<1>1. /\ Gens' = [Gens EXCEPT ![t] = 0]
      /\ Gens[t] = s_inflightRequests[tl_thisThreadIdx[t]].startTime
      /\ StartTimes(s_inflightRequests') = {Gens'[u] : u \in Threads} \ {0}
      /\ SlotInv'
  BY FinishRequestSlots, Zenon DEF SafetyInv
<1>2. /\ Gens \in [Threads -> Nat] /\ Gens[t] # 0
      /\ s_latestCount \in Nat /\ s_oldestRequestInFlight \in Nat
      /\ s_tq \in Seq(WorkItem) /\ held \in [Threads -> SUBSET Objects]
      /\ toFire \in [Threads -> Seq(WorkItem)]
  BY GensType, Zenon DEF SafetyInv, TypeInv, TypeOK, SlotInv, FinishRequest, At
<1>3. /\ UNCHANGED <<s_latestCount, enq, reachable, freed>>
      /\ held' = [held EXCEPT ![t] = {}]
  BY Zenon DEF FinishRequest
<1>4. \A i \in 1..Len(s_tq) : s_tq[i].m_gen \in Nat
  BY QueueType, Zenon DEF SafetyInv
<1>5. CountInv /\ OldestInv /\ HeldInv /\ ReachableInv
  BY Zenon DEF SafetyInv
<1>8. \A u \in Threads : Gens[u] \in Nat /\ Gens'[u] = IF u = t THEN 0 ELSE Gens[u]
  BY <1>1, <1>2, Zenon
<1>6. CASE s_oldestRequestInFlight # Gens[t]
  <2>1. UNCHANGED <<s_oldestRequestInFlight, toFire, s_tq>>
    BY <1>1, <1>6, Zenon DEF FinishRequest
  <2>2. CountInv'
    <3>1. \A u \in Threads : Gens'[u] <= s_latestCount'
      <4>1. \A u \in Threads : Gens[u] <= s_latestCount
        BY <1>5, Zenon DEF CountInv
      <4>2. s_latestCount \in Nat /\ s_latestCount' = s_latestCount
        BY <1>2, <1>3, Zenon
      <4> QED
        BY <1>8, <4>1, <4>2
    <3>2. /\ \A i \in 1..Len(s_tq') : s_tq'[i].m_gen <= s_latestCount'
          /\ \A i, j \in 1..Len(s_tq') : i < j => s_tq'[i].m_gen < s_tq'[j].m_gen
      BY <1>3, <1>5, <2>1, Zenon DEF CountInv
    <3>3. \A i \in 1..Len(s_tq'), u \in Threads :
            Gens'[u] # 0 => s_tq'[i].m_gen # Gens'[u]
      BY <1>8, <1>5, <2>1 DEF CountInv
    <3>4. \A u, v \in Threads : Gens'[u] # 0 /\ Gens'[u] = Gens'[v] => u = v
      BY <1>5, <1>8, Zenon DEF CountInv
    <3> QED
      BY <3>1, <3>2, <3>3, <3>4, Zenon DEF CountInv
  <2>3. OldestInv'
    <3>1. PICK u \in Threads : Gens[u] # 0 /\ Gens[u] = s_oldestRequestInFlight
      BY <1>2, <1>5, Zenon DEF OldestInv
    <3>2. Gens'[u] = Gens[u] /\ u # t
      BY <1>1, <1>2, <1>6, <3>1, Zenon
    <3> QED
      BY <1>1, <1>5, <2>1, <3>1, <3>2 DEF OldestInv
  <2>6. \A o : (Due(o)' <=> Due(o)) /\ (Queued(o)' <=> Queued(o))
              /\ (BeingEnqueued(o)' <=> BeingEnqueued(o))
    BY <1>3, <2>1, Zenon DEF Due, Queued, BeingEnqueued
  <2>4. HeldInv'
    <3>1. ASSUME NEW u \in Threads, NEW o \in held'[u]
          PROVE  u # t /\ o \in held[u] /\ Gens'[u] = Gens[u]
      BY <1>2, <1>3, <1>8, <3>1, Zenon
    <3> QED
      BY <1>3, <1>5, <2>1, <2>6, <3>1, Zenon DEF HeldInv
  <2>7. ReachableInv'
    BY <1>3, <1>5, <2>6, Zenon DEF ReachableInv
  <2> QED
    BY <1>1, <2>2, <2>3, <2>4, <2>7, Zenon DEF SafetyInv
<1>7. CASE s_oldestRequestInFlight = Gens[t]
  <2>1. PICK limit \in StartTimes(s_inflightRequests') \cup {s_latestCount + 1},
             n \in 0..Len(s_tq) :
          /\ IsLimit(limit, s_inflightRequests')
          /\ IsFirePrefix(n, limit)
          /\ s_oldestRequestInFlight' = IF limit = s_latestCount + 1 THEN 0 ELSE limit
          /\ toFire' = [toFire EXCEPT ![t] = SubSeq(s_tq, 1, n)]
          /\ s_tq' = SubSeq(s_tq, n + 1, Len(s_tq))
    BY <1>1, <1>7, Zenon DEF FinishRequest, CollectWork
  <2> DEFINE fired == SubSeq(s_tq, 1, n)
  <2>2. /\ Len(fired) = n
        /\ \A i \in 1..n : fired[i] = s_tq[i]
        /\ Len(s_tq') = Len(s_tq) - n
        /\ \A i \in 1..(Len(s_tq) - n) : s_tq'[i] = s_tq[n + i]
    BY <1>2, <2>1, PrefixAndRest
  <2>3. /\ limit \in Nat
        /\ \A u \in Threads : Gens'[u] # 0 => limit <= Gens'[u]
        /\ limit = s_latestCount + 1 \/ \E u \in Threads : Gens'[u] # 0 /\ limit = Gens'[u]
    <3>1. /\ limit \in StartTimes(s_inflightRequests') \cup {s_latestCount + 1}
          /\ \A x \in StartTimes(s_inflightRequests') : limit <= x
      BY <2>1, Zenon DEF IsLimit
    <3>2. \A u \in Threads : Gens'[u] \in Nat
      BY <1>1, <1>2, Zenon
    <3>3. StartTimes(s_inflightRequests') = {Gens'[u] : u \in Threads} \ {0}
      BY <1>1, Zenon
    <3>4. s_latestCount \in Nat
      BY <1>2, Zenon
    <3> QED
      BY <3>1, <3>2, <3>3, <3>4
  <2>4. Len(s_tq) \in Nat /\ n \in 0..Len(s_tq)
    BY <1>2, SeqFacts, Zenon
  <2> HIDE DEF fired
  <2>5. CountInv'
    <3>1. \A i \in 1..Len(s_tq') : n + i \in 1..Len(s_tq) /\ s_tq'[i] = s_tq[n + i]
      BY <2>2, <2>4
    <3>2. \A u \in Threads : Gens'[u] <= s_latestCount'
      <4>1. \A u \in Threads : Gens[u] <= s_latestCount
        BY <1>5, Zenon DEF CountInv
      <4>2. s_latestCount \in Nat /\ s_latestCount' = s_latestCount
        BY <1>2, <1>3, Zenon
      <4> QED
        BY <1>8, <4>1, <4>2
    <3>3. \A i \in 1..Len(s_tq') : s_tq'[i].m_gen <= s_latestCount'
      BY <1>3, <1>5, <3>1, Zenon DEF CountInv
    <3>4. ASSUME NEW i \in 1..Len(s_tq'), NEW j \in 1..Len(s_tq'), i < j
          PROVE  s_tq'[i].m_gen < s_tq'[j].m_gen
      <4>1. n + i < n + j
        BY <2>2, <2>4, <3>4
      <4>2. \A x, y \in 1..Len(s_tq) : x < y => s_tq[x].m_gen < s_tq[y].m_gen
        BY <1>5, Zenon DEF CountInv
      <4>3. /\ n + i \in 1..Len(s_tq) /\ s_tq'[i] = s_tq[n + i]
            /\ n + j \in 1..Len(s_tq) /\ s_tq'[j] = s_tq[n + j]
        BY <3>1, Zenon
      <4> QED
        BY <4>1, <4>2, <4>3, Zenon
    <3>5. \A i \in 1..Len(s_tq'), u \in Threads :
            Gens'[u] # 0 => s_tq'[i].m_gen # Gens'[u]
      <4>1. \A u \in Threads : Gens'[u] # 0 => Gens'[u] = Gens[u]
        BY <1>8, Zenon
      <4> QED
        BY <1>5, <3>1, <4>1 DEF CountInv
    <3>6. \A u, v \in Threads : Gens'[u] # 0 /\ Gens'[u] = Gens'[v] => u = v
      BY <1>5, <1>8, Zenon DEF CountInv
    <3> QED
      BY <3>2, <3>3, <3>4, <3>5, <3>6, Zenon DEF CountInv
  <2>6. OldestInv'
    <3>1. \A u \in Threads : Gens'[u] <= s_latestCount /\ Gens'[u] \in Nat
      <4>1. \A u \in Threads : Gens[u] <= s_latestCount
        BY <1>5, Zenon DEF CountInv
      <4>2. s_latestCount \in Nat
        BY <1>2, Zenon
      <4> QED
        BY <1>8, <4>1, <4>2
    <3> QED
      BY <1>2, <2>1, <2>3, <3>1 DEF OldestInv
  <2>7. \A o : Due(o)' => Due(o) \/ \E i \in 1..n : s_tq[i].obj = o
    BY <1>2, <2>1, <2>2, Zenon DEF Due, fired
  <2>8. HeldInv'
    <3>1. ASSUME NEW u \in Threads, NEW o \in held'[u]
          PROVE  /\ Gens'[u] # 0 /\ o \notin freed' /\ ~Due(o)'
                 /\ \A i \in 1..Len(s_tq') : s_tq'[i].obj = o => Gens'[u] < s_tq'[i].m_gen
      <4>1. u # t /\ o \in held[u] /\ Gens'[u] = Gens[u]
        BY <1>1, <1>2, <1>3, <3>1, Zenon
      <4>2. /\ Gens[u] # 0 /\ Gens[u] \in Nat /\ o \notin freed /\ ~Due(o)
            /\ \A i \in 1..Len(s_tq) : s_tq[i].obj = o => Gens[u] < s_tq[i].m_gen
        BY <1>2, <1>5, <4>1, Zenon DEF HeldInv
      <4>3. ASSUME NEW i \in 1..n
            PROVE  i \in 1..Len(s_tq) /\ s_tq[i].m_gen < Gens[u]
        <5>2. limit <= Gens[u] /\ limit \in Nat
          BY <2>3, <4>1, <4>2, Zenon
        <5> QED
          BY <1>4, <4>2, <2>1, <2>4, <5>2 DEF IsFirePrefix
      <4>4. ASSUME NEW i \in 1..n PROVE s_tq[i].obj # o
        BY <1>4, <4>3, <4>2
      <4>6. ~Due(o)'
        BY <2>7, <4>2, <4>4, Zenon
      <4>7. \A i \in 1..Len(s_tq') : s_tq'[i].obj = o => Gens'[u] < s_tq'[i].m_gen
        BY <4>1, <4>2, <2>2, <2>4
      <4> QED
        BY <1>3, <4>1, <4>2, <4>6, <4>7, Zenon
    <3> QED
      BY <3>1, Zenon DEF HeldInv
  <2>9. ReachableInv'
    <3>1. \A i \in 1..Len(s_tq') : n + i \in 1..Len(s_tq) /\ s_tq'[i] = s_tq[n + i]
      BY <2>2, <2>4
    <3>3. \A o : (Queued(o)' => Queued(o)) /\ (Due(o)' => Due(o) \/ Queued(o))
              /\ (BeingEnqueued(o)' <=> BeingEnqueued(o))
      BY <1>3, <2>7, <3>1, <2>4 DEF Queued, BeingEnqueued
    <3> QED
      BY <1>3, <1>5, <3>3, Zenon DEF ReachableInv
  <2> QED
    BY <1>1, <2>5, <2>6, <2>8, <2>9, Zenon DEF SafetyInv
<1> QED
  BY <1>6, <1>7, Zenon

LEMMA RunItemSafe ==
  ASSUME SafetyInv, TypeInv', NEW t \in Threads, RunItem(t)
  PROVE  SafetyInv'
<1>1. toFire \in [Threads -> Seq(WorkItem)] /\ toFire[t] # <<>>
  BY DEF TypeInv, TypeOK, RunItem
<1>2. /\ freed' = freed \cup {Head(toFire[t]).obj}
      /\ toFire' = [toFire EXCEPT ![t] = Tail(@)]
      /\ UNCHANGED <<g_nextThreadIdx, tl_thisThreadIdx, s_inflightRequests,
                     s_latestCount, s_oldestRequestInFlight, s_tq, enq,
                     reachable, held, pc>>
  BY Zenon DEF RunItem, idxVars, genVars
<1>3. /\ Len(toFire[t]) \in Nat \ {0}
      /\ Head(toFire[t]) = toFire[t][1]
      /\ Len(Tail(toFire[t])) = Len(toFire[t]) - 1
      /\ \A i \in 1..(Len(toFire[t]) - 1) : Tail(toFire[t])[i] = toFire[t][i + 1]
  BY <1>1, HeadTailFacts, Zenon
<1>4. Gens' = Gens
  BY <1>2, CountsKept, Zenon
<1>5. SlotInv' /\ CountInv' /\ OldestInv'
  BY <1>2, CountsKept, Zenon
<1>6. Due(Head(toFire[t]).obj)
  BY <1>1, <1>3 DEF Due
<1>7. \A o : Due(o)' => Due(o)
  BY <1>3, <1>1, <1>2 DEF Due
<1>8. HeldInv' /\ ReachableInv'
  BY <1>2, <1>4, <1>6, <1>7, Zenon DEF SafetyInv, HeldInv, ReachableInv, Queued,
     BeingEnqueued
<1> QED
  BY <1>5, <1>8, Zenon DEF SafetyInv

LEMMA AcquireSafe ==
  ASSUME SafetyInv, TypeInv', NEW t \in Threads, NEW o \in Objects, Acquire(t, o)
  PROVE  SafetyInv'
<1>1. held \in [Threads -> SUBSET Objects] /\ Gens[t] # kIdleGenCount /\ o \in reachable
  BY Zenon DEF SafetyInv, TypeInv, TypeOK, SlotInv, Acquire, At
<1>2. /\ held' = [held EXCEPT ![t] = @ \cup {o}]
      /\ UNCHANGED <<g_nextThreadIdx, tl_thisThreadIdx, s_inflightRequests,
                     s_latestCount, s_oldestRequestInFlight, s_tq, toFire, enq,
                     reachable, freed, pc>>
  BY Zenon DEF Acquire, idxVars, genVars
<1>3. Gens' = Gens
  BY <1>2, CountsKept, Zenon
<1>4. SlotInv' /\ CountInv' /\ OldestInv'
  BY <1>2, CountsKept, Zenon
<1>5. \A p : /\ Due(p)' <=> Due(p)
             /\ Queued(p)' <=> Queued(p)
             /\ BeingEnqueued(p)' <=> BeingEnqueued(p)
  BY <1>2, Zenon DEF Due, Queued, BeingEnqueued
<1>6. HeldInv'
  BY <1>1, <1>2, <1>3, <1>5 DEF SafetyInv, ReachableInv, Queued, HeldInv
<1>7. ReachableInv'
  BY <1>2, <1>5, Zenon DEF SafetyInv, ReachableInv
<1> QED
  BY <1>4, <1>6, <1>7, Zenon DEF SafetyInv

LEMMA EnqueueSafe ==
  ASSUME SafetyInv, TypeInv', NEW t \in Threads, NEW o \in Objects, Enqueue(t, o)
  PROVE  SafetyInv'
<1>1. /\ reachable' = reachable \ {o}
      /\ enq' = [enq EXCEPT ![t] = IF s_destroyed THEN @ ELSE [obj |-> o, time |-> now]]
      /\ DOMAIN enq = Threads
      /\ UNCHANGED <<g_nextThreadIdx, tl_thisThreadIdx, s_inflightRequests,
                     s_latestCount, s_oldestRequestInFlight, s_tq, toFire,
                     held, freed, pc>>
  BY Zenon DEF Enqueue, idxVars, genVars, TypeInv, TypeOK
<1>2. Gens' = Gens
  BY <1>1, CountsKept, Zenon
<1>3. SlotInv' /\ CountInv' /\ OldestInv'
  BY <1>1, CountsKept, Zenon
<1>4. \A p : BeingEnqueued(p)' => BeingEnqueued(p) \/ p = o
  BY <1>1, Zenon DEF BeingEnqueued
<1>5. HeldInv'
  <2>1. HeldInv /\ \A p : Due(p)' <=> Due(p)
    BY <1>1, Zenon DEF SafetyInv, Due
  <2>2. held' = held /\ freed' = freed /\ s_tq' = s_tq
    BY <1>1, Zenon
  <2> QED
    BY <1>2, <2>1, <2>2, Zenon DEF HeldInv
<1>6. ReachableInv'
  <2>1. ReachableInv /\ \A p : (Due(p)' <=> Due(p)) /\ (Queued(p)' <=> Queued(p))
    BY <1>1, Zenon DEF SafetyInv, Due, Queued
  <2> QED
    BY <1>1, <1>4, <2>1, Zenon DEF ReachableInv
<1> QED
  BY <1>3, <1>5, <1>6, Zenon DEF SafetyInv

\* The item's count is above that of every request that can hold its object.
LEMMA EnqueueLockedSafe ==
  ASSUME SafetyInv, TypeInv', NEW t \in Threads, EnqueueLocked(t)
  PROVE  SafetyInv'
<1> DEFINE gen == correctTime(enq[t].time)
           item == [obj |-> enq[t].obj, m_gen |-> gen]
<1>1. /\ s_latestCount' = gen
      /\ s_tq' = Append(s_tq, item)
      /\ enq' = [enq EXCEPT ![t] = NoEnqueue]
      /\ UNCHANGED <<g_nextThreadIdx, tl_thisThreadIdx, s_inflightRequests,
                     s_oldestRequestInFlight, toFire, reachable, held, freed, pc>>
  BY Zenon DEF EnqueueLocked, idxVars, clientVars
<1>2. /\ enq[t] \in [obj : Objects, time : Nat] /\ DOMAIN enq = Threads
      /\ s_latestCount \in Nat /\ s_tq \in Seq(WorkItem)
  BY Zenon DEF EnqueueLocked, Free, SafetyInv, TypeInv, TypeOK
<1>3. gen \in Nat /\ gen > s_latestCount
  BY <1>2, CorrectTimeGrows, Zenon
<1>4. item \in WorkItem /\ item.obj = enq[t].obj /\ item.m_gen = gen
  BY <1>2, <1>3, Zenon DEF WorkItem
<1> HIDE DEF gen, item
<1>5. /\ Len(s_tq') = Len(s_tq) + 1 /\ Len(s_tq) \in Nat
      /\ \A i \in 1..Len(s_tq) : s_tq'[i] = s_tq[i]
      /\ s_tq'[Len(s_tq) + 1] = item
  <2>1. s_tq' = Append(s_tq, item) /\ item \in WorkItem /\ s_tq \in Seq(WorkItem)
    BY <1>1, <1>2, <1>4, Zenon
  <2> QED
    BY <2>1, SeqFacts, AppendFacts
<1>6. Gens' = Gens /\ Gens \in [Threads -> Nat]
  BY <1>1, CountsKept, GensType, Zenon DEF SafetyInv, TypeInv
<1>7. SlotInv' /\ OldestInv'
  BY <1>1, CountsKept, Zenon
<1>8. \A i \in 1..Len(s_tq') :
        \/ i \in 1..Len(s_tq) /\ s_tq'[i] = s_tq[i]
        \/ i = Len(s_tq) + 1 /\ s_tq'[i] = item
  BY <1>5
<1>9. CountInv'
  <2>1. CountInv /\ \A i \in 1..Len(s_tq) : s_tq[i].m_gen \in Nat
    BY QueueType, Zenon DEF SafetyInv
  <2>2. \A u \in Threads : Gens'[u] <= s_latestCount' /\ Gens[u] < gen
    BY <1>6, <2>1, <1>2, <1>1, <1>3 DEF CountInv
  <2>6. \A i \in 1..Len(s_tq) : s_tq[i].m_gen < gen /\ s_tq[i].m_gen \in Nat
    BY <2>1, <1>2, <1>3 DEF CountInv
  <2>3. \A i \in 1..Len(s_tq') : s_tq'[i].m_gen <= s_latestCount'
    BY <1>1, <1>3, <1>4, <1>8, <2>6
  <2>4. ASSUME NEW i \in 1..Len(s_tq'), NEW j \in 1..Len(s_tq'), i < j
        PROVE  s_tq'[i].m_gen < s_tq'[j].m_gen
    BY <1>5, <1>8, <2>4, <2>1, <1>4, <2>6 DEF CountInv
  <2>5. ASSUME NEW i \in 1..Len(s_tq'), NEW u \in Threads, Gens'[u] # kIdleGenCount
        PROVE  s_tq'[i].m_gen # Gens'[u]
    <3>1. CASE i \in 1..Len(s_tq) /\ s_tq'[i] = s_tq[i]
      BY <1>6, <2>1, <2>5, <3>1, Zenon DEF CountInv
    <3>2. CASE s_tq'[i] = item
      BY <1>4, <1>6, <2>2, <3>2
    <3> QED
      BY <1>8, <3>1, <3>2, Zenon
  <2> QED
    BY <1>6, <2>1, <2>2, <2>3, <2>4, <2>5, Zenon DEF CountInv
<1>10. HeldInv'
  <2>1. HeldInv /\ CountInv
    BY Zenon DEF SafetyInv
  <2>2. \A u \in Threads : Gens[u] < gen
    BY <1>6, <2>1, <1>2, <1>3 DEF CountInv
  <2>3. SUFFICES ASSUME NEW u \in Threads, NEW o \in held[u]
                 PROVE  /\ Gens[u] # kIdleGenCount /\ o \notin freed /\ ~Due(o)
                        /\ \A i \in 1..Len(s_tq') :
                             s_tq'[i].obj = o => Gens[u] < s_tq'[i].m_gen
    BY <1>1, <1>6, Zenon DEF HeldInv, Due
  <2>4. /\ Gens[u] # kIdleGenCount /\ o \notin freed /\ ~Due(o)
        /\ \A i \in 1..Len(s_tq) : s_tq[i].obj = o => Gens[u] < s_tq[i].m_gen
    BY <2>1, <2>3, Zenon DEF HeldInv
  <2>5. ASSUME NEW i \in 1..Len(s_tq')
        PROVE  s_tq'[i].obj = o => Gens[u] < s_tq'[i].m_gen
    BY <1>4, <1>8, <2>2, <2>3, <2>4, Zenon
  <2> QED
    BY <2>4, <2>5, Zenon
<1>11. ReachableInv'
  <2>2. \A o \in reachable : ~BeingEnqueued(o)'
    BY <1>1 DEF SafetyInv, TypeInv, TypeOK, NoEnqueue, ReachableInv, BeingEnqueued
  <2> QED
    BY <1>1, <2>2, <1>4, <1>8 DEF SafetyInv, ReachableInv, BeingEnqueued, Due, Queued
<1> QED
  BY <1>7, <1>9, <1>10, <1>11, Zenon DEF SafetyInv

LEMMA DestroyQueueSafe ==
  ASSUME SafetyInv, TypeInv', DestroyQueue
  PROVE  SafetyInv'
<1>1. /\ Len(s_tq') = 0
      /\ UNCHANGED <<g_nextThreadIdx, tl_thisThreadIdx, s_inflightRequests,
                     s_latestCount, s_oldestRequestInFlight, toFire, enq,
                     reachable, held, freed, pc>>
  BY EmptyFacts, Zenon DEF DestroyQueue, idxVars, clientVars
<1>2. Gens' = Gens
  BY <1>1, CountsKept, Zenon
<1>7. 1..Len(s_tq') = {}
  BY <1>1
<1>3. SlotInv' /\ CountInv' /\ OldestInv'
  BY <1>1, CountsKept, <1>2, <1>7, Zenon DEF SafetyInv, CountInv
<1>4. /\ \A o : Due(o)' <=> Due(o)
      /\ \A o : BeingEnqueued(o)' <=> BeingEnqueued(o)
  BY <1>1, Zenon DEF Due, BeingEnqueued
<1>5. HeldInv'
  BY <1>1, <1>2, <1>4, <1>7, Zenon DEF SafetyInv, HeldInv
<1>6. ReachableInv'
  BY <1>1, <1>4, <1>7, Zenon DEF SafetyInv, ReachableInv, Queued
<1> QED
  BY <1>3, <1>5, <1>6, Zenon DEF SafetyInv

LEMMA SafetyStep == SafetyInv /\ [Next]_vars => SafetyInv'
<1> SUFFICES ASSUME SafetyInv, [Next]_vars PROVE SafetyInv'
  BY Zenon
<1>1. TypeInv' /\ pc \in [Threads -> PcValues]
  BY TypeStep, Zenon DEF SafetyInv, TypeInv, TypeOK
<1> DEFINE quiet ==
      /\ UNCHANGED <<g_nextThreadIdx, tl_thisThreadIdx, s_inflightRequests,
                     s_latestCount, s_oldestRequestInFlight, s_tq, toFire, enq,
                     reachable, held, freed>>
      /\ \A t \in Threads : pc'[t] = "running" <=> pc[t] = "running"
<1>2. quiet => SafetyInv'
  BY <1>1, QuietStep, Zenon
<1>3. CASE Tick \/ TriggerGC \/ UNCHANGED vars
  BY <1>2, <1>3, Zenon DEF Tick, TriggerGC, vars, idxVars, genVars, clientVars
<1>4. CASE DestroyQueue
  BY <1>1, <1>4, DestroyQueueSafe, Zenon
<1>5. ASSUME NEW t \in Threads, ThreadStep(t) PROVE SafetyInv'
  <2>1. CASE StartRequest(t)
    BY <1>1, <2>1, StartRequestSafe, Zenon
  <2>2. CASE StartRequestLocked(t)
    BY <1>1, <2>2, StartRequestLockedSafe, Zenon
  <2>3. CASE FinishRequest(t)
    BY <1>1, <2>3, FinishRequestSafe, Zenon
  <2>4. CASE CasPendingToIdle(t) \/ CasNoPendingToIdle(t)
    BY <1>1, <2>4, <1>2, Zenon DEF CasPendingToIdle, CasNoPendingToIdle, ChangeToIdle, At,
       idxVars, genVars, clientVars
  <2>5. CASE RunItem(t)
    BY <1>1, <2>5, RunItemSafe, Zenon
  <2>6. CASE FinishReturn(t)
    BY <1>1, <2>6, <1>2, Zenon DEF FinishReturn, At, idxVars, genVars, clientVars
  <2>7. CASE EnqueueLocked(t)
    BY <1>1, <2>7, EnqueueLockedSafe, Zenon
  <2>8. CASE \E o \in Objects : Acquire(t, o) \/ Enqueue(t, o)
    BY <1>1, <2>8, AcquireSafe, EnqueueSafe, Zenon
  <2>9. CASE SetPendingGCStatus(t) \/ SetPendingGCFlag(t) \/ HandlePendingGC(t)
    BY <1>2, <2>9, Zenon DEF SetPendingGCStatus, SetPendingGCFlag, HandlePendingGC, idxVars,
       genVars, clientVars
  <2> QED
    BY <1>5, <2>1, <2>2, <2>3, <2>4, <2>5, <2>6, <2>7, <2>8, <2>9, Zenon DEF ThreadStep
<1> QED
  BY <1>3, <1>4, <1>5, Zenon DEF Next

\* No request holds a pointer to an object whose work item has run.
THEOREM RequestsAreSafe == Spec => []NoUseAfterFree
<1>1. SafetyInv => NoUseAfterFree
  BY Zenon DEF SafetyInv, HeldInv, NoUseAfterFree
<1> QED
  BY <1>1, SafetyInit, SafetyStep, PTL DEF Spec

\* s_oldestRequestInFlight is the least start time in flight, or 0.
THEOREM OldestIsExact == Spec => []OldestIsLeastInFlight
<1>1. SafetyInv => OldestIsLeastInFlight
  <2> SUFFICES ASSUME SafetyInv PROVE OldestIsLeastInFlight
    BY Zenon
  <2>2. \A t \in Threads : Gens[t] = GenOf(t)
    BY Zenon DEF Gens
  <2> QED
    BY GensType, <2>2, Zenon DEF SafetyInv, OldestInv, OldestIsLeastInFlight, TypeInv
<1> QED
  BY <1>1, SafetyInit, SafetyStep, PTL DEF Spec

\* Generation counts are handed out once and in order.
THEOREM CountsAreHandedOutOnce == Spec => []CountsAreUnique
<1>1. SafetyInv => CountsAreUnique
  <2> SUFFICES ASSUME SafetyInv PROVE CountsAreUnique
    BY Zenon
  <2>2. \A t \in Threads : Gens[t] = GenOf(t)
    BY Zenon DEF Gens
  <2> QED
    BY GensType, <2>2, Zenon DEF SafetyInv, CountInv, CountsAreUnique, TypeInv
<1> QED
  BY <1>1, SafetyInit, SafetyStep, PTL DEF Spec

\* checkOldest finds the thread of the oldest request whenever it looks.
THEOREM AbortNeverLost == Spec => []AbortFindsOldest
<1>1. Init => AbortFindsOldest
  BY Zenon DEF Init, AbortFindsOldest
<1>2. SafetyInv /\ AbortFindsOldest /\ [Next]_vars => AbortFindsOldest'
  <2> SUFFICES ASSUME SafetyInv, AbortFindsOldest, [Next]_vars
               PROVE  AbortFindsOldest'
    BY Zenon
  <2>1. ASSUME NEW t \in Threads, StartRequestLocked(t) PROVE AbortFindsOldest'
    BY <2>1 DEF getAgeOldestRequest, SafetyInv, OldestInv, Gens, GenOf, StartRequestLocked,
       checkOldest, getOldestRequestThreadId, AbortFindsOldest
  <2>2. CASE ~\E t \in Threads : StartRequestLocked(t)
    <3>1. aborted' = aborted
      BY <2>2, Zenon DEF Next, ThreadStep, Tick, DestroyQueue, TriggerGC, StartRequest,
                  FinishRequest, CasPendingToIdle, CasNoPendingToIdle,
                  ChangeToIdle, RunItem, FinishReturn, EnqueueLocked, Acquire,
                  Enqueue, SetPendingGCStatus, SetPendingGCFlag,
                  HandlePendingGC, vars
    <3> QED
      BY <3>1, Zenon DEF AbortFindsOldest
  <2> QED
    BY <2>1, <2>2, Zenon
<1> QED
  BY <1>1, <1>2, SafetyInit, SafetyStep, PTL DEF Spec

-----------------------------------------------------------------------------
(* The loop that ends a request's GC status.                               *)

\* A trigger can change the status of a request once, and so defeat one of
\* the two compare-and-exchanges once.
GcInv ==
  \A t \in Threads :
    /\ pc[t] \in {"idle", "starting", "firing"} <=> m_globalGCStatus[t] = "Idle"
    /\ gcTries[t] \in {0, 1}
    /\ pc[t] = "casNoPending" => gcTries[t] = 0
    /\ pc[t] = "casPending" =>
         gcTries[t] = 0 \/ m_globalGCStatus[t] = "OnRequestWithPendingExecution"

LEMMA GcInit == Init => GcInv
BY Zenon DEF Init, GcInv

LEMMA GcStep ==
  ASSUME GcRetryLimit > 1, TypeInv, GcInv, [Next]_vars
  PROVE  GcInv'
<1>1. /\ pc \in [Threads -> PcValues] /\ gcTries \in [Threads -> Nat]
      /\ m_globalGCStatus \in [Threads -> GlobalGCStatus]
  BY Zenon DEF TypeInv, TypeOK
<1> USE DEF PcValues, GlobalGCStatus
<1>2. CASE UNCHANGED <<pc, gcTries, m_globalGCStatus>>
  BY <1>2, Zenon DEF GcInv
<1>3. ASSUME NEW t \in Threads, ThreadStep(t) PROVE GcInv'
  <2>1. CASE StartRequest(t)
    BY <1>1, <2>1, Zenon DEF StartRequest, At, GcInv
  <2>2. CASE StartRequestLocked(t)
    BY <1>1, <2>2, Zenon DEF StartRequestLocked, At, GcInv
  <2>3. CASE FinishRequest(t)
    BY <1>1, <2>3, Zenon DEF FinishRequest, At, GcInv
  <2>4. CASE CasPendingToIdle(t)
    BY <1>1, <2>4 DEF CasPendingToIdle, ChangeToIdle, At, GcInv
  <2>5. CASE CasNoPendingToIdle(t)
    BY <1>1, <2>5 DEF CasNoPendingToIdle, ChangeToIdle, At, GcInv
  <2>6. CASE FinishReturn(t)
    BY <1>1, <2>6, Zenon DEF FinishReturn, At, GcInv, gcVars
  <2>7. CASE SetPendingGCStatus(t)
    BY <1>1, <2>7, Zenon DEF SetPendingGCStatus, GcInv
  <2>8. CASE \/ RunItem(t) \/ EnqueueLocked(t)
             \/ \E o \in Objects : Acquire(t, o) \/ Enqueue(t, o)
             \/ SetPendingGCFlag(t) \/ HandlePendingGC(t)
    BY <1>2, <2>8, Zenon DEF RunItem, EnqueueLocked, Acquire, Enqueue, SetPendingGCFlag,
       HandlePendingGC, gcVars
  <2> QED
    BY <1>3, <2>1, <2>2, <2>3, <2>4, <2>5, <2>6, <2>7, <2>8, Zenon DEF ThreadStep
<1>4. CASE Tick \/ DestroyQueue \/ TriggerGC \/ UNCHANGED vars
  BY <1>2, <1>4, Zenon DEF Tick, DestroyQueue, TriggerGC, vars, gcVars
<1> QED
  BY <1>3, <1>4, Zenon DEF Next

\* finishRequest's status loop ends with the status Idle before its second
\* round is over: any limit above 1 (the code has 100) is never met.
THEOREM GcLoopEnds ==
  ASSUME GcRetryLimit > 1
  PROVE  Spec => []GcStatusLoopEnds
<1>1. GcInv => GcStatusLoopEnds
  BY DEF GcInv, GcStatusLoopEnds
<1> QED
  BY <1>1, TypeInit, TypeStep, GcInit, GcStep, PTL DEF Spec

-----------------------------------------------------------------------------
(* Comparing counts implements remembering requests.                       *)

\* A work item is in one place at a time, and no thread has items to fire
\* while it runs a request.
PlaceInv ==
  /\ \A i, j \in 1..Len(s_tq) : s_tq[i].obj = s_tq[j].obj => i = j
  /\ \A o \in Objects : Queued(o) => o \notin freed /\ ~Due(o)
  /\ \A o \in Objects : BeingEnqueued(o) => o \notin freed /\ ~Due(o) /\ ~Queued(o)
  /\ \A t, u \in Threads : enq[t].obj = enq[u].obj /\ enq[t].obj \in Objects => t = u
  /\ \A t \in Threads : pc[t] \in {"idle", "starting", "running"} => toFire[t] = <<>>
  /\ s_destroyed => \A t \in Threads : pc[t] = "idle" /\ Free(t)

DStep == [Deferred!DeferredNext]_(Deferred!dvars)

\* What the mapping is in terms of Gens, before and after a step.
LEMMA Mapping ==
  /\ InFlight = {u \in Threads : Gens[u] # kIdleGenCount}
  /\ InFlight' = {u \in Threads : Gens'[u] # kIdleGenCount}
  /\ \A o : WaitsOf(o) = {u \in InFlight : \E i \in 1..Len(s_tq) :
                            s_tq[i].obj = o /\ Gens[u] < s_tq[i].m_gen}
  /\ \A o : WaitsOf(o)' = {u \in InFlight' : \E i \in 1..Len(s_tq') :
                             s_tq'[i].obj = o /\ Gens'[u] < s_tq'[i].m_gen}
<1>1. \A u \in Threads : Gens[u] = GenOf(u) /\ Gens'[u] = GenOf(u)'
  BY Zenon DEF Gens
<1>2. /\ InFlight = {u \in Threads : Gens[u] # kIdleGenCount}
      /\ InFlight' = {u \in Threads : Gens'[u] # kIdleGenCount}
  BY <1>1, Zenon DEF InFlight
<1> QED
  BY <1>1, <1>2, Zenon DEF WaitsOf

LEMMA States ==
  ASSUME NEW o
  PROVE  /\ StateOf(o) = IF o \in freed THEN "done"
                         ELSE IF Due(o) THEN "due"
                         ELSE IF Queued(o) THEN "queued"
                         ELSE IF o \in reachable \/ BeingEnqueued(o) THEN "live"
                         ELSE "discarded"
         /\ StateOf(o)' = IF o \in freed' THEN "done"
                          ELSE IF Due(o)' THEN "due"
                          ELSE IF Queued(o)' THEN "queued"
                          ELSE IF o \in reachable' \/ BeingEnqueued(o)' THEN "live"
                          ELSE "discarded"
BY Zenon DEF StateOf

LEMMA ExceptIs ==
  ASSUME NEW f, NEW x, NEW v
  PROVE  [f EXCEPT ![x] = v] = [y \in DOMAIN f |-> IF y = x THEN v ELSE f[y]]
BY Zenon

LEMMA SameWaits ==
  ASSUME Gens' = Gens, UNCHANGED s_tq
  PROVE  InFlight' = InFlight /\ \A o : WaitsOf(o)' = WaitsOf(o)
<1>1. InFlight' = InFlight
  BY Mapping, Zenon
<1>2. ASSUME NEW o PROVE WaitsOf(o)' = WaitsOf(o)
  <2>1. WaitsOf(o)' = {u \in InFlight : \E i \in 1..Len(s_tq) :
                         s_tq[i].obj = o /\ Gens[u] < s_tq[i].m_gen}
    BY <1>1, Mapping, Zenon
  <2> QED
    BY <2>1, Mapping, Zenon
<1> QED
  BY <1>1, <1>2, Zenon

\* A step that changes no count, no place of an item and no queue.
LEMMA SameView ==
  ASSUME Gens' = Gens, UNCHANGED s_tq, \A o \in Objects : StateOf(o)' = StateOf(o)
  PROVE  DStep
BY SameWaits, Zenon DEF DStep, Deferred!dvars

LEMMA QuietView ==
  ASSUME PlaceInv, Gens' = Gens, UNCHANGED <<s_tq, toFire, enq, reachable, freed>>,
         \A t \in Threads : pc'[t] \in {"idle", "starting", "running"} =>
           pc[t] \in {"idle", "starting", "running"} \/ toFire[t] = <<>>,
         s_destroyed' => s_destroyed /\ \A t \in Threads : pc'[t] = pc[t]
  PROVE  PlaceInv' /\ DStep
<1>1. \A o : /\ Due(o)' <=> Due(o)
             /\ Queued(o)' <=> Queued(o)
             /\ BeingEnqueued(o)' <=> BeingEnqueued(o)
  BY Zenon DEF Due, Queued, BeingEnqueued
<1>2. PlaceInv'
  BY <1>1, Zenon DEF PlaceInv, Free
<1>3. \A o \in Objects : StateOf(o)' = StateOf(o)
  BY <1>1, States, Zenon
<1> QED
  BY <1>2, <1>3, SameView, Zenon

LEMMA StartRequestDefers ==
  ASSUME SafetyInv, TypeInv', PlaceInv, NEW t \in Threads, StartRequestLocked(t)
  PROVE  PlaceInv' /\ DStep
<1> DEFINE gen == correctTime(startTime[t])
<1> USE DEF kIdleGenCount
<1>1. /\ Gens' = [Gens EXCEPT ![t] = gen] /\ Gens \in [Threads -> Nat]
      /\ s_latestCount \in Nat /\ gen \in Nat /\ gen > s_latestCount
  <2>3. s_latestCount \in Nat /\ startTime[t] \in Nat
    BY Zenon DEF SafetyInv, TypeInv, TypeOK
  <2> QED
    BY StartRequestLockedSlots, GensType, <2>3, CorrectTimeGrows, Zenon DEF SafetyInv,
       TypeInv
<1>2. /\ pc[t] = "starting" /\ pc' = [pc EXCEPT ![t] = "running"]
      /\ pc \in [Threads -> PcValues]
      /\ UNCHANGED <<s_tq, toFire, enq, reachable, freed, s_destroyed>>
  BY Zenon DEF StartRequestLocked, At, clientVars, SafetyInv, TypeInv, TypeOK
<1>3. \A o : /\ Due(o)' <=> Due(o)
             /\ Queued(o)' <=> Queued(o)
             /\ BeingEnqueued(o)' <=> BeingEnqueued(o)
  BY <1>2, Zenon DEF Due, Queued, BeingEnqueued
<1>4. PlaceInv'
  BY <1>2, <1>3, Zenon DEF PlaceInv, Free
<1>5. \A o \in Objects : StateOf(o)' = StateOf(o)
  BY <1>2, <1>3, States, Zenon
<1>6. Gens[t] = 0 /\ t \notin InFlight /\ InFlight' = InFlight \cup {t}
  BY <1>1, <1>2, Mapping DEF SafetyInv, SlotInv
<1>7. ASSUME NEW o PROVE WaitsOf(o)' = WaitsOf(o)
  <2>3. \A i \in 1..Len(s_tq) : ~(Gens'[t] < s_tq[i].m_gen)
    BY <1>1, QueueType DEF SafetyInv, CountInv
  <2>4. WaitsOf(o)' \subseteq WaitsOf(o)
    BY <1>2, Mapping, <2>3, <1>1, Zenon
  <2>5. WaitsOf(o) \subseteq WaitsOf(o)'
    BY <1>2, <1>6, <1>1, Mapping, Zenon
  <2> QED
    BY <2>4, <2>5, Zenon
<1>8. Deferred!StartRequest(t)
  BY <1>5, <1>6, <1>7, Zenon DEF Deferred!StartRequest
<1> QED
  BY <1>4, <1>8, Zenon DEF DStep, Deferred!DeferredNext

\* What finishRequest moves: a prefix of the queue, of items whose counts are
\* below those of all requests that are left.
LEMMA FinishRequestMoves ==
  ASSUME SafetyInv, PlaceInv, NEW t \in Threads, FinishRequest(t)
  PROVE  \E n \in 0..Len(s_tq) :
           /\ Len(s_tq') = Len(s_tq) - n
           /\ \A i \in 1..(Len(s_tq) - n) : s_tq'[i] = s_tq[n + i]
           /\ \A o : Due(o)' <=> Due(o) \/ \E i \in 1..n : s_tq[i].obj = o
           /\ \A i \in 1..n, u \in Threads \ {t} :
                Gens[u] # kIdleGenCount => ~(Gens[u] < s_tq[i].m_gen)
           /\ \A u \in Threads \ {t} : toFire'[u] = toFire[u]
<1> USE DEF kIdleGenCount
<1>1. /\ Gens' = [Gens EXCEPT ![t] = 0] /\ Gens \in [Threads -> Nat]
      /\ Gens[t] = s_inflightRequests[tl_thisThreadIdx[t]].startTime
      /\ StartTimes(s_inflightRequests') = {Gens'[u] : u \in Threads} \ {0}
  BY FinishRequestSlots, GensType, Zenon DEF SafetyInv, TypeInv
<1>2. /\ s_tq \in Seq(WorkItem) /\ Len(s_tq) \in Nat
      /\ toFire \in [Threads -> Seq(WorkItem)] /\ toFire[t] = <<>>
      /\ s_latestCount \in Nat
      /\ \A i \in 1..Len(s_tq) : s_tq[i].m_gen \in Nat
  <2>1. s_tq \in Seq(WorkItem) /\ toFire \in [Threads -> Seq(WorkItem)] /\ s_latestCount \in Nat
    BY Zenon DEF SafetyInv, TypeInv, TypeOK
  <2>2. toFire[t] = <<>>
    BY Zenon DEF PlaceInv, FinishRequest, At
  <2> QED
    BY <2>1, <2>2, QueueType, SeqFacts, Zenon DEF SafetyInv
<1>3. CASE s_oldestRequestInFlight # Gens[t]
  <2>1. UNCHANGED <<toFire, s_tq>>
    BY <1>1, <1>3, Zenon DEF FinishRequest
  <2>2. \A o : Due(o)' <=> Due(o)
    BY <2>1, Zenon DEF Due
  <2>3. /\ 0 \in 0..Len(s_tq) /\ Len(s_tq) = Len(s_tq) - 0
        /\ \A i \in 1..(Len(s_tq) - 0) : s_tq[i] = s_tq[0 + i]
    BY <1>2
  <2>4. \A i \in 1..0 : FALSE
    OBVIOUS
  <2> WITNESS 0 \in 0..Len(s_tq)
  <2> QED
    BY <2>1, <2>2, <2>3, <2>4, Zenon
<1>4. CASE s_oldestRequestInFlight = Gens[t]
  <2>1. PICK limit \in StartTimes(s_inflightRequests') \cup {s_latestCount + 1},
             n \in 0..Len(s_tq) :
          /\ IsLimit(limit, s_inflightRequests')
          /\ IsFirePrefix(n, limit)
          /\ toFire' = [toFire EXCEPT ![t] = SubSeq(s_tq, 1, n)]
          /\ s_tq' = SubSeq(s_tq, n + 1, Len(s_tq))
    BY <1>1, <1>4, Zenon DEF FinishRequest, CollectWork
  <2> DEFINE fired == SubSeq(s_tq, 1, n)
  <2>2. /\ Len(fired) = n
        /\ \A i \in 1..n : fired[i] = s_tq[i]
        /\ Len(s_tq') = Len(s_tq) - n
        /\ \A i \in 1..(Len(s_tq) - n) : s_tq'[i] = s_tq[n + i]
    BY <1>2, <2>1, PrefixAndRest
  <2>3. /\ toFire'[t] = fired
        /\ \A u \in Threads \ {t} : toFire'[u] = toFire[u]
    BY <1>2, <2>1, Zenon
  <2> HIDE DEF fired
  <2>4. \A o : Due(o)' <=> Due(o) \/ \E i \in 1..n : s_tq[i].obj = o
    <3>1. \A i \in 1..Len(toFire[t]) : FALSE
      BY <1>2, EmptyFacts
    <3>2. /\ Len(toFire'[t]) = n
          /\ \A i \in 1..n : toFire'[t][i].obj = s_tq[i].obj
      BY <2>2, <2>3, Zenon
    <3>3. ASSUME NEW u \in Threads \ {t}, NEW o
          PROVE  (\E i \in 1..Len(toFire'[u]) : toFire'[u][i].obj = o) <=>
                 (\E i \in 1..Len(toFire[u]) : toFire[u][i].obj = o)
      BY <2>3, Zenon
    <3>4. \A o : (\E i \in 1..Len(toFire'[t]) : toFire'[t][i].obj = o) <=>
                (\E i \in 1..n : s_tq[i].obj = o)
      BY <3>2, Zenon
    <3>5. ASSUME NEW o, Due(o)' PROVE Due(o) \/ \E i \in 1..n : s_tq[i].obj = o
      <4>1. PICK u \in Threads : \E i \in 1..Len(toFire'[u]) : toFire'[u][i].obj = o
        BY <3>5, Zenon DEF Due
      <4>2. CASE u = t
        BY <3>4, <4>1, <4>2, Zenon
      <4>3. CASE u \in Threads \ {t}
        <5>1. \E i \in 1..Len(toFire[u]) : toFire[u][i].obj = o
          BY <3>3, <4>1, <4>3, Zenon
        <5> QED
          BY <5>1, Zenon DEF Due
      <4> QED
        BY <4>2, <4>3, Zenon
    <3>6. ASSUME NEW o, Due(o) PROVE Due(o)'
      <4>1. PICK u \in Threads : \E i \in 1..Len(toFire[u]) : toFire[u][i].obj = o
        BY <3>6, Zenon DEF Due
      <4>2. u \in Threads \ {t}
        BY <3>1, <4>1, Zenon
      <4>3. \E i \in 1..Len(toFire'[u]) : toFire'[u][i].obj = o
        BY <3>3, <4>1, <4>2, Zenon
      <4> QED
        BY <4>3, Zenon DEF Due
    <3>7. ASSUME NEW o, \E i \in 1..n : s_tq[i].obj = o PROVE Due(o)'
      BY <3>4, <3>7, Zenon DEF Due
    <3> QED
      BY <3>5, <3>6, <3>7, Zenon
  <2>5. ASSUME NEW i \in 1..n, NEW u \in Threads \ {t}, Gens[u] # 0
        PROVE  ~(Gens[u] < s_tq[i].m_gen)
    <3>2. limit <= Gens[u] /\ limit \in Nat /\ Gens[u] \in Nat
      <4>1. limit <= Gens[u]
        BY <2>1, <1>1, <2>5, Zenon DEF IsLimit
      <4>2. limit \in {Gens'[v] : v \in Threads} \cup {s_latestCount + 1}
        BY <1>1, <2>1, Zenon
      <4>3. limit \in Nat /\ Gens[u] \in Nat
        BY <1>1, <1>2, <4>2
      <4> QED
        BY <4>1, <4>3, Zenon
    <3>3. s_tq[i].m_gen < limit /\ s_tq[i].m_gen \in Nat
      <4>1. i \in 1..Len(s_tq)
        BY <1>2
      <4> QED
        BY <1>2, <2>1, <4>1, Zenon DEF IsFirePrefix
    <3> QED
      BY <3>2, <3>3
  <2> QED
    BY <2>1, <2>2, <2>3, <2>4, <2>5, Zenon
<1> QED
  BY <1>3, <1>4, Zenon

LEMMA FinishRequestDefers ==
  ASSUME SafetyInv, TypeInv', PlaceInv, NEW t \in Threads, FinishRequest(t)
  PROVE  PlaceInv' /\ DStep
<1> USE DEF kIdleGenCount
<1>1. /\ Gens' = [Gens EXCEPT ![t] = 0] /\ Gens \in [Threads -> Nat]
  BY FinishRequestSlots, GensType, Zenon DEF SafetyInv, TypeInv
<1>2. /\ pc[t] = "running" /\ pc' = [pc EXCEPT ![t] = "casPending"]
      /\ pc \in [Threads -> PcValues] /\ Gens[t] # 0
      /\ UNCHANGED <<enq, reachable, freed, s_destroyed>>
  <2>1. pc[t] = "running" /\ pc \in [Threads -> PcValues]
    BY Zenon DEF FinishRequest, At, SafetyInv, TypeInv, TypeOK
  <2> QED
    BY <2>1, Zenon DEF FinishRequest, SafetyInv, SlotInv
<1>3. PICK n \in 0..Len(s_tq) :
        /\ Len(s_tq') = Len(s_tq) - n
        /\ \A i \in 1..(Len(s_tq) - n) : s_tq'[i] = s_tq[n + i]
        /\ \A o : Due(o)' <=> Due(o) \/ \E i \in 1..n : s_tq[i].obj = o
        /\ \A i \in 1..n, u \in Threads \ {t} :
             Gens[u] # 0 => ~(Gens[u] < s_tq[i].m_gen)
        /\ \A u \in Threads \ {t} : toFire'[u] = toFire[u]
  BY FinishRequestMoves, Zenon
<1> DEFINE Fired(o) == \E i \in 1..n : s_tq[i].obj = o
<1>4. Len(s_tq) \in Nat
  BY SeqFacts DEF TypeInv
<1>5. /\ \A i \in 1..Len(s_tq') : n + i \in 1..Len(s_tq) /\ s_tq'[i] = s_tq[n + i]
      /\ \A i \in 1..n : i \in 1..Len(s_tq)
      /\ \A i \in 1..Len(s_tq) :
           i \in 1..n \/ (i - n \in 1..Len(s_tq') /\ s_tq'[i - n] = s_tq[i])
  BY <1>3, <1>4
<1>6. \A o : /\ Fired(o) => Queued(o)
             /\ Queued(o)' <=> Queued(o) /\ ~Fired(o)
             /\ Due(o)' <=> Due(o) \/ Fired(o)
             /\ BeingEnqueued(o)' <=> BeingEnqueued(o)
  <2> SUFFICES ASSUME NEW o
               PROVE  /\ Fired(o) => Queued(o)
                      /\ Queued(o)' <=> Queued(o) /\ ~Fired(o)
                      /\ Due(o)' <=> Due(o) \/ Fired(o)
                      /\ BeingEnqueued(o)' <=> BeingEnqueued(o)
    BY Zenon
  <2>2. Queued(o)' => Queued(o) /\ ~Fired(o)
    BY <1>3, <1>5 DEF Queued, PlaceInv
  <2>3. Queued(o) /\ ~Fired(o) => Queued(o)'
    BY <1>5, Zenon DEF Queued
  <2>4. BeingEnqueued(o)' <=> BeingEnqueued(o)
    BY <1>2, Zenon DEF BeingEnqueued
  <2>5. Due(o)' <=> Due(o) \/ Fired(o)
    BY <1>3, Zenon
  <2> QED
    BY <1>5, <2>2, <2>3, <2>4, <2>5, Zenon DEF Queued
<1>7. PlaceInv'
  <2>1. \A i, j \in 1..Len(s_tq') : s_tq'[i].obj = s_tq'[j].obj => i = j
    <3> SUFFICES ASSUME NEW i \in 1..Len(s_tq'), NEW j \in 1..Len(s_tq'),
                        s_tq'[i].obj = s_tq'[j].obj
                 PROVE  i = j
      BY Zenon
    <3>1. /\ n + i \in 1..Len(s_tq) /\ n + j \in 1..Len(s_tq)
          /\ s_tq[n + i].obj = s_tq[n + j].obj
      BY <1>5, Zenon
    <3>2. n + i = n + j
      BY <3>1, Zenon DEF PlaceInv
    <3> QED
      BY <3>2
  <2>3. ~s_destroyed
    BY <1>2, Zenon DEF PlaceInv
  <2> HIDE DEF Fired
  <2> QED
    BY <1>2, <2>1, <1>3, <1>6, Zenon DEF PlaceInv
<1>8. InFlight' = InFlight \ {t} /\ t \in InFlight
  BY <1>1, <1>2, Mapping, Zenon
<1>9. ASSUME NEW o PROVE Fired(o) => WaitsOf(o) \subseteq {t}
  <2> SUFFICES ASSUME NEW u \in WaitsOf(o), u # t, NEW i \in 1..n, s_tq[i].obj = o
               PROVE  FALSE
    BY Zenon
  <2>1. PICK j \in 1..Len(s_tq) : s_tq[j].obj = o /\ Gens[u] < s_tq[j].m_gen
    BY Mapping, Zenon
  <2>2. j = i
    BY <2>1 DEF PlaceInv
  <2> QED
    BY <1>3, <2>1, <2>2, Mapping, Zenon
<1>10. ASSUME NEW o PROVE WaitsOf(o)' = WaitsOf(o) \ {t}
  <2>1. \A u \in InFlight' : Gens'[u] = Gens[u] /\ u \in InFlight /\ u # t
    BY <1>1, <1>8, Mapping, Zenon
  <2>2. WaitsOf(o)' \subseteq WaitsOf(o) \ {t}
    BY Mapping, <1>5, <2>1
  <2>3. WaitsOf(o) \ {t} \subseteq WaitsOf(o)'
    <3> SUFFICES ASSUME NEW u \in WaitsOf(o), u # t PROVE u \in WaitsOf(o)'
      BY Zenon
    <3>1. PICK i \in 1..Len(s_tq) : s_tq[i].obj = o /\ Gens[u] < s_tq[i].m_gen
      BY Mapping, Zenon
    <3>4. /\ i - n \in 1..Len(s_tq')
          /\ s_tq'[i - n].obj = o /\ Gens'[u] < s_tq'[i - n].m_gen
      BY <1>5, <2>1, <3>1, <1>8, Mapping, <1>3, Zenon
    <3> QED
      BY <1>8, <3>4, Mapping, Zenon
  <2> QED
    BY <2>2, <2>3, Zenon
<1> HIDE DEF Fired
<1>11. ASSUME NEW o \in Objects
       PROVE  /\ StateOf(o)' = IF Fired(o) THEN "due" ELSE StateOf(o)
              /\ Fired(o) => StateOf(o) = "queued"
  BY <1>2, <1>6, States, Zenon DEF PlaceInv
<1>12. Deferred!FinishRequest(t)
  <2> DEFINE due == {o \in Objects : Fired(o)}
             st == [o \in Objects |-> StateOf(o)]
             wt == [o \in Objects |-> WaitsOf(o)]
  <2>1. due \in SUBSET {o \in Objects : st[o] = "queued" /\ wt[o] \subseteq {t}}
    BY <1>9, <1>11, Zenon
  <2>2. st' = [o \in Objects |-> IF o \in due THEN "due" ELSE st[o]]
    BY <1>11, Zenon
  <2>3. wt' = [o \in Objects |-> wt[o] \ {t}]
    BY <1>10, Zenon
  <2> QED
    BY <1>8, <2>1, <2>2, <2>3, Zenon DEF Deferred!FinishRequest
<1> QED
  BY <1>7, <1>12, Zenon DEF DStep, Deferred!DeferredNext

LEMMA RunItemDefers ==
  ASSUME SafetyInv, TypeInv', PlaceInv, NEW t \in Threads, RunItem(t)
  PROVE  PlaceInv' /\ DStep
<1> DEFINE fn == Head(toFire[t]).obj
<1>1. /\ toFire \in [Threads -> Seq(WorkItem)] /\ toFire[t] # <<>> /\ pc[t] = "firing"
  BY DEF TypeInv, TypeOK, RunItem, At
<1>2. /\ freed' = freed \cup {fn}
      /\ toFire' = [toFire EXCEPT ![t] = Tail(@)]
      /\ UNCHANGED <<g_nextThreadIdx, tl_thisThreadIdx, s_inflightRequests,
                     s_oldestRequestInFlight, s_tq, enq, reachable, pc, s_destroyed>>
  BY Zenon DEF RunItem, idxVars, genVars
<1>3. /\ Len(toFire[t]) \in Nat \ {0}
      /\ Head(toFire[t]) = toFire[t][1]
      /\ Len(Tail(toFire[t])) = Len(toFire[t]) - 1
      /\ \A i \in 1..(Len(toFire[t]) - 1) : Tail(toFire[t])[i] = toFire[t][i + 1]
  BY <1>1, HeadTailFacts, Zenon
<1>4. Gens' = Gens
  BY <1>2, CountsKept, Zenon
<1>5. fn \in Objects /\ Due(fn)
  <2>1. toFire[t][1] \in WorkItem
    BY <1>1, <1>3, SeqFacts
  <2> QED
    BY <1>1, <1>3, <2>1 DEF Due, WorkItem
<1>6. \A o : /\ Due(o)' => Due(o)
             /\ Due(o) /\ o # fn => Due(o)'
  <2>1. /\ \A i \in 1..Len(Tail(toFire[t])) :
             i + 1 \in 1..Len(toFire[t]) /\ Tail(toFire[t])[i] = toFire[t][i + 1]
        /\ \A i \in 1..Len(toFire[t]) :
             \/ i = 1
             \/ i - 1 \in 1..Len(Tail(toFire[t])) /\ Tail(toFire[t])[i - 1] = toFire[t][i]
    BY <1>3
  <2>2. toFire'[t] = Tail(toFire[t]) /\ \A u \in Threads \ {t} : toFire'[u] = toFire[u]
    BY <1>1, <1>2, Zenon
  <2>3. \A o : Due(o)' => Due(o)
    BY <1>1, <1>2, <2>1 DEF Due
  <2>4. ASSUME NEW o, o # fn, NEW u \in Threads, NEW i \in 1..Len(toFire[u]),
               toFire[u][i].obj = o
        PROVE  Due(o)'
    <3>1. CASE u # t
      BY <2>2, <2>4, <3>1, Zenon DEF Due
    <3>2. CASE u = t
      <4>2. i - 1 \in 1..Len(toFire'[t]) /\ toFire'[t][i - 1].obj = o
        BY <2>2, <2>4, <3>2
      <4> QED
        BY <4>2, Zenon DEF Due
    <3> QED
      BY <3>1, <3>2, Zenon
  <2>5. \A o : Due(o) /\ o # fn => Due(o)'
    <3> SUFFICES ASSUME NEW o, Due(o), o # fn PROVE Due(o)'
      BY Zenon
    <3>1. PICK u \in Threads : \E i \in 1..Len(toFire[u]) : toFire[u][i].obj = o
      BY Zenon DEF Due
    <3> QED
      BY <2>4, <3>1, Zenon
  <2> QED
    BY <2>3, <2>5, Zenon
<1> HIDE DEF fn
<1>7. \A o : (Queued(o)' <=> Queued(o)) /\ (BeingEnqueued(o)' <=> BeingEnqueued(o))
  BY <1>2, Zenon DEF Queued, BeingEnqueued
<1>8. PlaceInv'
  BY <1>2, <1>5, <1>6, <1>7, <1>1, Zenon DEF PlaceInv
<1>9. ASSUME NEW o \in Objects
      PROVE  StateOf(o)' = IF o = fn THEN "done" ELSE StateOf(o)
  BY <1>2, <1>6, <1>7, States, Zenon
<1>10. CASE fn \in freed
  BY <1>2, <1>4, <1>8, <1>9, <1>10, States, SameView, Zenon
<1>11. CASE fn \notin freed
  <2> DEFINE st == [o \in Objects |-> StateOf(o)]
  <2>3. st' = [st EXCEPT ![fn] = "done"]
    <3>1. st' = [o \in Objects |-> IF o = fn THEN "done" ELSE st[o]]
      BY <1>9, Zenon
    <3> QED
      BY <3>1, ExceptIs, Zenon
  <2>4. Deferred!Run(fn)
    BY <1>5, <1>11, States, <1>2, <1>4, SameWaits, <2>3, Zenon DEF Deferred!Run
  <2> QED
    BY <1>5, <1>8, <2>4, Zenon DEF DStep, Deferred!DeferredNext
<1> QED
  BY <1>10, <1>11, Zenon

\* An object being enqueued stays live; once the queue is gone, it is dropped.
LEMMA EnqueueDefers ==
  ASSUME SafetyInv, TypeInv', PlaceInv, NEW t \in Threads, NEW o \in Objects, Enqueue(t, o)
  PROVE  PlaceInv' /\ DStep
<1>1. /\ reachable' = reachable \ {o} /\ o \in reachable
      /\ enq' = [enq EXCEPT ![t] = IF s_destroyed THEN @ ELSE [obj |-> o, time |-> now]]
      /\ enq \in [Threads -> [obj : Objects, time : Nat] \cup {NoEnqueue}]
      /\ Free(t)
      /\ UNCHANGED <<g_nextThreadIdx, tl_thisThreadIdx, s_inflightRequests,
                     s_oldestRequestInFlight, s_tq, toFire, freed, pc, s_destroyed>>
  BY Zenon DEF Enqueue, idxVars, genVars, SafetyInv, TypeInv, TypeOK
<1>2. Gens' = Gens
  BY <1>1, CountsKept, Zenon
<1>3. \A p : (Queued(p)' <=> Queued(p)) /\ (Due(p)' <=> Due(p))
  BY <1>1, Zenon DEF Queued, Due
<1>4. o \notin freed /\ ~Due(o) /\ ~Queued(o) /\ ~BeingEnqueued(o)
  BY <1>1, Zenon DEF SafetyInv, ReachableInv
<1>5. StateOf(o) = "live"
  BY <1>1, <1>4, States, Zenon
<1>6. CASE s_destroyed
  <2>2. \A p : BeingEnqueued(p)' <=> BeingEnqueued(p)
    BY <1>1, <1>6, Zenon DEF BeingEnqueued
  <2>3. PlaceInv'
    BY <1>1, <1>3, <1>6, <2>2, Zenon DEF PlaceInv, Free
  <2>4. ASSUME NEW p \in Objects
        PROVE  StateOf(p)' = IF p \in {o} THEN "discarded" ELSE StateOf(p)
    BY <1>1, <1>3, <1>4, <2>2, States, Zenon
  <2>6. InFlight = {}
    BY <1>6, Mapping, Zenon DEF SafetyInv, SlotInv, PlaceInv
  <2>7. InFlight' = InFlight /\ \A p : WaitsOf(p)' = WaitsOf(p)
    BY <1>1, <1>2, SameWaits, Zenon
  <2>8. Deferred!Discard
    <3> DEFINE st == [p \in Objects |-> StateOf(p)]
    <3>1. {o} \in SUBSET {p \in Objects : st[p] \in {"live", "queued"}}
      BY <1>5, Zenon
    <3>2. st' = [p \in Objects |-> IF p \in {o} THEN "discarded" ELSE st[p]]
      BY <2>4, Zenon
    <3> QED
      BY <2>6, <2>7, <3>1, <3>2, Zenon DEF Deferred!Discard
  <2> QED
    BY <2>3, <2>8, Zenon DEF DStep, Deferred!DeferredNext
<1>7. CASE ~s_destroyed
  <2>1. /\ enq'[t].obj = o
        /\ \A u \in Threads \ {t} : enq'[u] = enq[u]
        /\ enq[t].obj \notin Objects
    BY <1>1, <1>7 DEF Free, NoEnqueue
  <2>2. \A p \in Objects : BeingEnqueued(p)' <=> BeingEnqueued(p) \/ p = o
    BY <2>1, Zenon DEF BeingEnqueued
  <2>3. \A u, v \in Threads : enq'[u].obj = enq'[v].obj /\ enq'[u].obj \in Objects => u = v
    <3>1. \A u \in Threads : enq[u].obj # o
      BY <1>4, Zenon DEF BeingEnqueued
    <3> QED
      BY <2>1, <3>1 DEF PlaceInv
  <2>4. PlaceInv'
    BY <1>1, <1>3, <1>4, <1>7, <2>2, <2>3, Zenon DEF PlaceInv
  <2>5. \A p \in Objects : StateOf(p)' = StateOf(p)
    BY <1>1, <1>3, <2>2, States, Zenon
  <2> QED
    BY <1>1, <1>2, <2>4, <2>5, SameView, Zenon
<1> QED
  BY <1>6, <1>7, Zenon

\* The item's count is above the counts of exactly the requests in flight.
LEMMA EnqueueLockedDefers ==
  ASSUME SafetyInv, TypeInv', PlaceInv, NEW t \in Threads, EnqueueLocked(t)
  PROVE  PlaceInv' /\ DStep
<1> DEFINE gen == correctTime(enq[t].time)
           fn == enq[t].obj
           item == [obj |-> fn, m_gen |-> gen]
<1>1. /\ s_tq' = Append(s_tq, item)
      /\ enq' = [enq EXCEPT ![t] = NoEnqueue]
      /\ UNCHANGED <<g_nextThreadIdx, tl_thisThreadIdx, s_inflightRequests,
                     s_oldestRequestInFlight, toFire, reachable, freed, pc, s_destroyed>>
  BY Zenon DEF EnqueueLocked, idxVars, clientVars
<1>2. /\ enq[t] \in [obj : Objects, time : Nat] /\ DOMAIN enq = Threads /\ ~Free(t)
      /\ s_latestCount \in Nat /\ s_tq \in Seq(WorkItem)
  BY Zenon DEF EnqueueLocked, Free, SafetyInv, TypeInv, TypeOK
<1>3. gen \in Nat /\ gen > s_latestCount
  BY <1>2, CorrectTimeGrows, Zenon
<1>4. item \in WorkItem /\ item.obj = fn /\ item.m_gen = gen /\ fn \in Objects
  BY <1>2, <1>3, Zenon DEF WorkItem
<1>5. BeingEnqueued(fn) /\ fn \notin freed /\ ~Due(fn) /\ ~Queued(fn)
  BY <1>4, Zenon DEF PlaceInv, BeingEnqueued
<1>6. /\ enq'[t].obj \notin Objects
      /\ \A u \in Threads \ {t} : enq'[u] = enq[u] /\ enq[u].obj # fn
  BY <1>1, <1>2, <1>4, Zenon DEF NoEnqueue, PlaceInv
<1>7. Gens' = Gens /\ \A u \in Threads : Gens[u] < gen
  <2>1. Gens' = Gens /\ Gens \in [Threads -> Nat]
    BY <1>1, CountsKept, GensType, Zenon DEF SafetyInv, TypeInv
  <2> QED
    BY <1>2, <1>3, <2>1 DEF SafetyInv, CountInv
<1> HIDE DEF gen, item, fn
<1>8. /\ \A i \in 1..Len(s_tq) : i \in 1..Len(s_tq') /\ s_tq'[i] = s_tq[i]
      /\ Len(s_tq) + 1 \in 1..Len(s_tq') /\ s_tq'[Len(s_tq) + 1] = item
      /\ \A i \in 1..Len(s_tq') :
           \/ i \in 1..Len(s_tq) /\ s_tq'[i] = s_tq[i]
           \/ i = Len(s_tq) + 1 /\ s_tq'[i] = item
  <2>1. s_tq' = Append(s_tq, item) /\ item \in WorkItem /\ s_tq \in Seq(WorkItem)
    BY <1>1, <1>2, <1>4, Zenon
  <2> QED
    BY <2>1, SeqFacts, AppendFacts
<1>9. /\ \A o : Queued(o)' <=> Queued(o) \/ o = fn
      /\ \A o : Due(o)' <=> Due(o)
      /\ \A o \in Objects : BeingEnqueued(o)' <=> BeingEnqueued(o) /\ o # fn
  BY <1>4, <1>8, <1>1, <1>6 DEF Queued, Due, BeingEnqueued, fn
<1>10. PlaceInv'
  <2>1. ASSUME NEW i \in 1..Len(s_tq'), NEW j \in 1..Len(s_tq'), s_tq'[i].obj = s_tq'[j].obj
        PROVE  i = j
    BY <1>4, <1>5, <1>8, <2>1 DEF Queued, PlaceInv
  <2>2. \A u, v \in Threads : enq'[u].obj = enq'[v].obj /\ enq'[u].obj \in Objects => u = v
    BY <1>6, Zenon DEF PlaceInv
  <2>3. /\ \A o \in Objects : Queued(o)' => o \notin freed' /\ ~Due(o)'
        /\ \A o \in Objects : BeingEnqueued(o)' => o \notin freed' /\ ~Due(o)' /\ ~Queued(o)'
    BY <1>1, <1>5, <1>9, Zenon DEF PlaceInv
  <2>4. ~s_destroyed
    BY <1>2, Zenon DEF PlaceInv
  <2> QED
    BY <1>1, <2>1, <2>2, <2>3, <2>4, Zenon DEF PlaceInv
<1>11. ASSUME NEW o \in Objects
       PROVE  StateOf(o)' = IF o = fn THEN "queued" ELSE StateOf(o)
  BY <1>1, <1>5, <1>9, States, Zenon
<1>12. InFlight' = InFlight
  BY <1>7, Mapping, Zenon
<1>13. ASSUME NEW o PROVE WaitsOf(o)' = IF o = fn THEN InFlight ELSE WaitsOf(o)
  <2>1. CASE o = fn
    BY <1>4, <1>7, Mapping, <1>8, <2>1, Zenon
  <2>2. CASE o # fn
    <3>1. \A u : (\E i \in 1..Len(s_tq') : s_tq'[i].obj = o /\ Gens'[u] < s_tq'[i].m_gen)
                 <=> (\E i \in 1..Len(s_tq) : s_tq[i].obj = o /\ Gens[u] < s_tq[i].m_gen)
      BY <1>4, <1>7, <1>8, <2>2, Zenon
    <3>2. /\ WaitsOf(o) = {u \in InFlight : \E i \in 1..Len(s_tq) :
                            s_tq[i].obj = o /\ Gens[u] < s_tq[i].m_gen}
          /\ WaitsOf(o)' = {u \in InFlight : \E i \in 1..Len(s_tq') :
                             s_tq'[i].obj = o /\ Gens'[u] < s_tq'[i].m_gen}
      BY <1>12, Mapping, Zenon
    <3> QED
      BY <2>2, <3>1, <3>2, Zenon
  <2> QED
    BY <2>1, <2>2, Zenon
<1>14. Deferred!Enqueue(fn)
  <2> DEFINE st == [o \in Objects |-> StateOf(o)]
             wt == [o \in Objects |-> WaitsOf(o)]
  <2>2. st' = [st EXCEPT ![fn] = "queued"]
    <3>1. st' = [o \in Objects |-> IF o = fn THEN "queued" ELSE st[o]]
      BY <1>11, Zenon
    <3> QED
      BY <3>1, ExceptIs, Zenon
  <2>3. wt' = [wt EXCEPT ![fn] = InFlight]
    <3>1. wt' = [o \in Objects |-> IF o = fn THEN InFlight ELSE wt[o]]
      BY <1>13, Zenon
    <3> QED
      BY <3>1, ExceptIs, Zenon
  <2> QED
    BY <1>12, <1>4, <1>5, States, <2>2, <2>3, Zenon DEF Deferred!Enqueue
<1> QED
  BY <1>4, <1>10, <1>14, Zenon DEF DStep, Deferred!DeferredNext

LEMMA DestroyQueueDefers ==
  ASSUME SafetyInv, TypeInv', PlaceInv, DestroyQueue
  PROVE  PlaceInv' /\ DStep
<1>1. /\ Len(s_tq') = 0
      /\ \A t \in Threads : pc[t] = "idle" /\ Free(t)
      /\ UNCHANGED <<g_nextThreadIdx, tl_thisThreadIdx, s_inflightRequests,
                     s_oldestRequestInFlight, toFire, enq, reachable, freed, pc>>
  BY EmptyFacts, Zenon DEF DestroyQueue, idxVars, clientVars
<1>2. Gens' = Gens /\ 1..Len(s_tq') = {}
  BY <1>1, CountsKept
<1>3. \A o : /\ Due(o)' <=> Due(o)
             /\ ~Queued(o)'
             /\ BeingEnqueued(o)' <=> BeingEnqueued(o)
  BY <1>1, <1>2, Zenon DEF Due, Queued, BeingEnqueued
<1>4. PlaceInv'
  BY <1>1, <1>2, <1>3, Zenon DEF PlaceInv, Free
<1>5. InFlight = {}
  BY <1>1, Mapping, Zenon DEF SafetyInv, SlotInv
<1>6. InFlight' = InFlight /\ \A o : WaitsOf(o)' = WaitsOf(o)
  <2>1. InFlight' = {}
    BY <1>2, <1>5, Mapping, Zenon
  <2>2. \A o : WaitsOf(o) = {} /\ WaitsOf(o)' = {}
    BY <1>5, <2>1, Mapping, Zenon
  <2> QED
    BY <1>5, <2>1, <2>2, Zenon
<1>7. ASSUME NEW o \in Objects
      PROVE  /\ StateOf(o)' = IF Queued(o) THEN "discarded" ELSE StateOf(o)
             /\ Queued(o) => StateOf(o) = "queued"
  BY <1>1, <1>3, States DEF PlaceInv, SafetyInv, ReachableInv, BeingEnqueued, Free,
     NoEnqueue
<1>8. Deferred!Discard
  <2> DEFINE st == [o \in Objects |-> StateOf(o)]
             gone == {o \in Objects : Queued(o)}
  <2>1. gone \in SUBSET {o \in Objects : st[o] \in {"live", "queued"}}
    BY <1>7, Zenon
  <2>2. st' = [o \in Objects |-> IF o \in gone THEN "discarded" ELSE st[o]]
    BY <1>7, Zenon
  <2> QED
    BY <1>5, <1>6, <2>1, <2>2, Zenon DEF Deferred!Discard
<1> QED
  BY <1>4, <1>8, Zenon DEF DStep, Deferred!DeferredNext

LEMMA PlaceInit == Init => PlaceInv /\ Deferred!DeferredInit
<1> SUFFICES ASSUME Init PROVE PlaceInv /\ Deferred!DeferredInit
  BY Zenon
<1>1. /\ DOMAIN s_inflightRequests = {}
      /\ pc = [t \in Threads |-> "idle"]
      /\ enq = [t \in Threads |-> NoEnqueue]
      /\ toFire = [t \in Threads |-> <<>>] /\ s_tq = <<>>
      /\ reachable = Objects /\ freed = {} /\ s_destroyed = FALSE
  BY Zenon DEF Init
<1>2. Len(s_tq) = 0 /\ \A t \in Threads : Len(toFire[t]) = 0
  BY <1>1, EmptyFacts, Zenon
<1>3. \A o \in Objects : ~Queued(o) /\ ~Due(o) /\ ~BeingEnqueued(o)
  BY <1>1, <1>2 DEF Queued, Due, BeingEnqueued, NoEnqueue
<1>4. PlaceInv
  BY <1>3, <1>1, <1>2 DEF BeingEnqueued, PlaceInv
<1>5. InFlight = {}
  BY <1>1, Zenon DEF InFlight, GenOf
<1>6. \A o \in Objects : StateOf(o) = "live" /\ WaitsOf(o) = {}
  BY <1>1, <1>3, <1>5, States, Mapping, Zenon
<1> QED
  BY <1>4, <1>5, <1>6, Zenon DEF Deferred!DeferredInit

LEMMA DefersStep == SafetyInv /\ PlaceInv /\ [Next]_vars => PlaceInv' /\ DStep
<1> SUFFICES ASSUME SafetyInv, PlaceInv, [Next]_vars PROVE PlaceInv' /\ DStep
  BY Zenon
<1>1. TypeInv' /\ pc \in [Threads -> PcValues]
  BY TypeStep, Zenon DEF SafetyInv, TypeInv, TypeOK
<1> DEFINE quiet ==
      UNCHANGED <<g_nextThreadIdx, tl_thisThreadIdx, s_inflightRequests,
                  s_oldestRequestInFlight, s_tq, toFire, enq, reachable, freed,
                  s_destroyed>>
<1>2. ASSUME quiet, UNCHANGED pc PROVE PlaceInv' /\ DStep
  BY <1>2, CountsKept, QuietView, Zenon
<1>3. CASE Tick \/ TriggerGC \/ UNCHANGED vars
  BY <1>2, <1>3, Zenon DEF Tick, TriggerGC, vars, idxVars, genVars, clientVars
<1>4. CASE DestroyQueue
  BY <1>1, <1>4, DestroyQueueDefers, Zenon
<1>5. ASSUME NEW t \in Threads, ThreadStep(t) PROVE PlaceInv' /\ DStep
  <2>1. CASE StartRequest(t)
    <3>1. Gens' = Gens
      BY <2>1, StartRequestSlots, Zenon DEF SafetyInv
    <3>2. /\ UNCHANGED <<s_tq, toFire, enq, reachable, freed, s_destroyed>>
          /\ ~s_destroyed /\ pc[t] = "idle" /\ pc' = [pc EXCEPT ![t] = "starting"]
      BY <2>1, Zenon DEF StartRequest, At, genVars, clientVars
    <3> QED
      BY <1>1, <3>1, <3>2, QuietView, Zenon
  <2>2. CASE StartRequestLocked(t)
    BY <1>1, <2>2, StartRequestDefers, Zenon
  <2>3. CASE FinishRequest(t)
    BY <1>1, <2>3, FinishRequestDefers, Zenon
  <2>4. CASE CasPendingToIdle(t) \/ CasNoPendingToIdle(t)
    <3>1. quiet /\ pc[t] # "idle"
          /\ \E p \in {"casPending", "casNoPending", "firing"} : pc' = [pc EXCEPT ![t] = p]
      BY <2>4, Zenon DEF CasPendingToIdle, CasNoPendingToIdle, ChangeToIdle, At, idxVars,
         genVars, clientVars
    <3>4. ~s_destroyed /\ ~s_destroyed'
      BY <3>1, Zenon DEF PlaceInv
    <3> QED
      BY <3>1, CountsKept, <1>1, <3>4, QuietView, Zenon
  <2>5. CASE RunItem(t)
    BY <1>1, <2>5, RunItemDefers, Zenon
  <2>6. CASE FinishReturn(t)
    <3>1. /\ quiet /\ pc[t] = "firing" /\ toFire[t] = <<>>
          /\ pc' = [pc EXCEPT ![t] = "idle"]
      BY <2>6, Zenon DEF FinishReturn, At, idxVars, genVars, clientVars
    <3>2. Gens' = Gens
      BY <3>1, CountsKept, Zenon
    <3>3. ~s_destroyed /\ ~s_destroyed'
      BY <3>1, Zenon DEF PlaceInv
    <3> QED
      BY <1>1, <3>1, <3>2, <3>3, QuietView, Zenon
  <2>7. CASE EnqueueLocked(t)
    BY <1>1, <2>7, EnqueueLockedDefers, Zenon
  <2>8. ASSUME NEW o \in Objects, Acquire(t, o) \/ Enqueue(t, o)
        PROVE  PlaceInv' /\ DStep
    BY <1>2, <1>1, EnqueueDefers, <2>8, Zenon DEF Acquire, idxVars, genVars
  <2>9. CASE SetPendingGCStatus(t) \/ SetPendingGCFlag(t) \/ HandlePendingGC(t)
    BY <1>2, <2>9, Zenon DEF SetPendingGCStatus, SetPendingGCFlag, HandlePendingGC,
                             idxVars, genVars, clientVars
  <2> QED
    BY <1>5, <2>1, <2>2, <2>3, <2>4, <2>5, <2>6, <2>7, <2>8, <2>9, Zenon DEF ThreadStep
<1> QED
  BY <1>3, <1>4, <1>5, Zenon DEF Next

\* Comparing counts implements remembering requests: every step of the
\* treadmill is a step of the abstract deferral or leaves its view unchanged.
THEOREM TreadmillDefersWork == Spec => DefersWork
<1>1. Init => SafetyInv /\ PlaceInv /\ Deferred!DeferredInit
  BY SafetyInit, PlaceInit, Zenon
<1>2. SafetyInv /\ PlaceInv /\ [Next]_vars
        => SafetyInv' /\ PlaceInv' /\ [Deferred!DeferredNext]_(Deferred!dvars)
  BY SafetyStep, DefersStep, Zenon DEF DStep
<1> QED
  BY <1>1, <1>2, PTL DEF Spec, DefersWork, Deferred!DeferredSpec

=============================================================================
