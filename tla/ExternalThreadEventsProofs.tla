--------------------- MODULE ExternalThreadEventsProofs ---------------------
(***************************************************************************)
(* Proofs about ExternalThreadEvents, for every set of events.             *)
(***************************************************************************)
EXTENDS ExternalThreadEvents, SequenceTheorems, TLAPS

USE EventsAssumption, SMTT(15), ZenonT(15)

-----------------------------------------------------------------------------
(* Lists without duplicates.                                               *)

NoDup(s) == \A i, j \in 1..Len(s) : s[i] = s[j] => i = j

\* Linking a wait handle in front of a list.
LEMMA Push ==
  ASSUME NEW S, NEW q \in Seq(S), NEW e \in S, e \notin Elements(q), NoDup(q)
  PROVE  /\ <<e>> \o q \in Seq(S)
         /\ <<e>> \o q # <<>>
         /\ Elements(<<e>> \o q) = {e} \cup Elements(q)
         /\ NoDup(<<e>> \o q)
<1> DEFINE p == <<e>> \o q
<1>1. <<e>> \in Seq(S) /\ Len(<<e>>) = 1 /\ <<e>>[1] = e
  OBVIOUS
<1>2. Len(q) \in Nat
  BY LenProperties
<1>3. /\ p \in Seq(S)
      /\ Len(p) = Len(q) + 1
      /\ \A i \in 1..Len(p) : p[i] = IF i <= 1 THEN e ELSE q[i - 1]
  BY <1>1, <1>2, ConcatProperties
<1> HIDE DEF p
<1>4. p[1] = e /\ \A i \in 1..Len(q) : i + 1 \in 1..Len(p) /\ p[i + 1] = q[i]
  BY <1>2, <1>3
<1>5. \A i \in 1..Len(p) : i = 1 \/ (i - 1 \in 1..Len(q) /\ p[i] = q[i - 1])
  BY <1>2, <1>3
<1>6. 1 \in 1..Len(p) /\ p # <<>>
  BY <1>2, <1>3, EmptySeq
<1>7. Elements(p) = {e} \cup Elements(q)
  BY <1>4, <1>5, <1>6 DEF Elements
<1>8. NoDup(p)
  <2> SUFFICES ASSUME NEW i \in 1..Len(p), NEW j \in 1..Len(p), p[i] = p[j]
               PROVE  i = j
    BY DEF NoDup
  <2>1. CASE i = 1 \/ j = 1
    BY <1>4, <1>5, <2>1, Zenon DEF Elements
  <2>2. CASE i # 1 /\ j # 1
    <3>1. q[i - 1] = q[j - 1] /\ i - 1 \in 1..Len(q) /\ j - 1 \in 1..Len(q)
      BY <1>5, <2>2
    <3>2. i - 1 = j - 1
      BY <3>1 DEF NoDup
    <3> QED
      BY <3>2
  <2> QED
    BY <2>1, <2>2
<1> QED
  BY <1>3, <1>6, <1>7, <1>8 DEF p

\* Unlinking the first wait handle of a list.
LEMMA Pop ==
  ASSUME NEW S, NEW q \in Seq(S), q # <<>>, NoDup(q)
  PROVE  /\ Tail(q) \in Seq(S) /\ Head(q) \in S
         /\ Head(q) \in Elements(q)
         /\ Elements(Tail(q)) = Elements(q) \ {Head(q)}
         /\ NoDup(Tail(q))
<1>1. /\ Len(q) \in Nat /\ Len(q) >= 1
      /\ Head(q) = q[1] /\ q[1] \in S
      /\ Tail(q) \in Seq(S)
      /\ Len(Tail(q)) = Len(q) - 1
      /\ \A i \in 1..Len(Tail(q)) : Tail(q)[i] = q[i + 1]
  BY HeadTailProperties, EmptySeq, LenProperties, ElementOfSeq
<1>2. 1 \in 1..Len(q) /\ \A i \in 1..Len(Tail(q)) : i + 1 \in 1..Len(q) /\ i + 1 # 1
  BY <1>1
<1>3. \A i \in 1..Len(q) : i = 1 \/ (i - 1 \in 1..Len(Tail(q)) /\ q[i] = Tail(q)[i - 1])
  BY <1>1
<1>4. Head(q) \in Elements(q)
  BY <1>1, <1>2 DEF Elements
<1>5. \A i \in 1..Len(Tail(q)) : Tail(q)[i] # q[1]
  BY <1>1, <1>2 DEF NoDup
<1>6. Elements(Tail(q)) = Elements(q) \ {Head(q)}
  <2>1. \A x \in Elements(Tail(q)) : x \in Elements(q) /\ x # Head(q)
    BY <1>1, <1>2, <1>5 DEF Elements
  <2>2. \A x \in Elements(q) : x = Head(q) \/ x \in Elements(Tail(q))
    BY <1>1, <1>3 DEF Elements
  <2> QED
    BY <2>1, <2>2
<1>7. NoDup(Tail(q))
  <2> SUFFICES ASSUME NEW i \in 1..Len(Tail(q)), NEW j \in 1..Len(Tail(q)),
                      Tail(q)[i] = Tail(q)[j]
               PROVE  i = j
    BY DEF NoDup
  <2>1. i + 1 = j + 1
    BY <1>1, <1>2 DEF NoDup
  <2> QED
    BY <2>1, <1>1
<1> QED
  BY <1>1, <1>4, <1>6, <1>7

LEMMA Singleton ==
  ASSUME NEW S, NEW e \in S
  PROVE  <<e>> \in Seq(S) /\ <<e>> # <<>> /\ Elements(<<e>>) = {e} /\ NoDup(<<e>>)
<1>1. Len(<<e>>) = 1 /\ <<e>>[1] = e /\ <<e>> \in Seq(S) /\ <<e>> # <<>>
  OBVIOUS
<1>2. 1..Len(<<e>>) = {1}
  BY <1>1
<1> QED
  BY <1>1, <1>2 DEF Elements, NoDup

LEMMA EmptyList == Elements(<<>>) = {} /\ NoDup(<<>>)
BY DEF Elements, NoDup

\* The mark is no list of events.
LEMMA Mark ==
  /\ K_CONSUMER_WAITING # <<>>
  /\ K_CONSUMER_WAITING \notin Seq(Events)
  /\ Elements(K_CONSUMER_WAITING) = {CONSUMER_WAITING}
  /\ NoDup(K_CONSUMER_WAITING)
  /\ Ptr(K_CONSUMER_WAITING) = CONSUMER_WAITING
<1>1. /\ Elements(K_CONSUMER_WAITING) = {CONSUMER_WAITING} /\ NoDup(K_CONSUMER_WAITING)
      /\ K_CONSUMER_WAITING # <<>>
  BY Singleton, Zenon DEF K_CONSUMER_WAITING
<1>2. K_CONSUMER_WAITING \notin Seq(Events)
  <2>1. K_CONSUMER_WAITING[1] = CONSUMER_WAITING /\ Len(K_CONSUMER_WAITING) = 1
    BY DEF K_CONSUMER_WAITING
  <2> QED
    BY <2>1, ElementOfSeq
<1>3. Head(K_CONSUMER_WAITING) = CONSUMER_WAITING
  BY DEF K_CONSUMER_WAITING
<1> QED
  BY <1>1, <1>2, <1>3 DEF Ptr

\* The pointer tells the three kinds of m_queue apart.
LEMMA PtrOfQueue ==
  ASSUME m_queue \in Seq(Events) \cup {K_CONSUMER_WAITING}
  PROVE  /\ Ptr(m_queue) \in Events \cup {NULL, CONSUMER_WAITING}
         /\ Ptr(m_queue) = NULL <=> m_queue = <<>>
         /\ Ptr(m_queue) = CONSUMER_WAITING <=> m_queue = K_CONSUMER_WAITING
<1>1. CASE m_queue = K_CONSUMER_WAITING
  BY <1>1, Mark
<1>2. CASE m_queue \in Seq(Events)
  <2>1. m_queue # <<>> => Head(m_queue) \in Events
    BY <1>2, HeadTailProperties
  <2> QED
    BY <1>2, <2>1, Mark DEF Ptr
<1> QED
  BY <1>1, <1>2

-----------------------------------------------------------------------------
(* The inductive invariant.                                                *)

InLists(e) == e \in Elements(m_queue) \/ e \in Elements(m_received)

ListInv ==
  /\ NoDup(m_queue) /\ NoDup(m_received)
  /\ \A e \in Events : ~(e \in Elements(m_queue) /\ e \in Elements(m_received))

\* Who owns an event: the request before it is scheduled, its processing thread
\* while that works or sends, then the list that leads to it, then nobody.
EventInv(e) ==
  /\ spc[e] = "idle" =>
       \/ m_state[e] = "None" /\ whState[e] = "none" /\ releases[e] = 0
       \/ m_state[e] = "Waiting" /\ rpc = "created" /\ target = e
            /\ whState[e] = "waiting" /\ releases[e] = 0
       \/ m_state[e] = "Abandoned" /\ whState[e] = "gone" /\ releases[e] = 1
  /\ spc[e] = "working" =>
       /\ releases[e] = 0
       /\ \/ m_state[e] = "Waiting" /\ whState[e] = "waiting"
          \/ m_state[e] = "Canceled" /\ whState[e] \in {"failed", "gone"}
  /\ spc[e] \in {"send", "cas"} =>
       /\ m_state[e] = "Finished" /\ whState[e] = "waiting" /\ releases[e] = 0
       /\ ~InLists(e)
  /\ spc[e] \in {"notify", "done"} =>
       \/ m_state[e] = "Finished" /\ whState[e] = "waiting" /\ releases[e] = 0
            /\ InLists(e)
       \/ m_state[e] \in {"Finished", "Canceled"} /\ releases[e] = 1
            /\ whState[e] \in {"succeeded", "failed", "gone"}
  /\ InLists(e) => spc[e] \in {"notify", "done"} /\ releases[e] = 0
  /\ e \in sweepable => whState[e] = "waiting"
  /\ rpc = "created" /\ target = e => spc[e] = "idle" /\ m_state[e] = "Waiting"

\* How far the request thread is in a receive call tells what m_queue can be.
ModeInv ==
  /\ m_queue = K_CONSUMER_WAITING => rpc \in {"waitEnter", "waiting"}
  /\ rpc \in {"waitEnter", "waiting", "taking"} => m_queue # <<>>
  /\ rpc \in {"locking", "waitEnter", "waiting", "taking", "nothingReceived"}
       => m_received = <<>>
  /\ m_queueMutex = Consumer <=> rpc \in {"waitEnter", "taking"}
  /\ rpc = "created" => target \in Events
  /\ rpc \in {"run", "sweeping", "ended"} => target = NoEvent

\* A sender cannot be done with its notification before the wait has begun.
WakeInv ==
  rpc \in {"waitEnter", "waiting"} /\ m_queue # K_CONSUMER_WAITING =>
    \/ rpc = "waiting" /\ notified
    \/ \E e \in Events : spc[e] = "notify"

Inv == TypeOK /\ ListInv /\ (\A e \in Events : EventInv(e)) /\ ModeInv /\ WakeInv

LEMMA InvInit == Init => Inv
<1> SUFFICES ASSUME Init PROVE Inv
  OBVIOUS
<1>1. TypeOK
  BY EmptySeq, Zenon DEF Init, TypeOK, EventStates, HandleStates, RequestPlaces, SenderPlaces
<1>2. ListInv /\ \A e \in Events : ~InLists(e)
  BY EmptyList DEF Init, ListInv, InLists
<1>3. \A e \in Events : EventInv(e)
  BY <1>2, Zenon DEF Init, EventInv
<1>4. ModeInv
  <2>1. m_queue # K_CONSUMER_WAITING
    BY Mark DEF Init
  <2> QED
    BY <2>1 DEF Init, ModeInv
<1>5. WakeInv
  BY DEF Init, WakeInv
<1> QED
  BY <1>1, <1>2, <1>3, <1>4, <1>5 DEF Inv

\* A step that moves wait handles between the lists, at most.
LEMMA MoveStep ==
  ASSUME Inv, UNCHANGED <<m_state, whState, sweepable, releases, spc>>,
         \A e \in Events : InLists(e)' <=> InLists(e),
         rpc # "created", rpc' # "created"
  PROVE  \A e \in Events : EventInv(e)'
<1> SUFFICES ASSUME NEW e \in Events PROVE EventInv(e)'
  OBVIOUS
<1>1. EventInv(e) /\ (InLists(e)' <=> InLists(e))
  BY DEF Inv
<1> QED
  BY <1>1 DEF EventInv

LEMMA CreateInv ==
  ASSUME Inv, NEW e \in Events, Create(e)
  PROVE  Inv'
<1> USE DEF queueVars, eventVars, requestVars, senderVars
<1>1. TypeOK'
  BY DEF Inv, TypeOK, Create, Initialize, EventStates, HandleStates, RequestPlaces
<1>2. UNCHANGED <<m_queue, m_received, releases, spc>>
  BY DEF Create
<1>3. ListInv' /\ \A f \in Events : InLists(f)' <=> InLists(f)
  BY <1>2 DEF Inv, ListInv, InLists
<1>4. ASSUME NEW f \in Events PROVE EventInv(f)'
  <2>1. EventInv(f) /\ EventInv(e) /\ (InLists(f)' <=> InLists(f))
    BY <1>3 DEF Inv
  <2>2. DOMAIN m_state = Events /\ DOMAIN whState = Events
    BY DEF Inv, TypeOK
  <2>3. spc[e] = "idle"
    BY <2>1 DEF Create, EventInv, Inv, TypeOK, SenderPlaces
  <2>4. CASE f = e
    BY <1>2, <2>1, <2>2, <2>3, <2>4 DEF Create, Initialize, EventInv
  <2>5. CASE f # e
    BY <1>2, <2>1, <2>2, <2>5 DEF Create, Initialize, EventInv
  <2> QED
    BY <2>4, <2>5
<1>5. ModeInv' /\ WakeInv'
  BY DEF Inv, ModeInv, WakeInv, Create
<1> QED
  BY <1>1, <1>3, <1>4, <1>5 DEF Inv

LEMMA ScheduleInv ==
  ASSUME Inv, Schedule
  PROVE  Inv'
<1> USE DEF queueVars, eventVars, requestVars, senderVars
<1>1. TypeOK' /\ target \in Events
  BY DEF Inv, TypeOK, ModeInv, Schedule, RequestPlaces, SenderPlaces
<1>2. ListInv' /\ \A f \in Events : InLists(f)' <=> InLists(f)
  BY DEF Inv, ListInv, InLists, Schedule
<1>3. ASSUME NEW f \in Events PROVE EventInv(f)'
  <2>1. EventInv(f) /\ (InLists(f)' <=> InLists(f)) /\ DOMAIN spc = Events
    BY <1>2 DEF Inv, TypeOK
  <2> QED
    BY <2>1 DEF Schedule, EventInv
<1>4. ModeInv' /\ WakeInv'
  BY DEF Inv, ModeInv, WakeInv, Schedule
<1> QED
  BY <1>1, <1>2, <1>3, <1>4 DEF Inv

LEMMA AbandonInv ==
  ASSUME Inv, Abandon
  PROVE  Inv'
<1> USE DEF queueVars, eventVars, requestVars, senderVars
<1>1. TypeOK' /\ target \in Events
  BY DEF Inv, TypeOK, ModeInv, Abandon, AbandonHandles, DestroyEvent, Release,
         EventStates, HandleStates, RequestPlaces
<1>2. ListInv' /\ \A f \in Events : InLists(f)' <=> InLists(f)
  BY DEF Inv, ListInv, InLists, Abandon
<1>3. ASSUME NEW f \in Events PROVE EventInv(f)'
  <2>1. EventInv(f) /\ (InLists(f)' <=> InLists(f)) /\ DOMAIN m_state = Events
    BY <1>2 DEF Inv, TypeOK
  <2>2. CASE f = target
    BY <2>1, <2>2 DEF Abandon, AbandonHandles, DestroyEvent, Release, EventInv
  <2>3. CASE f # target
    BY <2>1, <2>3 DEF Abandon, AbandonHandles, DestroyEvent, Release, EventInv
  <2> QED
    BY <2>2, <2>3
<1>4. ModeInv' /\ WakeInv'
  BY DEF Inv, ModeInv, WakeInv, Abandon
<1> QED
  BY <1>1, <1>2, <1>3, <1>4 DEF Inv

LEMMA CancelInv ==
  ASSUME Inv, NEW e \in Events, Cancel(e)
  PROVE  Inv'
<1> USE DEF queueVars, eventVars, requestVars, senderVars
<1>1. TypeOK'
  BY DEF Inv, TypeOK, Cancel, EventCancel, EventStates, HandleStates
<1>2. ListInv' /\ \A f \in Events : InLists(f)' <=> InLists(f)
  BY DEF Inv, ListInv, InLists, Cancel
<1>3. ASSUME NEW f \in Events PROVE EventInv(f)'
  <2>1. /\ EventInv(f) /\ (InLists(f)' <=> InLists(f)) /\ spc[f] \in SenderPlaces
        /\ DOMAIN m_state = Events /\ DOMAIN whState = Events
    BY <1>2 DEF Inv, TypeOK
  <2>2. CASE f = e
    BY <2>1, <2>2 DEF Cancel, EventCancel, EventInv, SenderPlaces
  <2>3. CASE f # e
    BY <2>1, <2>3 DEF Cancel, EventCancel, EventInv
  <2> QED
    BY <2>2, <2>3
<1>4. ModeInv' /\ WakeInv'
  BY DEF Inv, ModeInv, WakeInv, Cancel
<1> QED
  BY <1>1, <1>2, <1>3, <1>4 DEF Inv

LEMMA ProcessAllReceivedInv ==
  ASSUME Inv, ProcessAllReceived
  PROVE  Inv'
<1> USE DEF queueVars, eventVars, requestVars, senderVars
<1> DEFINE e == Head(m_received)
<1>1. /\ m_received \in Seq(Events) /\ m_received # <<>> /\ NoDup(m_received)
  BY DEF ProcessAllReceived, Inv, TypeOK, ListInv
<1>2. /\ e \in Events /\ e \in Elements(m_received) /\ m_received' \in Seq(Events)
      /\ Elements(m_received') = Elements(m_received) \ {e} /\ NoDup(m_received')
  BY <1>1, Pop DEF ProcessAllReceived
<1> HIDE DEF e
<1>3. /\ \E outcome \in {"succeeded", "failed"} : whState' = [whState EXCEPT ![e] = outcome]
      /\ sweepable' = sweepable \ {e}
      /\ releases' = [f \in Events |-> IF f \in {e} THEN releases[f] + 1 ELSE releases[f]]
      /\ UNCHANGED <<m_queue, m_queueMutex, notified, m_state, rpc, target, spc, next>>
      /\ rpc = "run"
  BY Zenon DEF ProcessAllReceived, ProcessHandle, DestroyEvent, Release, e
<1>4. TypeOK'
  BY <1>2, <1>3 DEF Inv, TypeOK, HandleStates
<1>5. ListInv' /\ \A f \in Events : InLists(f)' <=> InLists(f) /\ f # e
  BY <1>2, <1>3 DEF Inv, ListInv, InLists
<1>6. ASSUME NEW f \in Events PROVE EventInv(f)'
  <2>1. /\ EventInv(f) /\ (InLists(f)' <=> InLists(f) /\ f # e)
        /\ DOMAIN whState = Events /\ releases[f] \in Nat
    BY <1>5 DEF Inv, TypeOK
  <2>2. CASE f = e
    <3>1. InLists(e)
      BY <1>2 DEF InLists
    <3> QED
      BY <1>3, <2>1, <2>2, <3>1 DEF EventInv
  <2>3. CASE f # e
    BY <1>3, <2>1, <2>3 DEF EventInv
  <2> QED
    BY <2>2, <2>3
<1>7. ModeInv' /\ WakeInv'
  BY <1>3 DEF Inv, ModeInv, WakeInv
<1> QED
  BY <1>4, <1>5, <1>6, <1>7 DEF Inv

-----------------------------------------------------------------------------
(* Receiving.                                                              *)

\* m_queue.exchange(nullptr) into an empty m_received.
LEMMA ExchangeMoves ==
  ASSUME Inv, Exchange, m_received = <<>>, m_queue # K_CONSUMER_WAITING
  PROVE  /\ m_received' \in Seq(Events) /\ m_received' = m_queue /\ m_queue' = <<>>
         /\ ListInv' /\ \A e \in Events : InLists(e)' <=> InLists(e)
<1>1. m_queue \in Seq(Events) /\ NoDup(m_queue)
  BY DEF Inv, TypeOK, ListInv
<1>2. m_received' = m_queue /\ m_queue' = <<>>
  BY DEF Exchange
<1>3. Elements(m_received) = {} /\ Elements(m_queue') = {} /\ NoDup(m_queue')
  BY <1>2, EmptyList
<1> QED
  BY <1>1, <1>2, <1>3 DEF ListInv, InLists

LEMMA ReceiveStepInv ==
  ASSUME Inv, ReceiveStep
  PROVE  Inv'
<1> USE DEF queueVars, eventVars, requestVars, senderVars
<1>1. TypeOK /\ ListInv /\ ModeInv /\ WakeInv
  BY DEF Inv
<1>2. K_CONSUMER_WAITING # <<>> /\ NULL # Consumer
  BY Mark
<1>3. CASE TryReceiveSome \/ ReceiveSomeUntil
  <2>1. /\ Exchange /\ m_received = <<>> /\ rpc \in {"run", "abandoning"}
        /\ rpc' \in {"run", "abandoning", "locking"}
        /\ rpc' = "locking" => m_queue = <<>>
        /\ rpc' = "run" => target = NoEvent
        /\ UNCHANGED <<m_queueMutex, notified, m_state, whState, sweepable, releases,
                       target, spc, next>>
    BY <1>1, <1>3 DEF TryReceiveSome, ReceiveSomeUntil, Resume, ModeInv
  <2>2. m_queue # K_CONSUMER_WAITING
    BY <1>1, <2>1 DEF ModeInv
  <2>3. /\ m_received' \in Seq(Events) /\ m_received' = m_queue /\ m_queue' = <<>>
        /\ ListInv' /\ \A e \in Events : InLists(e)' <=> InLists(e)
    BY <2>1, <2>2, ExchangeMoves
  <2>4. TypeOK'
    BY <1>1, <2>1, <2>3, EmptySeq DEF TypeOK, RequestPlaces
  <2>5. \A e \in Events : EventInv(e)'
    BY <2>1, <2>3, MoveStep
  <2>6. ModeInv' /\ WakeInv'
    BY <1>1, <1>2, <2>1, <2>3 DEF ModeInv, WakeInv
  <2> QED
    BY <2>3, <2>4, <2>5, <2>6 DEF Inv
<1>4. CASE StartWaiting
  <2>1. m_queue' \in Seq(Events) \cup {K_CONSUMER_WAITING}
    BY <1>1, <1>4 DEF TypeOK, StartWaiting
  <2>2. /\ rpc' = "waitEnter" => m_queue = <<>> /\ m_queue' = K_CONSUMER_WAITING
        /\ rpc' = "taking" => m_queue # <<>> /\ m_queue' = m_queue
        /\ rpc' \in {"waitEnter", "taking"}
    BY <1>1, <1>4, PtrOfQueue DEF TypeOK, StartWaiting
  <2>3. TypeOK'
    BY <1>1, <1>4, <2>1, <2>2 DEF TypeOK, StartWaiting, RequestPlaces
  <2>4. ListInv' /\ \A e \in Events : InLists(e)' <=> InLists(e)
    <3>1. CASE rpc' = "waitEnter"
      BY <1>1, <1>4, <2>2, <3>1, Mark, EmptyList DEF ListInv, InLists, StartWaiting
    <3>2. CASE rpc' = "taking"
      BY <1>1, <1>4, <2>2, <3>2 DEF ListInv, InLists, StartWaiting
    <3> QED
      BY <2>2, <3>1, <3>2
  <2>5. \A e \in Events : EventInv(e)'
    BY <1>4, <2>2, <2>4, MoveStep DEF StartWaiting
  <2>6. ModeInv' /\ WakeInv'
    BY <1>1, <1>2, <1>4, <2>2 DEF ModeInv, WakeInv, StartWaiting
  <2> QED
    BY <2>3, <2>4, <2>5, <2>6 DEF Inv
<1>5. CASE WaitUntil \/ WakeUp \/ SpuriousWakeUp
  <2>1. UNCHANGED <<m_queue, m_received, m_state, whState, sweepable, releases,
                    target, spc, next>>
    BY <1>5 DEF WaitUntil, WakeUp, SpuriousWakeUp, Awake
  <2>2. /\ rpc \in {"waitEnter", "waiting"} /\ rpc' \in {"waitEnter", "waiting", "taking"}
        /\ rpc' \in {"waitEnter", "taking"} <=> m_queueMutex' = Consumer
        /\ m_queueMutex' \in {NULL, Consumer} /\ notified' \in BOOLEAN
        /\ rpc' = "taking" => m_queue # K_CONSUMER_WAITING
        /\ rpc' = "waitEnter" => m_queue = K_CONSUMER_WAITING
        /\ rpc' = "waiting" => rpc = "waitEnter"
    BY <1>1, <1>2, <1>5, Zenon DEF WaitUntil, WakeUp, SpuriousWakeUp, Awake, TypeOK
  <2>3. TypeOK'
    BY <1>1, <2>1, <2>2 DEF TypeOK, RequestPlaces
  <2>4. ListInv' /\ \A e \in Events : InLists(e)' <=> InLists(e)
    BY <1>1, <2>1 DEF ListInv, InLists
  <2>5. \A e \in Events : EventInv(e)'
    BY <2>1, <2>2, <2>4, MoveStep
  <2>6. ModeInv'
    BY <1>1, <2>1, <2>2 DEF ModeInv
  <2>7. WakeInv'
    BY <1>1, <2>1, <2>2 DEF WakeInv
  <2> QED
    BY <2>3, <2>4, <2>5, <2>6, <2>7 DEF Inv
<1>6. CASE Timeout
  <2>1. /\ rpc = "waiting" /\ m_received = <<>> /\ m_queueMutex = NULL /\ m_queue # <<>>
        /\ m_queue' = <<>>
        /\ m_received' = IF m_queue = K_CONSUMER_WAITING THEN <<>> ELSE m_queue
        /\ rpc' \in {"run", "abandoning", "nothingReceived"}
        /\ rpc' = "nothingReceived" => m_received' = <<>>
        /\ rpc' = "run" => target = NoEvent
        /\ UNCHANGED <<m_queueMutex, notified, m_state, whState, sweepable, releases,
                       target, spc, next>>
    BY <1>1, <1>6 DEF Timeout, Resume, ModeInv
  <2>2. m_received' \in Seq(Events) /\ m_queue' \in Seq(Events)
    BY <1>1, <2>1, EmptySeq DEF TypeOK
  <2>3. TypeOK'
    BY <1>1, <2>1, <2>2 DEF TypeOK, RequestPlaces
  <2>4. ListInv' /\ \A e \in Events : InLists(e)' <=> InLists(e)
    <3>1. CASE m_queue = K_CONSUMER_WAITING
      BY <1>1, <2>1, <3>1, Mark, EmptyList DEF ListInv, InLists
    <3>2. CASE m_queue # K_CONSUMER_WAITING
      BY <2>1, <3>2, ExchangeMoves DEF Exchange
    <3> QED
      BY <3>1, <3>2
  <2>5. \A e \in Events : EventInv(e)'
    BY <2>1, <2>4, MoveStep
  <2>6. ModeInv' /\ WakeInv'
    BY <1>1, <1>2, <2>1 DEF ModeInv, WakeInv
  <2> QED
    BY <2>3, <2>4, <2>5, <2>6 DEF Inv
<1>7. CASE Take
  <2>1. /\ rpc = "taking" /\ m_received = <<>> /\ Exchange
        /\ m_queueMutex' = NULL
        /\ rpc' \in {"run", "abandoning"}
        /\ rpc' = "run" => target = NoEvent
        /\ m_queue # K_CONSUMER_WAITING
        /\ UNCHANGED <<notified, m_state, whState, sweepable, releases, target, spc, next>>
    BY <1>1, <1>7 DEF Take, Resume, ModeInv
  <2>2. /\ m_received' \in Seq(Events) /\ m_received' = m_queue /\ m_queue' = <<>>
        /\ ListInv' /\ \A e \in Events : InLists(e)' <=> InLists(e)
    BY <2>1, ExchangeMoves
  <2>3. TypeOK'
    BY <1>1, <2>1, <2>2, EmptySeq DEF TypeOK, RequestPlaces
  <2>4. \A e \in Events : EventInv(e)'
    BY <2>1, <2>2, MoveStep
  <2>5. ModeInv' /\ WakeInv'
    BY <1>1, <1>2, <2>1, <2>2 DEF ModeInv, WakeInv
  <2> QED
    BY <2>2, <2>3, <2>4, <2>5 DEF Inv
<1> QED
  BY <1>3, <1>4, <1>5, <1>6, <1>7 DEF ReceiveStep

-----------------------------------------------------------------------------
(* The end of the request.                                                 *)

LEMMA DieOrEndInv ==
  ASSUME Inv, Die \/ EndRequest
  PROVE  Inv'
<1> USE DEF queueVars, eventVars, requestVars, senderVars
<1>1. /\ UNCHANGED <<queueVars, eventVars, target, senderVars>>
      /\ rpc \in {"run", "sweeping"} /\ rpc' \in {"sweeping", "ended"}
  BY DEF Die, EndRequest
<1>2. TypeOK' /\ ListInv' /\ \A e \in Events : InLists(e)' <=> InLists(e)
  BY <1>1 DEF Inv, TypeOK, RequestPlaces, ListInv, InLists
<1>3. \A e \in Events : EventInv(e)'
  BY <1>1, <1>2, MoveStep
<1>4. ModeInv' /\ WakeInv'
  BY <1>1 DEF Inv, ModeInv, WakeInv
<1> QED
  BY <1>2, <1>3, <1>4 DEF Inv

LEMMA SweepInv ==
  ASSUME Inv, NEW e \in Events, Sweep(e)
  PROVE  Inv'
<1> USE DEF queueVars, eventVars, requestVars, senderVars
<1>1. TypeOK'
  BY Zenon DEF Inv, TypeOK, Sweep, EventCancel, EventStates, HandleStates, RequestPlaces
<1>2. ListInv' /\ \A f \in Events : InLists(f)' <=> InLists(f)
  BY DEF Inv, ListInv, InLists, Sweep
<1>3. ASSUME NEW f \in Events PROVE EventInv(f)'
  <2>1. /\ EventInv(f) /\ (InLists(f)' <=> InLists(f)) /\ spc[f] \in SenderPlaces
        /\ DOMAIN m_state = Events /\ DOMAIN whState = Events
    BY <1>2 DEF Inv, TypeOK
  <2>2. CASE f = e
    BY <2>1, <2>2 DEF Sweep, EventCancel, EventInv, SenderPlaces
  <2>3. CASE f # e
    BY <2>1, <2>3 DEF Sweep, EventCancel, EventInv
  <2> QED
    BY <2>2, <2>3
<1>4. ModeInv' /\ WakeInv'
  BY DEF Inv, ModeInv, WakeInv, Sweep
<1> QED
  BY <1>1, <1>2, <1>3, <1>4 DEF Inv

LEMMA AbandonAllReceivedInv ==
  ASSUME Inv, AbandonAllReceived
  PROVE  Inv'
<1> USE DEF queueVars, eventVars, requestVars, senderVars
<1> DEFINE es == Elements(m_received)
<1>1. /\ whState' = [e \in Events |-> IF e \in es THEN "gone" ELSE whState[e]]
      /\ sweepable' = sweepable \ es
      /\ releases' = [e \in Events |-> IF e \in es THEN releases[e] + 1 ELSE releases[e]]
      /\ m_received' = <<>>
      /\ UNCHANGED <<m_queue, m_queueMutex, notified, m_state, spc, next>>
      /\ rpc = "abandoning"
      /\ \/ rpc' = "sweeping" /\ target' = NoEvent
         \/ rpc' = "abandoning" /\ target' = target
  BY DEF AbandonAllReceived, AbandonHandles, DestroyEvent, Release
<1>2. /\ Elements(m_received') = {} /\ NoDup(m_received')
  BY <1>1, EmptyList
<1>3. TypeOK'
  BY <1>1, EmptySeq DEF Inv, TypeOK, HandleStates, RequestPlaces
<1>4. ListInv' /\ \A f \in Events : InLists(f)' <=> InLists(f) /\ f \notin es
  BY <1>1, <1>2 DEF Inv, ListInv, InLists
<1>5. ASSUME NEW f \in Events PROVE EventInv(f)'
  <2>1. /\ EventInv(f) /\ (InLists(f)' <=> InLists(f) /\ f \notin es)
        /\ DOMAIN whState = Events /\ releases[f] \in Nat
        /\ f \in es => InLists(f)
    BY <1>4 DEF Inv, TypeOK, InLists
  <2>4. /\ whState'[f] = IF f \in es THEN "gone" ELSE whState[f]
        /\ releases'[f] = IF f \in es THEN releases[f] + 1 ELSE releases[f]
        /\ spc'[f] = spc[f] /\ m_state'[f] = m_state[f]
        /\ f \in sweepable' <=> f \in sweepable /\ f \notin es
        /\ rpc # "created" /\ rpc' # "created"
    BY <1>1
  <2> HIDE DEF es
  <2>2. CASE f \in es
    BY <2>1, <2>2, <2>4 DEF EventInv
  <2>3. CASE f \notin es
    BY <2>1, <2>3, <2>4 DEF EventInv
  <2> QED
    BY <2>2, <2>3
<1>6. ModeInv' /\ WakeInv'
  BY <1>1 DEF Inv, ModeInv, WakeInv
<1> QED
  BY <1>3, <1>4, <1>5, <1>6 DEF Inv

-----------------------------------------------------------------------------
(* The processing threads.                                                 *)

LEMMA MarkAsFinishedInv ==
  ASSUME Inv, NEW e \in Events, MarkAsFinished(e)
  PROVE  Inv'
<1> USE DEF queueVars, eventVars, requestVars, senderVars
<1>1. TypeOK'
  <2>1. releases' \in [Events -> Nat]
    <3>1. releases \in [Events -> Nat]
      BY DEF Inv, TypeOK
    <3>2. releases' = releases \/ Release({e})
      BY DEF MarkAsFinished
    <3> QED
      BY <3>1, <3>2 DEF Release
  <2>2. m_state' \in [Events -> EventStates]
    <3>1. m_state' = m_state \/ m_state' = [m_state EXCEPT ![e] = "Finished"]
      BY DEF MarkAsFinished
    <3>2. m_state \in [Events -> EventStates] /\ "Finished" \in EventStates
      BY DEF Inv, TypeOK, EventStates
    <3> QED
      BY <3>1, <3>2
  <2>3. spc' \in [Events -> SenderPlaces]
    BY Zenon DEF Inv, TypeOK, MarkAsFinished, SenderPlaces
  <2>4. UNCHANGED <<queueVars, whState, sweepable, requestVars, next>>
    BY DEF MarkAsFinished
  <2> QED
    BY <2>1, <2>2, <2>3, <2>4 DEF Inv, TypeOK
<1>2. ListInv' /\ \A f \in Events : InLists(f)' <=> InLists(f)
  BY DEF Inv, ListInv, InLists, MarkAsFinished
<1>3. ASSUME NEW f \in Events PROVE EventInv(f)'
  <2>1. /\ EventInv(f) /\ (InLists(f)' <=> InLists(f)) /\ releases[f] \in Nat
        /\ DOMAIN m_state = Events /\ DOMAIN spc = Events
    BY <1>2 DEF Inv, TypeOK
  <2>2. CASE f = e
    BY <2>1, <2>2 DEF MarkAsFinished, Release, EventInv
  <2>3. CASE f # e
    BY <2>1, <2>3 DEF MarkAsFinished, Release, EventInv
  <2> QED
    BY <2>2, <2>3
<1>4. ModeInv'
  BY DEF Inv, ModeInv, MarkAsFinished
<1>5. WakeInv'
  <2>1. \A f \in Events : spc[f] = "notify" => spc'[f] = "notify"
    BY DEF MarkAsFinished, Inv, TypeOK
  <2> QED
    BY <2>1 DEF Inv, WakeInv, MarkAsFinished
<1> QED
  BY <1>1, <1>2, <1>3, <1>4, <1>5 DEF Inv

LEMMA SendLoadInv ==
  ASSUME Inv, NEW e \in Events, SendLoad(e)
  PROVE  Inv'
<1> USE DEF queueVars, eventVars, requestVars, senderVars
<1>1. TypeOK'
  BY PtrOfQueue DEF Inv, TypeOK, SendLoad, SenderPlaces
<1>2. ListInv' /\ \A f \in Events : InLists(f)' <=> InLists(f)
  BY DEF Inv, ListInv, InLists, SendLoad
<1>3. ASSUME NEW f \in Events PROVE EventInv(f)'
  <2>1. EventInv(f) /\ (InLists(f)' <=> InLists(f)) /\ DOMAIN spc = Events
    BY <1>2 DEF Inv, TypeOK
  <2> QED
    BY <2>1 DEF SendLoad, EventInv
<1>4. ModeInv'
  BY DEF Inv, ModeInv, SendLoad
<1>5. WakeInv'
  <2>1. \A f \in Events : spc[f] = "notify" => spc'[f] = "notify"
    BY DEF SendLoad, Inv, TypeOK
  <2> QED
    BY <2>1 DEF Inv, WakeInv, SendLoad
<1> QED
  BY <1>1, <1>2, <1>3, <1>4, <1>5 DEF Inv

LEMMA SendCasInv ==
  ASSUME Inv, NEW e \in Events, SendCas(e)
  PROVE  Inv'
<1> USE DEF queueVars, eventVars, requestVars, senderVars
<1>1. TypeOK /\ ListInv /\ ModeInv /\ WakeInv /\ EventInv(e) /\ spc[e] = "cas"
  BY DEF Inv, SendCas
<1>2. CASE Ptr(m_queue) # next[e]
  <2>1. /\ next' = [next EXCEPT ![e] = Ptr(m_queue)]
        /\ UNCHANGED <<m_queue, m_received, m_queueMutex, notified, m_state, whState,
                       sweepable, releases, rpc, target, spc>>
    BY <1>2 DEF SendCas
  <2>2. TypeOK'
    BY <1>1, <2>1, PtrOfQueue DEF TypeOK
  <2>3. ListInv'
    BY <1>1, <2>1, Zenon DEF ListInv, InLists
  <2>4. ModeInv'
    BY <1>1, <2>1, Zenon DEF ModeInv
  <2>5. WakeInv'
    BY <1>1, <2>1, Zenon DEF WakeInv
  <2>6. ASSUME NEW f \in Events PROVE EventInv(f)'
    <3>1. EventInv(f)
      BY DEF Inv
    <3> QED
      BY <2>1, <3>1, Zenon DEF EventInv, InLists
  <2> QED
    BY <2>2, <2>3, <2>4, <2>5, <2>6 DEF Inv
<1>3. CASE Ptr(m_queue) = next[e]
  <2>1. UNCHANGED <<m_received, m_queueMutex, notified, m_state, whState, sweepable,
                    releases, rpc, target, next>>
    BY <1>3 DEF SendCas
  <2>2. m_queue = K_CONSUMER_WAITING <=> next[e] = CONSUMER_WAITING
    BY <1>1, <1>3, PtrOfQueue DEF TypeOK
  <2>3. /\ m_queue' \in Seq(Events) /\ m_queue' # <<>> /\ NoDup(m_queue')
        /\ \A f \in Events : f \in Elements(m_queue') <=> f = e \/ f \in Elements(m_queue)
        /\ spc' = [spc EXCEPT ![e] = IF m_queue = K_CONSUMER_WAITING THEN "notify" ELSE "done"]
    <3>1. CASE m_queue = K_CONSUMER_WAITING
      <4>1. m_queue' = <<e>> /\ spc' = [spc EXCEPT ![e] = "notify"]
        BY <1>3, <2>2, <3>1 DEF SendCas
      <4>2. m_queue' \in Seq(Events) /\ m_queue' # <<>> /\ NoDup(m_queue')
            /\ Elements(m_queue') = {e}
        BY <4>1, Singleton
      <4>3. \A f \in Events : f \notin Elements(m_queue)
        BY <3>1, Mark
      <4> QED
        BY <3>1, <4>1, <4>2, <4>3
    <3>2. CASE m_queue # K_CONSUMER_WAITING
      <4>1. m_queue' = <<e>> \o m_queue /\ spc' = [spc EXCEPT ![e] = "done"]
        BY <1>3, <2>2, <3>2 DEF SendCas
      <4>2. m_queue \in Seq(Events) /\ e \notin Elements(m_queue) /\ NoDup(m_queue)
        BY <1>1, <3>2 DEF TypeOK, EventInv, InLists, ListInv
      <4>3. m_queue' \in Seq(Events) /\ m_queue' # <<>> /\ NoDup(m_queue')
            /\ Elements(m_queue') = {e} \cup Elements(m_queue)
        BY <4>1, <4>2, Push
      <4> QED
        BY <3>2, <4>1, <4>3
    <3> QED
      BY <3>1, <3>2
  <2>4. TypeOK'
    BY <1>1, <2>1, <2>3 DEF TypeOK, SenderPlaces
  <2>5. ListInv' /\ \A f \in Events : InLists(f)' <=> InLists(f) \/ f = e
    BY <1>1, <2>1, <2>3 DEF ListInv, InLists, EventInv
  <2>6. ASSUME NEW f \in Events PROVE EventInv(f)'
    <3>1. EventInv(f) /\ (InLists(f)' <=> InLists(f) \/ f = e) /\ DOMAIN spc = Events
      BY <1>1, <2>5 DEF Inv, TypeOK
    <3>2. CASE f = e
      BY <1>1, <2>1, <2>3, <3>1, <3>2, Zenon DEF EventInv
    <3>3. CASE f # e
      BY <2>1, <2>3, <3>1, <3>3 DEF EventInv
    <3> QED
      BY <3>2, <3>3
  <2>7. m_queue' # K_CONSUMER_WAITING
    BY <2>3, Mark
  <2>8. ModeInv'
    BY <1>1, <2>1, <2>3, <2>7 DEF ModeInv
  <2>9. WakeInv'
    <3>1. CASE m_queue = K_CONSUMER_WAITING
      BY <1>1, <2>3, <3>1 DEF WakeInv, TypeOK
    <3>2. CASE m_queue # K_CONSUMER_WAITING
      <4>1. \A f \in Events : spc[f] = "notify" => spc'[f] = "notify"
        BY <1>1, <2>3 DEF TypeOK
      <4> QED
        BY <1>1, <2>1, <3>2, <4>1 DEF WakeInv
    <3> QED
      BY <3>1, <3>2
  <2> QED
    BY <2>4, <2>5, <2>6, <2>8, <2>9 DEF Inv
<1> QED
  BY <1>2, <1>3

LEMMA SendNotifyInv ==
  ASSUME Inv, NEW e \in Events, SendNotify(e)
  PROVE  Inv'
<1> USE DEF queueVars, eventVars, requestVars, senderVars
<1>1. TypeOK'
  BY DEF Inv, TypeOK, SendNotify, SenderPlaces
<1>2. ListInv' /\ \A f \in Events : InLists(f)' <=> InLists(f)
  BY DEF Inv, ListInv, InLists, SendNotify
<1>3. ASSUME NEW f \in Events PROVE EventInv(f)'
  <2>1. EventInv(f) /\ (InLists(f)' <=> InLists(f)) /\ DOMAIN spc = Events
    BY <1>2 DEF Inv, TypeOK
  <2> QED
    BY <2>1 DEF SendNotify, EventInv
<1>4. ModeInv'
  BY DEF Inv, ModeInv, SendNotify
<1>5. WakeInv'
  <2>1. rpc # "waitEnter"
    BY DEF Inv, ModeInv, SendNotify
  <2>2. rpc' = rpc /\ (rpc = "waiting" => notified')
    BY Zenon DEF SendNotify
  <2> QED
    BY <2>1, <2>2 DEF WakeInv
<1> QED
  BY <1>1, <1>2, <1>3, <1>4, <1>5 DEF Inv

-----------------------------------------------------------------------------
LEMMA InvStep == Inv /\ [Next]_vars => Inv'
<1> SUFFICES ASSUME Inv, [Next]_vars PROVE Inv'
  OBVIOUS
<1>1. CASE UNCHANGED vars
  <2>1. UNCHANGED <<m_queue, m_received, m_queueMutex, notified, m_state, whState,
                    sweepable, releases, rpc, target, spc, next>>
    BY <1>1 DEF vars, queueVars, eventVars, requestVars, senderVars
  <2>2. TypeOK' /\ ListInv'
    BY <2>1, Zenon DEF Inv, TypeOK, ListInv, InLists
  <2>3. ASSUME NEW e \in Events PROVE EventInv(e)'
    <3>1. EventInv(e)
      BY DEF Inv
    <3> QED
      BY <2>1, <3>1, Zenon DEF EventInv, InLists
  <2>4. ModeInv' /\ WakeInv'
    BY <2>1, Zenon DEF Inv, ModeInv, WakeInv
  <2> QED
    BY <2>2, <2>3, <2>4 DEF Inv
<1>2. CASE Schedule \/ Abandon \/ ProcessAllReceived
  BY <1>2, ScheduleInv, AbandonInv, ProcessAllReceivedInv
<1>3. CASE ReceiveStep
  BY <1>3, ReceiveStepInv
<1>4. CASE Die \/ AbandonAllReceived \/ EndRequest
  BY <1>4, DieOrEndInv, AbandonAllReceivedInv
<1>5. ASSUME NEW e \in Events,
             Create(e) \/ Cancel(e) \/ Sweep(e) \/ MarkAsFinished(e) \/ SendStep(e)
      PROVE  Inv'
  BY <1>5, CreateInv, CancelInv, SweepInv, MarkAsFinishedInv, SendLoadInv,
     SendCasInv, SendNotifyInv DEF SendStep
<1> QED
  BY <1>1, <1>2, <1>3, <1>4, <1>5 DEF Next

\* Every reachable state is well typed.
THEOREM TypeCorrect == Spec => []TypeOK
<1>1. Inv => TypeOK
  BY DEF Inv
<1> QED
  BY <1>1, InvInit, InvStep, PTL DEF Spec

\* An event is released once, when nothing leads to it any more.
THEOREM EventsReleasedOnce == Spec => []ReleasedOnce
<1>1. Inv => ReleasedOnce
  <2> SUFFICES ASSUME Inv, NEW e \in Events
               PROVE  /\ releases[e] <= 1
                      /\ releases[e] = 1 =>
                           /\ spc[e] \notin {"working", "send", "cas"}
                           /\ e \notin Elements(m_queue) \cup Elements(m_received)
                           /\ whState[e] # "waiting"
    BY Zenon DEF ReleasedOnce
  <2>1. EventInv(e) /\ spc[e] \in SenderPlaces
    BY DEF Inv, TypeOK
  <2> QED
    BY <2>1 DEF EventInv, InLists, SenderPlaces
<1> QED
  BY <1>1, InvInit, InvStep, PTL DEF Spec

\* The asserts of the queue, the events and the wait handles never fail.
THEOREM AssertsNeverFail == Spec => []AssertsHold
<1>1. Inv => AssertsHold
  <2> SUFFICES ASSUME Inv PROVE AssertsHold
    OBVIOUS
  <2>1. ASSUME NEW e \in Events
        PROVE  /\ spc[e] = "working" => m_state[e] \in {"Waiting", "Canceled"}
               /\ e \in sweepable => m_state[e] \in {"Waiting", "Finished"}
               /\ e \in sweepable \cup Elements(m_received) \/ spc[e] \in {"send", "cas"}
                    => whState[e] = "waiting"
    <3>1. EventInv(e) /\ spc[e] \in SenderPlaces
      BY DEF Inv, TypeOK
    <3> QED
      BY <3>1 DEF EventInv, InLists, SenderPlaces
  <2>2. ModeInv
    BY DEF Inv
  <2> QED
    BY <2>1, <2>2 DEF AssertsHold, ModeInv
<1> QED
  BY <1>1, InvInit, InvStep, PTL DEF Spec

\* A send to a waiting request thread is always followed by a notification.
THEOREM NoWakeUpIsLost == Spec => []NoLostWakeUp
<1>1. Inv => NoLostWakeUp
  BY DEF Inv, WakeInv, NoLostWakeUp
<1> QED
  BY <1>1, InvInit, InvStep, PTL DEF Spec

\* A finished event stays in exactly one place until it is released.
THEOREM FinishedEventsAreKept == Spec => []FinishedIsKept
<1>1. Inv => FinishedIsKept
  <2> SUFFICES ASSUME Inv, NEW e \in Events, m_state[e] = "Finished", releases[e] = 0
               PROVE  LET places == {<<"q", i>> : i \in {j \in 1..Len(m_queue) : m_queue[j] = e}}
                             \cup {<<"r", i>> : i \in {j \in 1..Len(m_received) : m_received[j] = e}}
                      IN IF spc[e] \in {"send", "cas"} THEN places = {}
                         ELSE \E p \in places : places = {p}
    BY DEF FinishedIsKept
  <2>1. EventInv(e) /\ spc[e] \in SenderPlaces /\ ListInv
    BY DEF Inv, TypeOK
  <2>2. CASE spc[e] \in {"send", "cas"}
    BY <2>1, <2>2 DEF EventInv, InLists, Elements
  <2>3. CASE spc[e] \notin {"send", "cas"}
    <3>1. InLists(e)
      BY <2>1, <2>3 DEF EventInv, SenderPlaces
    <3>2. CASE e \in Elements(m_queue)
      <4>1. e \notin Elements(m_received) /\ NoDup(m_queue)
        BY <2>1, <3>2 DEF ListInv
      <4>2. PICK i \in 1..Len(m_queue) : m_queue[i] = e
        BY <3>2 DEF Elements
      <4>3. {j \in 1..Len(m_queue) : m_queue[j] = e} = {i}
        BY <4>1, <4>2 DEF NoDup
      <4>4. {j \in 1..Len(m_received) : m_received[j] = e} = {}
        BY <4>1 DEF Elements
      <4>5. {<<"q", k>> : k \in {i}} \cup {<<"r", k>> : k \in {}} = {<<"q", i>>}
        OBVIOUS
      <4> QED
        BY <2>3, <4>3, <4>4, <4>5, Zenon
    <3>3. CASE e \in Elements(m_received)
      <4>1. e \notin Elements(m_queue) /\ NoDup(m_received)
        BY <2>1, <3>3 DEF ListInv
      <4>2. PICK i \in 1..Len(m_received) : m_received[i] = e
        BY <3>3 DEF Elements
      <4>3. {j \in 1..Len(m_received) : m_received[j] = e} = {i}
        BY <4>1, <4>2 DEF NoDup
      <4>4. {j \in 1..Len(m_queue) : m_queue[j] = e} = {}
        BY <4>1 DEF Elements
      <4>5. {<<"q", k>> : k \in {}} \cup {<<"r", k>> : k \in {i}} = {<<"r", i>>}
        OBVIOUS
      <4> QED
        BY <2>3, <4>3, <4>4, <4>5, Zenon
    <3> QED
      BY <3>1, <3>2, <3>3 DEF InLists
  <2> QED
    BY <2>2, <2>3
<1> QED
  BY <1>1, InvInit, InvStep, PTL DEF Spec
=============================================================================
