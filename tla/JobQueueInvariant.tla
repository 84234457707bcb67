------------------------- MODULE JobQueueInvariant -------------------------
(***************************************************************************)
(* The invariant of JobQueue about its jobs: where each one is, and how    *)
(* the queues, the two counts and the threads that have a job agree.  With *)
(* it what SynchronizableMulti does to its lists of condition variables,   *)
(* and how the kinds of steps that move a job keep the invariant.          *)
(***************************************************************************)
EXTENDS JobQueue, FiniteSetTheorems, TLAPS

USE SMTT(15), ZenonT(15)

-----------------------------------------------------------------------------
(* Numbers.                                                                *)

\* Every set of natural numbers that has an element has a least one, which
\* stands for induction here.
LEMMA Least ==
  ASSUME NEW T \in SUBSET Nat, T # {}
  PROVE  \E n \in T : \A m \in T : n <= m
<1>1. PICK n \in T : \A m \in T : <<m, n>> \notin OpToRel(<, Nat)
  BY WFMin, NatLessThanWellFounded, Zenon
<1>2. ASSUME NEW m \in T PROVE n <= m
  <2>1. CASE m < n
    <3>1. <<m, n>> \in OpToRel(<, Nat)
      BY <2>1, Zenon DEF OpToRel
    <3> QED
      BY <1>1, <3>1, Zenon
  <2> QED
    BY <2>1
<1> QED
  BY <1>2, Zenon

LEMMA Greatest ==
  ASSUME NEW ps \in SUBSET Priorities, ps # {}
  PROVE  Highest(ps) \in ps /\ \A q \in ps : q <= Highest(ps)
<1> DEFINE T == {NumPriorities - q : q \in ps}
<1>0. NumPriorities \in Nat
  BY JobQueueAssumption, Zenon
<1>a. T \in SUBSET Nat
  BY <1>0 DEF Priorities
<1>b. T # {}
  BY Zenon
<1>1. PICK n \in T : \A m \in T : n <= m
  <2> HIDE DEF T
  <2> QED
    BY <1>a, <1>b, Least, Zenon
<1>2. PICK p \in ps : n = NumPriorities - p
  BY Zenon
<1>3. \A q \in ps : q <= p
  BY <1>0, <1>1, <1>2 DEF Priorities
<1> QED
  BY <1>3, Zenon DEF Highest

LEMMA ThreadSets == Workers \subseteq Threads /\ m_jobReaperId \in Threads \ Workers
BY JobQueueAssumption DEF Workers, Threads, m_jobReaperId

-----------------------------------------------------------------------------
(* What SynchronizableMulti does to its lists.                             *)

CondLists == [high : Seq(Threads), midLow : Seq(Threads)]
Syncs == [lists : [Groups -> CondLists], group : Groups, signalled : SUBSET Threads]

Has(seq, t) == \E i \in 1..Len(seq) : seq[i] = t
Holds(list, t) == Has(list.high, t) \/ Has(list.midLow, t)
Listed(s, t) == \E g \in Groups : Holds(s.lists[g], t)

LEMMA WithoutHas ==
  ASSUME NEW seq \in Seq(Threads), NEW t
  PROVE  /\ Without(seq, t) \in Seq(Threads)
         /\ \A u : Has(Without(seq, t), u) => Has(seq, u)
         /\ \A u : Has(seq, u) /\ u # t => Has(Without(seq, t), u)
<1> DEFINE at == {i \in 1..Len(seq) : seq[i] = t}
           first == CHOOSE i \in at : TRUE
           rest == [i \in 1 .. Len(seq) - 1 |-> IF i < first THEN seq[i] ELSE seq[i + 1]]
<1>1. CASE at = {}
  BY <1>1, Zenon DEF Without
<1>2. CASE at # {}
  <2>1. first \in 1..Len(seq) /\ seq[first] = t
    BY <1>2, Zenon
  <2>2. /\ rest \in Seq(Threads) /\ Len(rest) = Len(seq) - 1
        /\ \A i \in 1..Len(rest) : rest[i] = IF i < first THEN seq[i] ELSE seq[i + 1]
    BY <2>1
  <2>3. Without(seq, t) = rest
    BY <1>2, Zenon DEF Without
  <2>4. ASSUME NEW u, Has(seq, u), u # t PROVE Has(rest, u)
    <3>1. PICK i \in 1..Len(seq) : seq[i] = u
      BY <2>4, Zenon DEF Has
    <3> HIDE DEF rest, first
    <3>2. CASE i < first
      BY <2>1, <2>2, <3>1, <3>2 DEF Has
    <3>3. CASE i > first
      <4>1. i - 1 \in 1..Len(rest) /\ rest[i - 1] = u
        BY <2>1, <2>2, <3>1, <3>3
      <4> QED
        BY <4>1, Zenon DEF Has
    <3> QED
      BY <2>1, <2>4, <3>1, <3>2, <3>3
  <2>5. ASSUME NEW u, Has(rest, u) PROVE Has(seq, u)
    <3> HIDE DEF rest, first
    <3>1. PICK i \in 1..Len(rest) : rest[i] = u
      BY <2>5, Zenon DEF Has
    <3> QED
      BY <2>1, <2>2, <3>1 DEF Has
  <2> QED
    BY <2>2, <2>3, <2>4, <2>5, Zenon
<1> QED
  BY <1>1, <1>2, Zenon

LEMMA UnlinkSync ==
  ASSUME NEW s \in Syncs, NEW t
  PROVE  /\ Unlink(s, t) \in Syncs
         /\ Unlink(s, t).signalled = s.signalled
         /\ \A u : Listed(Unlink(s, t), u) => Listed(s, u)
         /\ \A u : Listed(s, u) /\ u # t => Listed(Unlink(s, t), u)
<1>1. \A g \in Groups : s.lists[g].high \in Seq(Threads) /\ s.lists[g].midLow \in Seq(Threads)
  BY Zenon DEF Syncs, CondLists
<1>2. \A g \in Groups : /\ Unlink(s, t).lists[g].high = Without(s.lists[g].high, t)
                        /\ Unlink(s, t).lists[g].midLow = Without(s.lists[g].midLow, t)
  BY Zenon DEF Unlink, Syncs
<1>3. Unlink(s, t) \in Syncs /\ Unlink(s, t).signalled = s.signalled
  BY <1>1, WithoutHas, Zenon DEF Unlink, Syncs, CondLists
<1> QED
  BY <1>1, <1>2, <1>3, WithoutHas DEF Listed, Holds

LEMMA GroupFacts ==
  /\ NumGroups \in Nat \ {0}
  /\ \A x \in Nat : x % NumGroups \in Groups
  /\ \A x \in Groups : x % NumGroups = x /\ (x + NumGroups) % NumGroups = x
  /\ \A g \in Groups, h \in Groups : \E i \in Groups : (g + i) % NumGroups = h
<1>1. NumGroups \in Nat \ {0}
  BY JobQueueAssumption, Zenon
<1>2. \A x \in Nat : x % NumGroups \in Groups
  BY <1>1 DEF Groups
<1>3. \A x \in Groups : x % NumGroups = x /\ (x + NumGroups) % NumGroups = x
  BY <1>1 DEF Groups
<1>4. ASSUME NEW g \in Groups, NEW h \in Groups
      PROVE  \E i \in Groups : (g + i) % NumGroups = h
  <2>1. CASE g <= h
    <3>1. h - g \in Groups /\ g + (h - g) = h
      BY <1>1, <2>1 DEF Groups
    <3> QED
      BY <1>3, <3>1, Zenon
  <2>2. CASE h < g
    <3>1. h - g + NumGroups \in Groups /\ g + (h - g + NumGroups) = h + NumGroups
      BY <1>1, <2>2 DEF Groups
    <3> QED
      BY <1>3, <3>1, Zenon
  <2> QED
    BY <1>1, <2>1, <2>2 DEF Groups
<1> QED
  BY <1>1, <1>2, <1>3, <1>4, Zenon

LEMMA SeqHas ==
  ASSUME NEW seq \in Seq(Threads)
  PROVE  /\ seq # <<>> => /\ Head(seq) \in Threads /\ Tail(seq) \in Seq(Threads)
                          /\ \A u : Has(seq, u) <=> u = Head(seq) \/ Has(Tail(seq), u)
         /\ \A t \in Threads : /\ <<t>> \o seq \in Seq(Threads) /\ seq \o <<t>> \in Seq(Threads)
                               /\ \A u : Has(<<t>> \o seq, u) <=> u = t \/ Has(seq, u)
                               /\ \A u : Has(seq \o <<t>>, u) <=> u = t \/ Has(seq, u)
         /\ ~ \E u : Has(<<>>, u)
<1>1. ASSUME seq # <<>>
      PROVE  /\ Head(seq) \in Threads /\ Tail(seq) \in Seq(Threads)
             /\ \A u : Has(seq, u) <=> u = Head(seq) \/ Has(Tail(seq), u)
  BY <1>1 DEF Has
<1>2. ASSUME NEW t \in Threads
      PROVE  /\ <<t>> \o seq \in Seq(Threads) /\ seq \o <<t>> \in Seq(Threads)
             /\ \A u : Has(<<t>> \o seq, u) <=> u = t \/ Has(seq, u)
             /\ \A u : Has(seq \o <<t>>, u) <=> u = t \/ Has(seq, u)
  <2> DEFINE a == <<t>> \o seq
             b == seq \o <<t>>
  <2>1. /\ a \in Seq(Threads) /\ Len(a) = Len(seq) + 1 /\ Len(seq) \in Nat
        /\ a[1] = t /\ \A i \in 1..Len(seq) : a[i + 1] = seq[i]
        /\ \A i \in 1..Len(a) : i = 1 \/ (i - 1 \in 1..Len(seq) /\ a[i] = seq[i - 1])
    OBVIOUS
  <2>2. /\ b \in Seq(Threads) /\ Len(b) = Len(seq) + 1
        /\ b[Len(b)] = t /\ \A i \in 1..Len(seq) : b[i] = seq[i]
        /\ \A i \in 1..Len(b) : i = Len(b) \/ i \in 1..Len(seq)
    OBVIOUS
  <2> HIDE DEF a, b
  <2>3. ASSUME NEW u PROVE Has(a, u) <=> u = t \/ Has(seq, u)
    <3>2. Has(seq, u) => Has(a, u)
      BY <2>1 DEF Has
    <3>3. Has(a, u) => u = t \/ Has(seq, u)
      BY <2>1 DEF Has
    <3> QED
      BY <2>1, <3>2, <3>3 DEF Has
  <2>4. ASSUME NEW u PROVE Has(b, u) <=> u = t \/ Has(seq, u)
    BY <2>1, <2>2 DEF Has
  <2> QED
    BY <2>3, <2>4 DEF a, b
<1>3. ~ \E u : Has(<<>>, u)
  BY DEF Has
<1> QED
  BY <1>1, <1>2, <1>3, Zenon

LEMMA PopHolds ==
  ASSUME NEW list \in CondLists, ~Empty(list)
  PROVE  /\ Front(list) \in Threads /\ PopFront(list) \in CondLists
         /\ \A u : Holds(list, u) <=> u = Front(list) \/ Holds(PopFront(list), u)
BY SeqHas, Zenon DEF CondLists, Empty, Front, PopFront, Holds

LEMMA EmptyHolds ==
  ASSUME NEW list \in CondLists
  PROVE  Empty(list) <=> \A u : ~Holds(list, u)
BY SeqHas, Zenon DEF CondLists, Empty, Holds

WaitPriorities == {"Highest", "High", "Normal", "Low"}

LEMMA PushHolds ==
  ASSUME NEW list \in CondLists, NEW t \in Threads, NEW pri \in WaitPriorities
  PROVE  /\ Push(list, t, pri) \in CondLists
         /\ \A u : Holds(Push(list, t, pri), u) <=> u = t \/ Holds(list, u)
<1>1. list.high \in Seq(Threads) /\ list.midLow \in Seq(Threads)
  BY Zenon DEF CondLists
<1>2. CASE pri = "Highest"
  BY Zenon, <1>2, SeqHas DEF CondLists, Push, Holds
<1>3. CASE pri = "High"
  BY <1>1, <1>3, SeqHas, Zenon DEF CondLists, Push, Holds
<1>4. CASE pri = "Normal"
  BY Zenon, <1>4, SeqHas DEF CondLists, Push, Holds
<1>5. CASE pri = "Low"
  BY Zenon, <1>5, SeqHas DEF CondLists, Push, Holds
<1> QED
  BY <1>2, <1>3, <1>4, <1>5, Zenon DEF WaitPriorities

LEMMA StartWaitSync ==
  ASSUME NEW s \in Syncs, NEW t \in Threads, NEW pri \in WaitPriorities
  PROVE  /\ StartWait(s, t, pri) \in Syncs
         /\ StartWait(s, t, pri).signalled = s.signalled
         /\ \A u : Listed(StartWait(s, t, pri), u) <=> u = t \/ Listed(s, u)
<1> DEFINE r == Unlink(s, t)
           g == NumaNode(t)
<1>1. r \in Syncs /\ r.signalled = s.signalled
  BY UnlinkSync, Zenon
<1>2. g \in Groups
  <2>1. t \in Nat
    BY JobQueueAssumption DEF Threads
  <2> QED
    BY <2>1, GroupFacts, Zenon DEF NumaNode
<1>3. \A u : u # t => (Listed(r, u) <=> Listed(s, u))
  BY UnlinkSync, Zenon
<1> HIDE DEF r, g
<1>4. r.lists[g] \in CondLists
  BY <1>1, <1>2, Zenon DEF Syncs
<1>5. StartWait(s, t, pri) = [r EXCEPT !.lists[g] = Push(@, t, pri)]
  BY Zenon DEF StartWait, r, g
<1>6. StartWait(s, t, pri) \in Syncs /\ StartWait(s, t, pri).signalled = s.signalled
  BY <1>1, <1>2, <1>4, <1>5, PushHolds DEF Syncs
<1>7. \A h \in Groups : StartWait(s, t, pri).lists[h]
                          = IF h = g THEN Push(r.lists[g], t, pri) ELSE r.lists[h]
  BY <1>1, <1>2, <1>5, Zenon DEF Syncs
<1>8. \A u : Listed(StartWait(s, t, pri), u) <=> u = t \/ Listed(r, u)
  BY <1>2, <1>4, <1>7, PushHolds DEF Listed
<1> QED
  BY <1>3, <1>6, <1>8, Zenon

\* What notifications do to the condition variables: they leave their lists
\* and nobody enters one; a waiting thread leaves only with a signal.
Notified(s, n, waiting) ==
  /\ n \in Syncs
  /\ s.signalled \subseteq n.signalled /\ n.signalled \subseteq s.signalled \cup waiting
  /\ \A u : Listed(n, u) => Listed(s, u)
  /\ \A u \in waiting : Listed(s, u) => Listed(n, u) \/ u \in n.signalled

LEMMA NotifySync ==
  ASSUME NEW s \in Syncs, NEW waiting \in SUBSET Threads
  PROVE  /\ Notified(s, Notify(s, waiting), waiting)
         /\ (\E u : Listed(s, u)) =>
              \E u : Listed(s, u) /\ (u \in waiting => u \in Notify(s, waiting).signalled)
<1> DEFINE at(i) == (s.group + i) % NumGroups
           found == {i \in Groups : ~Empty(s.lists[at(i)])}
           k == CHOOSE i \in found : \A j \in found : i <= j
           g == at(k)
           n == Notify(s, waiting)
<1>1. s.group \in Groups /\ \A h \in Groups : s.lists[h] \in CondLists
  BY Zenon DEF Syncs
<1>2. CASE found = {}
  <2>1. n = s
    BY <1>2, Zenon DEF Notify
  <2>2. ASSUME NEW h \in Groups PROVE Empty(s.lists[h])
    <3>1. PICK i \in Groups : at(i) = h
      BY <1>1, GroupFacts, Zenon
    <3> QED
      BY <1>2, <3>1, Zenon
  <2>3. \A u : ~Listed(s, u)
    BY <1>1, <2>2, EmptyHolds, Zenon DEF Listed
  <2> QED
    BY <2>1, <2>3, Zenon DEF Notified
<1>3. CASE found # {}
  <2>1. found \in SUBSET Nat
    BY GroupFacts DEF Groups
  <2>2. k \in found
    <3> HIDE DEF found
    <3> QED
      BY <1>3, <2>1, Least, Zenon
  <2>3. g \in Groups /\ ~Empty(s.lists[g]) /\ s.lists[g] \in CondLists
    <3>1. g \in Groups
      <4> HIDE DEF k
      <4>2. s.group + k \in Nat
        BY <1>1, <2>2 DEF Groups
      <4> QED
        BY <4>2, GroupFacts, Zenon
    <3> QED
      BY <1>1, <2>2, <3>1, Zenon
  <2>4. n = [Signal(s, Front(s.lists[g]), waiting)
               EXCEPT !.lists[g] = PopFront(@), !.group = (g + 1) % NumGroups]
    BY <1>3, Zenon DEF Notify
  <2> HIDE DEF n, g
  <2>5. (g + 1) % NumGroups \in Groups
    BY <2>3, GroupFacts DEF Groups
  <2>6. /\ n \in Syncs
        /\ n.signalled = s.signalled \cup ({Front(s.lists[g])} \cap waiting)
        /\ \A h \in Groups : n.lists[h] = IF h = g THEN PopFront(s.lists[g]) ELSE s.lists[h]
    BY <2>3, <2>4, <2>5, PopHolds, Zenon DEF Syncs, Signal
  <2> QED
    BY <2>6, <2>3, PopHolds DEF n, Listed, Notified
<1> QED
  BY <1>2, <1>3, Zenon

LEMMA NotifyAllSync ==
  ASSUME NEW s \in Syncs, NEW waiting \in SUBSET Threads
  PROVE  Notified(s, NotifyAll(s, waiting), waiting) /\ \A u : ~Listed(NotifyAll(s, waiting), u)
<1> DEFINE n == NotifyAll(s, waiting)
           listed == {t \in Threads : Listed(s, t)}
<1>1. n = [s EXCEPT !.lists = [g \in Groups |-> [high |-> <<>>, midLow |-> <<>>]],
                    !.signalled = @ \cup (listed \cap waiting)]
  BY Zenon DEF NotifyAll, Listed, Holds, Has
<1> HIDE DEF n
<1>2. n \in Syncs /\ n.signalled = s.signalled \cup (listed \cap waiting)
  <2>1. [g \in Groups |-> [high |-> <<>>, midLow |-> <<>>]] \in [Groups -> CondLists]
    BY DEF CondLists
  <2> HIDE DEF listed
  <2>2. n = [s EXCEPT !.lists = [g \in Groups |-> [high |-> <<>>, midLow |-> <<>>]],
                      !.signalled = @ \cup (listed \cap waiting)]
    BY <1>1, Zenon
  <2> QED
    BY <2>1, <2>2, Zenon DEF Syncs
<1>3. \A u : ~Listed(n, u)
  BY <1>1 DEF Syncs, Listed, Holds, Has
<1>4. Notified(s, n, waiting)
  BY <1>2, <1>3, Zenon DEF Notified
<1> QED
  BY <1>3, <1>4, Zenon DEF n

LEMMA NotifiedTwice ==
  ASSUME NEW s, NEW m, NEW n, NEW waiting, Notified(s, m, waiting), Notified(m, n, waiting)
  PROVE  Notified(s, n, waiting)
BY Zenon DEF Notified

\* A recursive function on 0..n has the values its definition gives.
LEMMA NotifyManyDef ==
  ASSUME NEW s, NEW waiting, NEW n \in Nat
  PROVE  \E f : /\ f = [k \in 0..n |-> IF k = 0 THEN s ELSE Notify(f[k - 1], waiting)]
                /\ NotifyMany(s, waiting, n) = f[n]
<1> DEFINE Rec(f, m) == f = [k \in 0..m |-> IF k = 0 THEN s ELSE Notify(f[k - 1], waiting)]
           None == {m \in Nat : ~ \E f : Rec(f, m)}
<1>1. None = {}
  <2> SUFFICES ASSUME None # {} PROVE FALSE
    BY Zenon
  <2>1. PICK m \in None : \A i \in None : m <= i
    <3>1. None \in SUBSET Nat
      BY Zenon
    <3> HIDE DEF None
    <3> QED
      BY <3>1, Least, Zenon
  <2>2. CASE m = 0
    <3> DEFINE f == [k \in 0..0 |-> s]
    <3>1. Rec(f, 0)
      OBVIOUS
    <3> QED
      BY <2>1, <2>2, <3>1, Zenon
  <2>3. CASE m # 0
    <3>1. m - 1 \in Nat /\ m - 1 \notin None
      <4>1. m \in Nat
        BY Zenon
      <4> HIDE DEF None
      <4> QED
        BY <2>1, <2>3, <4>1
    <3>2. PICK f : Rec(f, m - 1)
      BY <3>1, Zenon
    <3> DEFINE h == [k \in 0..m |-> IF k < m THEN f[k] ELSE Notify(f[m - 1], waiting)]
    <3>3. \A k \in 0..m : h[k] = IF k = 0 THEN s ELSE Notify(h[k - 1], waiting)
      <4> QED
        BY <2>3, <3>1, <3>2
    <3>4. Rec(h, m)
      <4> HIDE DEF h
      <4>1. h = [k \in 0..m |-> h[k]]
        BY Zenon DEF h
      <4> QED
        BY <3>3, <4>1, Zenon
    <3> QED
      BY <2>1, <3>4, Zenon
  <2> QED
    BY <2>2, <2>3, Zenon
<1>2. PICK f : Rec(f, n)
  BY <1>1, Zenon
<1> DEFINE after == CHOOSE g : Rec(g, n)
<1>3. Rec(after, n)
  BY <1>2, Zenon
<1>4. NotifyMany(s, waiting, n) = after[n]
  BY Zenon DEF NotifyMany
<1> QED
  BY <1>3, <1>4, Zenon

LEMMA NotifyManySync ==
  ASSUME NEW s \in Syncs, NEW waiting \in SUBSET Threads, NEW n \in Nat
  PROVE  Notified(s, NotifyMany(s, waiting, n), waiting)
<1>1. PICK f : /\ f = [k \in 0..n |-> IF k = 0 THEN s ELSE Notify(f[k - 1], waiting)]
               /\ NotifyMany(s, waiting, n) = f[n]
  BY NotifyManyDef, Zenon
<1>2. \A k \in 0..n : f[k] = IF k = 0 THEN s ELSE Notify(f[k - 1], waiting)
  BY <1>1, Zenon
<1> DEFINE Bad == {k \in 0..n : ~Notified(s, f[k], waiting)}
<1>3. Bad = {}
  <2> SUFFICES ASSUME Bad # {} PROVE FALSE
    BY Zenon
  <2>1. PICK k \in Bad : \A i \in Bad : k <= i
    <3>1. Bad \in SUBSET Nat
      OBVIOUS
    <3> HIDE DEF Bad
    <3> QED
      BY <3>1, Least, Zenon
  <2>2. CASE k = 0
    <3> QED
      BY <1>2, <2>1, <2>2, Zenon DEF Notified
  <2>3. CASE k # 0
    <3>2. Notified(f[k - 1], Notify(f[k - 1], waiting), waiting)
      BY <2>1, <2>3, NotifySync DEF Notified
    <3> QED
      BY <1>2, <2>1, <2>3, <3>2, NotifiedTwice
  <2> QED
    BY <2>2, <2>3, Zenon
<1>4. n \in 0..n
  OBVIOUS
<1> QED
  BY <1>1, <1>3, <1>4, Zenon

-----------------------------------------------------------------------------
(* The inductive invariant.                                                *)

Places(queues) ==
  {x \in Priorities \X (Nat \ {0}) : x[2] <= Len(queues[x[1]])}

Doing(at) == {t \in Threads : at[t] = "job"}
Threw(how) == {j \in Jobs : how[j] = "threw"}

\* The counts are exact.
CountInv ==
  /\ IsFiniteSet(Places(m_jobQueues)) /\ m_jobCount = Cardinality(Places(m_jobQueues))
  /\ m_workerCount = Cardinality(Doing(pc)) + Cardinality(Threw(outcome))

\* A job is at one place of the queues at most.
PlacesDiffer ==
  \A p, q \in Priorities : \A i \in 1..Len(m_jobQueues[p]), k \in 1..Len(m_jobQueues[q]) :
    m_jobQueues[p][i] = m_jobQueues[q][k] => p = q /\ i = k

\* Queued jobs are in nobody's hands.
QueuedInv ==
  \A p \in Priorities : \A i \in 1..Len(m_jobQueues[p]) :
    /\ outcome[m_jobQueues[p][i]] = "in"
    /\ \A t \in Threads : job[t] # m_jobQueues[p][i]

\* A thread has a job while it does one, and nobody else has that job.
HeldInv ==
  \A t \in Threads :
    /\ pc[t] = "job" <=> job[t] # NULL
    /\ job[t] # NULL => /\ outcome[job[t]] = "in"
                        /\ \A u \in Threads : job[u] = job[t] => u = t

InQueue(j) == \E p \in Priorities : \E i \in 1..Len(m_jobQueues[p]) : m_jobQueues[p][i] = j

\* An unfinished job is queued or held.
SomewhereInv ==
  \A j \in Jobs : outcome[j] = "in" => InQueue(j) \/ \E t \in Threads : job[t] = j

\* A job gets its time before it is queued; no thread is ahead of the clock.
TimeInv ==
  /\ \A j \in Jobs : outcome[j] # "new" => enqueueTime[j] # NULL
  /\ \A t \in Threads : now[t] <= clock

-----------------------------------------------------------------------------
(* Places and counts.                                                      *)

LEMMA OneMore ==
  ASSUME NEW S, NEW x, IsFiniteSet(S), x \notin S
  PROVE  IsFiniteSet(S \cup {x}) /\ Cardinality(S \cup {x}) = Cardinality(S) + 1
BY FS_AddElement, Zenon

LEMMA OneLess ==
  ASSUME NEW S, NEW x, IsFiniteSet(S), x \in S
  PROVE  IsFiniteSet(S \ {x}) /\ Cardinality(S \ {x}) = Cardinality(S) - 1
BY FS_RemoveElement, Zenon

LEMMA NoPlaces ==
  ASSUME IsFiniteSet(Places(m_jobQueues)), m_jobQueues \in [Priorities -> Seq(Jobs)]
  PROVE  Cardinality(Places(m_jobQueues)) = 0 <=> \A p \in Priorities : m_jobQueues[p] = <<>>
<1>1. ASSUME NEW p \in Priorities, m_jobQueues[p] # <<>> PROVE <<p, 1>> \in Places(m_jobQueues)
  BY <1>1 DEF Places
<1>2. ASSUME NEW x \in Places(m_jobQueues) PROVE m_jobQueues[x[1]] # <<>> /\ x[1] \in Priorities
  BY DEF Places
<1>3. Places(m_jobQueues) = {} <=> \A p \in Priorities : m_jobQueues[p] = <<>>
  BY <1>1, <1>2, Zenon
<1> QED
  BY <1>3, FS_EmptySet, Zenon

LEMMA PlacesAppend ==
  ASSUME m_jobQueues \in [Priorities -> Seq(Jobs)], NEW p \in Priorities, NEW j \in Jobs,
         IsFiniteSet(Places(m_jobQueues)),
         m_jobQueues' = [m_jobQueues EXCEPT ![p] = Append(@, j)]
  PROVE  /\ IsFiniteSet(Places(m_jobQueues'))
         /\ Cardinality(Places(m_jobQueues')) = Cardinality(Places(m_jobQueues)) + 1
<1> DEFINE n == Len(m_jobQueues[p]) + 1
<1>1. \A q \in Priorities : /\ Len(m_jobQueues'[q]) = IF q = p THEN n ELSE Len(m_jobQueues[q])
                            /\ Len(m_jobQueues[q]) \in Nat
  OBVIOUS
<1>2. n \in Nat \ {0} /\ n = Len(m_jobQueues[p]) + 1
  OBVIOUS
<1> HIDE DEF n
<1>3. <<p, n>> \notin Places(m_jobQueues)
  BY <1>1, <1>2 DEF Places
<1>4. Places(m_jobQueues') = Places(m_jobQueues) \cup {<<p, n>>}
  BY <1>1, <1>2 DEF Places
<1> QED
  BY <1>3, <1>4, OneMore, Zenon

LEMMA PrefixSeq ==
  ASSUME NEW S, NEW seq \in Seq(S), NEW n \in 0..Len(seq)
  PROVE  /\ SubSeq(seq, 1, n) \in Seq(S) /\ Len(SubSeq(seq, 1, n)) = n
         /\ \A i \in 1..n : SubSeq(seq, 1, n)[i] = seq[i]
OBVIOUS

\* A job leaves a queue from either end: from place At, and those behind it
\* move up.
Rest(seq, last) == IF last THEN SubSeq(seq, 1, Len(seq) - 1) ELSE Tail(seq)
At(seq, last) == IF last THEN Len(seq) ELSE 1
By(last) == IF last THEN 0 ELSE 1

LEMMA TakenSeq ==
  ASSUME NEW seq \in Seq(Jobs), seq # <<>>, NEW last \in BOOLEAN
  PROVE  /\ Len(seq) \in Nat \ {0} /\ At(seq, last) \in 1..Len(seq)
         /\ Rest(seq, last) \in Seq(Jobs) /\ Len(Rest(seq, last)) = Len(seq) - 1
         /\ (IF last THEN seq[Len(seq)] ELSE Head(seq)) = seq[At(seq, last)]
         /\ \A i \in 1..Len(Rest(seq, last)) :
              i + By(last) \in 1..Len(seq) \ {At(seq, last)} /\ Rest(seq, last)[i] = seq[i + By(last)]
         /\ \A i \in 1..Len(seq) \ {At(seq, last)} :
              i - By(last) \in 1..Len(Rest(seq, last)) /\ Rest(seq, last)[i - By(last)] = seq[i]
<1>1. CASE last
  <2> DEFINE rest == SubSeq(seq, 1, Len(seq) - 1)
  <2>1. Len(seq) \in Nat \ {0}
    OBVIOUS
  <2>a. Len(seq) - 1 \in 0..Len(seq)
    BY <2>1
  <2>2. rest \in Seq(Jobs) /\ Len(rest) = Len(seq) - 1 /\ \A i \in 1..Len(rest) : rest[i] = seq[i]
    BY <2>a, PrefixSeq, Zenon
  <2> HIDE DEF rest
  <2> QED
    BY <1>1, <2>1, <2>2 DEF rest, Rest, At, By
<1>2. CASE ~last
  BY <1>2 DEF Rest, At, By
<1> QED
  BY <1>1, <1>2, Zenon

LEMMA PlacesTake ==
  ASSUME m_jobQueues \in [Priorities -> Seq(Jobs)], NEW p \in Priorities, m_jobQueues[p] # <<>>,
         IsFiniteSet(Places(m_jobQueues)),
         NEW rest, Len(rest) = Len(m_jobQueues[p]) - 1,
         m_jobQueues' = [m_jobQueues EXCEPT ![p] = rest]
  PROVE  /\ IsFiniteSet(Places(m_jobQueues'))
         /\ Cardinality(Places(m_jobQueues')) = Cardinality(Places(m_jobQueues)) - 1
<1> DEFINE n == Len(m_jobQueues[p])
<1>1. \A q \in Priorities : Len(m_jobQueues'[q]) = IF q = p THEN n - 1 ELSE Len(m_jobQueues[q])
  BY Zenon
<1>2. n \in Nat \ {0}
  OBVIOUS
<1> HIDE DEF n
<1>3. <<p, n>> \in Places(m_jobQueues)
  BY <1>2 DEF Places, n
<1>4. Places(m_jobQueues') = Places(m_jobQueues) \ {<<p, n>>}
  BY <1>1, <1>2 DEF Places, n
<1>5. /\ IsFiniteSet(Places(m_jobQueues) \ {<<p, n>>})
      /\ Cardinality(Places(m_jobQueues) \ {<<p, n>>}) = Cardinality(Places(m_jobQueues)) - 1
  BY <1>3, OneLess, Zenon
<1> QED
  BY <1>4, <1>5, Zenon

LEMMA Threads_Finite == IsFiniteSet(Threads)
BY FS_Interval, JobQueueAssumption DEF Threads

-----------------------------------------------------------------------------
(* What a step may do to the jobs: one is enqueued, taken or finished, or  *)
(* they stay where they are.                                               *)

EnqueueStep(j) ==
  /\ outcome[j] = "new" /\ enqueueTime[j] # NULL
  /\ outcome' = [outcome EXCEPT ![j] = "in"]
  /\ m_jobQueues' = [m_jobQueues EXCEPT ![Priority[j]] = Append(@, j)]
  /\ m_jobCount' = m_jobCount + 1
  /\ UNCHANGED <<m_workerCount, enqueueTime, pc, job>>

TakeStep(t, p, last, old) ==
  /\ pc[t] # "job" /\ m_jobQueues[p] # <<>>
  /\ old => ~last /\ TooOld(Head(m_jobQueues[p]), clock)
  /\ TakeJob(t, p, last, old)
  /\ UNCHANGED <<outcome, enqueueTime>>

FinishStep(t, how, next) ==
  /\ pc[t] = "job" /\ next # "job"
  /\ outcome' = [outcome EXCEPT ![job[t]] = how]
  /\ job' = [job EXCEPT ![t] = NULL]
  /\ pc' = [pc EXCEPT ![t] = next]
  /\ m_workerCount' = IF how = "threw" THEN m_workerCount ELSE m_workerCount - 1
  /\ UNCHANGED <<m_jobQueues, m_jobCount, enqueueTime>>

OtherStep ==
  /\ UNCHANGED <<m_jobQueues, m_jobCount, m_workerCount, outcome, job>>
  /\ \A t \in Threads : pc'[t] = "job" <=> pc[t] = "job"
  /\ \A j \in Jobs : outcome[j] # "new" => enqueueTime'[j] = enqueueTime[j]

JobsInv == CountInv /\ PlacesDiffer /\ QueuedInv /\ HeldInv /\ SomewhereInv

LEMMA OtherKeeps == ASSUME JobsInv, OtherStep PROVE JobsInv'
<1>1. Doing(pc)' = Doing(pc)
  BY Zenon DEF OtherStep, Doing
<1>2. CountInv'
  BY <1>1, Zenon DEF OtherStep, JobsInv, CountInv
<1> QED
  BY <1>2 DEF OtherStep, JobsInv, PlacesDiffer, QueuedInv, HeldInv, SomewhereInv, InQueue

LEMMA EnqueueKeeps ==
  ASSUME TypeOK, JobsInv, NEW j \in Jobs, EnqueueStep(j)
  PROVE  JobsInv'
<1> DEFINE p == Priority[j]
           n == Len(m_jobQueues[p]) + 1
<1>1. /\ p \in Priorities /\ m_jobQueues \in [Priorities -> Seq(Jobs)]
      /\ outcome \in [Jobs -> {"new", "in", "done", "aborted", "threw"}]
      /\ job \in [Threads -> Jobs \cup {NULL}] /\ NULL \notin Jobs
  BY JobQueueAssumption, Zenon DEF TypeOK
<1>2. /\ \A q \in Priorities : /\ Len(m_jobQueues[q]) \in Nat
                               /\ Len(m_jobQueues'[q]) = IF q = p THEN n ELSE Len(m_jobQueues[q])
                               /\ \A i \in 1..Len(m_jobQueues[q]) :
                                    m_jobQueues'[q][i] = m_jobQueues[q][i] /\ m_jobQueues[q][i] \in Jobs
      /\ m_jobQueues'[p][n] = j
  BY <1>1 DEF EnqueueStep
<1>3. n \in Nat \ {0} /\ n = Len(m_jobQueues[p]) + 1
  BY <1>1, <1>2
<1>4. /\ outcome[j] = "new" /\ outcome'[j] = "in"
      /\ \A k \in Jobs \ {j} : outcome'[k] = outcome[k]
  BY <1>1, Zenon DEF EnqueueStep
<1>5. CountInv'
  <2>1. Threw(outcome)' = Threw(outcome)
    BY <1>4, Zenon DEF Threw
  <2>2. /\ IsFiniteSet(Places(m_jobQueues'))
        /\ Cardinality(Places(m_jobQueues')) = Cardinality(Places(m_jobQueues)) + 1
    BY <1>1, PlacesAppend, Zenon DEF EnqueueStep, JobsInv, CountInv
  <2> QED
    BY <2>1, <2>2, Zenon DEF EnqueueStep, JobsInv, CountInv, Doing
<1> HIDE DEF p, n
<1>6. \A q \in Priorities : \A i \in 1..Len(m_jobQueues'[q]) :
        (q = p /\ i = n) \/ i \in 1..Len(m_jobQueues[q])
  BY <1>2, <1>3
<1>7. \A q \in Priorities : \A i \in 1..Len(m_jobQueues[q]) :
        m_jobQueues[q][i] # j /\ i \in 1..Len(m_jobQueues'[q])
  BY <1>2, <1>3, <1>4 DEF JobsInv, QueuedInv
<1>8. PlacesDiffer'
  BY <1>2, <1>6, <1>7 DEF JobsInv, PlacesDiffer
<1>9. QueuedInv'
  <2>1. \A t \in Threads : job'[t] # j
    BY <1>1, <1>4, Zenon DEF EnqueueStep, JobsInv, HeldInv
  <2> QED
    BY <1>4, <2>1 DEF EnqueueStep, JobsInv, QueuedInv
<1>10. HeldInv'
  BY <1>1, <1>4 DEF EnqueueStep, JobsInv, HeldInv
<1>11. SomewhereInv'
  <2>1. InQueue(j)'
    BY <1>1, <1>2, <1>3 DEF InQueue
  <2>2. ASSUME NEW k \in Jobs, InQueue(k) PROVE InQueue(k)'
    BY <1>2, <1>7, <2>2 DEF InQueue
  <2> QED
    BY <2>1, <2>2 DEF EnqueueStep, JobsInv, SomewhereInv
<1> QED
  BY <1>5, <1>8, <1>9, <1>10, <1>11, Zenon DEF JobsInv

LEMMA TakeKeeps ==
  ASSUME TypeOK, JobsInv, NEW t \in Threads, NEW p \in Priorities,
         NEW last \in BOOLEAN, NEW old \in BOOLEAN, TakeStep(t, p, last, old)
  PROVE  /\ JobsInv' /\ job'[t] \in Jobs /\ m_jobCount' \in Nat /\ m_workerCount' \in Nat
         /\ m_jobQueues' \in [Priorities -> Seq(Jobs)]
<1> DEFINE seq == m_jobQueues[p]
           rest == Rest(seq, last)
           at == At(seq, last)
           by == By(last)
           j == seq[at]
<1>1. /\ m_jobQueues \in [Priorities -> Seq(Jobs)] /\ seq \in Seq(Jobs) /\ seq # <<>>
      /\ job \in [Threads -> Jobs \cup {NULL}] /\ NULL \notin Jobs
      /\ pc[t] # "job" /\ pc \in [Threads -> {"none", "loop", "lock", "wait", "flush", "job", "signal", "ended"}]
  BY JobQueueAssumption, Zenon DEF TypeOK, TakeStep
<1>2. /\ Len(seq) \in Nat \ {0} /\ at \in 1..Len(seq)
      /\ rest \in Seq(Jobs) /\ Len(rest) = Len(seq) - 1
      /\ (IF last THEN seq[Len(seq)] ELSE Head(seq)) = j
      /\ \A i \in 1..Len(rest) : i + by \in 1..Len(seq) \ {at} /\ rest[i] = seq[i + by]
      /\ \A i \in 1..Len(seq) \ {at} : i - by \in 1..Len(rest) /\ rest[i - by] = seq[i]
  BY <1>1, TakenSeq, Zenon
<1>3. /\ m_jobQueues' = [m_jobQueues EXCEPT ![p] = rest] /\ job' = [job EXCEPT ![t] = j]
      /\ m_jobCount' = m_jobCount - 1 /\ m_workerCount' = m_workerCount + 1
      /\ pc' = [pc EXCEPT ![t] = "job"] /\ outcome' = outcome
  BY <1>2, Zenon DEF TakeStep, TakeJob, Rest
<1>4. by \in {0, 1}
  BY Zenon DEF By
<1> HIDE DEF seq, rest, at, by, j
<1>5. j = seq[at] /\ seq = m_jobQueues[p] /\ j \in Jobs
  BY <1>1, <1>2 DEF j, seq
<1>6. CountInv' /\ m_jobCount' \in Nat /\ m_workerCount' \in Nat
  <2>1. /\ IsFiniteSet(Places(m_jobQueues'))
        /\ Cardinality(Places(m_jobQueues')) = Cardinality(Places(m_jobQueues)) - 1
    BY <1>1, <1>2, <1>3, <1>5, PlacesTake, Zenon DEF JobsInv, CountInv
  <2>2. Cardinality(Places(m_jobQueues')) \in Nat
    BY <2>1, FS_CardinalityType, Zenon
  <2>3. Doing(pc') = Doing(pc) \cup {t} /\ t \notin Doing(pc)
    BY <1>1, <1>3, Zenon DEF Doing
  <2>4. IsFiniteSet(Doing(pc))
    BY Threads_Finite, FS_Subset, Zenon DEF Doing
  <2>5. Cardinality(Doing(pc')) = Cardinality(Doing(pc)) + 1
    BY <2>3, <2>4, OneMore, Zenon
  <2>6. Threw(outcome') = Threw(outcome) /\ IsFiniteSet(Threw(outcome))
    BY <1>3, FS_Subset, JobQueueAssumption, Zenon DEF Threw
  <2>7. Cardinality(Doing(pc)) \in Nat /\ Cardinality(Threw(outcome)) \in Nat
    BY <2>4, <2>6, FS_CardinalityType, Zenon
  <2> QED
    BY <1>3, <2>1, <2>2, <2>5, <2>7 DEF JobsInv, CountInv
<1>7. /\ \A q \in Priorities \ {p} : m_jobQueues'[q] = m_jobQueues[q]
      /\ m_jobQueues'[p] = rest
  BY <1>1, <1>3, Zenon
<1>8. /\ \A i \in 1..Len(m_jobQueues[p]) : m_jobQueues[p][i] = j => i = at
      /\ \A q \in Priorities \ {p} : \A i \in 1..Len(m_jobQueues[q]) : m_jobQueues[q][i] # j
  BY <1>2, <1>5 DEF JobsInv, PlacesDiffer
<1>9. PlacesDiffer'
  <2> SUFFICES ASSUME NEW q1 \in Priorities, NEW q2 \in Priorities,
                      NEW i \in 1..Len(m_jobQueues'[q1]), NEW k \in 1..Len(m_jobQueues'[q2]),
                      m_jobQueues'[q1][i] = m_jobQueues'[q2][k]
               PROVE  q1 = q2 /\ i = k
    BY Zenon DEF PlacesDiffer
  <2> DEFINE i0 == IF q1 = p THEN i + by ELSE i
             k0 == IF q2 = p THEN k + by ELSE k
  <2>1. i0 \in 1..Len(m_jobQueues[q1]) /\ m_jobQueues'[q1][i] = m_jobQueues[q1][i0]
    BY <1>2, <1>5, <1>7, Zenon
  <2>2. k0 \in 1..Len(m_jobQueues[q2]) /\ m_jobQueues'[q2][k] = m_jobQueues[q2][k0]
    BY <1>2, <1>5, <1>7, Zenon
  <2>3. q1 = q2 /\ i0 = k0
    <3> HIDE DEF i0, k0
    <3>1. m_jobQueues[q1][i0] = m_jobQueues[q2][k0]
      BY <2>1, <2>2, Zenon
    <3>2. PlacesDiffer
      BY Zenon DEF JobsInv
    <3> QED
      BY <2>1, <2>2, <3>1, <3>2 DEF PlacesDiffer
  <2> QED
    BY <1>4, <2>3
<1>10. ASSUME NEW q \in Priorities, NEW i \in 1..Len(m_jobQueues'[q])
       PROVE  m_jobQueues'[q][i] # j /\ \E k \in 1..Len(m_jobQueues[q]) : m_jobQueues'[q][i] = m_jobQueues[q][k]
  <2>1. CASE q = p
    <3>2. i + by \in 1..Len(seq) \ {at} /\ rest[i] = seq[i + by]
      BY <1>2, <1>7, <2>1, Zenon
    <3> QED
      BY <1>5, <1>8, <2>1, <1>7, <3>2, Zenon
  <2>2. CASE q # p
    BY <1>7, <1>8, <2>2, Zenon
  <2> QED
    BY <2>1, <2>2, Zenon
<1>11. QueuedInv'
  <2> SUFFICES ASSUME NEW q \in Priorities, NEW i \in 1..Len(m_jobQueues'[q])
               PROVE  /\ outcome'[m_jobQueues'[q][i]] = "in"
                      /\ \A u \in Threads : job'[u] # m_jobQueues'[q][i]
    BY Zenon DEF QueuedInv
  <2>1. PICK k \in 1..Len(m_jobQueues[q]) : m_jobQueues'[q][i] = m_jobQueues[q][k]
    BY <1>10, Zenon
  <2>2. outcome[m_jobQueues[q][k]] = "in" /\ \A u \in Threads : job[u] # m_jobQueues[q][k]
    BY Zenon DEF JobsInv, QueuedInv
  <2> QED
    BY <1>1, <1>3, <1>10, <2>1, <2>2, Zenon
<1>12. outcome[j] = "in" /\ \A u \in Threads : job[u] # j
  BY <1>2, <1>5 DEF JobsInv, QueuedInv
<1>13. HeldInv'
  BY <1>1, <1>3, <1>12 DEF JobsInv, HeldInv
<1>14. SomewhereInv'
  <2> SUFFICES ASSUME NEW k \in Jobs, outcome[k] = "in"
               PROVE  InQueue(k)' \/ \E u \in Threads : job'[u] = k
    BY <1>3, Zenon DEF SomewhereInv
  <2>1. CASE k = j
    BY <1>1, <1>3, <2>1, Zenon
  <2>2. ASSUME NEW u \in Threads, job[u] = k PROVE job'[u] = k
    BY <1>1, <1>3, <2>2 DEF JobsInv, HeldInv
  <2>3. ASSUME InQueue(k), k # j PROVE InQueue(k)'
    <3>0. PICK q \in Priorities : \E i \in 1..Len(m_jobQueues[q]) : m_jobQueues[q][i] = k
      BY <2>3, Zenon DEF InQueue
    <3>1. PICK i \in 1..Len(m_jobQueues[q]) : m_jobQueues[q][i] = k
      BY <3>0, Zenon
    <3>2. CASE q # p
      BY <1>7, <3>1, <3>2, Zenon DEF InQueue
    <3>3. CASE q = p
      <4>1. i \in 1..Len(seq) \ {at}
        BY <1>5, <2>3, <3>1, <3>3, Zenon
      <4> QED
        BY <1>2, <1>5, <1>7, <3>1, <3>3, <4>1, Zenon DEF InQueue
    <3> QED
      BY <3>2, <3>3, Zenon
  <2> QED
    BY <2>1, <2>2, <2>3, Zenon DEF JobsInv, SomewhereInv
<1>15. JobsInv'
  BY <1>6, <1>9, <1>11, <1>13, <1>14, Zenon DEF JobsInv
<1>16. m_jobQueues' \in [Priorities -> Seq(Jobs)] /\ job'[t] = j
  BY <1>1, <1>2, <1>3, Zenon
<1> QED
  BY <1>5, <1>6, <1>15, <1>16, Zenon

LEMMA FinishKeeps ==
  ASSUME TypeOK, JobsInv, NEW t \in Threads, NEW next,
         NEW how \in {"done", "aborted", "threw"}, FinishStep(t, how, next)
  PROVE  JobsInv' /\ m_workerCount' \in Nat /\ job[t] \in Jobs
<1> DEFINE j == job[t]
<1>1. /\ job \in [Threads -> Jobs \cup {NULL}] /\ NULL \notin Jobs
      /\ outcome \in [Jobs -> {"new", "in", "done", "aborted", "threw"}]
      /\ pc \in [Threads -> {"none", "loop", "lock", "wait", "flush", "job", "signal", "ended"}]
  BY JobQueueAssumption, Zenon DEF TypeOK
<1>2. j \in Jobs /\ pc[t] = "job" /\ outcome[j] = "in" /\ \A u \in Threads : job[u] = j => u = t
  BY <1>1 DEF FinishStep, JobsInv, HeldInv
<1>3. /\ outcome' = [outcome EXCEPT ![j] = how] /\ job' = [job EXCEPT ![t] = NULL]
      /\ pc' = [pc EXCEPT ![t] = next] /\ next # "job"
      /\ UNCHANGED <<m_jobQueues, m_jobCount>>
      /\ m_workerCount' = IF how = "threw" THEN m_workerCount ELSE m_workerCount - 1
  BY Zenon DEF FinishStep
<1> HIDE DEF j
<1>4. CountInv' /\ m_workerCount' \in Nat
  <2>1. Doing(pc') = Doing(pc) \ {t} /\ t \in Doing(pc)
    BY <1>1, <1>2, <1>3, Zenon DEF Doing
  <2>2. IsFiniteSet(Doing(pc)) /\ IsFiniteSet(Threw(outcome))
    BY Threads_Finite, FS_Subset, JobQueueAssumption, Zenon DEF Doing, Threw
  <2>3. IsFiniteSet(Doing(pc')) /\ Cardinality(Doing(pc')) = Cardinality(Doing(pc)) - 1
    BY <2>1, <2>2, OneLess
  <2>4. /\ Cardinality(Doing(pc)) \in Nat /\ Cardinality(Threw(outcome)) \in Nat
        /\ Cardinality(Doing(pc')) \in Nat
    BY <2>2, <2>3, FS_CardinalityType, Zenon
  <2>5. Cardinality(Threw(outcome')) = Cardinality(Threw(outcome)) + (IF how = "threw" THEN 1 ELSE 0)
    <3>1. CASE how = "threw"
      <4>1. Threw(outcome') = Threw(outcome) \cup {j} /\ j \notin Threw(outcome)
        BY <1>1, <1>2, <1>3, <3>1, Zenon DEF Threw
      <4> QED
        BY <2>2, <3>1, <4>1, OneMore, Zenon
    <3>2. CASE how # "threw"
      <4>1. Threw(outcome') = Threw(outcome)
        BY <1>2, <1>3, <3>2 DEF Threw
      <4> QED
        BY <2>4, <3>2, <4>1
    <3> QED
      BY <3>1, <3>2, Zenon
  <2> QED
    BY <1>3, <2>3, <2>4, <2>5 DEF JobsInv, CountInv
<1>5. QueuedInv'
  BY <1>3, <1>1 DEF QueuedInv, TypeOK, JobsInv, j
<1>6. HeldInv'
  BY <1>1, <1>2, <1>3 DEF JobsInv, HeldInv
<1>7. PlacesDiffer'
  BY <1>3 DEF JobsInv, PlacesDiffer
<1>8. SomewhereInv'
  BY <1>1, <1>2, <1>3 DEF SomewhereInv, InQueue, JobsInv, j
<1> QED
  BY <1>2, <1>4, <1>5, <1>6, <1>7, <1>8, Zenon DEF JobsInv, j

=============================================================================
